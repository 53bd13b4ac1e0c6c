---------------------------- MODULE LinkMonitor ----------------------------
(***************************************************************************)
(* The monitor thread on the production acquisition adapter, NetlinkSource *)
(* of src/netlink.rs, and the kernel it talks to.  The blocking calls that *)
(* module Monitor leaves open are the adapter's steps here:                *)
(*                                                                         *)
(*   subscribe()  opens the notification socket                            *)
(*   inventory()  opens a dump socket, requests a dump and polls both      *)
(*                sockets until the dump is complete, fails or times out   *)
(*   wait()       polls the notification socket                            *)
(*                                                                         *)
(* The kernel's link table is a version number.  A dump arrives as two     *)
(* datagrams, the second of which ends with NLMSG_DONE; each is filled     *)
(* from the table as it is when the kernel writes it, so an inventory is a *)
(* pair of versions, and the kernel flags a dump whose halves differ with  *)
(* NLM_F_DUMP_INTR.                                                        *)
(***************************************************************************)
EXTENDS Monitor, Sequences

CONSTANTS
  MaxVersion,        \* bound on the changes of the kernel's link table
  QueueLimit,        \* datagrams the notification socket can hold
  INVENTORY_TIMEOUT  \* deadline of one inventory (3 s)

ASSUME AdapterAssumption ==
  /\ MaxVersion \in Nat
  /\ QueueLimit \in Nat \ {0}
  /\ INVENTORY_TIMEOUT \in Nat \ {0}

VARIABLES
  kernel,       \* version of the kernel's link table
  notification, \* NetlinkSource.notification: None, or a socket
  dump          \* locals of a running inventory(): None before send()

netVars == <<kernel, notification, dump>>

allVars == <<vars, netVars>>

Version == 0 .. MaxVersion

\* The inventories a dump can produce.  Every version makes a topology, and
\* so do two halves of different versions that happen to fit.
Inventories == Version \X Version

ASSUME InventoriesAssumption == Links = Inventories

\* A datagram of the notification socket announces a link change or nothing
\* (NLMSG_NOOP), or is one that receive_notification refuses: truncated, not
\* from the kernel, empty, malformed, NLMSG_OVERRUN or unexpected.
Notice == {"link", "noop", "refused"}

\* error: the socket lost datagrams (ENOBUFS), which the next receive reports.
Socket == [queue : Seq(Notice), error : BOOLEAN]

\* A running inventory: its deadline, the notifications seen so far, the
\* halves received, the half that waits in the dump socket, and where the
\* loop is: None at its top, {} in poll(), else the sockets found readable.
Dump ==
  [deadline : Time, events : EventBatch,
   got : Seq(Version), waiting : Version, interrupted : BOOLEAN,
   ready : Option(SUBSET {"notification", "dump"})]

ASSUME NoSocketAssumption == None \notin Socket /\ None \notin Dump

-----------------------------------------------------------------------------

NetInit == Init /\ kernel = 0 /\ notification = None /\ dump = None

\* The kernel queues a datagram, or drops it and marks the socket.
Delivered(socket, notice) ==
  IF socket = None THEN None
  ELSE IF Len(socket.queue) < QueueLimit
       THEN [socket EXCEPT !.queue = Append(@, notice)]
       ELSE [socket EXCEPT !.error = TRUE]

\* A link is added, changed or removed.
KernelChange ==
  /\ kernel < MaxVersion
  /\ kernel' = kernel + 1
  /\ notification' = Delivered(notification, "link")
  /\ UNCHANGED <<vars, dump>>

\* The notification socket becomes readable without a link change.
KernelNotice ==
  /\ notification # None
  /\ Len(notification.queue) < QueueLimit
  /\ \E notice \in {"noop", "refused"} :
       notification' = Delivered(notification, notice)
  /\ UNCHANGED <<vars, kernel, dump>>

NetTick == Tick /\ UNCHANGED netVars

\* The steps of run() that do not call into the adapter.
NetControl == (Top \/ StartInventory \/ StartWait) /\ UNCHANGED netVars

-----------------------------------------------------------------------------
(***************************************************************************)
(* subscribe(): the old socket is replaced only if the new one opens.      *)
(***************************************************************************)
NetSubscribe ==
  \/ /\ SubscribeOk
     /\ notification' = [queue |-> << >>, error |-> FALSE]
     /\ UNCHANGED <<kernel, dump>>
  \/ SubscribeErr /\ UNCHANGED netVars

(***************************************************************************)
(* receive_notification(): Err, Some(now) or None, and the socket after it. *)
(***************************************************************************)
ReceiveFails == notification.error \/ Head(notification.queue) = "refused"

ReceivedChange == Head(notification.queue) = "link"

Received == [notification EXCEPT !.queue = Tail(@)]

NoticeReady == notification.error \/ notification.queue # << >>

(***************************************************************************)
(* inventory().                                                            *)
(***************************************************************************)
\* The dump socket cannot be opened, or the request cannot be sent.
DumpRequestErr ==
  /\ pc = "inventory" /\ dump = None
  /\ InventoryOrdinary(NoEvents)
  /\ UNCHANGED netVars

\* The kernel fills the first half of the dump when it gets the request.
DumpRequest ==
  /\ pc = "inventory" /\ dump = None
  /\ dump' = [deadline |-> clock + INVENTORY_TIMEOUT, events |-> NoEvents,
              got |-> << >>, waiting |-> kernel, interrupted |-> FALSE,
              ready |-> None]
  /\ UNCHANGED <<vars, kernel, notification>>

\* inventory() is at the given place of its loop.
InLoop(ready) == pc = "inventory" /\ dump # None /\ dump.ready = ready

\* Top of the loop: too late, or poll.
DumpTimeout ==
  /\ InLoop(None)
  /\ clock >= dump.deadline
  /\ InventoryOrdinary(dump.events)
  /\ dump' = None
  /\ UNCHANGED <<kernel, notification>>

DumpPoll ==
  /\ InLoop(None)
  /\ clock < dump.deadline /\ notification # None
  /\ dump' = [dump EXCEPT !.ready = {}]
  /\ UNCHANGED <<vars, kernel, notification>>

\* poll() returns what is readable; a half of the dump may still be on its
\* way, and nothing is readable only when poll() timed out.
PollReturns ==
  /\ InLoop({})
  /\ \E ready \in SUBSET {"notification", "dump"} :
       /\ "notification" \in ready <=> NoticeReady
       /\ ready = {} => clock >= dump.deadline
       /\ dump' = [dump EXCEPT !.ready = IF ready = {} THEN None ELSE ready]
  /\ UNCHANGED <<vars, kernel, notification>>

PollLostReportedOrdinary ==
  /\ InLoop({})
  /\ InventoryOrdinary(dump.events)
  /\ notification' = None
  /\ dump' = None
  /\ UNCHANGED kernel

\* There is no notification socket (SubscriptionIsReal: never so), poll()
\* fails, or it reports that the notification socket hung up.
PollLost ==
  /\ InLoop({}) \/ (InLoop(None) /\ clock < dump.deadline /\ notification = None)
  /\ InventoryLost(dump.events)
  /\ notification' = None
  /\ dump' = None
  /\ UNCHANGED kernel

\* poll() reports that the dump socket hung up.
PollDumpFailed ==
  /\ InLoop({})
  /\ InventoryOrdinary(dump.events)
  /\ dump' = None
  /\ UNCHANGED <<kernel, notification>>

(***************************************************************************)
(* The rest of the iteration: the notification first, then the dump.       *)
(***************************************************************************)
Readable(socket) ==
  /\ pc = "inventory" /\ dump # None
  /\ dump.ready # None /\ socket \in dump.ready

ObservedForgetsFirst(events) == [events EXCEPT !.last = clock]

\* get_or_insert the first, overwrite the last.
Observed(events) == [first |-> Earliest(events.first, clock), last |-> clock]

DumpNoticeForgets ==
  /\ Readable("notification")
  /\ ~ReceiveFails
  /\ dump' = [dump EXCEPT !.ready  = IF "dump" \in @ THEN {"dump"} ELSE None]
  /\ notification' = Received
  /\ UNCHANGED <<vars, kernel>>

DumpNotice ==
  /\ Readable("notification")
  /\ ~ReceiveFails
  /\ dump' = [dump EXCEPT
                !.events = IF ReceivedChange THEN Observed(@) ELSE @,
                !.ready  = IF "dump" \in @ THEN {"dump"} ELSE None]
  /\ notification' = Received
  /\ UNCHANGED <<vars, kernel>>

DumpNoticeErr ==
  /\ Readable("notification")
  /\ ReceiveFails
  /\ InventoryLost(dump.events)
  /\ notification' = None
  /\ dump' = None
  /\ UNCHANGED kernel

\* The dump datagram is refused: interrupted, truncated, over the byte
\* limit, not from the kernel, another sequence, an error, malformed.
DumpRefused ==
  /\ InLoop({"dump"})
  /\ InventoryOrdinary(dump.events)
  /\ dump' = None
  /\ UNCHANGED <<kernel, notification>>

\* consume_dump returns Ok(false); taking the datagram makes the kernel fill
\* the next one, flagged if the table changed since the first.
DumpHalf ==
  /\ InLoop({"dump"})
  /\ dump.got = << >>
  /\ dump' = [dump EXCEPT !.got = <<dump.waiting>>, !.waiting = kernel,
                          !.interrupted = kernel # dump.waiting,
                          !.ready = None]
  /\ UNCHANGED <<vars, kernel, notification>>

DumpDoneInterrupted ==
  /\ InLoop({"dump"})
  /\ dump.got # << >>
  /\ InventoryComplete(state.continuity, <<dump.got[1], dump.waiting>>,
                       dump.events)
  /\ dump' = None
  /\ UNCHANGED <<kernel, notification>>

\* consume_dump returns Ok(true): NLMSG_DONE, and no interruption flagged.
DumpDone ==
  /\ InLoop({"dump"})
  /\ dump.got # << >>
  /\ ~dump.interrupted
  /\ InventoryComplete(state.continuity, <<dump.got[1], dump.waiting>>,
                       dump.events)
  /\ dump' = None
  /\ UNCHANGED <<kernel, notification>>

-----------------------------------------------------------------------------
(***************************************************************************)
(* wait().                                                                 *)
(***************************************************************************)
WaitTimeoutSpins ==
  /\ pc = "wait"
  /\ notification # None => clock >= wake /\ ~NoticeReady
  /\ pc' = "top"
  /\ UNCHANGED <<clock, state, wake, published, hist, netVars>>

\* Sleep without a socket, poll() with one: the timeout.
WaitTimeout ==
  /\ clock >= wake
  /\ notification # None => ~NoticeReady
  /\ WaitDeadline
  /\ UNCHANGED netVars

WaitNotice ==
  /\ pc = "wait" /\ notification # None
  /\ NoticeReady /\ ~ReceiveFails
  /\ IF ReceivedChange THEN WaitLinkChanged ELSE WaitDeadline
  /\ notification' = Received
  /\ UNCHANGED <<kernel, dump>>

\* poll() fails or reports the socket hung up, or the receive fails.
WaitLost ==
  /\ pc = "wait" /\ notification # None
  /\ WaitErr
  /\ notification' = None
  /\ UNCHANGED <<kernel, dump>>

-----------------------------------------------------------------------------

Inventory ==
  \/ DumpRequestErr \/ DumpRequest
  \/ DumpTimeout \/ DumpPoll
  \/ PollReturns \/ PollLost \/ PollDumpFailed
  \/ DumpNotice \/ DumpNoticeErr
  \/ DumpRefused \/ DumpHalf \/ DumpDone

Wait == WaitTimeout \/ WaitNotice \/ WaitLost

NetNext ==
  \/ KernelChange \/ KernelNotice \/ NetTick
  \/ NetControl \/ NetSubscribe \/ Inventory \/ Wait

NetSpec == NetInit /\ [][NetNext]_allVars

-----------------------------------------------------------------------------

\* The adapter's state keeps its type, and the notifications of a running
\* inventory have both a first and a last time or neither, in order: the
\* only batch record_batch can refuse is one that spans EVENT_RESET.
NetTypeOK ==
  /\ kernel \in Version
  /\ notification \in Option(Socket)
  /\ dump \in Option(Dump)
  /\ dump # None /\ dump.events # NoEvents =>
       /\ dump.events.first # None
       /\ dump.events.first \in hist.lastStart .. dump.events.last

\* The monitor believes it is subscribed exactly when the adapter holds a
\* notification socket.  Were the two to disagree, wait() would sleep through
\* link changes, or a socket would fill up with nobody reading it.
SubscriptionIsReal == state.subscribed <=> notification # None

\* A published table shows the kernel's links as they were at one instant,
\* though the dump that carries them is read in several steps.
NoTornTable == published # None => published.links[1] = published.links[2]

\* A table that no longer shows the kernel's links never looks current: the
\* change is queued in the notification socket, or the socket has noted that
\* it dropped something, or the running inventory has been told, or the
\* monitor knows of a change that no published inventory covers.
NoSilentStaleness ==
  (published # None /\ published.links # <<kernel, kernel>>) =>
    \/ NoticeReady
    \/ dump # None /\ dump.events # NoEvents
    \/ hist.dirtySince # None

\* Every behaviour of the monitor on this adapter is one of module Monitor,
\* so what is shown there for any adapter holds for this one.
ImplementsMonitor == Spec

=============================================================================
