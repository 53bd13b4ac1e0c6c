------------------------- MODULE LinkMonitorProofs -------------------------
(***************************************************************************)
(* Proofs about the monitor thread on the netlink adapter, for every       *)
(* number of link changes and every size of the notification socket.  The  *)
(* adapter's steps are steps of module Monitor, whose invariant the proofs *)
(* use and extend.                                                         *)
(***************************************************************************)
EXTENDS LinkMonitor, MonitorProofs

-----------------------------------------------------------------------------
(***************************************************************************)
(* The inductive invariant.                                                *)
(***************************************************************************)

\* A link change is on its way to the monitor: it is queued in the socket, or
\* the socket has noted that it dropped something.
Pending ==
  /\ notification # None
  /\ \/ notification.error
     \/ \E i \in DOMAIN notification.queue : notification.queue[i] = "link"

\* The types of the adapter's variables.
NetFields ==
  /\ kernel \in Version
  /\ notification \in Option(Socket)
  /\ dump \in Option(Dump)

\* What a running inventory has seen: notifications since its request; both
\* halves alike unless the kernel flags the dump; and, if the half that the
\* kernel filled last is out of date, a notification of that.  What poll()
\* found in the notification socket is still there.
Running ==
  dump # None =>
    /\ pc = "inventory"
    /\ dump.events \in Batches
    /\ dump.ready # None /\ "notification" \in dump.ready => NoticeReady
    /\ dump.got # << >> /\ ~dump.interrupted => dump.got[1] = dump.waiting
    /\ dump.waiting # kernel => Pending \/ dump.events # NoEvents

\* A table that is out of date is known, or about to be known, to be.  That
\* the socket is readable is not enough: what it holds could be noise.
Covered ==
  published # None /\ published.links # <<kernel, kernel>> =>
    \/ Pending
    \/ dump # None /\ dump.events # NoEvents
    \/ hist.dirtySince # None

\* What the adapter adds to the invariant of the monitor thread.
AdapterInv ==
  /\ NetFields
  /\ SubscriptionIsReal
  /\ Running
  /\ NoTornTable
  /\ Covered

\* The inductive invariant of the composition.
NetInv == IInv /\ AdapterInv

-----------------------------------------------------------------------------
(***************************************************************************)
(* The notification socket.                                                *)
(***************************************************************************)

\* What the kernel does to a socket: nothing that was pending is forgotten,
\* and a link change is pending afterwards, whether it fits or not.
LEMMA DeliveredFacts ==
  ASSUME notification \in Socket, NEW notice \in Notice,
         notification' = Delivered(notification, notice)
  PROVE  /\ notification' \in Socket
         /\ NoticeReady'
         /\ Pending \/ notice = "link" => Pending'
<1>0. notification # None
  BY NoSocketAssumption
<1>1. notification.queue \in Seq(Notice) /\ notification.error \in BOOLEAN
  BY DEF Socket
<1>2. CASE Len(notification.queue) < QueueLimit
  <2> DEFINE q == Append(notification.queue, notice)
  <2>1. notification' = [notification EXCEPT !.queue = q]
    BY <1>0, <1>2 DEF Delivered
  <2>2. /\ q \in Seq(Notice) /\ q # << >>
        /\ \A i \in DOMAIN notification.queue : i \in DOMAIN q /\ q[i] = notification.queue[i]
        /\ Len(q) \in DOMAIN q /\ q[Len(q)] = notice
    BY <1>1
  <2> HIDE DEF q
  <2>3. notification' \in Socket /\ notification'.queue = q
        /\ notification'.error = notification.error
    BY <2>1, <2>2, <1>1 DEF Socket
  <2>4. notification' # None
    BY <2>3, NoSocketAssumption
  <2>5. QED
    BY <2>2, <2>3, <2>4 DEF Pending, NoticeReady
<1>3. CASE ~(Len(notification.queue) < QueueLimit)
  <2>1. notification' = [notification EXCEPT !.error = TRUE]
    BY <1>0, <1>3 DEF Delivered
  <2>2. notification' \in Socket /\ notification'.error = TRUE
    BY <2>1, <1>1 DEF Socket
  <2>3. notification' # None
    BY <2>2, NoSocketAssumption
  <2>4. QED
    BY <2>2, <2>3 DEF Pending, NoticeReady
<1>4. QED
  BY <1>2, <1>3

\* What receive_notification does to it when it returns Ok: a link change is
\* returned or stays pending.
LEMMA ReceivedFacts ==
  ASSUME notification \in Socket, NoticeReady, ~ReceiveFails,
         notification' = Received
  PROVE  /\ notification' \in Socket
         /\ Pending /\ ~ReceivedChange => Pending'
<1>1. notification.queue \in Seq(Notice) /\ notification.queue # << >>
      /\ notification.error = FALSE
  BY DEF Socket, NoticeReady, ReceiveFails
<1> DEFINE q == notification.queue
<1>2. Tail(q) \in Seq(Notice)
      /\ \A i \in DOMAIN q : i # 1 => i - 1 \in DOMAIN Tail(q) /\ Tail(q)[i - 1] = q[i]
  BY <1>1
<1>3. Head(q) = q[1]
  BY <1>1
<1>4. notification' = [notification EXCEPT !.queue = Tail(q)]
  BY DEF Received
<1>5. notification' \in Socket /\ notification'.queue = Tail(q)
  BY <1>1, <1>2, <1>4 DEF Socket
<1>6. notification' # None
  BY <1>5, NoSocketAssumption
<1>7. ASSUME Pending, ~ReceivedChange PROVE Pending'
  <2>1. PICK i \in DOMAIN q : q[i] = "link"
    BY <1>1, <1>7 DEF Pending
  <2>2. i # 1
    BY <2>1, <1>3, <1>7 DEF ReceivedChange
  <2>3. QED
    BY <2>1, <2>2, <1>2, <1>5, <1>6 DEF Pending
<1>8. QED
  BY <1>5, <1>7

-----------------------------------------------------------------------------
(***************************************************************************)
(* What the returns of inventory() and wait() change, as far as the        *)
(* adapter's invariant looks at it.                                        *)
(***************************************************************************)

\* A batch of notifications has a first one, unless it is empty.
LEMMA BatchHasFirst ==
  ASSUME TypeOK, Control, pc = "inventory", NEW b \in Batches, b # NoEvents
  PROVE  b.first # None /\ b.first \in Nat /\ b.last \in Nat
         /\ b.first \in hist.lastStart .. b.last /\ b.last <= clock
<1>1. clock \in Nat /\ hist.lastStart \in Nat
  BY Fields DEF Control
<1>2. b \in [first : hist.lastStart .. clock, last : hist.lastStart .. clock]
      /\ b.first <= b.last
  BY DEF Batches
<1>3. b.first \in hist.lastStart .. clock /\ b.last \in hist.lastStart .. clock
  BY <1>2
<1>4. QED
  BY <1>1, <1>2, <1>3, NoneAssumption

\* What no published inventory covers stays uncovered.
LEMMA EarliestFacts ==
  ASSUME NEW known, NEW at
  PROVE  Earliest(known, at) = None => known = None /\ at = None
BY DEF Earliest

\* An ordinary failure of inventory() keeps the subscription and the table, and
\* what it was notified of is known to the monitor.
LEMMA OrdinaryEffect ==
  ASSUME IInv, NEW b \in Batches, InventoryOrdinary(b)
  PROVE  /\ pc' # "inventory"
         /\ state'.subscribed = state.subscribed
         /\ published' = published
         /\ hist.dirtySince # None \/ b # NoEvents => hist'.dirtySince # None
<1>0. TypeOK /\ Control /\ pc = "inventory"
  BY DEF IInv, InventoryOrdinary
<1>1. state \in State /\ hist \in History /\ clock \in Time /\ b \in EventBatch
  BY <1>0, Fields, BatchFacts DEF Time
<1>2. RecordBatch(state, b) \in State
      /\ RecordBatch(state, b).subscribed = state.subscribed
  BY <1>1, RecordBatchFacts
<1>3. state'.subscribed = state.subscribed
  BY <1>1, <1>2, FailFacts DEF InventoryOrdinary
<1>4. hist'.dirtySince = Earliest(hist.dirtySince, b.first)
  BY <1>1 DEF InventoryOrdinary, Failed, History
<1>5. b # NoEvents => b.first # None
  BY <1>0, BatchHasFirst
<1>6. QED
  BY <1>3, <1>4, <1>5, EarliestFacts DEF InventoryOrdinary

\* A lost continuity ends both.
LEMMA LostEffect ==
  ASSUME IInv, NEW b \in Batches, InventoryLost(b)
  PROVE  pc' # "inventory" /\ state'.subscribed = FALSE /\ published' = None
<1>0. TypeOK /\ Control /\ pc = "inventory"
  BY DEF IInv, InventoryLost
<1>1. state \in State /\ clock \in Time /\ b \in EventBatch
  BY <1>0, Fields, BatchFacts DEF Time
<1>2. RecordBatch(state, b) \in State
  BY <1>1, RecordBatchFacts
<1>3. state'.subscribed = FALSE
  BY <1>1, <1>2, LoseContinuityFacts DEF InventoryLost
<1>4. QED
  BY <1>3 DEF InventoryLost

\* A complete inventory() publishes its links or leaves the table as it was; what
\* it was notified of stays known to the monitor either way.
LEMMA CompleteEffect ==
  ASSUME IInv, NEW b \in Batches, NEW links,
         InventoryComplete(state.continuity, links, b)
  PROVE  /\ pc' # "inventory"
         /\ state'.subscribed = state.subscribed
         /\ \/ /\ published' = [continuity |-> state.continuity, links |-> links]
               /\ b # NoEvents => hist'.dirtySince # None
            \/ /\ published' = published
               /\ hist.dirtySince # None \/ b # NoEvents => hist'.dirtySince # None
<1>0. TypeOK /\ Control /\ pc = "inventory"
  BY DEF IInv, InventoryComplete
<1>1. state \in State /\ hist \in History /\ clock \in Time /\ b \in EventBatch
  BY <1>0, Fields, BatchFacts DEF Time
<1>2. RecordBatch(state, b) \in State
      /\ RecordBatch(state, b).subscribed = state.subscribed
  BY <1>1, RecordBatchFacts
<1>5. b # NoEvents => b.first # None
  BY <1>0, BatchHasFirst
<1> DEFINE ok == InventoryAccepted(state, state.continuity, b, links \in ValidLinks)
           next == AcceptInventory(state, state.continuity, b, links \in ValidLinks, clock)
<1>6. CASE ok
  <2>1. next = [RecordBatch(state, b) EXCEPT !.retry_not_before = None,
                                             !.failure_delay = INITIAL_DELAY,
                                             !.last_success = clock]
    BY <1>6 DEF AcceptInventory
  <2> HIDE DEF next
  <2>2. next.subscribed = state.subscribed
    BY <2>1, <1>1, AcceptedFacts
  <2>3. /\ state' = next
        /\ published' = [continuity |-> state.continuity, links |-> links]
        /\ hist' = [hist EXCEPT !.dirtySince = b.first, !.failures = 0,
                                !.failedAt = None, !.bursts = BurstsAfter(b)]
    BY <1>6 DEF InventoryComplete, next
  <2>4. hist'.dirtySince = b.first
    BY <2>3, <1>1 DEF History
  <2>5. QED
    BY <2>2, <2>3, <2>4, <1>5 DEF InventoryComplete
<1>7. CASE ~ok
  <2>1. next = RecordBatch(state, b)
    BY <1>7 DEF AcceptInventory
  <2> HIDE DEF next
  <2>2. /\ state' = Fail(next, clock)
        /\ published' = published
        /\ hist' = Failed([hist EXCEPT !.dirtySince = Earliest(@, b.first),
                                       !.bursts = BurstsAfter(b)])
    BY <1>7 DEF InventoryComplete, next
  <2>3. state'.subscribed = state.subscribed
    BY <2>1, <2>2, <1>1, <1>2, FailFacts
  <2>4. hist'.dirtySince = Earliest(hist.dirtySince, b.first)
    BY <2>2, <1>1 DEF Failed, History
  <2>5. QED
    BY <2>2, <2>3, <2>4, <1>5, EarliestFacts DEF InventoryComplete
<1>8. QED
  BY <1>6, <1>7

\* A notification changes neither, and the monitor knows of it.
LEMMA LinkChangedEffect ==
  ASSUME IInv, WaitLinkChanged
  PROVE  state'.subscribed = state.subscribed /\ published' = published
         /\ pc' # "inventory" /\ hist'.dirtySince # None
<1>1. state \in State /\ hist \in History /\ clock \in Time
  BY Fields DEF IInv, Time
<1>2. state'.subscribed = state.subscribed
  BY <1>1, RecordEventFacts DEF WaitLinkChanged
<1>3. hist'.dirtySince = Earliest(hist.dirtySince, clock)
  BY <1>1 DEF WaitLinkChanged, History
<1>4. QED
  BY <1>1, <1>2, <1>3, EarliestFacts, NoneAssumption DEF WaitLinkChanged, Time

-----------------------------------------------------------------------------
(***************************************************************************)
(* Every step of the adapter is a step of module Monitor.                  *)
(***************************************************************************)

\* The calls of inventory() and wait() return what module Monitor allows.
LEMMA NetSimulation == NetInv /\ [NetNext]_allVars => [Next]_vars
<1> SUFFICES ASSUME NetInv, [NetNext]_allVars PROVE [Next]_vars
  OBVIOUS
<1>1. TypeOK /\ dump \in Option(Dump)
      /\ (dump # None => pc = "inventory" /\ dump.events \in Batches)
  BY DEF NetInv, AdapterInv, IInv, NetFields, Running
<1>2. NoEvents \in Batches
  BY DEF Batches
<1>3. ASSUME NEW b \in Batches, InventoryOrdinary(b) \/ InventoryLost(b)
      PROVE  Next
  BY <1>3 DEF InventoryOrdinary, InventoryLost, Next, Thread, InventoryReturns
<1>4. CASE KernelChange \/ KernelNotice
  BY <1>4 DEF KernelChange, KernelNotice
<1>5. CASE NetTick
  BY <1>5 DEF NetTick, Next
<1>6. CASE NetControl
  BY <1>6 DEF NetControl, Next, Thread
<1>7. CASE NetSubscribe
  BY <1>7 DEF NetSubscribe, Next, Thread
<1>8. CASE DumpRequestErr
  BY <1>2, <1>3, <1>8 DEF DumpRequestErr
<1>9. CASE DumpRequest \/ DumpPoll \/ PollReturns \/ DumpNotice \/ DumpHalf
  BY <1>9 DEF DumpRequest, DumpPoll, PollReturns, DumpNotice, DumpHalf
<1>10. CASE DumpTimeout \/ PollLost \/ PollDumpFailed \/ DumpNoticeErr \/ DumpRefused
  <2>1. dump # None
    BY <1>10 DEF DumpTimeout, PollLost, PollDumpFailed, DumpNoticeErr, DumpRefused,
                 InLoop, Readable
  <2>2. dump.events \in Batches
    BY <2>1, <1>1
  <2>3. InventoryOrdinary(dump.events) \/ InventoryLost(dump.events)
    BY <1>10 DEF DumpTimeout, PollLost, PollDumpFailed, DumpNoticeErr, DumpRefused
  <2>4. QED
    BY <2>2, <2>3, <1>3
<1>11. CASE DumpDone
  <2>1. dump \in Dump /\ dump.events \in Batches /\ pc = "inventory" /\ dump.got # << >>
    BY <1>1, <1>11 DEF DumpDone, InLoop, Option
  <2>2. dump.waiting \in Version /\ dump.got \in Seq(Version)
    BY <2>1 DEF Dump
  <2>3. dump.got[1] \in Version
    BY <2>1, <2>2
  <2>4. <<dump.got[1], dump.waiting>> \in Links
    BY <2>2, <2>3, InventoriesAssumption DEF Inventories
  <2>5. state.continuity \in EchoedGenerations
    BY DEF EchoedGenerations
  <2>6. InventoryComplete(state.continuity, <<dump.got[1], dump.waiting>>, dump.events)
    BY <1>11 DEF DumpDone
  <2>7. InventoryReturns
    BY <2>1, <2>4, <2>5, <2>6 DEF InventoryReturns
  <2>8. QED
    BY <2>7 DEF Next, Thread
<1>12. CASE Wait
  BY <1>12 DEF Wait, WaitTimeout, WaitNotice, WaitLost, Next, Thread, WaitReturns
<1>13. CASE UNCHANGED allVars
  BY <1>13 DEF allVars
<1>14. QED
  BY <1>4, <1>5, <1>6, <1>7, <1>8, <1>9, <1>10, <1>11, <1>12, <1>13 DEF NetNext, Inventory

-----------------------------------------------------------------------------
(***************************************************************************)
(* The adapter's invariant, one lemma per action.                          *)
(***************************************************************************)

\* What the invariant says of a state in which inventory() runs or not.
LEMMA SocketFacts ==
  ASSUME NetInv
  PROVE  /\ notification # None => notification \in Socket
         /\ dump # None => dump \in Dump /\ notification \in Socket /\ state.subscribed
         /\ published # None => notification \in Socket /\ state.subscribed
<1>1. pc = "inventory" => state.subscribed
  BY DEF NetInv, IInv, Control
<1>2. published # None => state.subscribed
  BY DEF NetInv, IInv, TableTracksContinuity
<1>3. state.subscribed <=> notification # None
  BY DEF NetInv, AdapterInv, SubscriptionIsReal
<1>4. dump # None => pc = "inventory"
  BY DEF NetInv, AdapterInv, Running
<1>5. notification \in Socket \cup {None} /\ dump \in Dump \cup {None}
  BY DEF NetInv, AdapterInv, NetFields, Option
<1>6. QED
  BY <1>1, <1>2, <1>3, <1>4, <1>5

\* The initial state.
LEMMA InitNet == NetInit => NetInv
<1> SUFFICES ASSUME NetInit PROVE NetInv
  OBVIOUS
<1>1. IInv
  BY InitInv DEF NetInit
<1>2. NetFields
  BY AdapterAssumption DEF NetInit, NetFields, Version, Option
<1>3. SubscriptionIsReal
  BY DEF NetInit, Init, NewState, SubscriptionIsReal
<1>4. Running /\ NoTornTable /\ Covered
  BY DEF NetInit, Init, Running, NoTornTable, Covered
<1>5. QED
  BY <1>1, <1>2, <1>3, <1>4 DEF NetInv, AdapterInv

\* A link changes; its notification is still to come.
LEMMA KernelChangeNet == NetInv /\ KernelChange => AdapterInv'
<1> SUFFICES ASSUME NetInv, KernelChange PROVE AdapterInv'
  OBVIOUS
<1>1. UNCHANGED <<clock, pc, state, wake, published, hist, dump>>
  BY DEF KernelChange, vars
<1>2. kernel' \in Version
  BY AdapterAssumption DEF KernelChange, NetInv, AdapterInv, NetFields, Version
<1>3. notification = None => notification' = None
  BY DEF KernelChange, Delivered
<1>4. notification # None => notification' \in Socket /\ notification' # None
                             /\ NoticeReady' /\ Pending'
  BY SocketFacts, DeliveredFacts, NoSocketAssumption DEF KernelChange, Notice
<1>5. NetFields'
  BY <1>1, <1>2, <1>3, <1>4 DEF NetInv, AdapterInv, NetFields, Option
<1>6. SubscriptionIsReal'
  BY <1>1, <1>3, <1>4 DEF NetInv, AdapterInv, SubscriptionIsReal
<1>7. Batches' = Batches
  BY <1>1 DEF Batches
<1>8. Running'
  <2>1. dump # None => NoticeReady' /\ Pending'
    BY <1>4, SocketFacts, NoSocketAssumption
  <2>2. QED
    BY <1>1, <1>7, <2>1 DEF NetInv, AdapterInv, Running
<1>9. NoTornTable'
  BY <1>1 DEF NetInv, AdapterInv, NoTornTable
<1>10. Covered'
  BY <1>1, <1>4, SocketFacts, NoSocketAssumption DEF Covered
<1>11. QED
  BY <1>5, <1>6, <1>8, <1>9, <1>10 DEF AdapterInv

\* The kernel queues the notification, or drops it and marks the socket.
LEMMA KernelNoticeNet == NetInv /\ KernelNotice => AdapterInv'
<1> SUFFICES ASSUME NetInv, KernelNotice PROVE AdapterInv'
  OBVIOUS
<1>1. UNCHANGED <<clock, pc, state, wake, published, hist, kernel, dump>>
  BY DEF KernelNotice, vars
<1>2. notification \in Socket /\ notification # None
  BY SocketFacts DEF KernelNotice
<1>3. PICK notice \in {"noop", "refused"} : notification' = Delivered(notification, notice)
  BY DEF KernelNotice
<1>4. notification' \in Socket /\ NoticeReady' /\ (Pending => Pending')
  BY <1>2, <1>3, DeliveredFacts DEF Notice
<1>5. NetFields'
  BY <1>1, <1>4 DEF NetInv, AdapterInv, NetFields, Option
<1>6. SubscriptionIsReal'
  BY <1>1, <1>2, <1>4, NoSocketAssumption DEF NetInv, AdapterInv, SubscriptionIsReal
<1>7. Batches' = Batches
  BY <1>1 DEF Batches
<1>8. Running'
  BY <1>1, <1>4, <1>7 DEF NetInv, AdapterInv, Running
<1>9. NoTornTable'
  BY <1>1 DEF NetInv, AdapterInv, NoTornTable
<1>10. Covered'
  BY <1>1, <1>4 DEF NetInv, AdapterInv, Covered
<1>11. QED
  BY <1>5, <1>6, <1>8, <1>9, <1>10 DEF AdapterInv

\* Time passes: notifications between a request and now stay so.
LEMMA NetTickNet == NetInv /\ NetTick => AdapterInv'
<1> SUFFICES ASSUME NetInv, NetTick PROVE AdapterInv'
  OBVIOUS
<1>1. UNCHANGED <<pc, state, wake, published, hist, kernel, notification, dump>>
      /\ clock' = clock + 1
  BY DEF NetTick, Tick, netVars
<1>2. dump # None => dump.events \in Batches'
  <2> SUFFICES ASSUME dump # None PROVE dump.events \in Batches'
    OBVIOUS
  <2>1. pc = "inventory" /\ dump.events \in Batches
    BY DEF NetInv, AdapterInv, Running
  <2>2. clock \in Nat /\ hist.lastStart \in Nat
    BY <2>1, Fields DEF NetInv, IInv, Control
  <2>3. hist.lastStart .. clock \subseteq hist.lastStart .. clock'
    BY <1>1, <2>2
  <2>4. QED
    BY <1>1, <2>1, <2>3 DEF Batches
<1>3. NoticeReady' = NoticeReady /\ Pending' = Pending
  BY <1>1 DEF NoticeReady, Pending
<1>4. NetFields' /\ SubscriptionIsReal' /\ NoTornTable'
  BY <1>1 DEF NetInv, AdapterInv, NetFields, SubscriptionIsReal, NoTornTable
<1>5. Running'
  BY <1>1, <1>2, <1>3 DEF NetInv, AdapterInv, Running
<1>6. Covered'
  BY <1>1, <1>3 DEF NetInv, AdapterInv, Covered
<1>7. QED
  BY <1>4, <1>5, <1>6 DEF AdapterInv

\* A step outside inventory() that leaves the adapter, the table, the
\* subscription and the uncovered changes alone.
LEMMA OutsideNet ==
  ASSUME NetInv, pc # "inventory", UNCHANGED <<published, kernel, notification, dump>>,
         state'.subscribed = state.subscribed,
         hist.dirtySince # None => hist'.dirtySince # None
  PROVE  AdapterInv'
<1>1. dump = None
  BY DEF NetInv, AdapterInv, Running
<1>2. Pending' = Pending
  BY DEF Pending
<1>3. NetFields' /\ SubscriptionIsReal' /\ NoTornTable'
  BY DEF NetInv, AdapterInv, NetFields, SubscriptionIsReal, NoTornTable
<1>4. Running'
  BY <1>1 DEF Running
<1>5. Covered'
  BY <1>1, <1>2 DEF NetInv, AdapterInv, Covered
<1>6. QED
  BY <1>3, <1>4, <1>5 DEF AdapterInv

\* The steps of the loop that do not call into the adapter.
LEMMA NetControlNet == NetInv /\ NetControl => AdapterInv'
<1> SUFFICES ASSUME NetInv, NetControl PROVE AdapterInv'
  OBVIOUS
<1>1. UNCHANGED <<published, kernel, notification, dump>> /\ pc # "inventory"
  BY DEF NetControl, Top, StartInventory, StartWait, netVars
<1>2. state \in State /\ hist \in History
  BY Fields DEF NetInv, IInv
<1>3. state'.subscribed = state.subscribed
  BY <1>2, StartAcquisitionFacts DEF NetControl, Top, StartInventory, StartWait
<1>4. hist'.dirtySince = hist.dirtySince
  BY <1>2 DEF NetControl, Top, StartInventory, StartWait, History
<1>5. QED
  BY <1>1, <1>3, <1>4, OutsideNet

\* A new socket is empty, and no table is published that it could vouch for.
LEMMA NetSubscribeNet == NetInv /\ NetSubscribe => AdapterInv'
<1> SUFFICES ASSUME NetInv, NetSubscribe PROVE AdapterInv'
  OBVIOUS
<1>0. state \in State /\ hist \in History /\ clock \in Time
  BY Fields DEF NetInv, IInv, Time
<1>1. CASE SubscribeErr /\ UNCHANGED netVars
  <2>1. UNCHANGED <<published, kernel, notification, dump>> /\ pc # "inventory"
    BY <1>1 DEF SubscribeErr, netVars
  <2>2. state'.subscribed = state.subscribed
    BY <1>0, <1>1, FailFacts DEF SubscribeErr
  <2>3. hist'.dirtySince = hist.dirtySince
    BY <1>0, <1>1 DEF SubscribeErr, Failed, History
  <2>4. QED
    BY <2>1, <2>2, <2>3, OutsideNet
<1>2. CASE /\ SubscribeOk
           /\ notification' = [queue |-> << >>, error |-> FALSE]
           /\ UNCHANGED <<kernel, dump>>
  <2>1. pc = "subscribe" /\ published' = published
    BY <1>2 DEF SubscribeOk
  <2>2. ~state.subscribed /\ dump = None
    BY <2>1 DEF NetInv, IInv, Control, AdapterInv, Running
  <2>3. published = None
    BY <2>2 DEF NetInv, IInv, TableTracksContinuity
  <2>4. notification' \in Socket /\ notification' # None
    <3>1. << >> \in Seq(Notice)
      OBVIOUS
    <3>2. [queue |-> << >>, error |-> FALSE] \in Socket
      BY <3>1 DEF Socket
    <3>3. QED
      BY <1>2, <3>2, NoSocketAssumption
  <2>5. state'.subscribed = TRUE
    BY <1>0, <1>2 DEF SubscribeOk, State
  <2>6. NetFields' /\ SubscriptionIsReal'
    BY <1>2, <2>4, <2>5 DEF NetInv, AdapterInv, NetFields, SubscriptionIsReal, Option
  <2>7. Running' /\ NoTornTable' /\ Covered'
    BY <1>2, <2>1, <2>2, <2>3 DEF Running, NoTornTable, Covered
  <2>8. QED
    BY <2>6, <2>7 DEF AdapterInv
<1>3. QED
  BY <1>1, <1>2 DEF NetSubscribe

\* inventory() moves on in its loop: it may have received a notification,
\* which it counts if it announces a change, or a half of the dump.
LEMMA LoopNet ==
  ASSUME NetInv, UNCHANGED vars, kernel' = kernel,
         notification' = notification \/
           (notification' \in Socket /\ (Pending => Pending' \/ dump'.events # NoEvents)),
         dump' \in Dump, pc = "inventory",
         dump'.events \in Batches,
         dump # None /\ dump.events # NoEvents => dump'.events # NoEvents,
         dump'.ready # None /\ "notification" \in dump'.ready => NoticeReady',
         dump'.got # << >> /\ ~dump'.interrupted => dump'.got[1] = dump'.waiting,
         \/ dump'.waiting = kernel
         \/ dump # None /\ dump'.waiting = dump.waiting
  PROVE  AdapterInv'
<1>1. UNCHANGED <<clock, pc, state, wake, published, hist>>
  BY DEF vars
<1>2. notification \in Socket /\ notification # None
  BY SocketFacts DEF NetInv, IInv, Control, AdapterInv, SubscriptionIsReal
<1>3. notification' \in Socket /\ notification' # None
  BY <1>2, NoSocketAssumption
<1>4. Pending => Pending' \/ dump'.events # NoEvents
  BY DEF Pending
<1>5. NetFields'
  BY <1>3 DEF NetInv, AdapterInv, NetFields, Option
<1>6. SubscriptionIsReal'
  BY <1>1, <1>2, <1>3 DEF NetInv, AdapterInv, SubscriptionIsReal
<1>7. Batches' = Batches
  BY <1>1 DEF Batches
<1>8. dump'.waiting # kernel' => Pending' \/ dump'.events # NoEvents
  BY <1>4 DEF NetInv, AdapterInv, Running
<1>9. Running'
  BY <1>1, <1>7, <1>8 DEF Running
<1>10. NoTornTable'
  BY <1>1 DEF NetInv, AdapterInv, NoTornTable
<1>11. Covered'
  BY <1>1, <1>4, NoSocketAssumption DEF NetInv, AdapterInv, Covered
<1>12. QED
  BY <1>5, <1>6, <1>9, <1>10, <1>11 DEF AdapterInv

\* The fields of a running inventory, and what the invariant says of them.
LEMMA DumpFacts ==
  ASSUME NetInv, dump # None
  PROVE  /\ dump \in Dump
         /\ dump.deadline \in Time /\ dump.events \in EventBatch
         /\ dump.got \in Seq(Version) /\ dump.waiting \in Version
         /\ dump.interrupted \in BOOLEAN
         /\ dump.ready \in Option(SUBSET {"notification", "dump"})
         /\ pc = "inventory"
         /\ dump.events \in Batches
         /\ dump.ready # None /\ "notification" \in dump.ready => NoticeReady
         /\ dump.got # << >> /\ ~dump.interrupted => dump.got[1] = dump.waiting
         /\ clock \in Nat /\ hist.lastStart \in Nat /\ hist.lastStart <= clock
<1>1. dump \in Dump /\ pc = "inventory"
  BY SocketFacts DEF NetInv, AdapterInv, Running
<1>2. clock \in Nat /\ hist.lastStart \in Nat /\ hist.lastStart <= clock
  BY <1>1, Fields DEF NetInv, IInv, Control, Spacing
<1>3. QED
  BY <1>1, <1>2 DEF Dump, NetInv, AdapterInv, Running

\* inventory() asks for a dump.
LEMMA DumpRequestNet == NetInv /\ DumpRequest => AdapterInv'
<1> SUFFICES ASSUME NetInv, DumpRequest PROVE AdapterInv'
  OBVIOUS
<1>1. clock \in Nat /\ kernel \in Version
  BY Fields DEF NetInv, IInv, AdapterInv, NetFields
<1>2. clock + INVENTORY_TIMEOUT \in Time
  BY <1>1, AdapterAssumption DEF Time
<1>3. NoEvents \in EventBatch /\ NoEvents \in Batches /\ << >> \in Seq(Version)
  BY DEF NoEvents, EventBatch, Option, Batches
<1>4. dump' \in Dump
  BY <1>1, <1>2, <1>3 DEF DumpRequest, Dump, Option
<1>5. /\ dump'.events = NoEvents /\ dump'.got = << >> /\ dump'.waiting = kernel
      /\ dump'.ready = None
  BY DEF DumpRequest
<1>6. QED
  BY <1>3, <1>4, <1>5, LoopNet DEF DumpRequest

\* inventory() waits for one of its two sockets.
LEMMA DumpPollNet == NetInv /\ DumpPoll => AdapterInv'
<1> SUFFICES ASSUME NetInv, DumpPoll PROVE AdapterInv'
  OBVIOUS
<1>1. dump # None /\ dump' = [dump EXCEPT !.ready = {}]
  BY DEF DumpPoll, InLoop
<1>2. dump' \in Dump
  BY <1>1, DumpFacts DEF Dump, Option
<1>3. /\ dump'.events = dump.events /\ dump'.got = dump.got
      /\ dump'.waiting = dump.waiting /\ dump'.interrupted = dump.interrupted
      /\ dump'.ready = {}
  BY <1>1, DumpFacts DEF Dump
<1>4. QED
  BY <1>1, <1>2, <1>3, DumpFacts, LoopNet DEF DumpPoll

\* poll(2) reports the sockets that are readable.
LEMMA PollReturnsNet == NetInv /\ PollReturns => AdapterInv'
<1> SUFFICES ASSUME NetInv, PollReturns PROVE AdapterInv'
  OBVIOUS
<1>1. PICK ready \in SUBSET {"notification", "dump"} :
        /\ "notification" \in ready <=> NoticeReady
        /\ dump' = [dump EXCEPT !.ready = IF ready = {} THEN None ELSE ready]
  BY DEF PollReturns
<1>2. dump # None
  BY DEF PollReturns, InLoop
<1> DEFINE found == IF ready = {} THEN None ELSE ready
<1>3. found \in Option(SUBSET {"notification", "dump"})
  BY DEF Option
<1>4. found # None /\ "notification" \in found => NoticeReady
  BY <1>1
<1>5. dump' = [dump EXCEPT !.ready = found]
  BY <1>1
<1> HIDE DEF found
<1>6. dump' \in Dump
  BY <1>2, <1>3, <1>5, DumpFacts DEF Dump
<1>7. /\ dump'.events = dump.events /\ dump'.got = dump.got
      /\ dump'.waiting = dump.waiting /\ dump'.interrupted = dump.interrupted
      /\ dump'.ready = found
  BY <1>2, <1>5, DumpFacts DEF Dump
<1>8. UNCHANGED <<vars, kernel, notification>> /\ NoticeReady' = NoticeReady
  BY DEF PollReturns, NoticeReady
<1>9. QED
  BY <1>2, <1>4, <1>6, <1>7, <1>8, DumpFacts, LoopNet

\* A notification between the request and now joins the batch.
LEMMA ObservedFacts ==
  ASSUME NetInv, dump # None
  PROVE  /\ Observed(dump.events) \in Batches /\ Observed(dump.events) # NoEvents
         /\ Observed(dump.events) \in EventBatch
<1>1. TypeOK /\ Control
  BY DEF NetInv, IInv
<1> DEFINE e == dump.events
<1>2. /\ e \in Batches /\ e \in EventBatch /\ pc = "inventory"
      /\ clock \in Nat /\ hist.lastStart \in Nat /\ hist.lastStart <= clock
  BY DumpFacts
<1>3. Earliest(e.first, clock) \in hist.lastStart .. clock
  <2>1. CASE e = NoEvents
    BY <2>1, <1>2 DEF Earliest, NoEvents
  <2>2. CASE e # NoEvents
    BY <2>2, <1>1, <1>2, BatchHasFirst DEF Earliest
  <2>3. QED
    BY <2>1, <2>2
<1>4. /\ Observed(e).first = Earliest(e.first, clock) /\ Observed(e).last = clock
      /\ Observed(e) = [first |-> Earliest(e.first, clock), last |-> clock]
  BY DEF Observed
<1>5. Observed(e) # NoEvents
  BY <1>2, <1>4, NoneAssumption DEF NoEvents
<1>6. Observed(e) \in [first : hist.lastStart .. clock, last : hist.lastStart .. clock]
      /\ Observed(e).first <= Observed(e).last
  BY <1>2, <1>3, <1>4
<1>7. Observed(e) \in Batches
  BY <1>6 DEF Batches
<1>8. QED
  BY <1>1, <1>2, <1>5, <1>7, BatchFacts

\* inventory() takes a notification before the dump it was reported with.
LEMMA DumpNoticeNet == NetInv /\ DumpNotice => AdapterInv'
<1> SUFFICES ASSUME NetInv, DumpNotice PROVE AdapterInv'
  OBVIOUS
<1> DEFINE events == IF ReceivedChange THEN Observed(dump.events) ELSE dump.events
           ready == IF "dump" \in dump.ready THEN {"dump"} ELSE None
<1>1. dump # None /\ dump.ready # None /\ "notification" \in dump.ready
  BY DEF DumpNotice, Readable
<1>2. dump' = [dump EXCEPT !.events = events, !.ready = ready]
  BY DEF DumpNotice
<1>3. events \in Batches /\ events \in EventBatch
      /\ (ReceivedChange \/ dump.events # NoEvents => events # NoEvents)
  BY <1>1, ObservedFacts, DumpFacts
<1>4. ready \in Option(SUBSET {"notification", "dump"})
      /\ (ready # None => ready = {"dump"})
  BY DEF Option
<1> HIDE DEF events, ready
<1>5. dump' \in Dump
  BY <1>1, <1>2, <1>3, <1>4, DumpFacts DEF Dump
<1>6. /\ dump'.events = events /\ dump'.got = dump.got
      /\ dump'.waiting = dump.waiting /\ dump'.interrupted = dump.interrupted
      /\ dump'.ready = ready
  BY <1>1, <1>2, DumpFacts DEF Dump
<1>7. notification \in Socket /\ NoticeReady
  BY <1>1, SocketFacts, DumpFacts
<1>8. notification' \in Socket /\ (Pending => Pending' \/ events # NoEvents)
  BY <1>3, <1>7, ReceivedFacts DEF DumpNotice
<1>9. UNCHANGED <<vars, kernel>>
  BY DEF DumpNotice
<1>10. QED
  BY <1>1, <1>3, <1>4, <1>5, <1>6, <1>8, <1>9, DumpFacts, LoopNet

\* inventory() reads the first half of the dump, and the kernel fills the second.
LEMMA DumpHalfNet == NetInv /\ DumpHalf => AdapterInv'
<1> SUFFICES ASSUME NetInv, DumpHalf PROVE AdapterInv'
  OBVIOUS
<1>1. dump # None
  BY DEF DumpHalf, InLoop
<1>2. kernel \in Version /\ (kernel # dump.waiting) \in BOOLEAN
  BY DEF NetInv, AdapterInv, NetFields
<1>3. dump' = [dump EXCEPT !.got = <<dump.waiting>>, !.waiting = kernel,
                           !.interrupted = kernel # dump.waiting, !.ready = None]
  BY DEF DumpHalf
<1>4. <<dump.waiting>> \in Seq(Version)
  BY <1>1, DumpFacts
<1>5. dump' \in Dump
  BY <1>1, <1>2, <1>3, <1>4, DumpFacts DEF Dump, Option
<1>6. /\ dump'.events = dump.events /\ dump'.got = <<dump.waiting>>
      /\ dump'.waiting = kernel /\ dump'.interrupted = (kernel # dump.waiting)
      /\ dump'.ready = None
  BY <1>1, <1>3, DumpFacts DEF Dump
<1>7. dump'.got # << >> /\ ~dump'.interrupted => dump'.got[1] = dump'.waiting
  <2>1. ~dump'.interrupted => kernel = dump.waiting
    BY <1>6, Zenon
  <2>2. dump'.got[1] = dump.waiting
    BY <1>6
  <2>3. QED
    BY <1>6, <2>1, <2>2
<1>8. UNCHANGED <<vars, kernel, notification>>
  BY DEF DumpHalf
<1>9. QED
  BY <1>1, <1>5, <1>6, <1>7, <1>8, DumpFacts, LoopNet

\* inventory() returns without a table, or with one that shows the kernel's
\* links as the last half of the dump did.
LEMMA ReturnNet ==
  ASSUME NetInv, dump' = None, UNCHANGED <<kernel, notification>>, pc' # "inventory",
         state'.subscribed = state.subscribed,
         NEW events, events = IF dump = None THEN NoEvents ELSE dump.events,
         \/ /\ published' = published
            /\ hist.dirtySince # None \/ events # NoEvents => hist'.dirtySince # None
         \/ /\ dump # None
            /\ published'.links = <<dump.waiting, dump.waiting>>
            /\ events # NoEvents => hist'.dirtySince # None
  PROVE  AdapterInv'
<1>1. Pending' = Pending
  BY DEF Pending
<1>2. NetFields' /\ SubscriptionIsReal'
  BY DEF NetInv, AdapterInv, NetFields, SubscriptionIsReal, Option
<1>3. Running'
  BY DEF Running
<1>4. NoTornTable'
  <2>1. CASE published' = published
    BY <2>1 DEF NetInv, AdapterInv, NoTornTable
  <2>2. CASE published'.links = <<dump.waiting, dump.waiting>>
    BY <2>2 DEF NoTornTable
  <2>3. QED
    BY <2>1, <2>2
<1>5. Covered'
  <2>1. CASE published' = published
              /\ (hist.dirtySince # None \/ events # NoEvents => hist'.dirtySince # None)
    BY <1>1, <2>1 DEF NetInv, AdapterInv, Covered
  <2>2. CASE /\ dump # None
             /\ published'.links = <<dump.waiting, dump.waiting>>
             /\ events # NoEvents => hist'.dirtySince # None
    <3>1. dump.waiting # kernel => Pending \/ dump.events # NoEvents
      BY <2>2 DEF NetInv, AdapterInv, Running
    <3>2. QED
      BY <1>1, <2>2, <3>1 DEF Covered
  <2>3. QED
    BY <2>1, <2>2
<1>6. QED
  BY <1>2, <1>3, <1>4, <1>5 DEF AdapterInv

\* The notification socket is dropped, and the table with it.
LEMMA LossNet ==
  ASSUME NetInv, UNCHANGED kernel, notification' = None, dump' = None,
         state'.subscribed = FALSE, published' = None
  PROVE  AdapterInv'
<1>1. NetFields' /\ SubscriptionIsReal'
  BY DEF NetInv, AdapterInv, NetFields, SubscriptionIsReal, Option
<1>2. Running' /\ NoTornTable' /\ Covered'
  BY DEF Running, NoTornTable, Covered
<1>3. QED
  BY <1>1, <1>2 DEF AdapterInv

\* The failures of inventory() that keep the notification socket.
LEMMA OrdinaryNet ==
  NetInv /\ (DumpRequestErr \/ DumpTimeout \/ PollDumpFailed \/ DumpRefused) => AdapterInv'
<1> SUFFICES ASSUME NetInv, DumpRequestErr \/ DumpTimeout \/ PollDumpFailed \/ DumpRefused
             PROVE  AdapterInv'
  OBVIOUS
<1> DEFINE events == IF dump = None THEN NoEvents ELSE dump.events
<1>1. events \in Batches
  BY DumpFacts DEF Batches
<1>2. /\ InventoryOrdinary(events)
      /\ dump' = None /\ UNCHANGED <<kernel, notification>>
  BY DEF DumpRequestErr, DumpTimeout, PollDumpFailed, DumpRefused, InLoop, netVars
<1> HIDE DEF events
<1>3. /\ pc' # "inventory"
      /\ state'.subscribed = state.subscribed
      /\ published' = published
      /\ hist.dirtySince # None \/ events # NoEvents => hist'.dirtySince # None
  BY <1>1, <1>2, OrdinaryEffect DEF NetInv
<1>4. events = IF dump = None THEN NoEvents ELSE dump.events
  BY DEF events
<1>5. QED
  BY <1>2, <1>3, <1>4, ReturnNet

\* The failures that drop it.
LEMMA LostNet == NetInv /\ (PollLost \/ DumpNoticeErr) => AdapterInv'
<1> SUFFICES ASSUME NetInv, PollLost \/ DumpNoticeErr PROVE AdapterInv'
  OBVIOUS
<1>1. dump # None
  BY DEF PollLost, DumpNoticeErr, InLoop, Readable
<1>2. dump.events \in Batches /\ InventoryLost(dump.events)
  BY <1>1, DumpFacts DEF PollLost, DumpNoticeErr
<1>3. state'.subscribed = FALSE /\ published' = None
  BY <1>2, LostEffect DEF NetInv
<1>4. QED
  BY <1>3, LossNet DEF PollLost, DumpNoticeErr

\* Both halves of a dump that is not flagged are alike.
LEMMA DumpDoneNet == NetInv /\ DumpDone => AdapterInv'
<1> SUFFICES ASSUME NetInv, DumpDone PROVE AdapterInv'
  OBVIOUS
<1>1. dump # None /\ dump' = None /\ UNCHANGED <<kernel, notification>>
  BY DEF DumpDone, InLoop
<1>2. dump.got[1] = dump.waiting
  BY <1>1, DumpFacts DEF DumpDone
<1> DEFINE links == <<dump.waiting, dump.waiting>>
           table == [continuity |-> state.continuity, links |-> links]
<1>3. InventoryComplete(state.continuity, links, dump.events)
  BY <1>2 DEF DumpDone
<1>4. dump.events \in Batches
  BY <1>1, DumpFacts
<1> HIDE DEF links
<1>5. /\ pc' # "inventory"
      /\ state'.subscribed = state.subscribed
      /\ \/ published' = table /\ (dump.events # NoEvents => hist'.dirtySince # None)
         \/ /\ published' = published
            /\ hist.dirtySince # None \/ dump.events # NoEvents => hist'.dirtySince # None
  BY <1>3, <1>4, CompleteEffect DEF NetInv
<1>6. table.links = <<dump.waiting, dump.waiting>>
  BY DEF links
<1> HIDE DEF table
<1> DEFINE events == IF dump = None THEN NoEvents ELSE dump.events
<1>7. \/ /\ published' = published
         /\ hist.dirtySince # None \/ events # NoEvents => hist'.dirtySince # None
      \/ /\ dump # None
         /\ published'.links = <<dump.waiting, dump.waiting>>
         /\ events # NoEvents => hist'.dirtySince # None
  BY <1>1, <1>5, <1>6
<1>8. QED
  BY <1>1, <1>5, <1>7, ReturnNet

\* wait() and what it returns.
LEMMA WaitNet == NetInv /\ Wait => AdapterInv'
<1> SUFFICES ASSUME NetInv, Wait PROVE AdapterInv'
  OBVIOUS
<1>0. state \in State /\ clock \in Time
  BY Fields DEF NetInv, IInv, Time
<1>1. pc = "wait"
  BY DEF Wait, WaitTimeout, WaitNotice, WaitLost, WaitDeadline
<1>2. dump = None
  BY <1>1 DEF NetInv, AdapterInv, Running
<1>3. CASE WaitTimeout
  <2>1. UNCHANGED <<state, published, hist, kernel, notification, dump>>
    BY <1>3 DEF WaitTimeout, WaitDeadline, netVars
  <2>2. QED
    BY <1>1, <2>1, OutsideNet
<1>4. CASE WaitLost
  <2>1. state'.subscribed = FALSE /\ published' = None
    BY <1>0, <1>4, LoseContinuityFacts DEF WaitLost, WaitErr
  <2>2. QED
    BY <1>2, <1>4, <2>1, LossNet DEF WaitLost
<1>5. CASE WaitNotice
  <2>1. notification \in Socket /\ NoticeReady /\ ~ReceiveFails /\ notification' = Received
        /\ UNCHANGED <<kernel, dump>> /\ state.subscribed
    BY <1>5, SocketFacts DEF WaitNotice, NetInv, AdapterInv, SubscriptionIsReal
  <2>2. notification' \in Socket /\ (Pending /\ ~ReceivedChange => Pending')
    BY <2>1, ReceivedFacts
  <2>3. /\ published' = published
        /\ state'.subscribed = state.subscribed
        /\ hist.dirtySince # None \/ ReceivedChange => hist'.dirtySince # None
    <3>1. CASE ReceivedChange
      BY <1>5, <3>1, LinkChangedEffect DEF WaitNotice, NetInv
    <3>2. CASE ~ReceivedChange
      BY <1>5, <3>2 DEF WaitNotice, WaitDeadline
    <3>3. QED
      BY <3>1, <3>2
  <2>4. NetFields' /\ SubscriptionIsReal'
    BY <2>1, <2>2, <2>3, NoSocketAssumption
    DEF NetInv, AdapterInv, NetFields, SubscriptionIsReal, Option
  <2>5. Running' /\ NoTornTable'
    BY <1>2, <2>1, <2>3 DEF NetInv, AdapterInv, Running, NoTornTable
  <2>6. Covered'
    BY <1>2, <2>1, <2>2, <2>3 DEF NetInv, AdapterInv, Covered
  <2>7. QED
    BY <2>4, <2>5, <2>6 DEF AdapterInv
<1>6. QED
  BY <1>3, <1>4, <1>5 DEF Wait

\* A stutter.
LEMMA UnchangedNet == NetInv /\ UNCHANGED allVars => AdapterInv'
<1> SUFFICES ASSUME NetInv, UNCHANGED allVars PROVE AdapterInv'
  OBVIOUS
<1>1. UNCHANGED <<clock, pc, state, wake, published, hist, kernel, notification, dump>>
  BY DEF allVars, vars, netVars
<1>2. QED
  BY <1>1 DEF NetInv, AdapterInv, NetFields, SubscriptionIsReal, Running, NoTornTable,
              Covered, Pending, NoticeReady, Batches

-----------------------------------------------------------------------------
(***************************************************************************)
(* The theorems.                                                           *)
(***************************************************************************)

\* Every step of the thread, the adapter and the kernel preserves the
\* invariant.
LEMMA NetStep == NetInv /\ [NetNext]_allVars => NetInv'
<1> SUFFICES ASSUME NetInv, [NetNext]_allVars PROVE NetInv'
  OBVIOUS
<1>1. IInv'
  BY NetSimulation, NextInv DEF NetInv
<1> SUFFICES AdapterInv'
  BY <1>1 DEF NetInv
<1>2. CASE KernelChange \/ KernelNotice \/ NetTick
  BY <1>2, KernelChangeNet, KernelNoticeNet, NetTickNet
<1>3. CASE NetControl \/ NetSubscribe
  BY <1>3, NetControlNet, NetSubscribeNet
<1>4. CASE Inventory
  BY <1>4, DumpRequestNet, DumpPollNet, PollReturnsNet, DumpNoticeNet, DumpHalfNet,
     OrdinaryNet, LostNet, DumpDoneNet DEF Inventory
<1>5. CASE Wait
  BY <1>5, WaitNet
<1>6. CASE UNCHANGED allVars
  BY <1>6, UnchangedNet
<1>7. QED
  BY <1>2, <1>3, <1>4, <1>5, <1>6 DEF NetNext

\* The inductive invariant holds in every reachable state of the monitor on
\* the netlink adapter.
THEOREM NetInvariance == NetSpec => []NetInv
<1>1. NetInit => NetInv
  BY InitNet
<1>2. NetInv /\ [NetNext]_allVars => NetInv'
  BY NetStep
<1>3. QED
  BY <1>1, <1>2, PTL DEF NetSpec

\* The adapter's state keeps its type, and a running inventory() only ever
\* collects notifications with a first and a last time in order.
THEOREM NetTypeCorrect == NetSpec => []NetTypeOK
<1>1. NetInv => NetTypeOK
  <2> SUFFICES ASSUME NetInv PROVE NetTypeOK
    OBVIOUS
  <2>1. ASSUME dump # None, dump.events # NoEvents
        PROVE  /\ dump.events.first # None
               /\ dump.events.first \in hist.lastStart .. dump.events.last
    <3>1. TypeOK /\ Control /\ pc = "inventory" /\ dump.events \in Batches
      BY <2>1, DumpFacts DEF NetInv, IInv
    <3>2. QED
      BY <2>1, <3>1, BatchHasFirst
  <2>2. QED
    BY <2>1 DEF NetInv, AdapterInv, NetFields, NetTypeOK
<1>2. QED
  BY <1>1, NetInvariance, PTL

\* What the monitor believes about its subscription is true of the adapter's
\* socket, through every loss, failed subscription and retry.
THEOREM SubscriptionTheorem == NetSpec => []SubscriptionIsReal
<1>1. NetInv => SubscriptionIsReal
  BY DEF NetInv, AdapterInv
<1>2. QED
  BY <1>1, NetInvariance, PTL

\* No published table mixes two states of the kernel's links, whatever the
\* kernel changes while inventory() reads a dump.
THEOREM TornTheorem == NetSpec => []NoTornTable
<1>1. NetInv => NoTornTable
  BY DEF NetInv, AdapterInv
<1>2. QED
  BY <1>1, NetInvariance, PTL

\* A table that is out of date never looks current: the notification that
\* says so, or the mark of its loss, reaches the monitor by one of the ways
\* that wait() and inventory() read.
THEOREM StaleTheorem == NetSpec => []NoSilentStaleness
<1>1. NetInv => NoSilentStaleness
  <2> SUFFICES ASSUME NetInv, published # None, published.links # <<kernel, kernel>>
               PROVE  \/ NoticeReady
                      \/ dump # None /\ dump.events # NoEvents
                      \/ hist.dirtySince # None
    BY DEF NoSilentStaleness
  <2>1. Pending => NoticeReady
    <3>1. notification \in Socket
      BY SocketFacts
    <3>2. QED
      BY <3>1 DEF Pending, NoticeReady, Socket
  <2>2. QED
    BY <2>1 DEF NetInv, AdapterInv, Covered
<1>2. QED
  BY <1>1, NetInvariance, PTL

\* The monitor on the netlink adapter is a monitor: NetlinkSource implements
\* what run() expects of an Acquisition, so the theorems about module Monitor
\* hold of the composition.
THEOREM NetRefinement == NetSpec => ImplementsMonitor
<1>1. NetInit => Init
  BY DEF NetInit
<1>2. NetInv /\ [NetNext]_allVars => [Next]_vars
  BY NetSimulation
<1>3. QED
  BY <1>1, <1>2, NetInvariance, PTL DEF NetSpec, Spec, ImplementsMonitor

\* Composed with the monitor's own refinement: what AgentX sessions see of the
\* netlink adapter and the kernel is the publication interface.
THEOREM NetPublication == NetSpec => ImplementsPublication
<1>1. QED
  BY NetRefinement, Refinement, PTL DEF ImplementsMonitor

=============================================================================
