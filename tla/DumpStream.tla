----------------------------- MODULE DumpStream -----------------------------
(***************************************************************************)
(* The dump socket of inventory() in src/netlink.rs: one request after      *)
(* another, each on a socket of its own, and the datagrams that answer it.  *)
(* Module LinkMonitor has the rest of inventory(), its deadline and the     *)
(* notifications; here it may give up at any time.                          *)
(*                                                                         *)
(* The kernel answers a request with the links of its table in as many     *)
(* datagrams as it likes, the last of which ends with NLMSG_DONE, or goes  *)
(* wrong in one of them.  A datagram of an earlier request, or a            *)
(* notification, can stray into the socket, which may have the address of   *)
(* an earlier one.                                                         *)
(***************************************************************************)
EXTENDS Netlink

CONSTANTS
  MAX_DATAGRAM,        \* size of the receive buffer (1 MiB)
  MAX_INVENTORY_BYTES, \* limit on one dump (16 MiB)
  MaxLinks,            \* bound on the kernel's table
  MaxWire              \* bound on the datagrams in the socket

ASSUME LimitsAssumption ==
  MAX_DATAGRAM \in Nat /\ MAX_INVENTORY_BYTES \in Nat /\ MaxLinks \in Nat /\ MaxWire \in Nat

VARIABLES
  sequence,  \* NetlinkSource.sequence
  dump,      \* locals of a running inventory(): sequence, links, total
  inventory, \* the links that the last inventory() returned, None if it failed
  reply,     \* the kernel's answer: links in all, links sent, ended, faulty
  wire,      \* the datagrams in the dump socket
  recent     \* history: the sequence numbers of the last requests

vars == <<sequence, dump, inventory, reply, wire, recent>>

-----------------------------------------------------------------------------
(***************************************************************************)
(* What the kernel sends.                                                  *)
(***************************************************************************)
Named(index) ==
  [index |-> index, attributes |-> <<[type |-> "IfName", value |-> "eth"]>>]

Message(number, interrupted, payload, link) ==
  [sequence |-> number, interrupted |-> interrupted, payload |-> payload, link |-> link]

Contents ==
  [index : Nat, attributes : {<< >>, <<[type |-> "IfName", value |-> "eth"]>>}]

Messages ==
  [sequence : Nat, interrupted : BOOLEAN,
   payload : {"newlink", "done", "failed", "error", "overrun", "noop"},
   link : Contents \cup {None}]

ASSUME NoneAssumption ==
  /\ None \notin Messages /\ None \notin Seq(Messages)
  /\ None \notin [message : Messages, next : Nat]

\* A link message is longer than a header by its index, which is its payload.
Length(message) ==
  NETLINK_HEADER_LENGTH + IF message.link = None THEN 4 ELSE message.link.index

Framed(messages) ==
  Frame(messages, [i \in DOMAIN messages |-> Length(messages[i])])

Datagram(messages) == [bytes |-> Framed(messages), from_kernel |-> TRUE]

Deliver(datagram) == Len(wire) < MaxWire /\ wire' = Append(wire, datagram)

LinkMessages(count, interrupted) ==
  [i \in 1 .. count |->
     Message(dump.sequence, interrupted, "newlink", Named(reply.sent + i))]

\* The next links, with NLMSG_DONE after the last.
KernelReply ==
  /\ dump # None /\ ~reply.ended
  /\ \E count \in 0 .. reply.all - reply.sent, ended \in BOOLEAN :
       /\ ended => reply.sent + count = reply.all
       /\ count > 0 \/ ended
       /\ Deliver(Datagram(LinkMessages(count, FALSE) \o
            IF ended THEN <<Message(dump.sequence, FALSE, "done", None)>> ELSE << >>))
       /\ reply' = [reply EXCEPT !.sent = @ + count, !.ended = ended]
  /\ UNCHANGED <<sequence, dump, inventory, recent>>

\* The ways in which one of the kernel's datagrams goes wrong: the dump was
\* interrupted; an error, an overrun, a failure or something else follows the
\* links; a link has no name; something follows NLMSG_DONE; there is nothing.
Faulty(links, number) ==
  {links \o <<Message(number, TRUE, "done", None)>>, << >>}
  \cup {links \o <<Message(number, FALSE, payload, None)>>
          : payload \in {"failed", "error", "overrun", "noop"}}
  \cup {links \o <<Message(number, FALSE, "newlink", [Named(1) EXCEPT !.attributes = << >>])>>,
        <<Message(number, FALSE, "done", None)>> \o links
           \o <<Message(number, FALSE, "newlink", Named(1))>>}

KernelFault ==
  /\ dump # None /\ ~reply.ended
  /\ \E messages \in Faulty(LinkMessages(reply.all - reply.sent, FALSE), dump.sequence)
                     \cup {LinkMessages(reply.all - reply.sent, TRUE)} :
       Deliver(Datagram(messages))
  /\ reply' = [reply EXCEPT !.ended = TRUE, !.faulty = TRUE]
  /\ UNCHANGED <<sequence, dump, inventory, recent>>

\* A datagram that answers another request or none, or is not the kernel's.
Stray ==
  /\ dump # None
  /\ \E number \in ({recent[i] : i \in DOMAIN recent} \ {dump.sequence}) \cup {0},
        payload \in {"newlink", "done"} :
       LET link == IF payload = "newlink" THEN Named(1) ELSE None
       IN \/ Deliver(Datagram(<<Message(number, FALSE, payload, link)>>))
          \/ Deliver([bytes |-> Framed(<<Message(dump.sequence, FALSE, payload, link)>>),
                      from_kernel |-> FALSE])
  /\ UNCHANGED <<sequence, dump, inventory, reply, recent>>

-----------------------------------------------------------------------------

Init ==
  /\ sequence = 0 /\ recent = << >>
  /\ dump = None /\ inventory = None
  /\ reply = [all |-> 0, sent |-> 0, ended |-> TRUE, faulty |-> FALSE]
  /\ wire = << >>

\* The last SEQUENCES - 1 requests.
Remember(number) ==
  LET all == Append(recent, number)
  IN IF Len(all) < SEQUENCES THEN all ELSE Tail(all)

\* The dump socket cannot be opened.
OpenErr ==
  /\ dump = None
  /\ inventory' = None
  /\ UNCHANGED <<sequence, dump, reply, wire, recent>>

\* A sequence number is used up even if the request cannot be sent.
SendErr ==
  /\ dump = None
  /\ sequence' = NextSequence(sequence)
  /\ recent' = Remember(sequence')
  /\ inventory' = None
  /\ UNCHANGED <<dump, reply, wire>>

\* dump_request is sent on a socket that was just opened.
Request ==
  /\ dump = None
  /\ sequence' = NextSequence(sequence)
  /\ recent' = Remember(sequence')
  /\ dump' = [sequence |-> sequence', links |-> << >>, total |-> 0]
  /\ inventory' = None
  /\ \E all \in 0 .. MaxLinks :
       reply' = [all |-> all, sent |-> 0, ended |-> FALSE, faulty |-> FALSE]
  /\ wire' = << >>

\* inventory() returns, and drops the socket.
Return(result) ==
  /\ inventory' = result
  /\ dump' = None
  /\ wire' = << >>
  /\ UNCHANGED <<sequence, reply, recent>>

\* The deadline passes, a socket fails, or notifications are lost.
GiveUp == dump # None /\ Return(None)

\* SocketIo::receive: what does not fit into the buffer is cut off.
Received == CutAt(wire[1].bytes, Min({wire[1].bytes.size, MAX_DATAGRAM}))

Total == dump.total + Received.size

AcceptableTruncated ==
  /\ wire[1].from_kernel /\ Received.size > 0
  /\ Total <= MAX_INVENTORY_BYTES

\* The checks of the datagram itself, before it is decoded.
Acceptable ==
  /\ wire[1].bytes.size <= MAX_DATAGRAM
  /\ wire[1].from_kernel /\ Received.size > 0
  /\ Total <= MAX_INVENTORY_BYTES

Consumed == ConsumeDump(Received, dump.sequence)

ReceiveErr ==
  /\ dump # None /\ wire # << >>
  /\ ~Acceptable \/ Consumed = None
  /\ Return(None)

\* The links are kept; the dump is complete, or the loop goes on.
ReceiveOk ==
  /\ dump # None /\ wire # << >>
  /\ Acceptable /\ Consumed # None
  /\ LET links == dump.links \o Consumed.links
     IN IF Consumed.done THEN Return(links)
        ELSE /\ dump' = [dump EXCEPT !.links = links, !.total = Total]
             /\ wire' = Tail(wire)
             /\ UNCHANGED <<sequence, inventory, reply, recent>>

Next ==
  \/ OpenErr \/ SendErr \/ Request \/ GiveUp \/ ReceiveErr \/ ReceiveOk
  \/ KernelReply \/ KernelFault \/ Stray

Spec == Init /\ [][Next]_vars

-----------------------------------------------------------------------------

\* An inventory that is returned is the whole answer to its own request:
\* every link of the kernel's table once and in order, nothing of another
\* request, and nothing of an answer that was interrupted, cut or went wrong.
CompleteIsWhole ==
  inventory # None =>
    /\ reply.ended /\ ~reply.faulty
    /\ inventory = [i \in 1 .. reply.all |-> DecodeLink(Named(i))]

\* The sequence number tells a request from as many requests before it as
\* there are numbers but one, across the wrap, and from the notifications: no
\* datagram is acceptable on both sockets.
RequestsAreTold ==
  /\ \A i, j \in DOMAIN recent : i # j => recent[i] # recent[j]
  /\ dump # None => \A i \in DOMAIN wire :
       wire[i].bytes.size > 0 =>
         \/ ConsumeDump(wire[i].bytes, dump.sequence) = None
         \/ ReceiveNotification(wire[i].bytes) = None

=============================================================================
