---------------------------- MODULE DaemonProofs ----------------------------
(***************************************************************************)
(* The safety properties of module Daemon, for every timeout, every set of *)
(* session ids and every number of continuity generations.                 *)
(***************************************************************************)
EXTENDS Daemon, FiniteSetTheorems, TLAPS

-----------------------------------------------------------------------------
(***************************************************************************)
(* The inductive invariant.                                                *)
(***************************************************************************)

\* The read timeout between frames.
IdleOf == IF stage = "serve" THEN None ELSE IO_TIMEOUT

\* The timeout is in force between frames and kept by receive() during one.
Timeouts ==
  /\ at \in {"idle", "handle", "write"} => timeout = IdleOf
  /\ frame # None => frame.idle = IdleOf

\* What the session believes the master did, it did; and an acknowledgement
\* that is about to be believed is true.
Handshake ==
  /\ at \in {"connect", "ended", "sleep"} => stage = "open"
  /\ stage # "open" => opened = master.session /\ opened # None
  /\ stage = "serve" => master.registered
  /\ (at = "handle" /\ pdu.ty = "Response" /\ pdu.body = "plain") =>
       /\ stage = "open" /\ pdu.packet = 1 => pdu.session = master.session
       /\ stage = "register" /\ pdu.packet = 2 /\ pdu.session = master.session
            => master.registered

\* The master waits only for the answer to the frame being handled, a reply is
\* one of a registered session, and a
\* Close being handled is one the master meant.
Owing ==
  /\ master.awaiting => \/ at = "handle" /\ pdu.ty \notin {"Response", "CleanupSet"}
                        \/ at = "write"
  /\ (at = "handle" /\ stage = "serve" /\ pdu.ty = "Close" /\ pdu.session = master.session)
       => master.closed
  /\ at = "write" => stage = "serve"

\* Module Publication's own invariant.
Published ==
  /\ continuity \in 0 .. GENERATIONS - 1
  /\ live \in BOOLEAN
  /\ table \in Option(Table)
  /\ table # None => live /\ table.continuity = continuity

\* The inductive invariant.
DInv ==
  /\ SessionTypeOK
  /\ Timeouts
  /\ Handshake
  /\ Owing
  /\ Published

-----------------------------------------------------------------------------

\* The process starts in the invariant.
LEMMA InitDInv == Init => DInv
<1> SUFFICES ASSUME Init PROVE DInv
  OBVIOUS
<1>0. ready \in BOOLEAN /\ live \in BOOLEAN
  BY Zenon DEF Init, SessionInit, Pub!Init
<1>1. SessionTypeOK
  BY <1>0, SessionAssumption
  DEF Init, SessionInit, SessionTypeOK, Option, Master, NewMaster
<1>2. Timeouts /\ Handshake /\ Owing
  BY DEF Init, SessionInit, Timeouts, Handshake, Owing, NewMaster
<1>3. Published
  BY <1>0, StreamAssumption DEF Init, Pub!Init, Published, Option
<1>4. QED
  BY <1>1, <1>2, <1>3 DEF DInv

\* A session that ends, for whatever reason, leaves nothing behind.
LEMMA EndDInv ==
  ASSUME DInv, NEW outcome \in {"ok", "err"}, End(outcome)
  PROVE  DInv'
<1>1. SessionTypeOK'
  BY SessionAssumption DEF DInv, End, SessionTypeOK, Option, Master, NewMaster, pubVars
<1>2. Timeouts' /\ Handshake' /\ Owing'
  BY DEF End, Timeouts, Handshake, Owing, NewMaster
<1>3. Published'
  BY DEF DInv, End, Published, pubVars
<1>4. QED
  BY <1>1, <1>2, <1>3 DEF DInv

\* Connecting: the handshake listens under IO_TIMEOUT.
LEMMA ConnectDInv ==
  ASSUME DInv, ConnectOk
  PROVE  DInv'
<1> USE TimeoutAssumption, SessionAssumption, AbsenceAssumption
<1>1. SessionTypeOK'
  BY DEF DInv, ConnectOk, SessionTypeOK, Option, Ticks, pubVars, Listen
<1>2. Timeouts'
  BY DEF DInv, ConnectOk, SessionTypeOK, Timeouts, IdleOf, Handshake, pubVars, Listen
<1>3. Handshake'
  BY DEF DInv, ConnectOk, SessionTypeOK, Handshake, pubVars, Listen
<1>4. Owing'
  BY DEF DInv, ConnectOk, SessionTypeOK, Owing, pubVars, Listen
<1>5. Published'
  BY DEF DInv, ConnectOk, Published, pubVars
<1>6. QED
  BY <1>1, <1>2, <1>3, <1>4, <1>5 DEF DInv

\* The timeout to restore is the one in force.
LEMMA FirstByteDInv ==
  ASSUME DInv, FirstByte
  PROVE  DInv'
<1> USE TimeoutAssumption, SessionAssumption, AbsenceAssumption
<1>1. SessionTypeOK'
  BY DEF DInv, FirstByte, SessionTypeOK, Option, Ticks, pubVars, Frame
<1>2. Timeouts'
  BY DEF DInv, FirstByte, SessionTypeOK, Timeouts, IdleOf, pubVars, Frame
<1>3. Handshake'
  BY DEF DInv, FirstByte, SessionTypeOK, Handshake, pubVars, Frame
<1>4. Owing'
  BY DEF DInv, FirstByte, SessionTypeOK, Owing, pubVars, Frame
<1>5. Published'
  BY DEF DInv, FirstByte, Published, pubVars
<1>6. QED
  BY <1>1, <1>2, <1>3, <1>4, <1>5 DEF DInv

\* The stream's timeout becomes the rest of the budget, which is not zero.
LEMMA ReadBeforeDInv ==
  ASSUME DInv, ReadBefore
  PROVE  DInv'
<1> USE TimeoutAssumption, SessionAssumption, AbsenceAssumption
<1>1. SessionTypeOK'
  BY DEF DInv, ReadBefore, SessionTypeOK, Option, Ticks, pubVars, Frame
<1>2. Timeouts'
  BY DEF DInv, ReadBefore, SessionTypeOK, Timeouts, IdleOf, pubVars
<1>3. Handshake'
  BY DEF DInv, ReadBefore, SessionTypeOK, Handshake, pubVars
<1>4. Owing'
  BY DEF DInv, ReadBefore, SessionTypeOK, Owing, pubVars
<1>5. Published'
  BY DEF DInv, ReadBefore, Published, pubVars
<1>6. QED
  BY <1>1, <1>2, <1>3, <1>4, <1>5 DEF DInv

\* Part of a frame arrives.
LEMMA ReadSomeDInv ==
  ASSUME DInv, ReadSome
  PROVE  DInv'
<1> USE TimeoutAssumption, SessionAssumption, AbsenceAssumption
<1>1. SessionTypeOK'
  BY DEF DInv, ReadSome, SessionTypeOK, Option, Ticks, pubVars, Frame
<1>2. Timeouts'
  BY DEF DInv, ReadSome, SessionTypeOK, Timeouts, IdleOf, pubVars, Frame, Option
<1>3. Handshake'
  BY DEF DInv, ReadSome, SessionTypeOK, Handshake, pubVars, Frame, Option
<1>4. Owing'
  BY DEF DInv, ReadSome, SessionTypeOK, Owing, pubVars, Frame, Option
<1>5. Published'
  BY DEF DInv, ReadSome, Published, pubVars
<1>6. QED
  BY <1>1, <1>2, <1>3, <1>4, <1>5 DEF DInv

\* A whole frame arrives: the timeout is restored.
LEMMA FrameDoneDInv ==
  ASSUME DInv, NEW p \in MasterPdus, FrameDone(p)
  PROVE  DInv'
<1> USE TimeoutAssumption, SessionAssumption, AbsenceAssumption
<1>0. p \in Pdu
  BY DEF MasterPdus, Pdu, Requests, Bodies, Request, Response
<1>1. /\ master'.session = master.session
      /\ master'.registered = master.registered
      /\ master'.awaiting = (p.ty \notin {"Response", "CleanupSet"})
      /\ p.ty = "Close" /\ p.session = master.session => master'.closed
  BY DEF DInv, SessionTypeOK, Master, FrameDone
<1>2. master' \in Master
  BY Zenon, <1>1 DEF DInv, SessionTypeOK, Master, FrameDone
<1>3. SessionTypeOK'
  BY <1>0, <1>2 DEF DInv, FrameDone, SessionTypeOK, Timeouts, IdleOf, Option, Ticks,
                   Frame, pubVars
<1>4. Timeouts'
  BY DEF DInv, FrameDone, SessionTypeOK, Timeouts, IdleOf, Frame, Option
<1>5. Handshake'
  BY <1>1 DEF DInv, FrameDone, SessionTypeOK, Handshake, MasterPdus, Request, Response
<1>6. Owing'
  BY <1>1 DEF FrameDone, Owing
<1>7. Published'
  BY DEF DInv, FrameDone, Published, pubVars
<1>8. QED
  BY <1>3, <1>4, <1>5, <1>6, <1>7 DEF DInv

\* The session id is the one the master assigned.
LEMMA OpenedDInv ==
  ASSUME DInv, Opened
  PROVE  DInv'
<1> USE TimeoutAssumption, SessionAssumption, AbsenceAssumption
<1>1. SessionTypeOK'
  BY DEF DInv, Opened, SessionTypeOK, Option, Ticks, pubVars, Listen, Acknowledged, Pdu
<1>2. Timeouts'
  BY DEF DInv, Opened, SessionTypeOK, Timeouts, IdleOf, pubVars, Listen, Acknowledged, Pdu, Option
<1>3. Handshake'
  BY DEF DInv, Opened, SessionTypeOK, Handshake, pubVars, Listen, Acknowledged, Pdu, Option
<1>4. Owing'
  BY DEF DInv, Opened, SessionTypeOK, Owing, pubVars, Listen, Acknowledged, Pdu, Option
<1>5. Published'
  BY DEF DInv, Opened, Published, pubVars
<1>6. QED
  BY <1>1, <1>2, <1>3, <1>4, <1>5 DEF DInv

\* The master registered the table for this session.
LEMMA RegisteredDInv ==
  ASSUME DInv, Registered
  PROVE  DInv'
<1> USE TimeoutAssumption, SessionAssumption, AbsenceAssumption
<1>0. ready' \in BOOLEAN
  BY Zenon DEF DInv, SessionTypeOK, Registered
<1>1. SessionTypeOK'
  BY <1>0 DEF DInv, Registered, SessionTypeOK, Option, Ticks, pubVars, Listen, Acknowledged, Pdu
<1>2. Timeouts'
  BY DEF DInv, Registered, SessionTypeOK, Timeouts, IdleOf, pubVars, Listen, Acknowledged, Pdu, Option
<1>3. Handshake'
  BY DEF DInv, Registered, SessionTypeOK, Handshake, pubVars, Listen, Acknowledged, Pdu, Option
<1>4. Owing'
  BY DEF DInv, Registered, SessionTypeOK, Owing, pubVars, Listen, Acknowledged, Pdu, Option
<1>5. Published'
  BY DEF DInv, Registered, Published, pubVars
<1>6. QED
  BY <1>1, <1>2, <1>3, <1>4, <1>5 DEF DInv

\* A frame for another session is answered.
LEMMA ForeignDInv ==
  ASSUME DInv, Foreign
  PROVE  DInv'
<1> USE TimeoutAssumption, SessionAssumption, AbsenceAssumption
<1>1. SessionTypeOK'
  BY DEF DInv, Foreign, SessionTypeOK, Option, Ticks, pubVars, Serving, Reply, Listen, Result, Replies, Errors, Master
<1>2. Timeouts'
  BY DEF DInv, Foreign, SessionTypeOK, Timeouts, IdleOf, pubVars, Serving, Reply, Listen, Master, Option
<1>3. Handshake'
  BY DEF DInv, Foreign, SessionTypeOK, Handshake, pubVars, Serving, Reply, Listen, Master, Option
<1>4. Owing'
  BY DEF DInv, Foreign, SessionTypeOK, Owing, pubVars, Serving, Reply, Listen, Master, Option
<1>5. Published'
  BY DEF DInv, Foreign, Published, pubVars, Reply
<1>6. QED
  BY <1>1, <1>2, <1>3, <1>4, <1>5 DEF DInv

\* dispatch() always has an answer.
LEMMA DispatchType ==
  ASSUME pdu \in Pdu, pdu.ty \notin {"Close", "CleanupSet"}, table \in Option(Table)
  PROVE  Dispatch \in Replies
<1> USE DEF Result, Replies, Errors, Option
<1>1. pdu.ty \in {"Get", "TestSet", "CommitSet", "UndoSet", "Ping", "Other", "Response"}
  BY DEF Pdu, Requests
<1>2. CASE pdu.body = "context" \/ pdu.ty \in {"Other", "Response"} \/ pdu.body = "refused"
  BY <1>2 DEF Dispatch
<1>3. CASE ~(pdu.body = "context" \/ pdu.ty \in {"Other", "Response"} \/ pdu.body = "refused")
  <2>1. CASE pdu.ty = "Get"
    BY <1>3, <2>1 DEF Dispatch
  <2>2. CASE pdu.ty = "TestSet"
    BY <1>3, <2>2 DEF Dispatch
  <2>3. CASE pdu.ty \in {"CommitSet", "UndoSet", "Ping"}
    BY <1>3, <2>3 DEF Dispatch
  <2>4. QED
    BY <1>1, <1>3, <2>1, <2>2, <2>3
<1>4. QED
  BY <1>2, <1>3

\* A request is answered.
LEMMA AnswerDInv ==
  ASSUME DInv, Answer
  PROVE  DInv'
<1> USE TimeoutAssumption, SessionAssumption, AbsenceAssumption
<1>0. Dispatch \in Replies
  BY DispatchType DEF DInv, Answer, Serving, SessionTypeOK, Published, Option
<1>1. SessionTypeOK'
  BY <1>0 DEF DInv, Answer, SessionTypeOK, Option, Ticks, pubVars, Serving, Reply, Listen, Master
<1>2. Timeouts'
  BY DEF DInv, Answer, SessionTypeOK, Timeouts, IdleOf, pubVars, Serving, Reply, Listen, Master, Option
<1>3. Handshake'
  BY DEF DInv, Answer, SessionTypeOK, Handshake, pubVars, Serving, Reply, Listen, Master, Option
<1>4. Owing'
  BY DEF DInv, Answer, SessionTypeOK, Owing, pubVars, Serving, Reply, Listen, Master, Option
<1>5. Published'
  BY DEF DInv, Answer, Published, pubVars, Reply
<1>6. QED
  BY <1>1, <1>2, <1>3, <1>4, <1>5 DEF DInv

\* The reply is written: the master has its answer.
LEMMA WrittenDInv ==
  ASSUME DInv, Written
  PROVE  DInv'
<1> USE TimeoutAssumption, SessionAssumption, AbsenceAssumption
<1>1. SessionTypeOK'
  BY DEF DInv, Written, SessionTypeOK, Option, Ticks, pubVars, Listen, Master
<1>2. Timeouts'
  BY DEF DInv, Written, SessionTypeOK, Timeouts, IdleOf, pubVars, Listen, Option
<1>3. Handshake'
  BY DEF DInv, Written, SessionTypeOK, Handshake, Owing, pubVars, Listen, Master, Option
<1>4. Owing'
  BY DEF DInv, Written, SessionTypeOK, Owing, pubVars, Listen, Master, Option
<1>5. Published'
  BY DEF DInv, Written, Published, pubVars
<1>6. QED
  BY <1>1, <1>2, <1>3, <1>4, <1>5 DEF DInv

\* CleanupSet has no answer, and the master expects none.
LEMMA CleanupDInv ==
  ASSUME DInv, CleanupSet
  PROVE  DInv'
<1> USE TimeoutAssumption, SessionAssumption, AbsenceAssumption
<1>1. CASE End("err")
  BY <1>1, EndDInv
<1>2. CASE /\ Listen(timeout)
           /\ UNCHANGED <<stage, opened, frame, reply, result, ready, master, pubVars>>
  <2>1. pdu.ty = "CleanupSet" /\ at = "handle" /\ stage = "serve"
    BY DEF CleanupSet, Serving
  <2>2. SessionTypeOK'
    BY <1>2, <2>1 DEF DInv, Listen, SessionTypeOK, Option, Ticks, pubVars
  <2>3. Timeouts' /\ Handshake' /\ Owing' /\ Published'
    BY <1>2, <2>1 DEF DInv, Listen, SessionTypeOK, Timeouts, IdleOf, Handshake, Owing,
                      Published, pubVars
  <2>4. QED
    BY <2>2, <2>3 DEF DInv
<1>3. QED
  BY <1>1, <1>2 DEF CleanupSet

\* The master does what it was asked.
LEMMA MasterDInv ==
  ASSUME DInv, MasterStep
  PROVE  DInv'
<1> USE SessionAssumption
<1>1. CASE MasterOpens
  <2>1. PICK s \in SessionIds : master' = [master EXCEPT !.session = s]
    BY <1>1 DEF MasterOpens
  <2>2. master' \in Master
    BY <2>1 DEF DInv, SessionTypeOK, Master, Option
  <2>3. /\ master'.registered = master.registered
        /\ master'.awaiting = master.awaiting
        /\ master'.closed = master.closed
    BY <2>1 DEF DInv, SessionTypeOK, Master
  <2>4. SessionTypeOK'
    BY <1>1, <2>2 DEF DInv, MasterOpens, SessionTypeOK, threadVars, pubVars
  <2>5. Timeouts' /\ Published'
    BY <1>1 DEF DInv, MasterOpens, Timeouts, IdleOf, Published, threadVars, pubVars
  <2>6. stage = "open" /\ master.session = None
    BY <1>1 DEF MasterOpens
  <2>7. at = "handle" => pdu.session # None
    BY DEF DInv, SessionTypeOK, Pdu, Option
  <2>8. Handshake'
    BY <1>1, <2>3, <2>6, <2>7 DEF DInv, MasterOpens, Handshake, threadVars
  <2>9. Owing'
    BY <1>1, <2>3, <2>6 DEF DInv, MasterOpens, Owing, threadVars
  <2>10. QED
    BY <2>4, <2>5, <2>8, <2>9 DEF DInv
<1>2. CASE MasterRegisters
  <2>1. master' \in Master
    BY <1>2 DEF DInv, MasterRegisters, SessionTypeOK, Master
  <2>2. /\ master'.registered
        /\ master'.session = master.session
        /\ master'.awaiting = master.awaiting
        /\ master'.closed = master.closed
    BY <1>2 DEF DInv, MasterRegisters, SessionTypeOK, Master
  <2>3. SessionTypeOK'
    BY <1>2, <2>1 DEF DInv, MasterRegisters, SessionTypeOK, threadVars, pubVars
  <2>4. Timeouts' /\ Published'
    BY <1>2 DEF DInv, MasterRegisters, Timeouts, IdleOf, Published, threadVars, pubVars
  <2>5. Handshake' /\ Owing'
    BY <1>2, <2>2 DEF DInv, MasterRegisters, Handshake, Owing, threadVars
  <2>6. QED
    BY <2>3, <2>4, <2>5 DEF DInv
<1>3. QED
  BY <1>1, <1>2 DEF MasterStep

\* Every step of the session.
LEMMA SessionDInv == DInv /\ SessionNext => DInv'
<1> SUFFICES ASSUME DInv, SessionNext PROVE DInv'
  OBVIOUS
<1>1. CASE ConnectErr \/ ConnectOk
  BY <1>1, EndDInv, ConnectDInv DEF ConnectErr
<1>2. CASE Receive
  <2>1. CASE ReadTimeout \/ ReadErr \/ FrameLate
    BY <2>1, EndDInv DEF ReadTimeout, ReadErr, FrameLate
  <2>2. CASE FirstByte \/ ReadBefore \/ ReadSome
    BY <2>2, FirstByteDInv, ReadBeforeDInv, ReadSomeDInv
  <2>3. CASE \E p \in MasterPdus : FrameDone(p)
    BY <2>3, FrameDoneDInv
  <2>4. QED
    BY <1>2, <2>1, <2>2, <2>3 DEF Receive
<1>3. CASE Handle
  <2>1. CASE Opened \/ Registered
    BY <2>1, OpenedDInv, RegisteredDInv
  <2>2. CASE Refused \/ RegisterErr \/ Close \/ WriteErr
    BY <2>2, EndDInv DEF Refused, RegisterErr, Close, WriteErr
  <2>3. CASE Foreign \/ CleanupSet \/ Answer \/ Written
    BY <2>3, ForeignDInv, CleanupDInv, AnswerDInv, WrittenDInv
  <2>4. QED
    BY <1>3, <2>1, <2>2, <2>3 DEF Handle
<1>4. CASE MasterStep
  BY <1>4, MasterDInv
<1>5. QED
  BY <1>1, <1>2, <1>3, <1>4 DEF SessionNext

\* The supervisor moves only between sessions.
LEMMA SupervisorDInv ==
  ASSUME DInv, Supervise \/ Reconnect
  PROVE  DInv'
<1>1. /\ at \in {"ended", "sleep"} /\ at' \in {"sleep", "connect"}
      /\ result' \in {result, None}
      /\ UNCHANGED <<stage, opened, timeout, frame, pdu, reply, ready, master, pubVars>>
  BY DEF Supervise, Sleep, Reconnect
<1>2. SessionTypeOK'
  BY <1>1 DEF DInv, SessionTypeOK, Option, pubVars
<1>3. Timeouts' /\ Handshake' /\ Owing' /\ Published'
  BY <1>1 DEF DInv, Timeouts, IdleOf, Handshake, Owing, Published, pubVars
<1>4. QED
  BY <1>2, <1>3 DEF DInv

\* Time shortens what is left, and nothing else.
LEMMA TickDInv ==
  ASSUME DInv, Tick
  PROVE  DInv'
<1> USE TimeoutAssumption, SessionAssumption, AbsenceAssumption
<1>1. /\ frame' = IF frame = None THEN None ELSE [frame EXCEPT !.budget = Sooner(@)]
      /\ UNCHANGED <<at, stage, opened, timeout, pdu, reply, result, ready, master, pubVars>>
  BY DEF Tick, SessionTick
<1>2. frame' \in Option(Frame) /\ (frame' # None <=> frame # None)
  BY <1>1 DEF DInv, SessionTypeOK, Option, Frame, Sooner, Ticks
<1>3. frame # None => frame'.idle = frame.idle
  BY <1>1 DEF DInv, SessionTypeOK, Option, Frame
<1>4. SessionTypeOK'
  BY <1>1, <1>2 DEF DInv, SessionTypeOK, pubVars
<1>5. Timeouts' /\ Handshake' /\ Owing' /\ Published'
  BY <1>1, <1>2, <1>3 DEF DInv, Timeouts, IdleOf, Handshake, Owing, Published, pubVars
<1>6. QED
  BY <1>4, <1>5 DEF DInv

\* The monitor changes the publication only.
LEMMA MonitorDInv ==
  ASSUME DInv, MonitorStep
  PROVE  DInv'
<1>1. UNCHANGED <<threadVars, master>>
  BY DEF MonitorStep
<1>2. SessionTypeOK' /\ Timeouts' /\ Handshake' /\ Owing'
  BY <1>1 DEF DInv, SessionTypeOK, Timeouts, IdleOf, Handshake, Owing, threadVars
<1>3. live' \in BOOLEAN
  BY Zenon DEF DInv, Published, MonitorStep, Pub!Next, Pub!Subscribe, Pub!Publish, Pub!Withdraw
<1>4. Published'
  <2>1. CASE Pub!Subscribe
    BY <2>1, <1>3 DEF DInv, Published, Pub!Subscribe
  <2>2. CASE Pub!Publish
    <3>1. PICK links \in ValidLinks : table' = [continuity |-> continuity, links |-> links]
      BY <2>2 DEF Pub!Publish
    <3>2. live /\ UNCHANGED <<continuity, live>>
      BY <2>2 DEF Pub!Publish
    <3>3. QED
      BY <1>3, <3>1, <3>2 DEF DInv, Published, Table, Option
  <2>3. CASE Pub!Withdraw
    BY <2>3, <1>3, StreamAssumption DEF DInv, Published, Pub!Withdraw, Option
  <2>4. QED
    BY <2>1, <2>2, <2>3 DEF MonitorStep, Pub!Next
<1>5. QED
  BY <1>2, <1>4 DEF DInv

\* Every step of the process preserves the invariant.
LEMMA NextDInv == DInv /\ [Next]_allVars => DInv'
<1> SUFFICES ASSUME DInv, [Next]_allVars PROVE DInv'
  OBVIOUS
<1>1. CASE SessionStep
  BY <1>1, SessionDInv DEF SessionStep
<1>2. CASE Supervise \/ Reconnect
  BY <1>2, SupervisorDInv
<1>3. CASE Tick
  BY <1>3, TickDInv
<1>4. CASE MonitorStep
  BY <1>4, MonitorDInv
<1>5. CASE UNCHANGED sessionVars
  BY <1>5 DEF DInv, SessionTypeOK, Timeouts, IdleOf, Handshake, Owing, Published,
              sessionVars, threadVars, pubVars
<1>6. QED
  BY <1>1, <1>2, <1>3, <1>4, <1>5
  DEF Next, MainThread, MonitorThread, MonitorStops, Exit, Exited, daemonVars, allVars

\* The process stays in the invariant.
THEOREM DaemonInvariance == Spec => []DInv
  BY InitDInv, NextDInv, PTL DEF Spec

-----------------------------------------------------------------------------

\* The session's state keeps its type; a read timeout is never zero.
THEOREM SessionTypeCorrect == Spec => []SessionTypeOK
<1>1. DInv => SessionTypeOK
  BY DEF DInv
<1>2. QED
  BY <1>1, DaemonInvariance, PTL

\* Between frames the read timeout is what it was before the last one.
THEOREM IdleTimeoutTheorem == Spec => []IdleTimeoutRestored
<1>1. DInv => IdleTimeoutRestored
  BY DEF DInv, Timeouts, IdleOf, IdleTimeoutRestored
<1>2. QED
  BY <1>1, DaemonInvariance, PTL

\* No request is left unanswered when the session waits for the next one.
THEOREM AnswerTheorem == Spec => []AnswersEveryRequest
<1>1. DInv => AnswersEveryRequest
  BY DEF DInv, Owing, AnswersEveryRequest
<1>2. QED
  BY <1>1, DaemonInvariance, PTL

-----------------------------------------------------------------------------

\* Which steps announce readiness, end a session well, and send a reply.
LEMMA Causes ==
  ASSUME Next
  PROVE  /\ ready' # ready => stage' = "serve"
         /\ at # "ended" /\ at' = "ended" => result' = "err" \/ Close
         /\ reply' # reply => reply' = None \/ Foreign \/ Answer
<1>1. CASE SessionStep
  <2>1. CASE ConnectErr \/ ConnectOk
    BY <2>1 DEF ConnectErr, ConnectOk, End, Listen
  <2>2. CASE FirstByte \/ ReadTimeout \/ ReadErr \/ FrameLate \/ ReadBefore \/ ReadSome
    BY <2>2 DEF FirstByte, ReadTimeout, ReadErr, FrameLate, ReadBefore, ReadSome, End
  <2>3. CASE \E p \in MasterPdus : FrameDone(p)
    BY <2>3 DEF FrameDone
  <2>4. CASE Opened \/ Registered \/ Refused \/ RegisterErr
    BY <2>4 DEF Opened, Registered, Refused, RegisterErr, End, Listen
  <2>5. CASE Foreign \/ Answer \/ Written
    BY <2>5 DEF Foreign, Answer, Reply, Written, Listen
  <2>6. CASE Close \/ CleanupSet \/ WriteErr
    BY <2>6 DEF Close, CleanupSet, WriteErr, End, Listen
  <2>7. CASE MasterStep
    BY <2>7 DEF MasterStep, MasterOpens, MasterRegisters, threadVars
  <2>8. QED
    BY <1>1, <2>1, <2>2, <2>3, <2>4, <2>5, <2>6, <2>7
    DEF SessionStep, SessionNext, Receive, Handle
<1>2. CASE Supervise \/ Reconnect \/ Tick
  BY <1>2 DEF Supervise, Sleep, Reconnect, Tick, SessionTick
<1>3. CASE MonitorStep \/ UNCHANGED sessionVars
  BY <1>3 DEF MonitorStep, sessionVars, threadVars
<1>4. QED
  BY <1>1, <1>2, <1>3 DEF Next, MainThread, MonitorThread, MonitorStops, Exit, Exited, daemonVars, allVars

\* Only a session that the master registered serves, or announces readiness.
THEOREM RegistrationTheorem == Spec => RegistrationIsReal
<1>1. DInv' /\ [Next]_allVars =>
        [(stage' = "serve" \/ ready' # ready)
           => master'.registered /\ master'.session = opened']_daemonVars
  BY Causes DEF DInv, Handshake, allVars
<1>2. QED
  BY <1>1, DaemonInvariance, PTL DEF Spec, RegistrationIsReal

\* A session ends with Ok only when the master closed that session.
THEOREM CloseTheorem == Spec => ClosedByMaster
<1>1. DInv /\ [Next]_allVars =>
        [(at # "ended" /\ at' = "ended" /\ result' = "ok") => master.closed]_daemonVars
  <2> SUFFICES ASSUME DInv, Next, at # "ended", at' = "ended", result' = "ok"
               PROVE  master.closed
    BY DEF allVars
  <2>1. Close
    BY Causes
  <2>2. QED
    BY <2>1 DEF DInv, Close, Serving, Handshake, Owing
<1>2. QED
  BY <1>1, DaemonInvariance, PTL DEF Spec, ClosedByMaster

\* What dispatch() reads of the publication ends up in its reply.
LEMMA DispatchReads ==
  ASSUME pdu \in Pdu, pdu.ty \notin {"Close", "CleanupSet"}
  PROVE  /\ Dispatch.vb \in {None, table}
         /\ Dispatch.error = "processingError" => table = None
<1>1. pdu.ty \in {"Get", "TestSet", "CommitSet", "UndoSet", "Ping", "Other", "Response"}
  BY DEF Pdu, Requests
<1>2. CASE pdu.body = "context" \/ pdu.ty \in {"Other", "Response"} \/ pdu.body = "refused"
  BY <1>2 DEF Dispatch, Result
<1>3. CASE ~(pdu.body = "context" \/ pdu.ty \in {"Other", "Response"} \/ pdu.body = "refused")
  <2>1. CASE pdu.ty = "Get"
    BY <1>3, <2>1 DEF Dispatch, Result
  <2>2. CASE pdu.ty \in {"TestSet", "CommitSet", "UndoSet", "Ping"}
    BY <1>3, <2>2 DEF Dispatch, Result
  <2>3. QED
    BY <1>1, <1>3, <2>1, <2>2
<1>4. QED
  BY <1>2, <1>3

\* While a request is answered the history holds what is vouched for now.
Vouching == (Answering => Current \in vouched) /\ AnswersAreCurrent

\* The monitor may run between the snapshot and the write, but what a reply
\* holds stays in the history until it is written.
LEMMA NextVouching == DInv /\ Vouching /\ [Next]_allVars => Vouching'
<1> SUFFICES ASSUME DInv, Vouching, [Next]_allVars PROVE Vouching'
  OBVIOUS
<1>1. CASE UNCHANGED allVars
  BY <1>1 DEF Vouching, AnswersAreCurrent, Answering, Current, allVars, daemonVars,
              sessionVars, threadVars, pubVars
<1>2. CASE Next
  <2>1. vouched' = IF Answering' THEN vouched \cup {Current'} ELSE {}
    BY <1>2 DEF Next, Watch
  <2>2. Answering' => Current' \in vouched'
    BY <2>1
  <2>3. ASSUME at' = "write"
        PROVE  /\ reply'.vb # None => reply'.vb \in vouched'
               /\ reply'.error = "processingError" => None \in vouched'
    <3>1. Answering' /\ vouched \subseteq vouched'
      BY <2>1, <2>3, <1>2, NextDInv DEF Answering, DInv, Owing
    <3>2. reply' # None
      BY <2>3, <1>2, NextDInv DEF DInv, SessionTypeOK
    <3>3. CASE reply' = reply
      <4>1. at = "write"
        BY <3>2, <3>3 DEF DInv, SessionTypeOK
      <4>2. QED
        BY <4>1, <3>1, <3>3 DEF Vouching, AnswersAreCurrent
    <3>4. CASE Foreign
      BY <3>4, SessionAssumption DEF Foreign, Reply, Result
    <3>5. CASE Answer
      <4>1. /\ reply' = Dispatch /\ Answering
            /\ pdu \in Pdu /\ pdu.ty \notin {"Close", "CleanupSet"}
        BY <3>5, AbsenceAssumption
        DEF Answer, Serving, Reply, Answering, DInv, SessionTypeOK, Option
      <4>2. Current = table
        BY DEF Current, DInv, Published
      <4>3. table \in vouched
        BY <4>1, <4>2 DEF Vouching
      <4>4. QED
        BY <4>1, <4>3, <3>1, DispatchReads
    <3>6. QED
      BY <3>2, <3>3, <3>4, <3>5, <1>2, Causes
  <2>4. QED
    BY <2>2, <2>3 DEF Vouching, AnswersAreCurrent
<1>3. QED
  BY <1>1, <1>2

\* A reply tells what the live subscription vouched for at an instant since the
\* request arrived, though the lock is not held while it is written.
THEOREM CurrentTheorem == Spec => []AnswersAreCurrent
<1>1. Init => Vouching
  BY DEF Init, SessionInit, Vouching, Answering, AnswersAreCurrent
<1>2. Vouching => AnswersAreCurrent
  BY DEF Vouching
<1>3. QED
  BY <1>1, <1>2, NextVouching, DaemonInvariance, PTL DEF Spec

-----------------------------------------------------------------------------
(***************************************************************************)
(* The reconnect delay in closed form.                                     *)
(***************************************************************************)
DelayAfter(n) == MinOf(INITIAL_BACKOFF * 2^n, MAX_BACKOFF)

\* One more exponent doubles a power of two, which counts the subsets of a set:
\* those without the new element, and as many with it.
LEMMA PowerDoubles ==
  ASSUME NEW n \in Nat
  PROVE  2^n \in Nat /\ 2^n >= 1 /\ 2^(n + 1) = 2 * 2^n
<1> DEFINE S == 1 .. n
           x == n + 1
           With == {T \cup {x} : T \in SUBSET S}
<1>1. IsFiniteSet(S) /\ Cardinality(S) = n
  BY FS_Interval
<1>2. IsFiniteSet(SUBSET S) /\ Cardinality(SUBSET S) = 2^n
  BY <1>1, FS_SUBSET
<1>3. x \notin S /\ 1 .. n + 1 = S \cup {x}
  OBVIOUS
<1>4. IsFiniteSet(S \cup {x}) /\ Cardinality(S \cup {x}) = n + 1
  BY <1>1, <1>3, FS_AddElement
<1>5. Cardinality(SUBSET (S \cup {x})) = 2^(n + 1)
  BY <1>4, FS_SUBSET
<1> HIDE DEF S, x
<1>6. IsFiniteSet(With) /\ Cardinality(With) = 2^n
  <2> DEFINE f == [T \in SUBSET S |-> T \cup {x}]
  <2>1. f \in Bijection(SUBSET S, With)
    <3>1. f \in [SUBSET S -> With] /\ \A W \in With : \E T \in SUBSET S : f[T] = W
      OBVIOUS
    <3>2. \A T, U \in SUBSET S : f[T] = f[U] => T = U
      BY <1>3
    <3>3. QED
      BY <3>1, <3>2, Zenon DEF Bijection, Injection, Surjection, IsInjective
  <2>2. ExistsBijection(SUBSET S, With)
    BY <2>1 DEF ExistsBijection
  <2>3. QED
    BY <1>2, <2>2, FS_Bijection
<1>7. SUBSET (S \cup {x}) = (SUBSET S) \cup With
  <2>1. ASSUME NEW T \in SUBSET (S \cup {x}) PROVE T \in (SUBSET S) \cup With
    <3>1. CASE x \in T
      <4>1. T \ {x} \in SUBSET S /\ (T \ {x}) \cup {x} = T
        BY <3>1
      <4>2. QED
        BY <4>1
    <3>2. CASE x \notin T
      BY <3>2
    <3>3. QED
      BY <3>1, <3>2
  <2>2. QED
    BY <2>1
<1>8. (SUBSET S) \cap With = {}
  BY <1>3
<1> HIDE DEF With
<1>9. Cardinality(SUBSET (S \cup {x})) = 2^n + 2^n - 0
  <2>1. Cardinality((SUBSET S) \cup With) =
          Cardinality(SUBSET S) + Cardinality(With) - Cardinality((SUBSET S) \cap With)
    BY <1>2, <1>6, FS_Union, Zenon
  <2>2. Cardinality((SUBSET S) \cap With) = 0
    BY <1>8, FS_EmptySet
  <2>3. QED
    BY <1>2, <1>6, <1>7, <2>1, <2>2, Zenon
<1>10. 2^n \in Nat /\ 2^n # 0
  <2>1. 2^n \in Nat
    BY <1>2, FS_CardinalityType
  <2>2. {} \in SUBSET S
    OBVIOUS
  <2>3. QED
    BY <1>2, <2>1, <2>2, FS_EmptySet
<1>11. QED
  BY <1>5, <1>9, <1>10

\* One more short session doubles the delay, up to the cap.
LEMMA DelayDoubles ==
  ASSUME NEW n \in Nat
  PROVE  /\ DelayAfter(n) \in Nat
         /\ DelayAfter(n + 1) = MinOf(2 * DelayAfter(n), MAX_BACKOFF)
<1> DEFINE p == 2^n
           d == INITIAL_BACKOFF * p
<1>1. p \in Nat /\ 2^(n + 1) = 2 * p
  BY PowerDoubles
<1> HIDE DEF p
<1>2. d \in Nat /\ INITIAL_BACKOFF * (2 * p) = 2 * d
  BY <1>1, BackoffAssumption
<1> HIDE DEF d
<1>3. DelayAfter(n) = MinOf(d, MAX_BACKOFF) /\ DelayAfter(n + 1) = MinOf(2 * d, MAX_BACKOFF)
  BY <1>1, <1>2 DEF DelayAfter, d, p
<1>4. QED
  BY <1>2, <1>3, BackoffAssumption DEF MinOf

\* The first delay is not doubled, and the last two of the history's are the cap.
LEMMA DelayEnds ==
  /\ DelayAfter(0) = INITIAL_BACKOFF
  /\ DelayAfter(RunCap - 1) = MAX_BACKOFF /\ DelayAfter(RunCap) = MAX_BACKOFF
<1>1. 2^0 = 1
  OBVIOUS
<1>2. INITIAL_BACKOFF * 1 = INITIAL_BACKOFF
  BY BackoffAssumption
<1>3. DelayAfter(0) = INITIAL_BACKOFF
  BY <1>1, <1>2, BackoffAssumption DEF DelayAfter, MinOf
<1>4. RunCap - 1 \in Nat /\ (RunCap - 1) + 1 = RunCap
  BY BackoffAssumption
<1> DEFINE d == INITIAL_BACKOFF * 2^(RunCap - 1)
<1>5. d \in Nat
  <2>1. 2^(RunCap - 1) \in Nat
    BY <1>4, PowerDoubles
  <2>2. QED
    BY <2>1, BackoffAssumption
<1>6. d >= MAX_BACKOFF
  BY CapAssumption
<1>7. DelayAfter(RunCap - 1) = MinOf(d, MAX_BACKOFF)
  BY DEF DelayAfter
<1> HIDE DEF d
<1>8. DelayAfter(RunCap - 1) = MAX_BACKOFF
  BY <1>5, <1>6, <1>7, BackoffAssumption DEF MinOf
<1>9. DelayAfter((RunCap - 1) + 1) = MinOf(2 * DelayAfter(RunCap - 1), MAX_BACKOFF)
  BY <1>4, DelayDoubles
<1>10. DelayAfter(RunCap) = MAX_BACKOFF
  BY <1>4, <1>8, <1>9, BackoffAssumption DEF MinOf
<1>11. QED
  BY <1>3, <1>8, <1>10

\* The supervisor's delay is the one of the sessions since the last long one.
Backoffs == run \in 0 .. RunCap /\ backoff = DelayAfter(run)

\* A session ends: the supervisor sleeps its delay and doubles it.
LEMMA SuperviseBackoffs ==
  ASSUME Backoffs, Supervise
  PROVE  Backoffs' /\ left' = DelayAfter(run' - 1)
<1> DEFINE delay == IF elapsed >= LONG_SESSION THEN INITIAL_BACKOFF ELSE backoff
<1>1. /\ left' = delay /\ backoff' = MinOf(2 * delay, MAX_BACKOFF)
      /\ run' = IF elapsed >= LONG_SESSION THEN 1 ELSE MinOf(run + 1, RunCap)
  BY DEF Supervise, Sleep
<1>2. RunCap \in Nat /\ RunCap >= 1 /\ run \in Nat /\ run <= RunCap /\ backoff = DelayAfter(run)
  BY BackoffAssumption DEF Backoffs
<1>3. PICK n \in Nat : /\ n <= RunCap /\ delay = DelayAfter(n)
                       /\ run' = MinOf(n + 1, RunCap)
  <2>1. CASE elapsed >= LONG_SESSION
    <3>1. delay = DelayAfter(0) /\ run' = MinOf(0 + 1, RunCap)
      BY <1>1, <1>2, <2>1, DelayEnds DEF MinOf
    <3>2. QED
      BY <1>2, <3>1
  <2>2. CASE ~(elapsed >= LONG_SESSION)
    BY <1>1, <1>2, <2>2
  <2>3. QED
    BY <2>1, <2>2
<1>4. DelayAfter(n) \in Nat /\ DelayAfter(n + 1) = MinOf(2 * DelayAfter(n), MAX_BACKOFF)
  BY DelayDoubles
<1> HIDE DEF delay
<1>5. CASE n < RunCap
  <2>1. run' = n + 1 /\ run' - 1 = n /\ run' \in 0 .. RunCap
    BY <1>2, <1>3, <1>5 DEF MinOf
  <2>2. backoff' = DelayAfter(n + 1) /\ left' = DelayAfter(n)
    BY <1>1, <1>3, <1>4
  <2>3. QED
    BY <2>1, <2>2 DEF Backoffs, DelayAfter, MinOf
<1>6. CASE n = RunCap
  <2>1. run' = RunCap /\ run' \in 0 .. RunCap
    BY <1>2, <1>3, <1>6 DEF MinOf
  <2>2. left' = MAX_BACKOFF
    BY <1>1, <1>3, <1>6, DelayEnds
  <2>3. backoff' = MAX_BACKOFF
    BY <1>1, <2>2, BackoffAssumption DEF MinOf
  <2>4. left' = DelayAfter(run' - 1) /\ backoff' = DelayAfter(run')
    BY <2>1, <2>2, <2>3, DelayEnds
  <2>5. QED
    BY <2>1, <2>4 DEF Backoffs, DelayAfter, MinOf
<1>7. QED
  BY <1>2, <1>3, <1>5, <1>6

\* Nothing else in the process touches the delay or starts a sleep.
LEMMA OtherBackoffs ==
  ASSUME [Next]_allVars, ~Supervise
  PROVE  UNCHANGED <<backoff, run>> /\ ~(at = "ended" /\ at' = "sleep")
<1>1. CASE SessionStep
  <2>1. UNCHANGED <<backoff, run>>
    BY <1>1 DEF SessionStep, superVars
  <2>2. CASE ConnectErr \/ ConnectOk
    BY <2>1, <2>2 DEF ConnectErr, ConnectOk, End, Listen
  <2>3. CASE FirstByte \/ ReadTimeout \/ ReadErr \/ FrameLate \/ ReadBefore \/ ReadSome
    BY <2>1, <2>3 DEF FirstByte, ReadTimeout, ReadErr, FrameLate, ReadBefore, ReadSome, End
  <2>4. CASE \E p \in MasterPdus : FrameDone(p)
    BY <2>1, <2>4 DEF FrameDone
  <2>5. CASE Handle
    BY <2>1, <2>5 DEF Handle, Opened, Registered, Refused, RegisterErr, Foreign, Answer, Reply, Written,
                      Close, CleanupSet, WriteErr, End, Listen
  <2>6. CASE MasterStep
    BY <2>1, <2>6 DEF MasterStep, MasterOpens, MasterRegisters, threadVars
  <2>7. QED
    BY <1>1, <2>2, <2>3, <2>4, <2>5, <2>6 DEF SessionStep, SessionNext, Receive
<1>2. CASE Reconnect \/ Tick
  BY <1>2 DEF Reconnect, Tick, SessionTick
<1>3. CASE MonitorStep \/ MonitorStops \/ Exit \/ Exited \/ UNCHANGED allVars
  BY <1>3 DEF MonitorStep, MonitorStops, Exit, Exited, daemonVars, allVars, sessionVars,
              superVars, threadVars
<1>4. QED
  BY <1>1, <1>2, <1>3 DEF Next, MainThread, MonitorThread

\* The supervisor's loop in main(): the n-th short session in a row is followed
\* by a sleep of 2^(n-1) initial delays, up to the cap, and a long one starts
\* again from the first.
THEOREM ReconnectTheorem == Spec => ReconnectBackoff
<1>1. Init => Backoffs
  BY DelayEnds, BackoffAssumption DEF Init, Backoffs
<1>2. Backoffs /\ [Next]_allVars => Backoffs'
  <2> SUFFICES ASSUME Backoffs, [Next]_allVars PROVE Backoffs'
    OBVIOUS
  <2>1. CASE ~Supervise
    BY <2>1, OtherBackoffs DEF Backoffs, DelayAfter, MinOf
  <2>2. QED
    BY <2>1, SuperviseBackoffs
<1>3. Backoffs /\ [Next]_allVars =>
        [(at = "ended" /\ at' = "sleep")
           => left' = MinOf(INITIAL_BACKOFF * 2^(run' - 1), MAX_BACKOFF)]_daemonVars
  BY SuperviseBackoffs, OtherBackoffs DEF DelayAfter, allVars
<1>4. QED
  BY <1>1, <1>2, <1>3, PTL DEF Spec, ReconnectBackoff

=============================================================================
