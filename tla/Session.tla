------------------------------ MODULE Session ------------------------------
(***************************************************************************)
(* One AgentX session: run() of src/session.rs with the helpers it calls.  *)
(* Where the thread is:                                                    *)
(*                                                                         *)
(*   connect  in UnixStream::connect or in the write of the Open PDU        *)
(*   idle     in receive(), reading the first byte of a frame               *)
(*   top      in read_before(), at the top of its loop                      *)
(*   read     in read_before(), in stream.read()                            *)
(*   handle   a whole frame was received and is not dispatched yet          *)
(*   write    in the write of a reply                                       *)
(*   ended    run() has returned                                            *)
(*                                                                         *)
(* and what it waits for (stage): the answer to Open, the answer to         *)
(* Register, or requests to serve.  Time is relative: timeouts and budgets  *)
(* are the ticks that are left of them.                                     *)
(*                                                                         *)
(* The master is external.  It may reject, send anything in serve stage     *)
(* and repeat or misaddress acknowledgements, but it acknowledges nothing   *)
(* that it has not done.                                                    *)
(***************************************************************************)
EXTENDS Integers

CONSTANTS
  IO_TIMEOUT,  \* of reads, writes and whole frames (5 s)
  SessionIds,  \* session ids the master can assign
  ValidLinks,  \* the inventories that make a table (module Publication)
  GENERATIONS,
  None

ASSUME TimeoutAssumption == IO_TIMEOUT \in Nat \ {0}

ASSUME SessionAssumption == None \notin SessionIds /\ None \notin Int

ASSUME StreamAssumption == GENERATIONS \in Nat \ {0}

VARIABLES
  at, stage,
  opened,   \* opened.session_id
  timeout,  \* read timeout of the stream, None if there is none
  left,     \* what is left of the timeout of the blocking call
  frame,    \* locals of receive(), None outside a frame
  pdu,      \* the frame received
  reply,    \* the reply being written
  result,   \* what run() returned
  ready,    \* READY=1 has reached the service manager
  master,   \* what the master knows of this connection
  table, continuity, live \* the publication, as in module Publication

threadVars == <<at, stage, opened, timeout, left, frame, pdu, reply, result, ready>>

pubVars == <<table, continuity, live>>

sessionVars == <<threadVars, master, pubVars>>

Option(S) == S \cup {None}

Ticks == 0 .. IO_TIMEOUT

\* receive(): the timeout to restore, what is left of the frame's budget, and
\* the part of the frame being read.
Frame == [idle : Option(Ticks), budget : Ticks, part : {"header", "payload"}]

\* "Get" stands for Get, GetNext and GetBulk, "Other" for the types that
\* dispatch() does not know.
Requests == {"Get", "TestSet", "CommitSet", "UndoSet", "CleanupSet", "Ping", "Close", "Other"}

\* What is special about a PDU: nothing, a non-default context, a TestSet
\* without bindings, or a payload that is refused (malformed, too long an
\* OID, not empty).  A refused Response is short or reports an error.
Bodies == {"plain", "context", "empty", "refused"}

Pdu == [ty : Requests \cup {"Response"}, session : SessionIds, packet : {0, 1, 2}, body : Bodies]

Request(ty, session, body) == [ty |-> ty, session |-> session, packet |-> 0, body |-> body]

Response(session, packet, body) ==
  [ty |-> "Response", session |-> session, packet |-> packet, body |-> body]

Table == [continuity : 0 .. GENERATIONS - 1, links : ValidLinks]

\* A reply's error and the table its bindings come from, if any.
Errors == {"noError", "notOpen", "parseError", "unsupportedContext", "processingError",
           "requestDenied", "notWritable", "commitFailed", "undoFailed"}

Replies == [error : Errors, vb : Option(Table)]

\* The master assigned this session id, registered the table for it, has
\* closed it, and waits for an answer to its last request.
Master == [session : Option(SessionIds), registered : BOOLEAN,
           closed : BOOLEAN, awaiting : BOOLEAN]

NewMaster == [session |-> None, registered |-> FALSE, closed |-> FALSE, awaiting |-> FALSE]

\* None is none of them.
ASSUME AbsenceAssumption ==
  None \notin Frame /\ None \notin Pdu /\ None \notin Replies

-----------------------------------------------------------------------------

SessionInit ==
  /\ at = "connect" /\ stage = "open"
  /\ opened = None /\ timeout = None /\ left = None
  /\ frame = None /\ pdu = None /\ reply = None
  /\ result = None /\ ready = FALSE
  /\ master = NewMaster

\* run() returns and the stream is dropped.
End(outcome) ==
  /\ result' = outcome
  /\ at' = "ended" /\ stage' = "open"
  /\ opened' = None /\ timeout' = None /\ left' = None
  /\ frame' = None /\ pdu' = None /\ reply' = None
  /\ master' = NewMaster
  /\ UNCHANGED <<ready, pubVars>>

\* Back in receive(), waiting for the first byte under the read timeout t.
Listen(t) ==
  /\ at' = "idle"
  /\ timeout' = t
  /\ left' = t
  /\ pdu' = None

ConnectErr == at = "connect" /\ End("err")

\* Open is sent with packet id 1.
ConnectOk ==
  /\ at = "connect"
  /\ Listen(IO_TIMEOUT)
  /\ UNCHANGED <<stage, opened, frame, reply, result, ready, master, pubVars>>

(***************************************************************************)
(* receive(), read_before().                                               *)
(***************************************************************************)
FirstByte ==
  /\ at = "idle"
  /\ at' = "top"
  /\ frame' = [idle |-> timeout, budget |-> IO_TIMEOUT, part |-> "header"]
  /\ left' = None
  /\ UNCHANGED <<stage, opened, timeout, pdu, reply, result, ready, master, pubVars>>

\* A blocking read ends at its timeout ...
ReadTimeout == at \in {"idle", "read"} /\ left = 0 /\ End("err")

\* ... and fails at any time: end of file, a socket error, a bad header.
ReadErr == at \in {"idle", "read"} /\ End("err")

FrameLate == at = "top" /\ frame.budget = 0 /\ End("err")

ReadBeforeRestartsBudget ==
  /\ at = "top"
  /\ at' = "read"
  /\ timeout' = IO_TIMEOUT
  /\ left' = IO_TIMEOUT
  /\ UNCHANGED <<stage, opened, frame, pdu, reply, result, ready, master, pubVars>>

ReadBeforeAfterDeadline ==
  /\ at = "top"
  /\ at' = "read"
  /\ timeout' = frame.budget
  /\ left' = frame.budget
  /\ UNCHANGED <<stage, opened, frame, pdu, reply, result, ready, master, pubVars>>

\* The rest of the budget becomes the stream's read timeout.
ReadBefore ==
  /\ at = "top"
  /\ frame.budget > 0
  /\ at' = "read"
  /\ timeout' = frame.budget
  /\ left' = frame.budget
  /\ UNCHANGED <<stage, opened, frame, pdu, reply, result, ready, master, pubVars>>

\* Some of the bytes, or an interrupted call; or the header is complete.
ReadSome ==
  /\ at = "read"
  /\ at' = "top"
  /\ left' = None
  /\ \/ UNCHANGED frame
     \/ frame.part = "header" /\ frame' = [frame EXCEPT !.part = "payload"]
  /\ UNCHANGED <<stage, opened, timeout, pdu, reply, result, ready, master, pubVars>>

\* What the master can send now.
MasterPdus ==
  {Response(s, p, "refused") : s \in SessionIds, p \in {1, 2}}
  \cup {Response(s, 1, "plain") : s \in SessionIds \cap {master.session}}
  \cup {Response(s, 2, "plain") :
          s \in {s \in SessionIds : s = master.session => master.registered}}
  \cup {Request(ty, s, body) : ty \in Requests, s \in SessionIds, body \in Bodies}

FrameDoneKeepsTimeout(p) ==
  /\ at = "read"
  /\ at' = "handle"
  /\ frame' = None
  /\ left' = None
  /\ pdu' = p
  /\ master' = [master EXCEPT
                  !.awaiting = p.ty \notin {"Response", "CleanupSet"},
                  !.closed = @ \/ (p.ty = "Close" /\ p.session = master.session)]
  /\ UNCHANGED <<stage, opened, timeout, reply, result, ready, pubVars>>

\* The last bytes of the header, if there is no payload, or of the payload:
\* the deadline is not tested again.
FrameDone(p) ==
  /\ at = "read"
  /\ at' = "handle"
  /\ timeout' = frame.idle
  /\ frame' = None
  /\ left' = None
  /\ pdu' = p
  /\ master' = [master EXCEPT
                  !.awaiting = p.ty \notin {"Response", "CleanupSet"},
                  !.closed = @ \/ (p.ty = "Close" /\ p.session = master.session)]
  /\ UNCHANGED <<stage, opened, reply, result, ready, pubVars>>

(***************************************************************************)
(* The handshake.                                                          *)
(***************************************************************************)
AcknowledgedWithoutPacket(packet) ==
  /\ pdu.ty = "Response"
  /\ stage = "open" \/ pdu.session = opened
  /\ pdu.body = "plain"

\* acknowledge() returns Ok.
Acknowledged(packet) ==
  /\ pdu.ty = "Response"
  /\ pdu.packet = packet
  /\ stage = "open" \/ pdu.session = opened
  /\ pdu.body = "plain"

\* Register is sent with packet id 2.
Opened ==
  /\ at = "handle" /\ stage = "open"
  /\ Acknowledged(1)
  /\ stage' = "register"
  /\ opened' = pdu.session
  /\ Listen(timeout)
  /\ UNCHANGED <<frame, reply, result, ready, master, pubVars>>

\* The read timeout is lifted and the service manager told, if it can be.
Registered ==
  /\ at = "handle" /\ stage = "register"
  /\ Acknowledged(2)
  /\ stage' = "serve"
  /\ ready' \in {ready, TRUE}
  /\ Listen(None)
  /\ UNCHANGED <<opened, frame, reply, result, master, pubVars>>

\* The answer is not the acknowledgement ...
Refused ==
  /\ at = "handle"
  /\ \/ stage = "open" /\ ~Acknowledged(1)
     \/ stage = "register" /\ ~Acknowledged(2)
  /\ End("err")

\* ... or it is, and Register cannot be written.
RegisterErr ==
  /\ at = "handle" /\ stage = "open"
  /\ Acknowledged(1)
  /\ End("err")

(***************************************************************************)
(* Serving.                                                                *)
(***************************************************************************)
Result(error) == [error |-> error, vb |-> None]

\* dispatch(), in the order of its tests.
Dispatch ==
  IF pdu.body = "context" THEN Result("unsupportedContext")
  ELSE IF pdu.ty \in {"Other", "Response"} THEN Result("requestDenied")
  ELSE IF pdu.body = "refused" THEN Result("parseError")
  ELSE CASE pdu.ty = "Get"       -> IF table = None THEN Result("processingError")
                                    ELSE [error |-> "noError", vb |-> table]
         [] pdu.ty = "TestSet"   -> Result(IF pdu.body = "empty" THEN "noError"
                                           ELSE "notWritable")
         [] pdu.ty = "CommitSet" -> Result("commitFailed")
         [] pdu.ty = "UndoSet"   -> Result("undoFailed")
         [] pdu.ty = "Ping"      -> Result("noError")

Serving == at = "handle" /\ stage = "serve"

\* The reply is made; the lock of the table is released before it is written.
Reply(response) ==
  /\ at' = "write"
  /\ reply' = response
  /\ pdu' = None
  /\ UNCHANGED <<stage, opened, timeout, left, frame, result, ready, master, pubVars>>

Foreign ==
  /\ Serving
  /\ pdu.session # opened
  /\ Reply(Result("notOpen"))

\* Answered and ended with Ok, or ended with Err if it does not parse.
Close ==
  /\ Serving
  /\ pdu.session = opened
  /\ pdu.ty = "Close"
  /\ End(IF pdu.body = "refused" THEN "err" ELSE "ok")

CleanupSet ==
  /\ Serving
  /\ pdu.session = opened
  /\ pdu.ty = "CleanupSet"
  /\ \/ /\ pdu.body = "refused"
        /\ End("err")
     \/ /\ pdu.body # "refused"
        /\ Listen(timeout)
        /\ UNCHANGED <<stage, opened, frame, reply, result, ready, master, pubVars>>

AnswerDropsUnparsed ==
  /\ Serving
  /\ pdu.session = opened
  /\ pdu.ty \notin {"Close", "CleanupSet"}
  /\ IF Dispatch.error = "parseError"
     THEN /\ Listen(timeout)
          /\ UNCHANGED <<stage, opened, frame, reply, result, ready, master, pubVars>>
     ELSE Reply(Dispatch)

Answer ==
  /\ Serving
  /\ pdu.session = opened
  /\ pdu.ty \notin {"Close", "CleanupSet"}
  /\ Reply(Dispatch)

\* write_all(), and the loop goes on.
Written ==
  /\ at = "write"
  /\ reply' = None
  /\ master' = [master EXCEPT !.awaiting = FALSE]
  /\ Listen(timeout)
  /\ UNCHANGED <<stage, opened, frame, result, ready, pubVars>>

\* The reply, to Close too, cannot be written within the write timeout.
WriteErr ==
  /\ \/ at = "write"
     \/ Serving /\ pdu.session = opened /\ pdu.ty = "Close" /\ pdu.body # "refused"
  /\ End("err")

-----------------------------------------------------------------------------
(***************************************************************************)
(* The master's own steps, and time.                                       *)
(***************************************************************************)
MasterOpens ==
  /\ stage = "open" /\ at \notin {"connect", "ended"}
  /\ master.session = None
  /\ \E s \in SessionIds : master' = [master EXCEPT !.session = s]
  /\ UNCHANGED <<threadVars, pubVars>>

MasterRegisters ==
  /\ stage = "register" /\ opened = master.session
  /\ ~master.registered
  /\ master' = [master EXCEPT !.registered = TRUE]
  /\ UNCHANGED <<threadVars, pubVars>>

MasterStep == MasterOpens \/ MasterRegisters

Sooner(t) == IF t = None \/ t = 0 THEN t ELSE t - 1

SessionTick ==
  /\ left' = Sooner(left)
  /\ frame' = IF frame = None THEN None ELSE [frame EXCEPT !.budget = Sooner(@)]
  /\ UNCHANGED <<at, stage, opened, timeout, pdu, reply, result, ready, master, pubVars>>

Handle ==
  \/ Opened \/ Registered \/ Refused \/ RegisterErr
  \/ Foreign \/ Close \/ CleanupSet \/ Answer \/ Written \/ WriteErr

Receive ==
  \/ FirstByte \/ ReadTimeout \/ ReadErr \/ FrameLate \/ ReadBefore \/ ReadSome
  \/ \E p \in MasterPdus : FrameDone(p)

SessionNext == ConnectErr \/ ConnectOk \/ Receive \/ Handle \/ MasterStep

-----------------------------------------------------------------------------

\* Every variable of the session keeps its type.
SessionTypeOK ==
  /\ at \in {"connect", "idle", "top", "read", "handle", "write", "ended", "sleep"}
  /\ stage \in {"open", "register", "serve"}
  /\ opened \in Option(SessionIds)
  /\ timeout \in Option(Ticks) /\ timeout # 0
  /\ frame \in Option(Frame)
  /\ pdu \in Option(Pdu)
  /\ reply \in Option(Replies)
  /\ result \in Option({"ok", "err"})
  /\ ready \in BOOLEAN
  /\ master \in Master
  /\ at \in {"top", "read"} <=> frame # None
  /\ at = "handle" <=> pdu # None
  /\ at = "write" <=> reply # None

=============================================================================
