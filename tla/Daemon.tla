------------------------------- MODULE Daemon -------------------------------
(***************************************************************************)
(* The process: main() of src/main.rs.  Its main thread runs sessions for   *)
(* ever (module Session), the topology monitor replaces and withdraws the   *)
(* table they answer from (module Publication, which module Monitor         *)
(* implements), and the process ends when the monitor does.                 *)
(***************************************************************************)
EXTENDS Session

CONSTANTS
  INITIAL_BACKOFF, \* first reconnect delay (1 s)
  MAX_BACKOFF,     \* its cap (30 s)
  LONG_SESSION,    \* a session this long resets it (30 s)
  RunCap           \* the history counter stops here; the delay is at its cap

ASSUME BackoffAssumption ==
  /\ INITIAL_BACKOFF \in Nat \ {0}
  /\ MAX_BACKOFF \in Nat /\ INITIAL_BACKOFF <= MAX_BACKOFF
  /\ LONG_SESSION \in Nat \ {0}
  /\ RunCap \in Nat \ {0}

\* The delay is at its cap where the history counter stops.
ASSUME CapAssumption == INITIAL_BACKOFF * 2^(RunCap - 1) >= MAX_BACKOFF

VARIABLES
  backoff, \* delay before the next reconnect but one
  elapsed, \* started.elapsed(), up to LONG_SESSION
  monitor, \* the monitor thread: "running" or "stopped"
  process, \* "running" or "exited"
  run,     \* history: sessions since the last long one, which counts
  vouched  \* history: what the monitor vouched for since the request arrived

superVars == <<backoff, elapsed, monitor, process, run>>

daemonVars == <<sessionVars, superVars>>

allVars == <<daemonVars, vouched>>

Pub == INSTANCE Publication

MinOf(a, b) == IF a <= b THEN a ELSE b

-----------------------------------------------------------------------------

Init ==
  /\ SessionInit
  /\ Pub!Init
  /\ backoff = INITIAL_BACKOFF
  /\ elapsed = 0
  /\ monitor = "running" /\ process = "running"
  /\ run = 0
  /\ vouched = {}

\* One step of session::run(), or of the master it talks to.
SessionStep == SessionNext /\ UNCHANGED superVars

Sleep(delay) ==
  /\ at' = "sleep"
  /\ left' = delay
  /\ backoff' = MinOf(2 * delay, MAX_BACKOFF)
  /\ result' = None

SuperviseNeverResets ==
  /\ at = "ended"
  /\ Sleep(backoff)
  /\ run' = IF elapsed >= LONG_SESSION THEN 1 ELSE MinOf(run + 1, RunCap)
  /\ UNCHANGED <<stage, opened, timeout, frame, pdu, reply, ready, master, pubVars>>
  /\ UNCHANGED <<elapsed, monitor, process>>

\* run() has returned, with Ok or Err: sleep, then double the delay.
Supervise ==
  /\ at = "ended"
  /\ Sleep(IF elapsed >= LONG_SESSION THEN INITIAL_BACKOFF ELSE backoff)
  /\ run' = IF elapsed >= LONG_SESSION THEN 1 ELSE MinOf(run + 1, RunCap)
  /\ UNCHANGED <<stage, opened, timeout, frame, pdu, reply, ready, master, pubVars>>
  /\ UNCHANGED <<elapsed, monitor, process>>

\* The sleep is over; started is read again.
Reconnect ==
  /\ at = "sleep" /\ left = 0
  /\ at' = "connect"
  /\ left' = None
  /\ elapsed' = 0
  /\ UNCHANGED <<stage, opened, timeout, frame, pdu, reply, result, ready, master, pubVars>>
  /\ UNCHANGED <<backoff, monitor, process, run>>

Tick ==
  /\ SessionTick
  /\ elapsed' = MinOf(elapsed + 1, LONG_SESSION)
  /\ UNCHANGED <<backoff, monitor, process, run>>

\* The monitor thread publishes, withdraws and resubscribes ...
MonitorStep == Pub!Next /\ UNCHANGED <<threadVars, master, superVars>>

\* ... until it panics or returns.
MonitorStops ==
  /\ monitor' = "stopped"
  /\ UNCHANGED <<sessionVars, backoff, elapsed, process, run>>

\* run_monitor() ends the process with status 70.
Exit ==
  /\ monitor = "stopped" /\ process = "running"
  /\ process' = "exited"
  /\ UNCHANGED <<sessionVars, backoff, elapsed, monitor, run>>

Exited == process = "exited" /\ UNCHANGED daemonVars

Running == process = "running"

MainThread == Running /\ (SessionStep \/ Supervise \/ Reconnect)

MonitorThread == Running /\ monitor = "running" /\ (MonitorStep \/ MonitorStops)

\* The table of the live subscription, if there is one.
Current == IF live /\ table # None /\ table.continuity = continuity THEN table ELSE None

\* A request has been received and its reply is not written yet.
Answering == stage = "serve" /\ at \in {"handle", "write"}

\* Every step records what is vouched for while a request is answered.
Watch == vouched' = IF Answering' THEN vouched \cup {Current'} ELSE {}

Next ==
  \/ MainThread /\ Watch
  \/ Running /\ Tick /\ Watch
  \/ MonitorThread /\ Watch
  \/ Exit /\ Watch
  \/ Exited /\ Watch

(***************************************************************************)
(* Fairness.  Time passes, the two threads are scheduled, connect() and     *)
(* write() return, a read returns at its timeout.  Nothing is assumed of    *)
(* the master: it may stay silent or send a frame byte by byte.             *)
(***************************************************************************)
Fairness ==
  /\ WF_daemonVars(Running /\ Tick)
  /\ WF_daemonVars(Running /\ (ConnectOk \/ ConnectErr) /\ UNCHANGED superVars)
  /\ WF_daemonVars(Running /\ (ReadTimeout \/ FrameLate \/ ReadBefore) /\ UNCHANGED superVars)
  /\ WF_daemonVars(Running /\ Handle /\ UNCHANGED superVars)
  /\ WF_daemonVars(Running /\ (Supervise \/ Reconnect))
  /\ WF_daemonVars(Exit)

Spec == Init /\ [][Next]_allVars /\ Fairness

-----------------------------------------------------------------------------

\* The table is served, and readiness announced, only in a session that the
\* master opened and for which it registered the table, whatever it rejects,
\* repeats or misaddresses before.
RegistrationIsReal ==
  [][(stage' = "serve" \/ ready' # ready)
       => master'.registered /\ master'.session = opened']_daemonVars

\* receive() shortens the read timeout for the rest of a frame.  Between
\* frames it is what it was: none for a registered session, which may stay
\* idle for ever, and IO_TIMEOUT during the handshake, which may not.
IdleTimeoutRestored ==
  at = "idle" => timeout = IF stage = "serve" THEN None ELSE IO_TIMEOUT

\* The session never waits for a frame while the master waits for an answer.
AnswersEveryRequest == stage = "serve" /\ at = "idle" => ~master.awaiting

\* run() returns Ok only when the master closed this session: a Close that
\* belongs to another one is answered and the table stays registered.
ClosedByMaster ==
  [][(at # "ended" /\ at' = "ended" /\ result' = "ok") => master.closed]_daemonVars

\* dispatch() copies the table, and the reply is written after the lock is
\* released: the monitor may replace or withdraw the table meanwhile.  A reply
\* never comes from a table that was withdrawn before the request arrived,
\* however, nor says that there is none unless there was none: it tells what
\* the live subscription vouched for at an instant since then.
AnswersAreCurrent ==
  at = "write" =>
    /\ reply.vb # None => reply.vb \in vouched
    /\ reply.error = "processingError" => None \in vouched

\* The n-th session in a row that was short, or that follows a long one, is
\* followed by a sleep of 2^(n-1) initial delays, up to the cap.
ReconnectBackoff ==
  [][(at = "ended" /\ at' = "sleep")
       => left' = MinOf(INITIAL_BACKOFF * 2^(run' - 1), MAX_BACKOFF)]_daemonVars

\* A frame that has begun is received or given up, though the master sends it
\* byte by byte and reads are interrupted.
FrameEnds ==
  at \in {"top", "read"} ~> (at \notin {"top", "read"} \/ process = "exited")

\* A master that refuses, hangs up or falls silent in the handshake does not
\* keep the daemon from trying again.
Reconnects ==
  stage # "serve" ~> (at = "connect" \/ stage = "serve" \/ process = "exited")

\* Nothing holds the process for ever: no frame and no handshake.
NeverHangs == FrameEnds /\ Reconnects

-----------------------------------------------------------------------------
(***************************************************************************)
(* A master that comes back: it opens and registers what it is asked to,   *)
(* begins its answers in the handshake, and does not split every answer up *)
(* until its time is over.  Once a session is registered it may ask        *)
(* whatever it likes, or nothing for ever.                                 *)
(***************************************************************************)
Handshaking == Running /\ stage # "serve" /\ UNCHANGED superVars

Acknowledges ==
  \E p \in MasterPdus :
    /\ p = Response(master.session, IF stage = "open" THEN 1 ELSE 2, "plain")
    /\ FrameDone(p)

MasterFairness ==
  /\ WF_daemonVars(MasterStep /\ Handshaking)
  /\ WF_daemonVars(FirstByte /\ Handshaking)
  /\ SF_daemonVars(Acknowledges /\ Handshaking)

\* An idle session ends at a read timeout, which it should not have.
IdleTimeout == stage = "serve" /\ at = "idle" /\ ReadTimeout

\* The frame is what the master has to answer, by its own record: refusing it
\* is the session's mistake.
GoodAnswer ==
  pdu = Response(master.session, IF stage = "open" THEN 1 ELSE 2, "plain")

\* What ends a session that is not the daemon's own doing: system calls that
\* fail, a master that closes the session, sends a bad acknowledgement or PDU
\* or does not finish a frame.
Fault ==
  \/ ConnectErr \/ RegisterErr \/ WriteErr \/ Close \/ FrameLate
  \/ Refused /\ ~GoodAnswer
  \/ (ReadTimeout \/ ReadErr) /\ ~IdleTimeout
  \/ CleanupSet /\ at' = "ended"

\* When the master is back and the faults end, a session registers the table
\* and keeps serving it: no delay, timeout or id left over from earlier
\* sessions or frames keeps the daemon from it, and a session is not ended for
\* being idle.
ServesAgain ==
  MasterFairness /\ <>[][~Fault]_daemonVars
    => <>[](stage = "serve" \/ process = "exited")

=============================================================================
