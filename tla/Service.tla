------------------------------- MODULE Service -------------------------------
(***************************************************************************)
(* The program under packaging/agentx-ifstack.service: what main() of       *)
(* src/main.rs does before it serves and with which status it exits, what   *)
(* notify::ready() of src/notify.rs tells the service manager, and what the *)
(* manager makes of both.  systemd itself is external.  Sessions are module *)
(* Daemon's; here one is registered or not.                                 *)
(***************************************************************************)
EXTENDS Config

CONSTANTS
  TimeoutStartSec,       \* a start without READY=1 is killed after this (60 s)
  RestartSec,            \* delay before an automatic restart (5 s)
  StartLimitIntervalSec, \* the window of the start limit (10 min) ...
  StartLimitBurst,       \* ... and the starts it allows (3)
  Configurations         \* contents of the configuration file

\* Wide enough to hold the start attempts it counts.
ASSUME WindowAssumption ==
  /\ TimeoutStartSec \in Nat \ {0} /\ RestartSec \in Nat \ {0}
  /\ StartLimitBurst \in Nat \ {0}
  /\ StartLimitIntervalSec \in Nat
  /\ StartLimitIntervalSec >= StartLimitBurst * (TimeoutStartSec + RestartSec)

VARIABLES
  unit,    \* "inactive", "activating", "active", "restarting" or "failed"
  left,    \* ticks until the manager acts on a unit that is activating or restarting
  window,  \* the start limit: ticks until the window closes, starts counted in it
  process, \* None, "loading", "unregistered" or "registered"
  socket,  \* NOTIFY_SOCKET: how the manager writes the address of its socket
  files    \* the configuration files

vars == <<unit, left, window, process, socket, files>>

-----------------------------------------------------------------------------

Init ==
  /\ unit = "inactive" /\ left = 0
  /\ window = [left |-> 0, count |-> 0]
  /\ process = None
  /\ socket \in {"path", "abstract"}
  /\ files \in [{DEFAULT_PATH} -> Configurations]

LimitReached == window.left > 0 /\ window.count >= StartLimitBurst

CountedInShortWindow ==
  IF window.left > 0 THEN [window EXCEPT !.count = @ + 1]
  ELSE [left |-> TimeoutStartSec, count |-> 1]

\* A start counts in the open window, or opens one.
Counted ==
  IF window.left > 0 THEN [window EXCEPT !.count = @ + 1]
  ELSE [left |-> StartLimitIntervalSec, count |-> 1]

\* ExecStart, unless the start limit is reached.
ExecStart ==
  IF LimitReached
  THEN unit' = "failed" /\ left' = 0 /\ UNCHANGED <<window, process>>
  ELSE /\ unit' = "activating" /\ left' = TimeoutStartSec
       /\ window' = Counted
       /\ process' = "loading"

SystemctlStart ==
  /\ unit \in {"inactive", "failed"}
  /\ ExecStart
  /\ UNCHANGED <<socket, files>>

SystemctlStop ==
  /\ unit # "inactive"
  /\ unit' = "inactive" /\ left' = 0 /\ process' = None
  /\ UNCHANGED <<window, socket, files>>

EditConfiguration ==
  /\ files' \in [{DEFAULT_PATH} -> Configurations]
  /\ files' # files
  /\ UNCHANGED <<unit, left, window, process, socket>>

Restart ==
  /\ unit = "restarting" /\ left = 0
  /\ ExecStart
  /\ UNCHANGED <<socket, files>>

\* Restart=on-failure, RestartPreventExitStatus=1.
Restarts(status) == status # "1"

Exit(status) ==
  /\ process' = None
  /\ IF Restarts(status) THEN unit' = "restarting" /\ left' = RestartSec
                         ELSE unit' = "failed" /\ left' = 0
  /\ UNCHANGED <<window, socket, files>>

\* SIGTERM at the end of the start timeout, which counts as a failure.
StartTimeout ==
  /\ unit = "activating" /\ left = 0
  /\ Exit("timeout")

\* A crash, or a signal that is not a clean exit.
Killed ==
  /\ process # None
  /\ Exit("signal")

Tick ==
  /\ left > 0 \/ (unit \notin {"activating", "restarting"} /\ window.left > 0)
  /\ left' = IF left > 0 THEN left - 1 ELSE 0
  /\ window' = [window EXCEPT !.left = IF @ > 0 THEN @ - 1 ELSE 0]
  /\ UNCHANGED <<unit, process, socket, files>>

-----------------------------------------------------------------------------
(***************************************************************************)
(* main().  The unit passes no arguments.                                  *)
(***************************************************************************)
Loaded == Load(<< >>, files)

\* An unusable configuration ends the process with ExitCode::FAILURE ...
LoadErr ==
  /\ process = "loading"
  /\ Loaded.action # "run"
  /\ Exit("1")

\* ... and so does a monitor thread that cannot be started.
SpawnErr ==
  /\ process = "loading"
  /\ Loaded.action = "run"
  /\ Exit("1")

\* address(): a path or an abstract name, told by the first character.
AddressPathOnly(name) == name \in {"path"}

Address(name) == name \in {"path", "abstract"}

\* ready(): the datagram reaches the manager, unless it cannot be sent.
Ready(sent) ==
  IF sent /\ Address(socket) /\ unit = "activating"
  THEN unit' = "active" /\ left' = 0
  ELSE UNCHANGED <<unit, left>>

Spawned ==
  /\ process = "loading"
  /\ Loaded.action = "run"
  /\ process' = "unregistered"
  /\ UNCHANGED <<unit, left, window, socket, files>>

\* A session registers the table and reports it; its failure is only logged.
Registered(sent) ==
  /\ process = "unregistered"
  /\ process' = "registered"
  /\ Ready(sent)
  /\ UNCHANGED <<window, socket, files>>

\* A session ends; main() starts another.
SessionEnds ==
  /\ process = "registered"
  /\ process' = "unregistered"
  /\ UNCHANGED <<unit, left, window, socket, files>>

\* run_monitor(): the monitor has stopped or panicked.
MonitorStops ==
  /\ process \in {"unregistered", "registered"}
  /\ Exit("70")

-----------------------------------------------------------------------------

Next ==
  \/ SystemctlStart \/ SystemctlStop \/ EditConfiguration
  \/ Restart \/ StartTimeout \/ Killed \/ Tick
  \/ LoadErr \/ SpawnErr \/ Spawned
  \/ Registered(TRUE) \/ Registered(FALSE) \/ SessionEnds \/ MonitorStops

(***************************************************************************)
(* Fairness.  Time passes, the manager does what is due and the process    *)
(* gets past its start.  Nobody has to start or stop anything, and no      *)
(* master has to answer.                                                   *)
(***************************************************************************)
Fairness ==
  /\ WF_vars(Tick)
  /\ WF_vars(Restart) /\ WF_vars(StartTimeout)
  /\ WF_vars(LoadErr \/ SpawnErr \/ Spawned)

Spec == Init /\ [][Next]_vars /\ Fairness

-----------------------------------------------------------------------------

\* Starts that never register do not go on for ever, whatever makes them fail
\* and however long each takes: the start limit stops them.
StartsEnd ==
  unit \in {"activating", "restarting"} ~> (unit \in {"inactive", "failed"} \/ process = "registered")

\* A start is killed although its session is registered.
KilledThoughRegistered == process = "registered" /\ StartTimeout

\* The faults and the interventions that a start cannot survive.
Disturbance ==
  \/ SystemctlStop \/ EditConfiguration \/ SpawnErr
  \/ (Killed \/ MonitorStops \/ StartTimeout) /\ ~KilledThoughRegistered
  \/ Registered(FALSE) /\ ~Registered(TRUE)

Undisturbed ==
  /\ <>[][~Disturbance]_vars
  /\ <>[](Loaded.action = "run")
  /\ WF_vars(SystemctlStart) /\ WF_vars(Registered(TRUE))

\* When the faults end, the configuration is good, a master registers the
\* table in time and somebody starts a failed unit again, the unit becomes
\* active and stays so, though sessions still come and go.
BecomesActive == Undisturbed => <>[](unit = "active")

=============================================================================
