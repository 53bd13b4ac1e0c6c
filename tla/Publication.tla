---------------------------- MODULE Publication ----------------------------
(***************************************************************************)
(* What the topology monitor promises to AgentX sessions, without clocks,  *)
(* delays or failures: the RwLock<Option<Arc<Mib>>> behind TableReader and *)
(* TablePublisher (src/monitor.rs) holds either nothing or a table built   *)
(* from an inventory that was requested under the current subscription to  *)
(* link notifications.  An ordinary acquisition failure is a stutter.      *)
(***************************************************************************)
EXTENDS Integers

CONSTANTS
  ValidLinks,  \* the inventories that make a topology
  GENERATIONS, \* the continuity counter wraps at this value
  None

VARIABLES
  table,       \* what TableReader::snapshot returns
  continuity,  \* generation of the notification stream
  live         \* the stream of this generation is subscribed

pubVars == <<table, continuity, live>>

Init ==
  /\ table = None
  /\ continuity = 0
  /\ live = FALSE

\* The notification stream of this generation begins.
Subscribe ==
  /\ ~live
  /\ live' = TRUE
  /\ UNCHANGED <<table, continuity>>

\* TablePublisher::publish.
Publish ==
  /\ live
  /\ \E links \in ValidLinks :
       table' = [continuity |-> continuity, links |-> links]
  /\ UNCHANGED <<continuity, live>>

WithdrawKeepsTable ==
  /\ live
  /\ continuity' = (continuity + 1) % GENERATIONS
  /\ live' = FALSE
  /\ UNCHANGED table

\* TablePublisher::unavailable, when notifications may have been lost.
Withdraw ==
  /\ live
  /\ table' = None
  /\ continuity' = (continuity + 1) % GENERATIONS
  /\ live' = FALSE

Next == Subscribe \/ Publish \/ Withdraw

Spec == Init /\ [][Next]_pubVars

=============================================================================
