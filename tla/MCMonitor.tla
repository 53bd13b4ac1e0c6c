----------------------------- MODULE MCMonitor -----------------------------
(***************************************************************************)
(* Module Monitor for TLC: every interleaving of notifications, failures,  *)
(* losses, refused inventories and stalls up to MaxTime.                   *)
(***************************************************************************)
EXTENDS Monitor

\* The history counters saturate only where both backoffs are at their cap.
ASSUME CapAssumption == Backoff(BackoffCap - 1) = MAX_DELAY

=============================================================================
