---------------------------- MODULE MonitorLive ----------------------------
(***************************************************************************)
(* The monitor thread over unbounded time.  The code only compares and     *)
(* subtracts times, so once the clock is at MaxTime a tick moves every      *)
(* time stamp one unit into the past instead.  A stamp that reaches 0 stays *)
(* there: MaxTime exceeds every interval the code measures, so whatever is *)
(* compared with it is decided already.  The state space becomes finite     *)
(* without an end of time, which is what liveness needs.                   *)
(***************************************************************************)
EXTENDS Monitor

ASSUME HorizonAssumption ==
  MaxTime > EVENT_RESET /\ MaxTime > RECONCILE /\ MaxTime > MAX_DELAY

Older(t) == IF t = None THEN None ELSE SaturatingSub(t, 1)

\* Time passes at the horizon.
Age ==
  /\ clock = MaxTime
  /\ state' = [state EXCEPT !.retry_not_before = Older(@),
                            !.event_deadline   = Older(@),
                            !.last_event       = Older(@),
                            !.last_success     = Older(@)]
  /\ wake' = Older(wake)
  /\ hist' = [hist EXCEPT !.lastStart  = Older(@),
                          !.dirtySince = Older(@),
                          !.failedAt   = Older(@)]
  /\ UNCHANGED <<clock, pc, published>>

LiveNext == Tick \/ Age \/ Thread

(***************************************************************************)
(* Fairness.  Time passes; the thread is scheduled; subscribe() is a few   *)
(* system calls, inventory() has a deadline of three seconds and wait()    *)
(* returns at its timeout.  Nothing is assumed of what they return.        *)
(***************************************************************************)
Fairness ==
  /\ WF_vars(Tick \/ Age)
  /\ WF_vars(Top)
  /\ WF_vars(SubscribeOk \/ SubscribeErr)
  /\ WF_vars(StartInventory \/ StartWait)
  /\ WF_vars(InventoryReturns)
  /\ WF_vars(clock >= wake /\ WaitReturns)

LiveSpec == Init /\ [][LiveNext]_vars /\ Fairness

\* A kernel that does not refuse subscriptions for ever, and one that also
\* answers some of the inventories with a valid one.
Accepted ==
  /\ pc = "inventory"
  /\ \E batch \in Batches, links \in ValidLinks :
       /\ BatchValid(batch)
       /\ InventoryComplete(state.continuity, links, batch)

GoodKernel == SF_vars(SubscribeOk) /\ SF_vars(Accepted)

-----------------------------------------------------------------------------

\* Failures, refusals, losses and floods of notifications in any order never
\* stop the thread from trying again.
KeepsTrying == []<>(pc \in {"subscribe", "inventory"})

\* The table becomes available, and available again after every loss.
TableReturns == GoodKernel => []<>(published # None)

=============================================================================
