------------------------------ MODULE Schedule ------------------------------
(***************************************************************************)
(* The scheduling state of the topology monitor: struct State of           *)
(* src/monitor.rs, one operator per method.  A method that takes            *)
(* &mut self is an operator from the old state to the new one, so that the *)
(* run loop (module Monitor) can apply several of them in one step.        *)
(*                                                                         *)
(* A Duration since the source's origin is a natural number of ticks and   *)
(* Option<Duration> is a number or None.  Duration saturates only after    *)
(* 2^64 seconds, so saturating_add is +.                                   *)
(***************************************************************************)
EXTENDS Integers

CONSTANTS
  INITIAL_DELAY, \* first event or failure delay (1 s in the code)
  MAX_DELAY,     \* cap of both delays (30 s)
  EVENT_RESET,   \* quiet period that resets the event delay (60 s)
  RECONCILE,     \* the configured reconciliation interval
  GENERATIONS,   \* the continuity counter wraps at this value (2^64)
  None           \* Rust's Option::None

ASSUME DelayAssumption ==
  /\ INITIAL_DELAY \in Nat \ {0}
  /\ MAX_DELAY \in Nat
  /\ INITIAL_DELAY <= MAX_DELAY

ASSUME ResetAssumption == EVENT_RESET \in Nat \ {0}

\* config.rs refuses reconcile = 0, and its unit is the initial delay's.
ASSUME ReconcileAssumption == RECONCILE \in Nat /\ RECONCILE >= INITIAL_DELAY

ASSUME GenerationsAssumption == GENERATIONS \in Nat /\ GENERATIONS >= 2

ASSUME NoneAssumption == None \notin Int

Time == Nat

Option(S) == S \cup {None}

Delay == INITIAL_DELAY .. MAX_DELAY

Generation == 0 .. GENERATIONS - 1

State ==
  [continuity       : Generation,
   subscribed       : BOOLEAN,
   needs_inventory  : BOOLEAN,
   retry_not_before : Option(Time),
   failure_delay    : Delay,
   event_deadline   : Option(Time),
   event_delay      : Delay,
   last_event       : Option(Time),
   last_success     : Option(Time)]

\* First and last notification seen while one inventory was running.
EventBatch == [first : Option(Time), last : Option(Time)]

NoEvents == [first |-> None, last |-> None]

-----------------------------------------------------------------------------

MinOf(a, b) == IF a <= b THEN a ELSE b

MaxOf(a, b) == IF a >= b THEN a ELSE b

SaturatingSub(a, b) == IF a >= b THEN a - b ELSE 0

(***************************************************************************)
(* An operator whose name says what it gets wrong (Uncapped, Postpones,    *)
(* Drops...) is a plausible mistake in the definition that follows it.     *)
(* The specification does not use it; PROJECT.json names the property that *)
(* fails when it replaces the correct definition.                          *)
(***************************************************************************)
NextDelayUncapped(delay) == 2 * delay

NextDelay(delay) == MinOf(2 * delay, MAX_DELAY)

NewState ==
  [continuity       |-> 0,
   subscribed       |-> FALSE,
   needs_inventory  |-> TRUE,
   retry_not_before |-> None,
   failure_delay    |-> INITIAL_DELAY,
   event_deadline   |-> None,
   event_delay      |-> INITIAL_DELAY,
   last_event       |-> None,
   last_success     |-> None]

RetryReady(s, now) ==
  s.retry_not_before # None => now >= s.retry_not_before

AcquisitionReadyBypassesFailure(s, now) ==
  \/ s.needs_inventory /\ RetryReady(s, now)
  \/ s.event_deadline # None /\ now >= s.event_deadline
  \/ s.last_success # None /\ now >= s.last_success + RECONCILE

AcquisitionReadyOnAnyEvent(s, now) ==
  /\ RetryReady(s, now)
  /\ \/ s.needs_inventory
     \/ s.event_deadline # None
     \/ s.last_success # None /\ now >= s.last_success + RECONCILE

AcquisitionReadyNeedsTrigger(s, now) ==
  /\ RetryReady(s, now)
  /\ \/ s.event_deadline # None /\ now >= s.event_deadline
     \/ s.last_success # None /\ now >= s.last_success + RECONCILE

AcquisitionReady(s, now) ==
  /\ RetryReady(s, now)
  /\ \/ s.needs_inventory
     \/ s.event_deadline # None /\ now >= s.event_deadline
     \/ s.last_success # None /\ now >= s.last_success + RECONCILE

StartAcquisitionKeepsDelay(s) ==
  [s EXCEPT !.needs_inventory = FALSE, !.event_deadline = None]

StartAcquisition(s) ==
  [s EXCEPT
     !.needs_inventory = FALSE,
     !.event_deadline  = None,
     !.event_delay     = IF s.event_deadline = None THEN @ ELSE NextDelay(@)]

RecordEventPostpones(s, at) ==
  [s EXCEPT !.last_event = at, !.event_deadline = at + s.event_delay]

RecordEvent(s, at) ==
  LET quiet == \/ s.last_event = None
               \/ SaturatingSub(at, s.last_event) >= EVENT_RESET
      delay == IF quiet THEN INITIAL_DELAY ELSE s.event_delay
  IN [s EXCEPT
        !.event_delay    = delay,
        !.last_event     = at,
        !.event_deadline = IF @ = None THEN at + delay ELSE @]

\* The timestamps record_batch accepts; the other batches are its Err.
BatchValid(batch) ==
  \/ batch = NoEvents
  \/ /\ batch.first # None
     /\ batch.last # None
     /\ batch.first <= batch.last
     /\ batch.last - batch.first < EVENT_RESET

\* An invalid batch changes nothing.
RecordBatch(s, batch) ==
  IF batch = NoEvents \/ ~BatchValid(batch)
  THEN s
  ELSE LET once == RecordEvent(s, batch.first)
       IN IF batch.first = batch.last THEN once
                                      ELSE RecordEvent(once, batch.last)

InventoryAcceptedWhenStale(s, continuity, batch, topologyOk) ==
  BatchValid(batch) /\ topologyOk

\* accept_inventory returns Ok, given whether Topology::from_observed does.
InventoryAccepted(s, continuity, batch, topologyOk) ==
  continuity = s.continuity /\ BatchValid(batch) /\ topologyOk

AcceptInventoryDropsEvents(s, continuity, batch, topologyOk, now) ==
  IF InventoryAccepted(s, continuity, batch, topologyOk)
  THEN [s EXCEPT !.retry_not_before = None,
                 !.failure_delay = INITIAL_DELAY,
                 !.last_success = now]
  ELSE s

\* What accept_inventory leaves behind, whether it returns Ok or Err: the
\* events of a current inventory are recorded even when its links are refused.
AcceptInventory(s, continuity, batch, topologyOk, now) ==
  LET recorded == IF continuity = s.continuity THEN RecordBatch(s, batch) ELSE s
  IN IF InventoryAccepted(s, continuity, batch, topologyOk)
     THEN [recorded EXCEPT
             !.retry_not_before = None,
             !.failure_delay    = INITIAL_DELAY,
             !.last_success     = now]
     ELSE recorded

Fail(s, now) ==
  [s EXCEPT
     !.needs_inventory  = TRUE,
     !.retry_not_before = now + s.failure_delay,
     !.failure_delay    = NextDelay(@)]

\* The publisher's part of lose_continuity is in module Monitor.
LoseContinuity(s, now) ==
  Fail([s EXCEPT
          !.continuity      = (@ + 1) % GENERATIONS,
          !.subscribed      = FALSE,
          !.needs_inventory = TRUE],
       now)

NextDeadlineIgnoresFailure(s, now) ==
  IF ~s.subscribed \/ s.needs_inventory \/ s.last_success = None THEN now
  ELSE MaxOf(IF s.event_deadline = None THEN s.last_success + RECONCILE
             ELSE MinOf(s.event_deadline, s.last_success + RECONCILE), now)

NextDeadline(s, now) ==
  IF s.retry_not_before # None THEN MaxOf(s.retry_not_before, now)
  ELSE IF ~s.subscribed \/ s.needs_inventory THEN now
  ELSE LET reconcile == IF s.last_success = None THEN now
                        ELSE s.last_success + RECONCILE
           due == IF s.event_deadline = None THEN reconcile
                  ELSE MinOf(s.event_deadline, reconcile)
       IN MaxOf(due, now)

=============================================================================
