------------------------------ MODULE Monitor ------------------------------
(***************************************************************************)
(* The topology-monitor thread: run() of src/monitor.rs over an arbitrary  *)
(* implementation of the Acquisition trait.  The thread is a loop whose    *)
(* blocking calls are control states:                                      *)
(*                                                                         *)
(*   top        about to read the clock and test for a due subscription    *)
(*   subscribe  inside source.subscribe()                                  *)
(*   check      about to read the clock and test for a due inventory       *)
(*   inventory  inside source.inventory(attempt)                           *)
(*   wait       inside source.wait(timeout), which times out at wake       *)
(*                                                                         *)
(* Time passes in every control state.  What a blocking call returns is    *)
(* the environment's choice, within what the trait's two implementations   *)
(* (the netlink adapter and the tests' controlled adapter) can return.     *)
(***************************************************************************)
EXTENDS Schedule

CONSTANTS
  Links,       \* the inventories a source can report
  ValidLinks,  \* those that Topology::from_observed accepts
  MaxTime,     \* bound on the clock
  BackoffCap   \* history counters stop here; both backoffs are at their cap

ASSUME LinksAssumption == ValidLinks \subseteq Links /\ None \notin ValidLinks

ASSUME BoundAssumption == MaxTime \in Nat /\ BackoffCap \in Nat \ {0}

VARIABLES
  clock,     \* source.now()
  pc,        \* control state of the thread
  state,     \* struct State
  wake,      \* when the current wait() times out
  published, \* the RwLock<Option<Arc<Mib>>> that AgentX sessions read
  hist       \* history: what the properties compare the code with

vars == <<clock, pc, state, wake, published, hist>>

\* A published table: the inventory it was built from and the continuity
\* generation in which that inventory was requested.
Table == [continuity : Generation, links : ValidLinks]

(***************************************************************************)
(* History.  None of it is read by the actions' guards.                    *)
(*   lastStart  when the last inventory was requested                      *)
(*   dirtySince when the oldest change notification arrived that no         *)
(*              published inventory, requested after it, covers yet; a loss *)
(*              of continuity counts as a notification of everything       *)
(*   failures   fail() calls since the last successful inventory           *)
(*   failedAt   when the last of them happened                             *)
(*   bursts     inventories requested with an event pending since the      *)
(*              event stream was last quiet for EVENT_RESET                *)
(***************************************************************************)
History ==
  [lastStart  : Option(Time),
   dirtySince : Option(Time),
   failures   : 0 .. BackoffCap,
   failedAt   : Option(Time),
   bursts     : 0 .. BackoffCap]

CappedSucc(n) == IF n < BackoffCap THEN n + 1 ELSE n

Earliest(known, at) == IF known = None THEN at ELSE known

\* No event at all before, or none for EVENT_RESET.
QuietBefore(at) ==
  state.last_event = None \/ at - state.last_event >= EVENT_RESET

BurstsAfter(batch) ==
  IF batch # NoEvents /\ BatchValid(batch) /\ QuietBefore(batch.first)
  THEN 0 ELSE hist.bursts

Failed(h) == [h EXCEPT !.failures = CappedSucc(@), !.failedAt = clock]

-----------------------------------------------------------------------------

Init ==
  /\ clock = 0
  /\ pc = "top"
  /\ state = NewState
  /\ wake = 0
  /\ published = None
  /\ hist = [lastStart |-> None, dirtySince |-> 0, failures |-> 0,
             failedAt |-> None, bursts |-> 0]

\* The monotonic clock advances whatever the thread is doing.
Tick ==
  /\ clock < MaxTime
  /\ clock' = clock + 1
  /\ UNCHANGED <<pc, state, wake, published, hist>>

TopSubscribesOnce ==
  /\ pc = "top"
  /\ pc' = IF ~state.subscribed /\ state.retry_not_before = None
           THEN "subscribe" ELSE "check"
  /\ UNCHANGED <<clock, state, wake, published, hist>>

\* Top of the loop: call subscribe() if there is no subscription and the
\* failure delay has passed.
Top ==
  /\ pc = "top"
  /\ pc' = IF ~state.subscribed /\ RetryReady(state, clock)
           THEN "subscribe" ELSE "check"
  /\ UNCHANGED <<clock, state, wake, published, hist>>

SubscribeOk ==
  /\ pc = "subscribe"
  /\ state' = [state EXCEPT !.subscribed = TRUE, !.needs_inventory = TRUE]
  /\ pc' = "check"
  /\ UNCHANGED <<clock, wake, published, hist>>

SubscribeErr ==
  /\ pc = "subscribe"
  /\ state' = Fail(state, clock)
  /\ pc' = "check"
  /\ hist' = Failed(hist)
  /\ UNCHANGED <<clock, wake, published>>

\* Second clock reading: request an inventory if one is due ...
StartInventory ==
  /\ pc = "check"
  /\ state.subscribed
  /\ AcquisitionReady(state, clock)
  /\ state' = StartAcquisition(state)
  /\ pc' = "inventory"
  /\ hist' = [hist EXCEPT
                !.lastStart = clock,
                !.bursts = IF state.event_deadline = None THEN @ ELSE CappedSucc(@)]
  /\ UNCHANGED <<clock, wake, published>>

\* ... and otherwise wait for a notification until something is due.
StartWait ==
  /\ pc = "check"
  /\ ~(state.subscribed /\ AcquisitionReady(state, clock))
  /\ wake' = NextDeadline(state, clock)
  /\ pc' = "wait"
  /\ UNCHANGED <<clock, state, published, hist>>

(***************************************************************************)
(* inventory() returns.  An inventory that is refused (an earlier          *)
(* generation, impossible timestamps, links that make no topology) counts  *)
(* as an ordinary failure.                                                 *)
(***************************************************************************)
InventoryComplete(continuity, links, batch) ==
  LET topologyOk == links \in ValidLinks
      next == AcceptInventory(state, continuity, batch, topologyOk, clock)
  IN
  /\ pc = "inventory"
  /\ pc' = "top"
  /\ IF InventoryAccepted(state, continuity, batch, topologyOk)
     THEN /\ state' = next
          /\ published' = [continuity |-> continuity, links |-> links]
          /\ hist' = [hist EXCEPT
                        !.dirtySince = batch.first,
                        !.failures = 0,
                        !.failedAt = None,
                        !.bursts = BurstsAfter(batch)]
     ELSE /\ state' = Fail(next, clock)
          /\ published' = published
          /\ hist' = Failed([hist EXCEPT
                        !.dirtySince = Earliest(@, batch.first),
                        !.bursts = IF continuity = state.continuity
                                   THEN BurstsAfter(batch) ELSE @])
  /\ UNCHANGED <<clock, wake>>

\* AcquisitionError::Ordinary: the published table stays.
InventoryOrdinary(batch) ==
  /\ pc = "inventory"
  /\ pc' = "top"
  /\ state' = Fail(RecordBatch(state, batch), clock)
  /\ hist' = Failed([hist EXCEPT
                !.dirtySince = Earliest(@, batch.first),
                !.bursts = BurstsAfter(batch)])
  /\ UNCHANGED <<clock, wake, published>>

InventoryLostKeepsTable(batch) ==
  /\ pc = "inventory"
  /\ pc' = "top"
  /\ state' = LoseContinuity(RecordBatch(state, batch), clock)
  /\ hist' = Failed([hist EXCEPT
                !.dirtySince = Earliest(Earliest(@, batch.first), clock),
                !.bursts = BurstsAfter(batch)])
  /\ UNCHANGED <<clock, wake, published>>

\* AcquisitionError::Lost: the events are kept, the table is withdrawn.
InventoryLost(batch) ==
  /\ pc = "inventory"
  /\ pc' = "top"
  /\ state' = LoseContinuity(RecordBatch(state, batch), clock)
  /\ published' = None
  /\ hist' = Failed([hist EXCEPT
                !.dirtySince = Earliest(Earliest(@, batch.first), clock),
                !.bursts = BurstsAfter(batch)])
  /\ UNCHANGED <<clock, wake>>

\* wait() returns Deadline: at its timeout, or earlier after a datagram that
\* announced no link change, which only a subscribed source can receive.
WaitDeadline ==
  /\ pc = "wait"
  /\ clock >= wake \/ state.subscribed
  /\ pc' = "top"
  /\ UNCHANGED <<clock, state, wake, published, hist>>

\* wait() returns LinkChanged(at), at being the time of the receive.
WaitLinkChanged ==
  /\ pc = "wait"
  /\ state.subscribed
  /\ pc' = "top"
  /\ state' = RecordEvent(state, clock)
  /\ hist' = [hist EXCEPT
                !.dirtySince = Earliest(@, clock),
                !.bursts = IF QuietBefore(clock) THEN 0 ELSE @]
  /\ UNCHANGED <<clock, wake, published>>

\* wait() fails: the notification stream is no longer continuous.
WaitErr ==
  /\ pc = "wait"
  /\ state.subscribed
  /\ pc' = "top"
  /\ state' = LoseContinuity(state, clock)
  /\ published' = None
  /\ hist' = Failed([hist EXCEPT !.dirtySince = Earliest(@, clock)])
  /\ UNCHANGED <<clock, wake>>

-----------------------------------------------------------------------------

\* The notifications one inventory can have seen: none, or a first and a
\* last one received since it was requested.
Batches ==
  {NoEvents} \cup
  {b \in [first : hist.lastStart .. clock, last : hist.lastStart .. clock] :
     b.first <= b.last}

\* A source echoes the attempt it was given; the tests' controlled adapter
\* can also return the generation before it.
EchoedGenerations ==
  {state.continuity, (state.continuity + GENERATIONS - 1) % GENERATIONS}

InventoryReturns ==
  /\ pc = "inventory"
  /\ \E batch \in Batches :
       \/ \E continuity \in EchoedGenerations, links \in Links :
            InventoryComplete(continuity, links, batch)
       \/ InventoryOrdinary(batch)
       \/ InventoryLost(batch)

WaitReturns == WaitDeadline \/ WaitLinkChanged \/ WaitErr

Thread ==
  \/ Top
  \/ SubscribeOk
  \/ SubscribeErr
  \/ StartInventory
  \/ StartWait
  \/ InventoryReturns
  \/ WaitReturns

Next == Tick \/ Thread

Spec == Init /\ [][Next]_vars

-----------------------------------------------------------------------------
(***************************************************************************)
(* Properties.                                                             *)
(***************************************************************************)

\* Every variable of the thread keeps its type; in particular both delays
\* stay between INITIAL_DELAY and MAX_DELAY, however often they are doubled.
TypeOK ==
  /\ clock \in Time
  /\ pc \in {"top", "subscribe", "check", "inventory", "wait"}
  /\ state \in State
  /\ wake \in Time
  /\ published \in Option(Table)
  /\ hist \in History

\* A change notification, or a loss of notifications, that no published
\* inventory covers is never forgotten: an inventory is running, or one is
\* owed at once (needs_inventory) or at a time (event_deadline).
NoForgottenEvent ==
  hist.dirtySince # None =>
    pc = "inventory" \/ state.needs_inventory \/ state.event_deadline # None

\* The loop has something to do at time t.
WorkReady(t) ==
  IF state.subscribed THEN AcquisitionReady(state, t) ELSE RetryReady(state, t)

\* No deadline computed in a run of the model lies beyond this.
Horizon == MaxTime + MAX_DELAY + RECONCILE

\* next_deadline() agrees with the tests it anticipates: an undisturbed wait
\* lasts exactly until the loop has something to do, so the thread neither
\* spins on a deadline that is not ready nor sleeps past one that is.
WakeIsExact ==
  pc = "wait" => \A t \in clock .. Horizon : t >= wake <=> WorkReady(t)

\* However notifications and failures interleave, an uncovered change waits
\* at most MAX_DELAY after it was seen or after the last failed attempt.
BoundedStaleness ==
  (pc = "wait" /\ hist.dirtySince # None) =>
    \/ wake <= clock
    \/ wake <= hist.dirtySince + MAX_DELAY
    \/ hist.failedAt # None /\ wake <= hist.failedAt + MAX_DELAY

\* A table is served only under the subscription that vouches for it: a
\* lost stream withdraws it, and an inventory requested before the loss can
\* never bring it back.
TableTracksContinuity ==
  published # None => state.subscribed /\ published.continuity = state.continuity

\* The delay after n earlier doublings, in closed form.
Backoff(n) == MinOf(INITIAL_DELAY * 2^n, MAX_DELAY)

\* Neither a reconciliation, a notification nor a new subscription reaches
\* the kernel before the exponential delay of the failures in a row is over.
FailureFloor ==
  [][(pc' # pc /\ pc' \in {"subscribe", "inventory"} /\ hist.failures > 0)
       => clock >= hist.failedAt + Backoff(hist.failures - 1)]_vars

\* An inventory requested for notifications alone respects the doubled
\* delay, which only EVENT_RESET without notifications resets.
EventBackoff ==
  [][(pc = "check" /\ pc' = "inventory" /\ ~state.needs_inventory
      /\ clock < state.last_success + RECONCILE)
       => clock >= hist.lastStart + Backoff(hist.bursts)]_vars

\* Two inventories are never requested less than INITIAL_DELAY apart,
\* whatever mix of causes requests them.
AttemptSpacing ==
  [][(pc = "check" /\ pc' = "inventory" /\ hist.lastStart # None)
       => clock >= hist.lastStart + INITIAL_DELAY]_vars

\* The publication interface that the thread implements.
Pub == INSTANCE Publication WITH
  table <- published, continuity <- state.continuity, live <- state.subscribed

\* With its clocks, delays, retries and refusals hidden, the thread only ever
\* subscribes, publishes under a live subscription, and withdraws.
ImplementsPublication == Pub!Spec

=============================================================================
