--------------------------- MODULE MonitorProofs ---------------------------
(***************************************************************************)
(* Proofs about the monitor thread, for every choice of the delays, the    *)
(* reconciliation interval, the inventories and the bounds.                *)
(***************************************************************************)
EXTENDS Monitor, FiniteSetTheorems, TLAPS

-----------------------------------------------------------------------------
(***************************************************************************)
(* The methods of struct State, field by field.                            *)
(***************************************************************************)

\* next_delay keeps a delay between its first value and its cap.
LEMMA NextDelayType ==
  ASSUME NEW d \in Delay
  PROVE  NextDelay(d) \in Delay
BY DelayAssumption DEF Delay, NextDelay, MinOf

\* What record_event does.
LEMMA RecordEventFacts ==
  ASSUME NEW s \in State, NEW at \in Time
  PROVE  LET r == RecordEvent(s, at) IN
         /\ r \in State
         /\ r.continuity = s.continuity
         /\ r.subscribed = s.subscribed
         /\ r.needs_inventory = s.needs_inventory
         /\ r.retry_not_before = s.retry_not_before
         /\ r.failure_delay = s.failure_delay
         /\ r.last_success = s.last_success
         /\ s.event_deadline # None => r.event_deadline = s.event_deadline
         /\ s.event_deadline = None =>
              /\ r.event_deadline \in Time
              /\ r.event_deadline >= at + INITIAL_DELAY
              /\ r.event_deadline <= at + MAX_DELAY
<1> DEFINE delay == IF \/ s.last_event = None
                       \/ SaturatingSub(at, s.last_event) >= EVENT_RESET
                    THEN INITIAL_DELAY ELSE s.event_delay
<1>1. delay \in Delay /\ delay \in Nat
  BY DelayAssumption DEF State, Delay
<1>2. RecordEvent(s, at) = [s EXCEPT !.event_delay = delay,
                                     !.last_event = at,
                                     !.event_deadline = IF @ = None THEN at + delay ELSE @]
  BY DEF RecordEvent
<1>3. delay >= INITIAL_DELAY /\ delay <= MAX_DELAY
  BY <1>1, DelayAssumption DEF Delay
<1>4. at + delay \in Time /\ at \in Option(Time)
  BY <1>1 DEF Time, Option
<1> HIDE DEF delay
<1> DEFINE r == RecordEvent(s, at)
<1>5. r \in State
  BY <1>1, <1>2, <1>4 DEF State, Option
<1>6. /\ r.continuity = s.continuity
      /\ r.subscribed = s.subscribed
      /\ r.needs_inventory = s.needs_inventory
      /\ r.retry_not_before = s.retry_not_before
      /\ r.failure_delay = s.failure_delay
      /\ r.last_success = s.last_success
      /\ r.event_deadline = IF s.event_deadline = None THEN at + delay
                            ELSE s.event_deadline
  BY <1>2 DEF State
<1> HIDE DEF r
<1>7. at + delay >= at + INITIAL_DELAY /\ at + delay <= at + MAX_DELAY
  BY <1>1, <1>3, DelayAssumption DEF Time
<1>8. QED
  BY <1>4, <1>5, <1>6, <1>7 DEF r

\* What fail does.
LEMMA FailFacts ==
  ASSUME NEW s \in State, NEW now \in Time
  PROVE  LET r == Fail(s, now) IN
         /\ r \in State
         /\ r.continuity = s.continuity
         /\ r.subscribed = s.subscribed
         /\ r.needs_inventory = TRUE
         /\ r.retry_not_before \in Time
         /\ r.retry_not_before >= now + INITIAL_DELAY
         /\ r.retry_not_before <= now + MAX_DELAY
         /\ r.event_deadline = s.event_deadline
         /\ r.last_success = s.last_success
<1>1. s.failure_delay \in Delay /\ NextDelay(s.failure_delay) \in Delay
  BY NextDelayType DEF State
<1>2. s.failure_delay \in Nat /\ s.failure_delay >= INITIAL_DELAY
      /\ s.failure_delay <= MAX_DELAY
  BY <1>1, DelayAssumption DEF Delay
<1>3. now + s.failure_delay \in Time
  BY <1>2 DEF Time
<1> DEFINE r == Fail(s, now)
<1>4. r \in State
  BY <1>1, <1>3 DEF State, Fail, Option
<1>5. /\ r.continuity = s.continuity
      /\ r.subscribed = s.subscribed
      /\ r.needs_inventory = TRUE
      /\ r.retry_not_before = now + s.failure_delay
      /\ r.event_deadline = s.event_deadline
      /\ r.last_success = s.last_success
  BY DEF State, Fail
<1> HIDE DEF r
<1>6. now + s.failure_delay >= now + INITIAL_DELAY
      /\ now + s.failure_delay <= now + MAX_DELAY
  BY <1>2, DelayAssumption DEF Time
<1>7. QED
  BY <1>3, <1>4, <1>5, <1>6 DEF r

\* What record_batch does with the notifications of one inventory, which
\* starts without a pending event.
LEMMA RecordBatchFacts ==
  ASSUME NEW s \in State, NEW b \in EventBatch
  PROVE  LET r == RecordBatch(s, b) IN
         /\ r \in State
         /\ r.continuity = s.continuity
         /\ r.subscribed = s.subscribed
         /\ r.needs_inventory = s.needs_inventory
         /\ r.retry_not_before = s.retry_not_before
         /\ r.failure_delay = s.failure_delay
         /\ r.last_success = s.last_success
         /\ s.event_deadline = None =>
              \/ r.event_deadline = None /\ (BatchValid(b) => b.first = None)
              \/ /\ b.first \in Time /\ r.event_deadline \in Time
                 /\ r.event_deadline >= b.first + INITIAL_DELAY
                 /\ r.event_deadline <= b.first + MAX_DELAY
<1>1. CASE b = NoEvents \/ ~BatchValid(b)
  <2>1. RecordBatch(s, b) = s
    BY <1>1 DEF RecordBatch
  <2>2. BatchValid(b) => b.first = None
    BY <1>1 DEF NoEvents
  <2>3. QED
    BY <2>1, <2>2
<1>2. CASE b # NoEvents /\ BatchValid(b)
  <2>1. b.first \in Time /\ b.last \in Time
    BY <1>2 DEF BatchValid, EventBatch, Option
  <2> DEFINE once == RecordEvent(s, b.first)
  <2>2. /\ once \in State
        /\ once.continuity = s.continuity
        /\ once.subscribed = s.subscribed
        /\ once.needs_inventory = s.needs_inventory
        /\ once.retry_not_before = s.retry_not_before
        /\ once.failure_delay = s.failure_delay
        /\ once.last_success = s.last_success
        /\ s.event_deadline = None =>
             /\ once.event_deadline \in Time
             /\ once.event_deadline >= b.first + INITIAL_DELAY
             /\ once.event_deadline <= b.first + MAX_DELAY
    BY <2>1, RecordEventFacts
  <2>3. RecordBatch(s, b) = once \/ RecordBatch(s, b) = RecordEvent(once, b.last)
    BY <1>2 DEF RecordBatch
  <2> HIDE DEF once
  <2>4. CASE RecordBatch(s, b) = once
    BY <2>1, <2>2, <2>4
  <2>5. CASE RecordBatch(s, b) = RecordEvent(once, b.last)
    <3> DEFINE twice == RecordEvent(once, b.last)
    <3>1. /\ twice \in State
          /\ twice.continuity = once.continuity
          /\ twice.subscribed = once.subscribed
          /\ twice.needs_inventory = once.needs_inventory
          /\ twice.retry_not_before = once.retry_not_before
          /\ twice.failure_delay = once.failure_delay
          /\ twice.last_success = once.last_success
          /\ once.event_deadline # None => twice.event_deadline = once.event_deadline
      BY <2>1, <2>2, RecordEventFacts
    <3>2. s.event_deadline = None => once.event_deadline # None
      BY <2>2, NoneAssumption DEF Time
    <3> HIDE DEF twice
    <3>3. RecordBatch(s, b) = twice
      BY <2>5 DEF twice
    <3>4. QED
      BY <2>1, <2>2, <3>1, <3>2, <3>3
  <2>6. QED
    BY <2>3, <2>4, <2>5
<1>3. QED
  BY <1>1, <1>2

\* What lose_continuity does to the scheduling state.
LEMMA LoseContinuityFacts ==
  ASSUME NEW s \in State, NEW now \in Time
  PROVE  LET r == LoseContinuity(s, now) IN
         /\ r \in State
         /\ r.continuity = (s.continuity + 1) % GENERATIONS
         /\ r.subscribed = FALSE
         /\ r.needs_inventory = TRUE
         /\ r.retry_not_before \in Time
         /\ r.retry_not_before >= now + INITIAL_DELAY
         /\ r.retry_not_before <= now + MAX_DELAY
         /\ r.event_deadline = s.event_deadline
         /\ r.last_success = s.last_success
<1> DEFINE base == [s EXCEPT !.continuity = (@ + 1) % GENERATIONS,
                             !.subscribed = FALSE, !.needs_inventory = TRUE]
<1>1. (s.continuity + 1) % GENERATIONS \in Generation
  BY GenerationsAssumption DEF State, Generation
<1>2. base \in State
  BY <1>1 DEF State
<1>3. /\ base.continuity = (s.continuity + 1) % GENERATIONS
      /\ base.subscribed = FALSE
      /\ base.event_deadline = s.event_deadline
      /\ base.last_success = s.last_success
  BY DEF State
<1>4. LoseContinuity(s, now) = Fail(base, now)
  BY DEF LoseContinuity
<1> HIDE DEF base
<1> DEFINE r == Fail(base, now)
<1>5. /\ r \in State
      /\ r.continuity = base.continuity
      /\ r.subscribed = base.subscribed
      /\ r.needs_inventory = TRUE
      /\ r.retry_not_before \in Time
      /\ r.retry_not_before >= now + INITIAL_DELAY
      /\ r.retry_not_before <= now + MAX_DELAY
      /\ r.event_deadline = base.event_deadline
      /\ r.last_success = base.last_success
  BY <1>2, FailFacts
<1>6. LoseContinuity(s, now) = r
  BY <1>4
<1> HIDE DEF r
<1>7. QED
  BY <1>3, <1>5, <1>6, Zenon

\* What start_acquisition does.
LEMMA StartAcquisitionFacts ==
  ASSUME NEW s \in State
  PROVE  LET r == StartAcquisition(s) IN
         /\ r \in State
         /\ r.continuity = s.continuity
         /\ r.subscribed = s.subscribed
         /\ r.needs_inventory = FALSE
         /\ r.event_deadline = None
<1>1. s.event_delay \in Delay /\ NextDelay(s.event_delay) \in Delay
  BY NextDelayType DEF State
<1> DEFINE r == StartAcquisition(s)
<1>2. r \in State
  BY <1>1 DEF State, StartAcquisition, Option
<1>3. /\ r.continuity = s.continuity
      /\ r.subscribed = s.subscribed
      /\ r.needs_inventory = FALSE
      /\ r.event_deadline = None
  BY DEF State, StartAcquisition
<1>4. QED
  BY <1>2, <1>3, Zenon

\* What accept_inventory does when it returns Ok, after record_batch.
LEMMA AcceptedFacts ==
  ASSUME NEW s \in State, NEW b \in EventBatch, NEW now \in Time
  PROVE  LET r == [RecordBatch(s, b) EXCEPT !.retry_not_before = None,
                                            !.failure_delay = INITIAL_DELAY,
                                            !.last_success = now] IN
         /\ r \in State
         /\ r.continuity = s.continuity
         /\ r.subscribed = s.subscribed
         /\ r.needs_inventory = s.needs_inventory
         /\ r.retry_not_before = None
         /\ r.last_success = now
         /\ r.event_deadline = RecordBatch(s, b).event_deadline
<1> DEFINE recorded == RecordBatch(s, b)
           r == [recorded EXCEPT !.retry_not_before = None,
                                 !.failure_delay = INITIAL_DELAY,
                                 !.last_success = now]
<1>1. /\ recorded \in State
      /\ recorded.continuity = s.continuity
      /\ recorded.subscribed = s.subscribed
      /\ recorded.needs_inventory = s.needs_inventory
  BY RecordBatchFacts
<1>2. r = [recorded EXCEPT !.retry_not_before = None,
                           !.failure_delay = INITIAL_DELAY,
                           !.last_success = now]
  OBVIOUS
<1> HIDE DEF recorded, r
<1>3. INITIAL_DELAY \in Delay
  BY DelayAssumption DEF Delay
<1>4. r \in State
  BY <1>1, <1>2, <1>3 DEF State, Option
<1>5. /\ r.continuity = recorded.continuity
      /\ r.subscribed = recorded.subscribed
      /\ r.needs_inventory = recorded.needs_inventory
      /\ r.retry_not_before = None
      /\ r.last_success = now
      /\ r.event_deadline = recorded.event_deadline
  BY <1>1, <1>2 DEF State
<1>6. QED
  BY <1>1, <1>4, <1>5, Zenon DEF recorded, r

-----------------------------------------------------------------------------
(***************************************************************************)
(* The inductive invariant.                                                *)
(***************************************************************************)

\* What the control state says about the scheduling state.
Control ==
  /\ pc = "subscribe" => ~state.subscribed
  /\ pc = "inventory" =>
       /\ state.subscribed
       /\ ~state.needs_inventory
       /\ state.event_deadline = None
       /\ hist.lastStart # None

\* Outside an inventory, needs_inventory is false only after a success.
Owed ==
  pc # "inventory" /\ ~state.needs_inventory =>
    /\ state.subscribed
    /\ state.last_success # None
    /\ state.retry_not_before = None

\* Every way to become due lies INITIAL_DELAY after the last request.
Spacing ==
  hist.lastStart # None =>
    /\ hist.lastStart <= clock
    /\ state.event_deadline # None =>
         state.event_deadline >= hist.lastStart + INITIAL_DELAY
    /\ pc # "inventory" /\ state.retry_not_before # None =>
         state.retry_not_before >= hist.lastStart + INITIAL_DELAY
    /\ pc # "inventory" /\ state.retry_not_before = None =>
         /\ ~state.needs_inventory
         /\ state.last_success # None
         /\ state.last_success >= hist.lastStart

\* No deadline lies further than MAX_DELAY after its cause.
Prompt ==
  /\ hist.dirtySince = None => state.event_deadline = None
  /\ pc # "inventory" /\ ~state.needs_inventory /\ hist.dirtySince # None =>
       /\ state.event_deadline # None
       /\ state.event_deadline <= hist.dirtySince + MAX_DELAY
  /\ pc # "inventory" /\ state.retry_not_before # None =>
       /\ hist.failedAt # None
       /\ state.retry_not_before <= hist.failedAt + MAX_DELAY

\* The inductive invariant.
IInv ==
  /\ TypeOK
  /\ Control
  /\ Owed
  /\ Spacing
  /\ Prompt
  /\ TableTracksContinuity
  /\ WakeIsExact
  /\ BoundedStaleness

\* The fields of the records, one by one.
LEMMA Fields ==
  ASSUME TypeOK
  PROVE  /\ clock \in Nat /\ wake \in Nat /\ state \in State /\ hist \in History
         /\ state.continuity \in Generation
         /\ state.subscribed \in BOOLEAN
         /\ state.needs_inventory \in BOOLEAN
         /\ state.retry_not_before \in Nat \cup {None}
         /\ state.event_deadline \in Nat \cup {None}
         /\ state.last_success \in Nat \cup {None}
         /\ hist.lastStart \in Nat \cup {None}
         /\ hist.dirtySince \in Nat \cup {None}
         /\ hist.failedAt \in Nat \cup {None}
         /\ hist.failures \in 0 .. BackoffCap
         /\ hist.bursts \in 0 .. BackoffCap
BY DEF TypeOK, State, History, Option, Time

\* The two counters of the history stay within their cap.
LEMMA CappedSuccType ==
  ASSUME NEW n \in 0 .. BackoffCap
  PROVE  CappedSucc(n) \in 0 .. BackoffCap
BY BoundAssumption DEF CappedSucc

\* A failure recorded in the history.
LEMMA FailedFacts ==
  ASSUME NEW h \in History, clock \in Nat
  PROVE  /\ Failed(h) \in History
         /\ Failed(h).lastStart = h.lastStart
         /\ Failed(h).dirtySince = h.dirtySince
         /\ Failed(h).failedAt = clock
<1>1. CappedSucc(h.failures) \in 0 .. BackoffCap
  BY CappedSuccType DEF History
<1>2. Failed(h) \in History
  BY <1>1 DEF Failed, History, Option, Time
<1>3. QED
  BY <1>2 DEF Failed, History

\* The first time of a batch of notifications, if there is one, lies between
\* the request of the inventory and its return.
LEMMA BatchFacts ==
  ASSUME TypeOK, Control, pc = "inventory", NEW b \in Batches
  PROVE  /\ b \in EventBatch
         /\ b.first # None => b.first \in Nat /\ b.first >= hist.lastStart
<1>1. clock \in Nat /\ hist.lastStart \in Nat
  BY Fields DEF Control
<1>2. CASE b = NoEvents
  BY <1>2 DEF NoEvents, EventBatch, Option
<1>3. CASE b \in [first : hist.lastStart .. clock, last : hist.lastStart .. clock]
  BY <1>1, <1>3 DEF EventBatch, Option, Time
<1>4. QED
  BY <1>2, <1>3 DEF Batches

\* wake is only of interest during a wait.
LEMMA NotWaiting ==
  ASSUME pc' # "wait"
  PROVE  WakeIsExact' /\ BoundedStaleness'
BY DEF WakeIsExact, BoundedStaleness

\* The initial state.
LEMMA InitInv == Init => IInv
<1> SUFFICES ASSUME Init PROVE IInv
  OBVIOUS
<1> USE DEF Init
<1>1. NewState \in State
  BY DelayAssumption, GenerationsAssumption
  DEF NewState, State, Option, Delay, Generation
<1>2. hist \in History
  BY BoundAssumption DEF History, Option, Time
<1>3. TypeOK
  BY <1>1, <1>2 DEF TypeOK, Option, Time
<1>4. Control /\ Owed /\ Spacing
  BY DEF Control, Owed, Spacing, NewState
<1>5. Prompt
  BY NoneAssumption DEF Prompt, NewState
<1>6. TableTracksContinuity /\ WakeIsExact /\ BoundedStaleness
  BY DEF TableTracksContinuity, WakeIsExact, BoundedStaleness
<1>7. QED
  BY <1>3, <1>4, <1>5, <1>6 DEF IInv

-----------------------------------------------------------------------------
(***************************************************************************)
(* One lemma per action.                                                   *)
(***************************************************************************)

\* Time passes.
LEMMA TickInv == IInv /\ Tick => IInv'
<1> SUFFICES ASSUME IInv, Tick PROVE IInv'
  OBVIOUS
<1>1. /\ clock \in Nat /\ clock' = clock + 1
      /\ UNCHANGED <<pc, state, wake, published, hist>>
  BY Fields DEF IInv, Tick
<1>2. TypeOK' /\ Control' /\ Owed' /\ Prompt' /\ TableTracksContinuity'
  BY <1>1 DEF IInv, TypeOK, Time, Control, Owed, Prompt, TableTracksContinuity
<1>3. Spacing'
  BY <1>1, Fields DEF IInv, Spacing
<1>4. WakeIsExact'
  <2> SUFFICES ASSUME pc = "wait", NEW t \in clock + 1 .. Horizon
               PROVE  (t >= wake <=> WorkReady(t))'
    BY <1>1 DEF WakeIsExact, Horizon
  <2>1. t \in clock .. Horizon
    BY <1>1
  <2>2. t >= wake <=> WorkReady(t)
    BY <2>1 DEF IInv, WakeIsExact
  <2>3. QED
    BY <1>1, <2>2 DEF WorkReady
<1>5. BoundedStaleness'
  BY <1>1, Fields DEF IInv, BoundedStaleness
<1>6. QED
  BY <1>2, <1>3, <1>4, <1>5 DEF IInv

\* The top of the loop.
LEMMA TopInv == IInv /\ Top => IInv'
<1> SUFFICES ASSUME IInv, Top PROVE IInv'
  OBVIOUS
<1>1. /\ pc = "top"
      /\ (pc' = "subscribe" /\ ~state.subscribed) \/ pc' = "check"
      /\ UNCHANGED <<clock, state, wake, published, hist>>
  BY DEF Top
<1>2. TypeOK' /\ Control' /\ Owed' /\ Spacing' /\ Prompt' /\ TableTracksContinuity'
  BY <1>1 DEF IInv, TypeOK, Control, Owed, Spacing, Prompt, TableTracksContinuity
<1>3. QED
  BY <1>1, <1>2, NotWaiting DEF IInv

\* subscribe() succeeds.
LEMMA SubscribeOkInv == IInv /\ SubscribeOk => IInv'
<1> SUFFICES ASSUME IInv, SubscribeOk PROVE IInv'
  OBVIOUS
<1>1. /\ pc = "subscribe" /\ pc' = "check"
      /\ UNCHANGED <<clock, wake, published, hist>>
      /\ ~state.subscribed /\ state.needs_inventory
  BY DEF SubscribeOk, IInv, Control, Owed
<1>2. state' \in State
  BY Fields DEF IInv, SubscribeOk, State
<1>3. /\ state'.continuity = state.continuity
      /\ state'.subscribed /\ state'.needs_inventory
      /\ state'.retry_not_before = state.retry_not_before
      /\ state'.event_deadline = state.event_deadline
      /\ state'.last_success = state.last_success
  BY Fields DEF IInv, SubscribeOk, State
<1>4. TypeOK'
  BY <1>1, <1>2 DEF IInv, TypeOK
<1>5. Control' /\ Owed' /\ Spacing' /\ Prompt' /\ TableTracksContinuity'
  BY <1>1, <1>3 DEF IInv, Control, Owed, Spacing, Prompt, TableTracksContinuity
<1>6. QED
  BY <1>1, <1>4, <1>5, NotWaiting DEF IInv

\* A call that ends in fail(): the state it fails from differs from the one
\* before at most by a recorded batch of notifications.
LEMMA FailStep ==
  ASSUME IInv, pc \in {"subscribe", "inventory"}, pc' \in {"check", "top"},
         UNCHANGED <<clock, wake, published>>,
         NEW s \in State, NEW h \in History,
         state' = Fail(s, clock), hist' = Failed(h),
         s.continuity = state.continuity, s.subscribed = state.subscribed,
         h.lastStart = hist.lastStart,
         h.dirtySince = None => s.event_deadline = None,
         s.event_deadline # None /\ h.lastStart # None =>
           s.event_deadline >= h.lastStart + INITIAL_DELAY
  PROVE  IInv'
<1>1. clock \in Time /\ clock \in Nat
  BY Fields DEF IInv, Time
<1>2. /\ state' \in State
      /\ state'.continuity = s.continuity
      /\ state'.subscribed = s.subscribed
      /\ state'.needs_inventory = TRUE
      /\ state'.retry_not_before \in Time
      /\ state'.retry_not_before >= clock + INITIAL_DELAY
      /\ state'.retry_not_before <= clock + MAX_DELAY
      /\ state'.event_deadline = s.event_deadline
  BY <1>1, FailFacts
<1>3. /\ hist' \in History
      /\ hist'.lastStart = h.lastStart
      /\ hist'.dirtySince = h.dirtySince
      /\ hist'.failedAt = clock
  BY <1>1, FailedFacts
<1>4. TypeOK'
  BY <1>2, <1>3 DEF IInv, TypeOK
<1>5. Control' /\ Owed'
  BY <1>2 DEF Control, Owed
<1>6. state'.retry_not_before # None /\ clock # None
  BY <1>1, <1>2, NoneAssumption DEF Time
<1>7. Spacing'
  <2> SUFFICES ASSUME hist.lastStart # None
               PROVE  Spacing'
    BY <1>3 DEF Spacing
  <2>1. hist.lastStart \in Nat /\ hist.lastStart <= clock
    BY Fields DEF IInv, Spacing
  <2>2. state'.retry_not_before >= hist.lastStart + INITIAL_DELAY
    BY <1>1, <1>2, <2>1, DelayAssumption DEF Time
  <2>3. QED
    BY <1>2, <1>3, <1>6, <2>1, <2>2 DEF Spacing
<1>8. Prompt'
  BY <1>2, <1>3, <1>6 DEF Prompt
<1>9. TableTracksContinuity'
  BY <1>2 DEF IInv, TableTracksContinuity
<1>10. QED
  BY <1>4, <1>5, <1>7, <1>8, <1>9, NotWaiting DEF IInv

\* subscribe() fails.
LEMMA SubscribeErrInv == IInv /\ SubscribeErr => IInv'
<1> SUFFICES ASSUME IInv, SubscribeErr PROVE IInv'
  OBVIOUS
<1>1. /\ pc = "subscribe" /\ pc' = "check"
      /\ UNCHANGED <<clock, wake, published>>
      /\ state' = Fail(state, clock) /\ hist' = Failed(hist)
  BY DEF SubscribeErr
<1>2. state \in State /\ hist \in History
  BY Fields DEF IInv
<1>3. /\ hist.dirtySince = None => state.event_deadline = None
      /\ state.event_deadline # None /\ hist.lastStart # None =>
           state.event_deadline >= hist.lastStart + INITIAL_DELAY
  BY DEF IInv, Prompt, Spacing
<1>4. QED
  BY <1>1, <1>2, <1>3, FailStep

\* A call that ends in lose_continuity().
LEMMA LoseStep ==
  ASSUME IInv, pc \in {"wait", "inventory"}, pc' = "top",
         UNCHANGED <<clock, wake>>, published' = None,
         NEW s \in State, NEW h \in History,
         state' = LoseContinuity(s, clock), hist' = Failed(h),
         h.lastStart = hist.lastStart,
         h.dirtySince # None,
         s.event_deadline # None /\ h.lastStart # None =>
           s.event_deadline >= h.lastStart + INITIAL_DELAY
  PROVE  IInv'
<1>1. clock \in Time /\ clock \in Nat
  BY Fields DEF IInv, Time
<1>2. /\ state' \in State
      /\ state'.needs_inventory = TRUE
      /\ state'.retry_not_before \in Time
      /\ state'.retry_not_before >= clock + INITIAL_DELAY
      /\ state'.retry_not_before <= clock + MAX_DELAY
      /\ state'.event_deadline = s.event_deadline
  BY <1>1, LoseContinuityFacts
<1>3. /\ hist' \in History
      /\ hist'.lastStart = h.lastStart
      /\ hist'.dirtySince = h.dirtySince
      /\ hist'.failedAt = clock
  BY <1>1, FailedFacts
<1>4. TypeOK'
  BY <1>2, <1>3 DEF IInv, TypeOK, Option
<1>5. Control' /\ Owed'
  BY <1>2 DEF Control, Owed
<1>6. state'.retry_not_before # None /\ clock # None
  BY <1>1, <1>2, NoneAssumption DEF Time
<1>7. Spacing'
  <2> SUFFICES ASSUME hist.lastStart # None
               PROVE  Spacing'
    BY <1>3 DEF Spacing
  <2>1. hist.lastStart \in Nat /\ hist.lastStart <= clock
    BY Fields DEF IInv, Spacing
  <2>2. state'.retry_not_before >= hist.lastStart + INITIAL_DELAY
    BY <1>1, <1>2, <2>1, DelayAssumption DEF Time
  <2>3. QED
    BY <1>2, <1>3, <1>6, <2>1, <2>2 DEF Spacing
<1>8. Prompt'
  BY <1>2, <1>3, <1>6 DEF Prompt
<1>9. TableTracksContinuity'
  BY DEF TableTracksContinuity
<1>10. QED
  BY <1>4, <1>5, <1>7, <1>8, <1>9, NotWaiting DEF IInv

\* wait() fails.
LEMMA WaitErrInv == IInv /\ WaitErr => IInv'
<1> SUFFICES ASSUME IInv, WaitErr PROVE IInv'
  OBVIOUS
<1> DEFINE h == [hist EXCEPT !.dirtySince = Earliest(@, clock)]
<1>1. /\ pc = "wait" /\ pc' = "top"
      /\ UNCHANGED <<clock, wake>> /\ published' = None
      /\ state' = LoseContinuity(state, clock) /\ hist' = Failed(h)
  BY DEF WaitErr
<1>2. state \in State
  BY Fields DEF IInv
<1>3. clock \in Nat /\ clock # None
  BY Fields, NoneAssumption DEF IInv
<1>4. h \in History /\ h.lastStart = hist.lastStart /\ h.dirtySince # None
  BY <1>3, Fields DEF IInv, History, Earliest, Option, Time
<1>5. state.event_deadline # None /\ hist.lastStart # None =>
        state.event_deadline >= hist.lastStart + INITIAL_DELAY
  BY DEF IInv, Spacing
<1> HIDE DEF h
<1>6. QED
  BY <1>1, <1>2, <1>4, <1>5, LoseStep

\* The notifications of a running inventory, recorded.
LEMMA RecordedFacts ==
  ASSUME IInv, pc = "inventory", NEW b \in Batches
  PROVE  LET s == RecordBatch(state, b) IN
         /\ s \in State
         /\ s.continuity = state.continuity
         /\ s.subscribed = state.subscribed
         /\ s.needs_inventory = FALSE
         /\ s.event_deadline # None =>
              /\ b.first # None
              /\ s.event_deadline \in Nat
              /\ s.event_deadline >= hist.lastStart + INITIAL_DELAY
              /\ s.event_deadline <= b.first + MAX_DELAY
         /\ BatchValid(b) /\ b.first # None => s.event_deadline # None
<1>1. /\ state \in State /\ b \in EventBatch
      /\ hist.lastStart \in Nat
      /\ b.first # None => b.first \in Nat /\ b.first >= hist.lastStart
      /\ state.event_deadline = None
      /\ state.needs_inventory = FALSE
  BY Fields, BatchFacts DEF IInv, Control
<1> DEFINE s == RecordBatch(state, b)
<1>2. /\ s \in State
      /\ s.continuity = state.continuity
      /\ s.subscribed = state.subscribed
      /\ s.needs_inventory = state.needs_inventory
      /\ \/ s.event_deadline = None /\ (BatchValid(b) => b.first = None)
         \/ /\ b.first \in Time /\ s.event_deadline \in Time
            /\ s.event_deadline >= b.first + INITIAL_DELAY
            /\ s.event_deadline <= b.first + MAX_DELAY
  BY <1>1, RecordBatchFacts
<1> HIDE DEF s
<1>3. s.event_deadline # None =>
        /\ b.first # None
        /\ s.event_deadline \in Nat
        /\ s.event_deadline >= hist.lastStart + INITIAL_DELAY
        /\ s.event_deadline <= b.first + MAX_DELAY
  BY <1>1, <1>2, DelayAssumption, NoneAssumption DEF Time
<1>4. BatchValid(b) /\ b.first # None => s.event_deadline # None
  BY <1>2, NoneAssumption DEF Time
<1>5. s.needs_inventory = FALSE
  BY <1>1, <1>2, Zenon
<1>6. QED
  BY <1>2, <1>3, <1>4, <1>5, Zenon DEF s

\* The count of bursts stays within its cap.
LEMMA BurstsType ==
  ASSUME TypeOK, NEW b
  PROVE  BurstsAfter(b) \in 0 .. BackoffCap
BY Fields, BoundAssumption DEF BurstsAfter

\* inventory() fails without losing notifications.
LEMMA InventoryOrdinaryInv ==
  ASSUME IInv, NEW b \in Batches, InventoryOrdinary(b)
  PROVE  IInv'
<1> DEFINE s == RecordBatch(state, b)
           h == [hist EXCEPT !.dirtySince = Earliest(@, b.first),
                             !.bursts = BurstsAfter(b)]
<1>1. /\ pc = "inventory" /\ pc' = "top"
      /\ UNCHANGED <<clock, wake, published>>
      /\ state' = Fail(s, clock) /\ hist' = Failed(h)
  BY DEF InventoryOrdinary
<1>2. /\ s \in State
      /\ s.continuity = state.continuity
      /\ s.subscribed = state.subscribed
      /\ s.event_deadline # None =>
           b.first # None /\ s.event_deadline >= hist.lastStart + INITIAL_DELAY
  BY <1>1, RecordedFacts
<1>3. b \in EventBatch
  BY <1>1, BatchFacts DEF IInv
<1>4. h \in History
  BY <1>3, Fields, BurstsType DEF IInv, History, Earliest, EventBatch, Option, Time
<1>5. h.lastStart = hist.lastStart /\ h.dirtySince = Earliest(hist.dirtySince, b.first)
  BY Fields DEF IInv, History
<1>6. h.dirtySince = None => s.event_deadline = None
  BY <1>2, <1>5 DEF Earliest
<1> HIDE DEF s, h
<1>7. QED
  BY <1>1, <1>2, <1>4, <1>5, <1>6, FailStep

\* inventory() loses notifications.
LEMMA InventoryLostInv ==
  ASSUME IInv, NEW b \in Batches, InventoryLost(b)
  PROVE  IInv'
<1> DEFINE s == RecordBatch(state, b)
           h == [hist EXCEPT !.dirtySince = Earliest(Earliest(@, b.first), clock),
                             !.bursts = BurstsAfter(b)]
<1>1. /\ pc = "inventory" /\ pc' = "top"
      /\ UNCHANGED <<clock, wake>> /\ published' = None
      /\ state' = LoseContinuity(s, clock) /\ hist' = Failed(h)
  BY DEF InventoryLost
<1>2. /\ s \in State
      /\ s.event_deadline # None =>
           s.event_deadline >= hist.lastStart + INITIAL_DELAY
  BY <1>1, RecordedFacts
<1>3. b \in EventBatch /\ clock \in Nat /\ clock # None
  BY <1>1, BatchFacts, Fields, NoneAssumption DEF IInv
<1>4. h \in History
  BY <1>3, Fields, BurstsType DEF IInv, History, Earliest, EventBatch, Option, Time
<1>5. h.lastStart = hist.lastStart
      /\ h.dirtySince = Earliest(Earliest(hist.dirtySince, b.first), clock)
  BY Fields DEF IInv, History
<1>6. h.dirtySince # None
  BY <1>3, <1>5 DEF Earliest
<1> HIDE DEF s, h
<1>7. QED
  BY <1>1, <1>2, <1>4, <1>5, <1>6, LoseStep

\* inventory() returns links that are refused.
LEMMA RefusedInv ==
  ASSUME IInv, NEW c, NEW links, NEW b \in Batches,
         InventoryComplete(c, links, b),
         ~InventoryAccepted(state, c, b, links \in ValidLinks)
  PROVE  IInv'
<1> DEFINE s == AcceptInventory(state, c, b, links \in ValidLinks, clock)
           h == [hist EXCEPT !.dirtySince = Earliest(@, b.first),
                             !.bursts = IF c = state.continuity
                                        THEN BurstsAfter(b) ELSE @]
<1>1. /\ pc = "inventory" /\ pc' = "top"
      /\ UNCHANGED <<clock, wake, published>>
      /\ state' = Fail(s, clock) /\ hist' = Failed(h)
  BY DEF InventoryComplete
<1>2. s = state \/ s = RecordBatch(state, b)
  BY DEF AcceptInventory
<1>3. state \in State /\ state.event_deadline = None
  BY <1>1, Fields DEF IInv, Control
<1>4. /\ s \in State
      /\ s.continuity = state.continuity
      /\ s.subscribed = state.subscribed
      /\ s.event_deadline # None =>
           b.first # None /\ s.event_deadline >= hist.lastStart + INITIAL_DELAY
  BY <1>1, <1>2, <1>3, RecordedFacts
<1>5. b \in EventBatch
  BY <1>1, BatchFacts DEF IInv
<1>6. h \in History
  BY <1>5, Fields, BurstsType DEF IInv, History, Earliest, EventBatch, Option, Time
<1>7. h.lastStart = hist.lastStart /\ h.dirtySince = Earliest(hist.dirtySince, b.first)
  BY Fields DEF IInv, History
<1>8. h.dirtySince = None => s.event_deadline = None
  BY <1>4, <1>7 DEF Earliest
<1> HIDE DEF s, h
<1>9. QED
  BY <1>1, <1>4, <1>6, <1>7, <1>8, FailStep

\* inventory() returns links that are published.
LEMMA AcceptedInv ==
  ASSUME IInv, NEW c \in EchoedGenerations, NEW links, NEW b \in Batches,
         InventoryComplete(c, links, b),
         InventoryAccepted(state, c, b, links \in ValidLinks)
  PROVE  IInv'
<1> DEFINE s == RecordBatch(state, b)
<1>1. /\ pc = "inventory" /\ pc' = "top"
      /\ UNCHANGED <<clock, wake>>
      /\ state' = AcceptInventory(state, c, b, links \in ValidLinks, clock)
      /\ published' = [continuity |-> c, links |-> links]
      /\ hist' = [hist EXCEPT !.dirtySince = b.first, !.failures = 0,
                              !.failedAt = None, !.bursts = BurstsAfter(b)]
  BY DEF InventoryComplete
<1>2. c = state.continuity /\ BatchValid(b) /\ links \in ValidLinks
  BY DEF InventoryAccepted
<1>3. /\ state \in State /\ hist \in History /\ clock \in Time
      /\ state.continuity \in Generation
      /\ hist.lastStart \in Nat /\ hist.lastStart <= clock
      /\ state.subscribed
  BY <1>1, Fields DEF IInv, Control, Spacing, Time
<1>4. b \in EventBatch
  BY <1>1, BatchFacts DEF IInv
<1>5. /\ s.needs_inventory = FALSE
      /\ s.event_deadline # None =>
           /\ b.first # None
           /\ s.event_deadline >= hist.lastStart + INITIAL_DELAY
           /\ s.event_deadline <= b.first + MAX_DELAY
      /\ b.first # None => s.event_deadline # None
  BY <1>1, <1>2, RecordedFacts
<1>6. /\ state' \in State
      /\ state'.continuity = state.continuity
      /\ state'.subscribed = state.subscribed
      /\ state'.needs_inventory = state.needs_inventory
      /\ state'.retry_not_before = None
      /\ state'.last_success = clock
      /\ state'.event_deadline = s.event_deadline
  <2> DEFINE r == [RecordBatch(state, b) EXCEPT !.retry_not_before = None,
                                                !.failure_delay = INITIAL_DELAY,
                                                !.last_success = clock]
  <2>1. state' = r
    BY <1>1, <1>2 DEF AcceptInventory, InventoryAccepted
  <2>2. /\ r \in State
        /\ r.continuity = state.continuity
        /\ r.subscribed = state.subscribed
        /\ r.needs_inventory = state.needs_inventory
        /\ r.retry_not_before = None
        /\ r.last_success = clock
        /\ r.event_deadline = s.event_deadline
    BY <1>3, <1>4, AcceptedFacts
  <2> HIDE DEF r
  <2>3. QED
    BY <2>1, <2>2, Zenon
<1> HIDE DEF s
<1>7. /\ hist'.lastStart = hist.lastStart /\ hist'.dirtySince = b.first
  BY <1>1, <1>3 DEF History
<1>8. hist' \in History
  <2>1. BurstsAfter(b) \in 0 .. BackoffCap
    BY BurstsType DEF IInv
  <2>2. 0 \in 0 .. BackoffCap
    BY BoundAssumption
  <2>3. b.first \in Option(Time) /\ None \in Option(Time)
    BY <1>4 DEF EventBatch, Option
  <2>4. QED
    BY <1>1, <1>3, <2>1, <2>2, <2>3 DEF History
<1>9. TypeOK'
  BY <1>1, <1>2, <1>3, <1>6, <1>8 DEF IInv, TypeOK, Option, Table
<1>10. ~state'.needs_inventory /\ state'.subscribed /\ clock # None
  <2>1. ~state.needs_inventory
    BY <1>1 DEF IInv, Control
  <2>2. ~state'.needs_inventory /\ state'.subscribed
    BY <1>3, <1>6, <2>1, Zenon
  <2>3. clock # None
    BY <1>3, NoneAssumption DEF Time
  <2>4. QED
    BY <2>2, <2>3
<1>11. Control' /\ Owed'
  BY <1>1, <1>6, <1>10 DEF Control, Owed
<1>12. Spacing'
  BY <1>1, <1>3, <1>5, <1>6, <1>7, <1>10 DEF Spacing
<1>13. Prompt'
  BY <1>5, <1>6, <1>7, <1>10 DEF Prompt
<1>14. TableTracksContinuity'
  BY <1>1, <1>2, <1>6, <1>10 DEF TableTracksContinuity
<1>15. QED
  BY <1>1, <1>9, <1>11, <1>12, <1>13, <1>14, NotWaiting DEF IInv

\* An inventory is requested.
LEMMA StartInventoryInv == IInv /\ StartInventory => IInv'
<1> SUFFICES ASSUME IInv, StartInventory PROVE IInv'
  OBVIOUS
<1>1. /\ pc = "check" /\ pc' = "inventory"
      /\ UNCHANGED <<clock, wake, published>>
      /\ state.subscribed
      /\ state' = StartAcquisition(state)
      /\ hist' = [hist EXCEPT !.lastStart = clock,
                              !.bursts = IF state.event_deadline = None
                                         THEN @ ELSE CappedSucc(@)]
  BY DEF StartInventory
<1>2. state \in State /\ hist \in History /\ clock \in Nat
  BY Fields DEF IInv
<1>3. /\ state' \in State
      /\ state'.continuity = state.continuity
      /\ state'.subscribed = state.subscribed
      /\ state'.needs_inventory = FALSE
      /\ state'.event_deadline = None
  BY <1>1, <1>2, StartAcquisitionFacts
<1>4. CappedSucc(hist.bursts) \in 0 .. BackoffCap
  BY <1>2, CappedSuccType DEF History
<1>5. hist' \in History
  BY <1>1, <1>2, <1>4 DEF History, Option, Time
<1>6. hist'.lastStart = clock /\ clock # None
  BY <1>1, <1>2, NoneAssumption DEF History
<1>7. TypeOK'
  BY <1>1, <1>3, <1>5 DEF IInv, TypeOK
<1>8. state'.subscribed /\ ~state'.needs_inventory
  BY <1>1, <1>3, Zenon
<1>9. Control' /\ Owed'
  BY <1>1, <1>3, <1>6, <1>8 DEF Control, Owed
<1>10. Spacing' /\ Prompt'
  BY <1>1, <1>2, <1>3, <1>6 DEF Spacing, Prompt
<1>11. TableTracksContinuity'
  BY <1>1, <1>3 DEF IInv, TableTracksContinuity
<1>12. QED
  BY <1>1, <1>7, <1>9, <1>10, <1>11, NotWaiting DEF IInv

\* The thread goes to wait, until exactly the time that something is due.
LEMMA StartWaitInv == IInv /\ StartWait => IInv'
<1> SUFFICES ASSUME IInv, StartWait PROVE IInv'
  OBVIOUS
<1>1. /\ pc = "check" /\ pc' = "wait"
      /\ UNCHANGED <<clock, state, published, hist>>
      /\ ~(state.subscribed /\ AcquisitionReady(state, clock))
      /\ wake' = NextDeadline(state, clock)
  BY DEF StartWait
<1>2. /\ clock \in Nat
      /\ state.subscribed \in BOOLEAN
      /\ state.needs_inventory \in BOOLEAN
      /\ state.retry_not_before \in Nat \cup {None}
      /\ state.event_deadline \in Nat \cup {None}
      /\ state.last_success \in Nat \cup {None}
      /\ hist.dirtySince \in Nat \cup {None}
      /\ hist.failedAt \in Nat \cup {None}
  BY Fields DEF IInv
<1>3. ~state.needs_inventory =>
        state.subscribed /\ state.last_success # None /\ state.retry_not_before = None
  BY <1>1 DEF IInv, Owed
<1> USE ReconcileAssumption, DelayAssumption, NoneAssumption
<1>4. wake' \in Nat
  BY <1>1, <1>2 DEF NextDeadline, MaxOf, MinOf
<1>5. TypeOK' /\ Control' /\ Owed' /\ Spacing' /\ Prompt' /\ TableTracksContinuity'
  BY <1>1, <1>4
  DEF IInv, TypeOK, Time, Control, Owed, Spacing, Prompt, TableTracksContinuity
<1>6. WakeIsExact'
  <2> SUFFICES ASSUME NEW t \in Nat, t >= clock
               PROVE  t >= NextDeadline(state, clock) <=> WorkReady(t)
    BY <1>1, <1>2, BoundAssumption DEF WakeIsExact, WorkReady, Horizon
  <2>1. CASE state.retry_not_before # None
    <3>1. state.needs_inventory
      BY <1>3, <2>1
    <3>2. WorkReady(t) <=> t >= state.retry_not_before
      BY <2>1, <3>1 DEF WorkReady, AcquisitionReady, RetryReady
    <3>3. QED
      BY <1>2, <2>1, <3>2 DEF NextDeadline, MaxOf
  <2>2. CASE state.retry_not_before = None /\ ~state.subscribed
    BY <1>2, <2>2 DEF NextDeadline, WorkReady, RetryReady
  <2>3. CASE state.retry_not_before = None /\ state.subscribed
    <3>1. ~state.needs_inventory /\ state.last_success \in Nat
      BY <1>1, <1>2, <1>3, <2>3 DEF AcquisitionReady, RetryReady
    <3>2. WorkReady(t) <=>
            \/ state.event_deadline # None /\ t >= state.event_deadline
            \/ t >= state.last_success + RECONCILE
      BY <2>3, <3>1 DEF WorkReady, AcquisitionReady, RetryReady
    <3>3. QED
      BY <1>2, <2>3, <3>1, <3>2 DEF NextDeadline, MaxOf, MinOf
  <2>4. QED
    BY <2>1, <2>2, <2>3
<1>7. BoundedStaleness'
  <2> SUFFICES ASSUME hist.dirtySince # None
               PROVE  \/ wake' <= clock
                      \/ wake' <= hist.dirtySince + MAX_DELAY
                      \/ hist.failedAt # None /\ wake' <= hist.failedAt + MAX_DELAY
    BY <1>1 DEF BoundedStaleness
  <2>1. CASE state.retry_not_before # None
    <3>1. hist.failedAt # None /\ state.retry_not_before <= hist.failedAt + MAX_DELAY
      BY <1>1, <2>1 DEF IInv, Prompt
    <3>2. QED
      BY <1>1, <1>2, <2>1, <3>1 DEF NextDeadline, MaxOf
  <2>2. CASE state.retry_not_before = None /\ ~state.subscribed
    BY <1>1, <1>2, <2>2 DEF NextDeadline
  <2>3. CASE state.retry_not_before = None /\ state.subscribed
    <3>1. ~state.needs_inventory /\ state.last_success \in Nat
      BY <1>1, <1>2, <1>3, <2>3 DEF AcquisitionReady, RetryReady
    <3>2. state.event_deadline # None
          /\ state.event_deadline <= hist.dirtySince + MAX_DELAY
      BY <1>1, <3>1 DEF IInv, Prompt
    <3>3. QED
      BY <1>1, <1>2, <2>3, <3>1, <3>2 DEF NextDeadline, MaxOf, MinOf
  <2>4. QED
    BY <2>1, <2>2, <2>3
<1>8. QED
  BY <1>5, <1>6, <1>7 DEF IInv

\* wait() times out.
LEMMA WaitDeadlineInv == IInv /\ WaitDeadline => IInv'
<1> SUFFICES ASSUME IInv, WaitDeadline PROVE IInv'
  OBVIOUS
<1>1. pc = "wait" /\ pc' = "top" /\ UNCHANGED <<clock, state, wake, published, hist>>
  BY DEF WaitDeadline
<1>2. TypeOK' /\ Control' /\ Owed' /\ Spacing' /\ Prompt' /\ TableTracksContinuity'
  BY <1>1 DEF IInv, TypeOK, Control, Owed, Spacing, Prompt, TableTracksContinuity
<1>3. QED
  BY <1>1, <1>2, NotWaiting DEF IInv

\* wait() returns a notification.
LEMMA WaitLinkChangedInv == IInv /\ WaitLinkChanged => IInv'
<1> SUFFICES ASSUME IInv, WaitLinkChanged PROVE IInv'
  OBVIOUS
<1>1. /\ pc = "wait" /\ pc' = "top"
      /\ UNCHANGED <<clock, wake, published>>
      /\ state' = RecordEvent(state, clock)
      /\ hist' = [hist EXCEPT !.dirtySince = Earliest(@, clock),
                              !.bursts = IF QuietBefore(clock) THEN 0 ELSE @]
  BY DEF WaitLinkChanged
<1>2. /\ state \in State /\ hist \in History /\ clock \in Time
      /\ clock \in Nat /\ clock # None
      /\ state.event_deadline \in Nat \cup {None}
      /\ hist.dirtySince \in Nat \cup {None}
      /\ hist.lastStart \in Nat \cup {None}
  BY Fields, NoneAssumption DEF IInv, Time
<1>3. /\ state' \in State
      /\ state'.continuity = state.continuity
      /\ state'.subscribed = state.subscribed
      /\ state'.needs_inventory = state.needs_inventory
      /\ state'.retry_not_before = state.retry_not_before
      /\ state'.last_success = state.last_success
      /\ state.event_deadline # None => state'.event_deadline = state.event_deadline
      /\ state.event_deadline = None =>
           /\ state'.event_deadline \in Time
           /\ state'.event_deadline >= clock + INITIAL_DELAY
           /\ state'.event_deadline <= clock + MAX_DELAY
  BY <1>1, <1>2, RecordEventFacts
<1>4. 0 \in 0 .. BackoffCap /\ Earliest(hist.dirtySince, clock) \in Nat \cup {None}
  BY <1>2, BoundAssumption DEF Earliest
<1>5. hist' \in History
  BY <1>1, <1>2, <1>4 DEF History, Option, Time
<1>6. /\ hist'.lastStart = hist.lastStart
      /\ hist'.failedAt = hist.failedAt
      /\ hist'.dirtySince = Earliest(hist.dirtySince, clock)
  BY <1>1, <1>2 DEF History
<1>7. TypeOK'
  BY <1>1, <1>3, <1>5 DEF IInv, TypeOK
<1>8. Control' /\ Owed' /\ TableTracksContinuity'
  BY <1>1, <1>3 DEF IInv, Control, Owed, TableTracksContinuity
<1>9. Spacing'
  <2>1. hist.lastStart # None /\ state.event_deadline = None =>
          state'.event_deadline >= hist.lastStart + INITIAL_DELAY
    BY <1>2, <1>3, DelayAssumption DEF IInv, Spacing, Time
  <2>2. QED
    BY <1>1, <1>2, <1>3, <1>6, <2>1 DEF IInv, Spacing
<1>10. Prompt'
  <2>1. hist'.dirtySince # None
    BY <1>2, <1>6 DEF Earliest
  <2>2. CASE state.event_deadline # None
    <3>1. hist'.dirtySince = hist.dirtySince
      BY <1>6, <2>2 DEF IInv, Prompt, Earliest
    <3>2. QED
      BY <1>1, <1>3, <1>6, <2>2, <3>1 DEF IInv, Prompt
  <2>3. CASE state.event_deadline = None
    <3>1. ~state.needs_inventory => hist'.dirtySince = clock
      BY <1>1, <1>6, <2>3 DEF IInv, Prompt, Earliest
    <3>2. state'.event_deadline # None
      BY <1>3, <2>3, NoneAssumption DEF Time
    <3>3. QED
      BY <1>1, <1>3, <1>6, <2>1, <2>3, <3>1, <3>2 DEF IInv, Prompt
  <2>4. QED
    BY <2>2, <2>3
<1>11. QED
  BY <1>1, <1>7, <1>8, <1>9, <1>10, NotWaiting DEF IInv

-----------------------------------------------------------------------------
(***************************************************************************)
(* The theorems.                                                           *)
(***************************************************************************)

\* Every step of the thread and of its environment preserves the invariant.
LEMMA NextInv == IInv /\ [Next]_vars => IInv'
<1> SUFFICES ASSUME IInv, [Next]_vars PROVE IInv'
  OBVIOUS
<1>1. CASE Tick
  BY <1>1, TickInv
<1>2. CASE Top
  BY <1>2, TopInv
<1>3. CASE SubscribeOk
  BY <1>3, SubscribeOkInv
<1>4. CASE SubscribeErr
  BY <1>4, SubscribeErrInv
<1>5. CASE StartInventory
  BY <1>5, StartInventoryInv
<1>6. CASE StartWait
  BY <1>6, StartWaitInv
<1>7. CASE InventoryReturns
  <2>1. PICK b \in Batches :
          \/ \E c \in EchoedGenerations, links \in Links : InventoryComplete(c, links, b)
          \/ InventoryOrdinary(b)
          \/ InventoryLost(b)
    BY <1>7 DEF InventoryReturns
  <2>2. CASE \E c \in EchoedGenerations, links \in Links : InventoryComplete(c, links, b)
    <3>1. PICK c \in EchoedGenerations, links \in Links : InventoryComplete(c, links, b)
      BY <2>2
    <3>2. CASE InventoryAccepted(state, c, b, links \in ValidLinks)
      BY <3>1, <3>2, AcceptedInv
    <3>3. CASE ~InventoryAccepted(state, c, b, links \in ValidLinks)
      BY <3>1, <3>3, RefusedInv
    <3>4. QED
      BY <3>2, <3>3
  <2>3. CASE InventoryOrdinary(b)
    BY <2>3, InventoryOrdinaryInv
  <2>4. CASE InventoryLost(b)
    BY <2>4, InventoryLostInv
  <2>5. QED
    BY <2>1, <2>2, <2>3, <2>4
<1>8. CASE WaitDeadline
  BY <1>8, WaitDeadlineInv
<1>9. CASE WaitLinkChanged
  BY <1>9, WaitLinkChangedInv
<1>10. CASE WaitErr
  BY <1>10, WaitErrInv
<1>11. CASE UNCHANGED vars
  BY <1>11 DEF vars, IInv, TypeOK, Control, Owed, Spacing, Prompt,
               TableTracksContinuity, WakeIsExact, WorkReady, BoundedStaleness
<1>12. QED
  BY <1>1, <1>2, <1>3, <1>4, <1>5, <1>6, <1>7, <1>8, <1>9, <1>10, <1>11
  DEF Next, Thread, WaitReturns

\* The inductive invariant holds in every reachable state of the thread.
THEOREM Invariance == Spec => []IInv
<1>1. Init => IInv
  BY InitInv
<1>2. IInv /\ [Next]_vars => IInv'
  BY NextInv
<1>3. QED
  BY <1>1, <1>2, PTL DEF Spec

\* The thread's state keeps its type, and both delays of struct State stay
\* between their first value and their cap for ever.
THEOREM TypeCorrect == Spec => []TypeOK
<1>1. IInv => TypeOK
  BY DEF IInv
<1>2. QED
  BY <1>1, Invariance, PTL

\* No change notification and no loss of notifications is ever forgotten by
\* the scheduling of run(): until an inventory requested after it has been
\* published, one is running or owed.
THEOREM EventsAreKept == Spec => []NoForgottenEvent
<1>1. IInv => NoForgottenEvent
  BY DEF IInv, Prompt, NoForgottenEvent
<1>2. QED
  BY <1>1, Invariance, PTL

\* next_deadline() is exact: the thread wakes neither before nor after the
\* moment at which its loop finds something to do.
THEOREM WakeTheorem == Spec => []WakeIsExact
<1>1. IInv => WakeIsExact
  BY DEF IInv
<1>2. QED
  BY <1>1, Invariance, PTL

\* The thread never sleeps longer than MAX_DELAY over an uncovered change or
\* after a failed attempt.
THEOREM StalenessTheorem == Spec => []BoundedStaleness
<1>1. IInv => BoundedStaleness
  BY DEF IInv
<1>2. QED
  BY <1>1, Invariance, PTL

\* A table is only ever visible under the subscription it was acquired in.
THEOREM ContinuityTheorem == Spec => []TableTracksContinuity
<1>1. IInv => TableTracksContinuity
  BY DEF IInv
<1>2. QED
  BY <1>1, Invariance, PTL

\* The rate limit of run(): whatever mix of notifications, failures, losses
\* and reconciliations requests them, inventories are INITIAL_DELAY apart.
THEOREM SpacingTheorem == Spec => AttemptSpacing
<1>1. IInv /\ [Next]_vars =>
        [(pc = "check" /\ pc' = "inventory" /\ hist.lastStart # None)
           => clock >= hist.lastStart + INITIAL_DELAY]_vars
  <2> SUFFICES ASSUME IInv, Next, pc = "check", pc' = "inventory",
                      hist.lastStart # None
               PROVE  clock >= hist.lastStart + INITIAL_DELAY
    BY DEF vars
  <2>1. StartInventory
    BY DEF Next, Thread, Tick, Top, SubscribeOk, SubscribeErr, StartWait,
           InventoryReturns, WaitReturns, WaitDeadline, WaitLinkChanged, WaitErr
  <2>2. AcquisitionReady(state, clock)
    BY <2>1 DEF StartInventory
  <2>3. /\ clock \in Nat /\ hist.lastStart \in Nat
        /\ state.retry_not_before \in Nat \cup {None}
        /\ state.event_deadline \in Nat \cup {None}
        /\ state.last_success \in Nat \cup {None}
    BY Fields DEF IInv
  <2>4. CASE state.retry_not_before # None
    BY <2>2, <2>3, <2>4, DelayAssumption
    DEF IInv, Spacing, AcquisitionReady, RetryReady
  <2>5. CASE state.retry_not_before = None
    <3>1. ~state.needs_inventory /\ state.last_success \in Nat
          /\ state.last_success >= hist.lastStart
      BY <2>3, <2>5 DEF IInv, Spacing
    <3>2. CASE state.event_deadline # None /\ clock >= state.event_deadline
      BY <2>3, <3>2, DelayAssumption DEF IInv, Spacing
    <3>3. CASE clock >= state.last_success + RECONCILE
      BY <2>3, <3>1, <3>3, DelayAssumption, ReconcileAssumption
    <3>4. QED
      BY <2>2, <3>1, <3>2, <3>3 DEF AcquisitionReady
  <2>6. QED
    BY <2>4, <2>5
<1>2. QED
  BY <1>1, Invariance, PTL DEF Spec, AttemptSpacing

\* Every failure of an inventory or of a subscription is invisible to the
\* readers of the table.
LEMMA FailIsInvisible ==
  ASSUME IInv, NEW s \in State, state' = Fail(s, clock),
         s.continuity = state.continuity, s.subscribed = state.subscribed,
         published' = published
  PROVE  UNCHANGED Pub!pubVars
<1>1. clock \in Time
  BY Fields DEF IInv, Time
<1>2. state'.continuity = s.continuity /\ state'.subscribed = s.subscribed
  BY <1>1, FailFacts
<1>3. QED
  BY <1>2, Zenon DEF Pub!pubVars

\* A loss of continuity withdraws the table.
LEMMA LossIsWithdraw ==
  ASSUME IInv, state.subscribed, NEW s \in State,
         state' = LoseContinuity(s, clock),
         s.continuity = state.continuity, published' = None
  PROVE  Pub!Withdraw
<1>1. clock \in Time
  BY Fields DEF IInv, Time
<1>2. /\ state'.continuity = (s.continuity + 1) % GENERATIONS
      /\ state'.subscribed = FALSE
  BY <1>1, LoseContinuityFacts
<1>3. QED
  BY <1>2, Zenon DEF Pub!Withdraw

\* Each step of the thread is a step of the publication interface, or none.
LEMMA StepSimulation == IInv /\ [Next]_vars => [Pub!Next]_Pub!pubVars
<1> SUFFICES ASSUME IInv, [Next]_vars PROVE Pub!Next \/ UNCHANGED Pub!pubVars
  OBVIOUS
<1>1. state \in State /\ clock \in Time
  BY Fields DEF IInv, Time
<1>2. CASE Tick \/ Top \/ StartWait \/ WaitDeadline \/ UNCHANGED vars
  BY <1>2 DEF Tick, Top, StartWait, WaitDeadline, vars, Pub!pubVars
<1>3. CASE SubscribeOk
  <2>1. ~state.subscribed
    BY <1>3 DEF IInv, Control, SubscribeOk
  <2>2. state'.subscribed = TRUE /\ state'.continuity = state.continuity
    BY <1>1, <1>3 DEF SubscribeOk, State
  <2>3. Pub!Subscribe
    BY <1>3, <2>1, <2>2, Zenon DEF Pub!Subscribe, SubscribeOk
  <2>4. QED
    BY <2>3 DEF Pub!Next
<1>4. CASE SubscribeErr
  BY <1>1, <1>4, FailIsInvisible DEF SubscribeErr
<1>5. CASE StartInventory
  <2>1. state'.continuity = state.continuity /\ state'.subscribed = state.subscribed
    BY <1>1, <1>5, StartAcquisitionFacts DEF StartInventory
  <2>2. QED
    BY <1>5, <2>1, Zenon DEF StartInventory, Pub!pubVars
<1>6. CASE WaitLinkChanged
  <2>1. state'.continuity = state.continuity /\ state'.subscribed = state.subscribed
    BY <1>1, <1>6, RecordEventFacts DEF WaitLinkChanged
  <2>2. QED
    BY <1>6, <2>1, Zenon DEF WaitLinkChanged, Pub!pubVars
<1>7. CASE WaitErr
  <2>1. Pub!Withdraw
    BY <1>1, <1>7, LossIsWithdraw DEF WaitErr
  <2>2. QED
    BY <2>1 DEF Pub!Next
<1>8. CASE InventoryReturns
  <2>1. PICK b \in Batches :
          \/ \E c \in EchoedGenerations, links \in Links : InventoryComplete(c, links, b)
          \/ InventoryOrdinary(b)
          \/ InventoryLost(b)
    BY <1>8 DEF InventoryReturns
  <2>2. pc = "inventory" /\ state.subscribed
    BY <1>8 DEF InventoryReturns, IInv, Control
  <2> DEFINE s == RecordBatch(state, b)
  <2>3. s \in State /\ s.continuity = state.continuity /\ s.subscribed = state.subscribed
    BY <2>2, RecordedFacts
  <2>4. CASE InventoryOrdinary(b)
    <3>1. state' = Fail(s, clock) /\ published' = published
      BY <2>4 DEF InventoryOrdinary
    <3> HIDE DEF s
    <3>2. QED
      BY <2>3, <3>1, FailIsInvisible
  <2>5. CASE InventoryLost(b)
    <3>1. state' = LoseContinuity(s, clock) /\ published' = None
      BY <2>5 DEF InventoryLost
    <3> HIDE DEF s
    <3>2. QED
      BY <2>2, <2>3, <3>1, LossIsWithdraw DEF Pub!Next
  <2>6. CASE \E c \in EchoedGenerations, links \in Links : InventoryComplete(c, links, b)
    <3>1. PICK c \in EchoedGenerations, links \in Links : InventoryComplete(c, links, b)
      BY <2>6
    <3>2. CASE InventoryAccepted(state, c, b, links \in ValidLinks)
      <4> DEFINE r == [s EXCEPT !.retry_not_before = None,
                                !.failure_delay = INITIAL_DELAY,
                                !.last_success = clock]
      <4>1. c = state.continuity /\ links \in ValidLinks
        BY <3>2 DEF InventoryAccepted
      <4>2. state' = r /\ published' = [continuity |-> c, links |-> links]
        BY <3>1, <3>2 DEF InventoryComplete, AcceptInventory, InventoryAccepted
      <4> HIDE DEF s
      <4>3. r.continuity = s.continuity /\ r.subscribed = s.subscribed
        BY <2>3 DEF State
      <4>4. r.continuity = state.continuity /\ r.subscribed = state.subscribed
        BY <2>3, <4>3, Zenon
      <4> HIDE DEF r
      <4>5. Pub!Publish
        <5>1. published' = [continuity |-> state.continuity, links |-> links]
          BY <4>1, <4>2
        <5>2. state'.continuity = state.continuity
              /\ state'.subscribed = state.subscribed
          BY <4>2, <4>4, Zenon
        <5>3. QED
          BY <2>2, <4>1, <5>1, <5>2 DEF Pub!Publish
      <4>6. QED
        BY <4>5 DEF Pub!Next
    <3>3. CASE ~InventoryAccepted(state, c, b, links \in ValidLinks)
      <4> DEFINE a == AcceptInventory(state, c, b, links \in ValidLinks, clock)
      <4>1. state' = Fail(a, clock) /\ published' = published
        BY <3>1, <3>3 DEF InventoryComplete
      <4>2. a = state \/ a = s
        BY <3>3 DEF AcceptInventory
      <4> HIDE DEF a, s
      <4>3. a \in State /\ a.continuity = state.continuity
            /\ a.subscribed = state.subscribed
        BY <1>1, <2>3, <4>2
      <4>4. QED
        BY <4>1, <4>3, FailIsInvisible
    <3>4. QED
      BY <3>2, <3>3
  <2>7. QED
    BY <2>1, <2>4, <2>5, <2>6
<1>9. QED
  BY <1>2, <1>3, <1>4, <1>5, <1>6, <1>7, <1>8 DEF Next, Thread, WaitReturns

\* The thread implements the publication interface: whatever it goes through
\* inside, sessions see a table only while the subscription it was acquired
\* under lives, and an ordinary failure never takes it from them.
THEOREM Refinement == Spec => ImplementsPublication
<1>1. Init => Pub!Init
  BY DEF Init, Pub!Init, NewState
<1>2. IInv /\ [Next]_vars => [Pub!Next]_Pub!pubVars
  BY StepSimulation
<1>3. QED
  BY <1>1, <1>2, Invariance, PTL DEF Spec, ImplementsPublication, Pub!Spec

-----------------------------------------------------------------------------
(***************************************************************************)
(* The two backoffs in closed form.  The history counters stop at          *)
(* BackoffCap, where both delays are at their cap.                         *)
(***************************************************************************)
CapReached == Backoff(BackoffCap - 1) = MAX_DELAY

\* One more exponent doubles a power of two, which counts the subsets of a set:
\* those without the new element, and as many with it.
LEMMA PowerDoubles ==
  ASSUME NEW n \in Nat
  PROVE  2^n \in Nat /\ 2^n >= 1 /\ 2^(n + 1) = 2 * 2^n
<1> DEFINE S == 1 .. n
           x == n + 1
           With == {T \cup {x} : T \in SUBSET S}
<1>1. IsFiniteSet(S) /\ Cardinality(S) = n
  BY FS_Interval
<1>2. IsFiniteSet(SUBSET S) /\ Cardinality(SUBSET S) = 2^n
  BY <1>1, FS_SUBSET
<1>3. x \notin S /\ 1 .. n + 1 = S \cup {x}
  OBVIOUS
<1>4. IsFiniteSet(S \cup {x}) /\ Cardinality(S \cup {x}) = n + 1
  BY <1>1, <1>3, FS_AddElement
<1>5. Cardinality(SUBSET (S \cup {x})) = 2^(n + 1)
  BY <1>4, FS_SUBSET
<1> HIDE DEF S, x
<1>6. IsFiniteSet(With) /\ Cardinality(With) = 2^n
  <2> DEFINE f == [T \in SUBSET S |-> T \cup {x}]
  <2>1. f \in Bijection(SUBSET S, With)
    <3>1. f \in [SUBSET S -> With] /\ \A W \in With : \E T \in SUBSET S : f[T] = W
      OBVIOUS
    <3>2. \A T, U \in SUBSET S : f[T] = f[U] => T = U
      BY <1>3
    <3>3. QED
      BY <3>1, <3>2, Zenon DEF Bijection, Injection, Surjection, IsInjective
  <2>2. ExistsBijection(SUBSET S, With)
    BY <2>1 DEF ExistsBijection
  <2>3. QED
    BY <1>2, <2>2, FS_Bijection
<1>7. SUBSET (S \cup {x}) = (SUBSET S) \cup With
  <2>1. ASSUME NEW T \in SUBSET (S \cup {x}) PROVE T \in (SUBSET S) \cup With
    <3>1. CASE x \in T
      <4>1. T \ {x} \in SUBSET S /\ (T \ {x}) \cup {x} = T
        BY <3>1
      <4>2. QED
        BY <4>1
    <3>2. CASE x \notin T
      BY <3>2
    <3>3. QED
      BY <3>1, <3>2
  <2>2. QED
    BY <2>1
<1>8. (SUBSET S) \cap With = {}
  BY <1>3
<1> HIDE DEF With
<1>9. Cardinality(SUBSET (S \cup {x})) = 2^n + 2^n - 0
  <2>1. Cardinality((SUBSET S) \cup With) =
          Cardinality(SUBSET S) + Cardinality(With) - Cardinality((SUBSET S) \cap With)
    BY <1>2, <1>6, FS_Union, Zenon
  <2>2. Cardinality((SUBSET S) \cap With) = 0
    BY <1>8, FS_EmptySet
  <2>3. QED
    BY <1>2, <1>6, <1>7, <2>1, <2>2, Zenon
<1>10. 2^n \in Nat /\ 2^n # 0
  <2>1. 2^n \in Nat
    BY <1>2, FS_CardinalityType
  <2>2. {} \in SUBSET S
    OBVIOUS
  <2>3. QED
    BY <1>2, <2>1, <2>2, FS_EmptySet
<1>11. QED
  BY <1>5, <1>9, <1>10

\* The closed form: the first delay, doubled by next_delay up to its cap.
LEMMA BackoffFacts ==
  ASSUME NEW n \in Nat
  PROVE  /\ Backoff(n) \in Delay /\ Backoff(n) \in Nat
         /\ Backoff(n) >= INITIAL_DELAY /\ Backoff(n) <= MAX_DELAY
         /\ Backoff(n + 1) = NextDelay(Backoff(n))
<1> DEFINE p == 2^n
           d == INITIAL_DELAY * p
<1>1. p \in Nat /\ p >= 1 /\ 2^(n + 1) = 2 * p
  BY PowerDoubles
<1> HIDE DEF p
<1>2. d \in Nat /\ d >= INITIAL_DELAY /\ INITIAL_DELAY * (2 * p) = 2 * d
  BY <1>1, DelayAssumption
<1> HIDE DEF d
<1>3. Backoff(n) = MinOf(d, MAX_DELAY) /\ Backoff(n + 1) = MinOf(2 * d, MAX_DELAY)
  BY <1>1, <1>2 DEF Backoff, d, p
<1>4. QED
  BY <1>2, <1>3, DelayAssumption DEF MinOf, NextDelay, Delay

\* The first delay is not doubled.
LEMMA BackoffFirst == Backoff(0) = INITIAL_DELAY
<1>1. 2^0 = 1
  OBVIOUS
<1>2. INITIAL_DELAY * 1 = INITIAL_DELAY
  BY DelayAssumption
<1>3. QED
  BY <1>1, <1>2, DelayAssumption DEF Backoff, MinOf

\* The counters keep up with the doubling, at the cap too.
LEMMA CapFacts ==
  ASSUME CapReached, NEW n \in 0 .. BackoffCap
  PROVE  /\ CappedSucc(n) \in 1 .. BackoffCap
         /\ Backoff(CappedSucc(n)) = NextDelay(Backoff(n))
         /\ Backoff(n) >= Backoff(CappedSucc(n) - 1)
<1>1. BackoffCap \in Nat /\ BackoffCap >= 1 /\ n \in Nat
  BY BoundAssumption
<1>2. CASE n < BackoffCap
  <2>1. CappedSucc(n) = n + 1 /\ CappedSucc(n) - 1 = n
    BY <1>1, <1>2 DEF CappedSucc
  <2>2. Backoff(n) \in Nat
    BY <1>1, BackoffFacts
  <2>3. QED
    BY <1>1, <1>2, <2>1, <2>2, BackoffFacts
<1>3. CASE n = BackoffCap
  <2>1. CappedSucc(n) = n /\ n - 1 \in Nat /\ (n - 1) + 1 = n
    BY <1>1, <1>3 DEF CappedSucc
  <2>2. Backoff(n - 1) = MAX_DELAY
    BY <1>3 DEF CapReached
  <2>3. Backoff((n - 1) + 1) = NextDelay(Backoff(n - 1))
    BY <2>1, BackoffFacts
  <2>4. NextDelay(MAX_DELAY) = MAX_DELAY
    BY DelayAssumption DEF NextDelay, MinOf
  <2>5. Backoff(n) = MAX_DELAY
    BY <2>1, <2>2, <2>3, <2>4
  <2>6. QED
    BY <1>1, <1>3, <2>1, <2>2, <2>4, <2>5, DelayAssumption
<1>4. QED
  BY <1>1, <1>2, <1>3

\* failure_delay is the delay of the next failure; the last one is still being
\* waited for.
FailureSteps ==
  /\ state.failure_delay = Backoff(hist.failures)
  /\ hist.failures > 0 =>
       /\ hist.failedAt # None /\ state.retry_not_before # None
       /\ state.retry_not_before >= hist.failedAt + Backoff(hist.failures - 1)

\* event_delay is the delay of the next notification after a request; one that
\* is pending keeps its distance from the last request.
EventSteps ==
  /\ state.event_delay = Backoff(hist.bursts)
  /\ state.last_success # None => hist.lastStart # None
  /\ state.event_deadline # None /\ hist.lastStart # None =>
       state.event_deadline >= hist.lastStart + Backoff(hist.bursts)

\* What record_event does to the delay of notifications.
LEMMA RecordEventDelay ==
  ASSUME NEW s \in State, NEW at \in Time
  PROVE  LET r == RecordEvent(s, at) IN
         /\ r.event_delay = IF s.last_event = None \/ at - s.last_event >= EVENT_RESET
                            THEN INITIAL_DELAY ELSE s.event_delay
         /\ r.last_event = at
         /\ s.event_deadline = None => r.event_deadline = at + r.event_delay
<1> DEFINE delay == IF \/ s.last_event = None
                       \/ SaturatingSub(at, s.last_event) >= EVENT_RESET
                    THEN INITIAL_DELAY ELSE s.event_delay
<1>1. RecordEvent(s, at) = [s EXCEPT !.event_delay = delay,
                                     !.last_event = at,
                                     !.event_deadline = IF @ = None THEN at + delay ELSE @]
  BY DEF RecordEvent
<1>2. s.last_event \in Nat \cup {None} /\ at \in Nat
  BY DEF State, Option, Time
<1>3. delay = IF s.last_event = None \/ at - s.last_event >= EVENT_RESET
              THEN INITIAL_DELAY ELSE s.event_delay
  BY <1>2, ResetAssumption DEF SaturatingSub
<1> HIDE DEF delay
<1> DEFINE r == RecordEvent(s, at)
<1>4. /\ r.event_delay = delay /\ r.last_event = at
      /\ s.event_deadline = None => r.event_deadline = at + delay
  BY <1>1 DEF State
<1>5. QED
  BY <1>3, <1>4

\* What record_batch does to it: the last notification of one inventory follows
\* the first too soon to be after a quiet period.
LEMMA RecordBatchDelay ==
  ASSUME NEW s \in State, NEW b \in EventBatch, b # NoEvents, BatchValid(b)
  PROVE  LET r == RecordBatch(s, b) IN
         /\ b.first \in Nat
         /\ r.event_delay = IF s.last_event = None \/ b.first - s.last_event >= EVENT_RESET
                            THEN INITIAL_DELAY ELSE s.event_delay
         /\ s.event_deadline = None => r.event_deadline = b.first + r.event_delay
<1>1. b.first \in Time /\ b.last \in Time /\ b.last - b.first < EVENT_RESET
  BY DEF BatchValid, EventBatch, Option
<1>2. b.first \in Nat /\ b.last \in Nat /\ b.first # None
  BY <1>1, NoneAssumption DEF Time
<1> DEFINE once == RecordEvent(s, b.first)
           r == RecordBatch(s, b)
<1>3. /\ once \in State
      /\ once.event_delay = IF s.last_event = None \/ b.first - s.last_event >= EVENT_RESET
                            THEN INITIAL_DELAY ELSE s.event_delay
      /\ once.last_event = b.first
      /\ s.event_deadline = None => once.event_deadline = b.first + once.event_delay
      /\ s.event_deadline = None => once.event_deadline \in Time
  BY <1>1, RecordEventFacts, RecordEventDelay
<1>4. r = once \/ r = RecordEvent(once, b.last)
  BY DEF RecordBatch
<1> HIDE DEF once, r
<1>5. CASE r = once
  BY <1>2, <1>3, <1>5 DEF r
<1>6. CASE r = RecordEvent(once, b.last)
  <2> DEFINE twice == RecordEvent(once, b.last)
  <2>1. /\ twice.event_delay = IF once.last_event = None
                                  \/ b.last - once.last_event >= EVENT_RESET
                               THEN INITIAL_DELAY ELSE once.event_delay
        /\ once.event_deadline # None => twice.event_deadline = once.event_deadline
    BY <1>1, <1>3, RecordEventFacts, RecordEventDelay
  <2>2. ~(once.last_event = None \/ b.last - once.last_event >= EVENT_RESET)
    BY <1>1, <1>2, <1>3, ResetAssumption
  <2>3. s.event_deadline = None => once.event_deadline # None
    BY <1>3, NoneAssumption DEF Time
  <2> HIDE DEF twice
  <2>4. r = twice
    BY <1>6 DEF twice
  <2>5. QED
    BY <1>2, <1>3, <2>1, <2>2, <2>3, <2>4 DEF r
<1>7. QED
  BY <1>4, <1>5, <1>6

-----------------------------------------------------------------------------
(***************************************************************************)
(* Every step keeps both.                                                  *)
(***************************************************************************)
Steps == IInv /\ FailureSteps /\ EventSteps

\* The fields that the backoffs are about.
LEMMA StepFields ==
  ASSUME Steps
  PROVE  /\ clock \in Nat /\ state \in State /\ hist \in History
         /\ hist.failures \in 0 .. BackoffCap /\ hist.bursts \in 0 .. BackoffCap
         /\ hist.failures \in Nat /\ hist.bursts \in Nat
         /\ hist.failedAt \in Nat \cup {None} /\ hist.lastStart \in Nat \cup {None}
         /\ state.retry_not_before \in Nat \cup {None}
         /\ state.event_deadline \in Nat \cup {None}
BY Fields, BoundAssumption DEF Steps, IInv

\* What fail does to the two delays.
LEMMA FailDelays ==
  ASSUME NEW s \in State, NEW now \in Time
  PROVE  LET r == Fail(s, now) IN
         /\ r.retry_not_before = now + s.failure_delay
         /\ r.failure_delay = NextDelay(s.failure_delay)
         /\ r.event_delay = s.event_delay
         /\ r.event_deadline = s.event_deadline
         /\ r.last_success = s.last_success
BY DEF Fail, State

\* A call that fails, after what it did to the state and its history.
LEMMA FailSteps ==
  ASSUME CapReached, Steps, NEW s \in State, NEW h \in History,
         s.failure_delay = state.failure_delay, h.failures = hist.failures,
         state' = Fail(s, clock), hist' = Failed(h)
  PROVE  /\ FailureSteps'
         /\ state'.event_delay = s.event_delay /\ state'.event_deadline = s.event_deadline
         /\ state'.last_success = s.last_success
         /\ hist'.bursts = h.bursts /\ hist'.lastStart = h.lastStart
<1> DEFINE n == hist.failures
<1>1. clock \in Nat /\ clock \in Time /\ n \in 0 .. BackoffCap /\ n \in Nat
  BY StepFields DEF Time
<1>2. state.failure_delay = Backoff(n)
  BY DEF Steps, FailureSteps
<1>3. /\ CappedSucc(n) \in 1 .. BackoffCap
      /\ Backoff(CappedSucc(n)) = NextDelay(Backoff(n))
      /\ Backoff(n) >= Backoff(CappedSucc(n) - 1)
  BY <1>1, CapFacts
<1>4. /\ state'.retry_not_before = clock + Backoff(n)
      /\ state'.failure_delay = NextDelay(Backoff(n))
      /\ state'.event_delay = s.event_delay
      /\ state'.event_deadline = s.event_deadline
      /\ state'.last_success = s.last_success
  BY <1>1, <1>2, FailDelays
<1>5. /\ hist'.failures = CappedSucc(n) /\ hist'.failedAt = clock
      /\ hist'.bursts = h.bursts /\ hist'.lastStart = h.lastStart
  BY DEF Failed, History
<1>6. Backoff(n) \in Nat /\ Backoff(CappedSucc(n) - 1) \in Nat
  <2>1. CappedSucc(n) - 1 \in Nat
    BY <1>3, BoundAssumption
  <2>2. QED
    BY <1>1, <2>1, BackoffFacts
<1>7. FailureSteps'
  <2>1. state'.failure_delay = Backoff(hist'.failures)
    BY <1>3, <1>4, <1>5
  <2>2. hist'.failedAt # None /\ state'.retry_not_before # None
    BY <1>1, <1>4, <1>5, <1>6, NoneAssumption
  <2>3. state'.retry_not_before >= hist'.failedAt + Backoff(hist'.failures - 1)
    BY <1>1, <1>3, <1>4, <1>5, <1>6
  <2>4. QED
    BY <2>1, <2>2, <2>3 DEF FailureSteps, Backoff, MinOf
<1>8. QED
  BY <1>4, <1>5, <1>7

\* The notifications of an inventory: record_batch and the history agree on
\* whether they follow a quiet period.
LEMMA BatchSteps ==
  ASSUME Steps, pc = "inventory", NEW b \in Batches
  PROVE  LET r == RecordBatch(state, b) IN
         /\ r \in State
         /\ r.failure_delay = state.failure_delay /\ r.last_success = state.last_success
         /\ BurstsAfter(b) \in 0 .. BackoffCap
         /\ r.event_delay = Backoff(BurstsAfter(b))
         /\ r.event_deadline # None =>
              r.event_deadline >= hist.lastStart + Backoff(BurstsAfter(b))
<1> DEFINE r == RecordBatch(state, b)
<1>1. TypeOK /\ Control
  BY DEF Steps, IInv
<1>2. /\ b \in EventBatch
      /\ b.first # None => b.first \in Nat /\ b.first >= hist.lastStart
  BY <1>1, BatchFacts
<1>3. state \in State /\ hist.bursts \in 0 .. BackoffCap /\ hist.lastStart \in Nat
      /\ state.event_deadline = None /\ state.event_delay = Backoff(hist.bursts)
  BY <1>1, StepFields DEF Control, Steps, EventSteps
<1>4. r \in State /\ r.failure_delay = state.failure_delay
      /\ r.last_success = state.last_success
  BY <1>2, <1>3, RecordBatchFacts
<1>5. BurstsAfter(b) \in 0 .. BackoffCap /\ BurstsAfter(b) \in Nat
  BY <1>3, BoundAssumption DEF BurstsAfter
<1>6. CASE b = NoEvents \/ ~BatchValid(b)
  <2>1. r = state /\ BurstsAfter(b) = hist.bursts
    BY <1>6 DEF RecordBatch, BurstsAfter
  <2>2. QED
    BY <1>3, <1>4, <1>5, <2>1
<1>7. CASE b # NoEvents /\ BatchValid(b)
  <2>1. /\ b.first \in Nat
        /\ r.event_delay = IF state.last_event = None
                              \/ b.first - state.last_event >= EVENT_RESET
                           THEN INITIAL_DELAY ELSE state.event_delay
        /\ r.event_deadline = b.first + r.event_delay
    BY <1>2, <1>3, <1>7, RecordBatchDelay
  <2>2. r.event_delay = Backoff(BurstsAfter(b))
    <3>1. CASE QuietBefore(b.first)
      BY <1>7, <2>1, <3>1, BackoffFirst DEF BurstsAfter, QuietBefore
    <3>2. CASE ~QuietBefore(b.first)
      BY <1>3, <1>7, <2>1, <3>2 DEF BurstsAfter, QuietBefore
    <3>3. QED
      BY <3>1, <3>2
  <2>3. b.first >= hist.lastStart
    BY <1>2, <2>1, NoneAssumption
  <2>4. Backoff(BurstsAfter(b)) \in Nat
    BY <1>5, BackoffFacts
  <2> HIDE DEF r
  <2>5. r.event_deadline >= hist.lastStart + Backoff(BurstsAfter(b))
    BY <1>3, <2>1, <2>2, <2>3, <2>4
  <2>6. QED
    BY <1>4, <1>5, <2>2, <2>5 DEF r
<1>8. QED
  BY <1>6, <1>7

\* An inventory that fails keeps the delay of its notifications.
LEMMA FailedInventorySteps ==
  ASSUME CapReached, Steps, pc = "inventory", NEW b \in Batches,
         NEW s \in State, NEW h \in History,
         s.failure_delay = state.failure_delay, h.failures = hist.failures,
         s.event_delay = Backoff(h.bursts),
         s.event_deadline # None => s.event_deadline >= h.lastStart + Backoff(h.bursts),
         h.lastStart = hist.lastStart,
         state' = Fail(s, clock), hist' = Failed(h)
  PROVE  FailureSteps' /\ EventSteps'
<1>1. /\ FailureSteps'
      /\ state'.event_delay = s.event_delay /\ state'.event_deadline = s.event_deadline
      /\ hist'.bursts = h.bursts /\ hist'.lastStart = h.lastStart
  BY FailSteps
<1>2. hist.lastStart # None
  BY DEF Steps, IInv, Control
<1>3. QED
  BY <1>1, <1>2 DEF EventSteps, Backoff, MinOf

\* The history of an inventory's notifications.
LEMMA BatchHistory ==
  ASSUME Steps, NEW first, first \in Option(Time), NEW n \in 0 .. BackoffCap
  PROVE  LET h == [hist EXCEPT !.dirtySince = first, !.bursts = n] IN
         /\ h \in History /\ h.bursts = n
         /\ h.failures = hist.failures /\ h.lastStart = hist.lastStart
<1>1. hist \in History
  BY StepFields
<1>2. QED
  BY <1>1 DEF History

\* The oldest uncovered change is a time.
LEMMA DirtyType ==
  ASSUME Steps, pc = "inventory", NEW b \in Batches
  PROVE  /\ Earliest(hist.dirtySince, b.first) \in Option(Time)
         /\ Earliest(Earliest(hist.dirtySince, b.first), clock) \in Option(Time)
<1>1. b \in EventBatch
  BY BatchFacts DEF Steps, IInv
<1>2. b.first \in Option(Time) /\ hist.dirtySince \in Option(Time) /\ clock \in Option(Time)
  BY <1>1, StepFields DEF EventBatch, History, Option, Time
<1>3. QED
  BY <1>2 DEF Earliest

\* Every step of the thread keeps both backoffs.
LEMMA StepsInv ==
  ASSUME CapReached, Steps, [Next]_vars
  PROVE  FailureSteps' /\ EventSteps'
<1> USE DEF Backoff, MinOf
<1>1. CASE Tick \/ Top \/ StartWait \/ WaitDeadline \/ UNCHANGED vars
  <2>1. UNCHANGED <<state, hist>>
    BY <1>1 DEF Tick, Top, StartWait, WaitDeadline, vars
  <2>2. QED
    BY <2>1 DEF Steps, FailureSteps, EventSteps
<1>2. CASE SubscribeOk
  <2>1. /\ state'.failure_delay = state.failure_delay
        /\ state'.retry_not_before = state.retry_not_before
        /\ state'.event_delay = state.event_delay
        /\ state'.event_deadline = state.event_deadline
        /\ state'.last_success = state.last_success
        /\ hist' = hist
    BY <1>2, StepFields DEF SubscribeOk, State
  <2>2. QED
    BY <2>1 DEF Steps, FailureSteps, EventSteps
<1>3. CASE SubscribeErr
  <2>1. /\ FailureSteps'
        /\ state'.event_delay = state.event_delay
        /\ state'.event_deadline = state.event_deadline
        /\ state'.last_success = state.last_success
        /\ hist'.bursts = hist.bursts /\ hist'.lastStart = hist.lastStart
    BY <1>3, StepFields, FailSteps DEF SubscribeErr
  <2>2. QED
    BY <2>1 DEF Steps, EventSteps
<1>4. CASE StartInventory
  <2> DEFINE n == IF state.event_deadline = None THEN hist.bursts ELSE CappedSucc(hist.bursts)
  <2>1. /\ state'.failure_delay = state.failure_delay
        /\ state'.retry_not_before = state.retry_not_before
        /\ state'.event_delay = IF state.event_deadline = None THEN state.event_delay
                                ELSE NextDelay(state.event_delay)
        /\ state'.event_deadline = None
    BY <1>4, StepFields DEF StartInventory, StartAcquisition, State
  <2>2. /\ hist'.lastStart = clock /\ hist'.bursts = n
        /\ hist'.failures = hist.failures /\ hist'.failedAt = hist.failedAt
    BY <1>4, StepFields DEF StartInventory, History
  <2>3. state'.event_delay = Backoff(hist'.bursts)
    <3>1. state.event_delay = Backoff(hist.bursts) /\ hist.bursts \in 0 .. BackoffCap
      BY StepFields DEF Steps, EventSteps
    <3>2. Backoff(CappedSucc(hist.bursts)) = NextDelay(Backoff(hist.bursts))
      BY <3>1, CapFacts
    <3> HIDE DEF Backoff
    <3>3. QED
      BY <2>1, <2>2, <3>1, <3>2
  <2>4. hist'.lastStart # None
    BY <2>2, StepFields, NoneAssumption
  <2>5. FailureSteps'
    BY <2>1, <2>2 DEF Steps, FailureSteps
  <2>6. QED
    BY <2>1, <2>3, <2>4, <2>5 DEF EventSteps
<1>5. ASSUME NEW b \in Batches, NEW c \in EchoedGenerations, NEW links \in Links,
             InventoryComplete(c, links, b)
      PROVE  FailureSteps' /\ EventSteps'
  <2> DEFINE ok == links \in ValidLinks
             r == RecordBatch(state, b)
  <2>1. pc = "inventory" /\ hist.lastStart # None /\ b \in EventBatch
    BY <1>5, BatchFacts DEF InventoryComplete, Steps, IInv, Control
  <2>2. /\ r \in State
        /\ r.failure_delay = state.failure_delay /\ r.last_success = state.last_success
        /\ BurstsAfter(b) \in 0 .. BackoffCap
        /\ r.event_delay = Backoff(BurstsAfter(b))
        /\ r.event_deadline # None =>
             r.event_deadline >= hist.lastStart + Backoff(BurstsAfter(b))
    BY <2>1, BatchSteps
  <2>3. CASE InventoryAccepted(state, c, b, ok)
    <3>1. /\ state' = [r EXCEPT !.retry_not_before = None,
                                !.failure_delay = INITIAL_DELAY,
                                !.last_success = clock]
          /\ hist' = [hist EXCEPT !.dirtySince = b.first, !.failures = 0,
                                  !.failedAt = None, !.bursts = BurstsAfter(b)]
      BY <1>5, <2>3 DEF InventoryComplete, AcceptInventory, InventoryAccepted
    <3> HIDE DEF r, Backoff
    <3>2. /\ state'.failure_delay = INITIAL_DELAY
          /\ state'.event_delay = r.event_delay /\ state'.event_deadline = r.event_deadline
      BY <2>2, <3>1 DEF State
    <3>3. /\ hist'.failures = 0 /\ hist'.lastStart = hist.lastStart
          /\ hist'.bursts = BurstsAfter(b)
      BY <3>1, StepFields DEF History
    <3>4. state'.failure_delay = Backoff(hist'.failures)
      BY <3>2, <3>3, BackoffFirst
    <3>5. ~(hist'.failures > 0)
      BY <3>3
    <3>6. FailureSteps'
      BY <3>4, <3>5 DEF FailureSteps, Backoff
    <3>7. QED
      BY <2>1, <2>2, <3>2, <3>3, <3>6 DEF EventSteps, Backoff
  <2>4. CASE ~InventoryAccepted(state, c, b, ok)
    <3> DEFINE s == IF c = state.continuity THEN r ELSE state
               n == IF c = state.continuity THEN BurstsAfter(b) ELSE hist.bursts
               h == [hist EXCEPT !.dirtySince = Earliest(hist.dirtySince, b.first),
                                 !.bursts = n]
    <3>1. state' = Fail(s, clock) /\ hist' = Failed(h)
      BY <1>5, <2>4 DEF InventoryComplete, AcceptInventory
    <3>2. n \in 0 .. BackoffCap
      BY <2>2, StepFields
    <3>3. /\ h \in History /\ h.bursts = n
          /\ h.failures = hist.failures /\ h.lastStart = hist.lastStart
      BY <2>1, <3>2, DirtyType, BatchHistory
    <3>4. /\ s \in State /\ s.failure_delay = state.failure_delay
          /\ s.event_delay = Backoff(n)
          /\ s.event_deadline # None => s.event_deadline >= hist.lastStart + Backoff(n)
      BY <2>1, <2>2, StepFields DEF Steps, EventSteps
    <3> HIDE DEF s, n, h, Backoff
    <3>5. QED
      BY <2>1, <3>1, <3>3, <3>4, FailedInventorySteps
  <2>5. QED
    BY <2>3, <2>4
<1>6. ASSUME NEW b \in Batches, InventoryOrdinary(b) \/ InventoryLost(b)
      PROVE  FailureSteps' /\ EventSteps'
  <2> DEFINE r == RecordBatch(state, b)
             lost == [r EXCEPT !.continuity = (@ + 1) % GENERATIONS,
                               !.subscribed = FALSE, !.needs_inventory = TRUE]
             first == IF InventoryLost(b)
                      THEN Earliest(Earliest(hist.dirtySince, b.first), clock)
                      ELSE Earliest(hist.dirtySince, b.first)
  <2>1. pc = "inventory"
    BY <1>6 DEF InventoryOrdinary, InventoryLost
  <2>2. /\ r \in State
        /\ r.failure_delay = state.failure_delay
        /\ BurstsAfter(b) \in 0 .. BackoffCap
        /\ r.event_delay = Backoff(BurstsAfter(b))
        /\ r.event_deadline # None =>
             r.event_deadline >= hist.lastStart + Backoff(BurstsAfter(b))
    BY <2>1, BatchSteps
  <2>3. PICK s \in {r, lost}, d \in Option(Time) :
          /\ state' = Fail(s, clock)
          /\ hist' = Failed([hist EXCEPT !.dirtySince = d, !.bursts = BurstsAfter(b)])
    <3>1. /\ Earliest(hist.dirtySince, b.first) \in Option(Time)
          /\ Earliest(Earliest(hist.dirtySince, b.first), clock) \in Option(Time)
      BY <2>1, DirtyType
    <3>2. QED
      BY <1>6, <3>1 DEF InventoryOrdinary, InventoryLost, LoseContinuity
  <2>4. /\ s \in State /\ s.failure_delay = r.failure_delay
        /\ s.event_delay = r.event_delay /\ s.event_deadline = r.event_deadline
    <3> HIDE DEF r
    <3>1. (r.continuity + 1) % GENERATIONS \in Generation
      BY <2>2, GenerationsAssumption DEF State, Generation
    <3>2. QED
      BY <2>2, <2>3, <3>1 DEF State
  <2> DEFINE h == [hist EXCEPT !.dirtySince = d, !.bursts = BurstsAfter(b)]
  <2>5. /\ h \in History /\ h.bursts = BurstsAfter(b)
        /\ h.failures = hist.failures /\ h.lastStart = hist.lastStart
    BY <2>2, BatchHistory
  <2>6. hist' = Failed(h)
    BY <2>3
  <2> HIDE DEF r, lost, h, Backoff
  <2>7. QED
    BY <2>1, <2>2, <2>3, <2>4, <2>5, <2>6, FailedInventorySteps
<1>7. CASE WaitLinkChanged
  <2>1. state' = RecordEvent(state, clock) /\ clock \in Time /\ state \in State
    BY <1>7, StepFields DEF WaitLinkChanged, Time
  <2>2. /\ state'.failure_delay = state.failure_delay
        /\ state'.retry_not_before = state.retry_not_before
        /\ state'.last_success = state.last_success
        /\ state.event_deadline # None => state'.event_deadline = state.event_deadline
        /\ state'.event_delay = IF QuietBefore(clock) THEN INITIAL_DELAY
                                ELSE state.event_delay
        /\ state.event_deadline = None => state'.event_deadline = clock + state'.event_delay
    BY <2>1, RecordEventFacts, RecordEventDelay DEF QuietBefore
  <2>3. /\ hist'.failures = hist.failures /\ hist'.failedAt = hist.failedAt
        /\ hist'.lastStart = hist.lastStart
        /\ hist'.bursts = IF QuietBefore(clock) THEN 0 ELSE hist.bursts
    BY <1>7, StepFields DEF WaitLinkChanged, History
  <2>4. FailureSteps'
    BY <2>2, <2>3 DEF Steps, FailureSteps
  <2> DEFINE n == hist'.bursts
  <2>5. n \in Nat /\ state'.event_delay = Backoff(n) /\ Backoff(n) <= Backoff(hist.bursts)
    <3> HIDE DEF Backoff
    <3>1. hist.bursts \in Nat /\ state.event_delay = Backoff(hist.bursts)
      BY StepFields DEF Steps, EventSteps
    <3>2. Backoff(hist.bursts) \in Nat /\ Backoff(hist.bursts) >= INITIAL_DELAY
      BY <3>1, BackoffFacts
    <3>3. QED
      BY <2>2, <2>3, <3>1, <3>2, BackoffFirst, DelayAssumption
  <2>6. Backoff(n) \in Nat /\ Backoff(hist.bursts) \in Nat
    BY <2>5, StepFields, BackoffFacts
  <2> HIDE DEF n, Backoff
  <2>7. ASSUME state'.event_deadline # None, hist'.lastStart # None
        PROVE  state'.event_deadline >= hist'.lastStart + Backoff(n)
    <3>1. hist.lastStart \in Nat /\ clock \in Nat /\ hist.lastStart <= clock
      BY <2>3, <2>7, StepFields DEF Steps, IInv, Spacing
    <3>2. CASE state.event_deadline = None
      BY <2>2, <2>3, <2>5, <2>6, <3>1, <3>2
    <3>3. CASE state.event_deadline # None
      <4>1. state.event_deadline \in Nat
            /\ state.event_deadline >= hist.lastStart + Backoff(hist.bursts)
        BY <2>3, <2>7, <3>3, StepFields DEF Steps, EventSteps
      <4>2. QED
        BY <2>2, <2>3, <2>5, <2>6, <3>1, <3>3, <4>1
    <3>4. QED
      BY <3>2, <3>3
  <2>8. state'.last_success # None => hist'.lastStart # None
    BY <2>2, <2>3 DEF Steps, EventSteps
  <2>9. QED
    BY <2>4, <2>5, <2>7, <2>8 DEF EventSteps, Backoff, n
<1>8. CASE WaitErr
  <2> DEFINE s == [state EXCEPT !.continuity = (@ + 1) % GENERATIONS,
                                !.subscribed = FALSE, !.needs_inventory = TRUE]
             h == [hist EXCEPT !.dirtySince = Earliest(@, clock)]
  <2>1. state' = Fail(s, clock) /\ hist' = Failed(h)
    BY <1>8 DEF WaitErr, LoseContinuity
  <2>2. /\ s \in State /\ s.failure_delay = state.failure_delay
        /\ s.event_delay = state.event_delay /\ s.event_deadline = state.event_deadline
        /\ s.last_success = state.last_success
    <3>1. state \in State /\ (state.continuity + 1) % GENERATIONS \in Generation
      BY StepFields, GenerationsAssumption DEF State, Generation
    <3>2. QED
      BY <3>1 DEF State
  <2>3. /\ h \in History /\ h.bursts = hist.bursts
        /\ h.failures = hist.failures /\ h.lastStart = hist.lastStart
    BY StepFields DEF History, Option, Time, Earliest
  <2> HIDE DEF s, h
  <2>4. /\ FailureSteps'
        /\ state'.event_delay = s.event_delay /\ state'.event_deadline = s.event_deadline
        /\ state'.last_success = s.last_success
        /\ hist'.bursts = h.bursts /\ hist'.lastStart = h.lastStart
    BY <2>1, <2>2, <2>3, FailSteps
  <2>5. QED
    BY <2>2, <2>3, <2>4 DEF Steps, EventSteps
<1>9. QED
  BY <1>1, <1>2, <1>3, <1>4, <1>5, <1>6, <1>7, <1>8
  DEF Next, Thread, InventoryReturns, WaitReturns

\* Both backoffs hold in every reachable state.
LEMMA StepsInvariance ==
  ASSUME CapReached
  PROVE  Spec => []Steps
<1>1. Init => Steps
  <2> SUFFICES ASSUME Init PROVE Steps
    OBVIOUS
  <2>1. FailureSteps /\ EventSteps
    BY BackoffFirst DEF Init, NewState, FailureSteps, EventSteps
  <2>2. QED
    BY <2>1, InitInv DEF Steps
<1>2. Steps /\ [Next]_vars => Steps'
  <2> SUFFICES ASSUME Steps, [Next]_vars PROVE Steps'
    OBVIOUS
  <2>1. IInv'
    BY NextInv DEF Steps
  <2>2. FailureSteps' /\ EventSteps'
    BY StepsInv
  <2>3. QED
    BY <2>1, <2>2 DEF Steps
<1>3. QED
  BY <1>1, <1>2, PTL DEF Spec

\* fail() and retry_ready(): after the n-th failure in a row neither subscribe()
\* nor inventory() is called before 2^(n-1) initial delays, or MAX_DELAY, have
\* passed, whatever notifications and reconciliations ask for in the meantime.
THEOREM FloorTheorem ==
  ASSUME CapReached
  PROVE  Spec => FailureFloor
<1>1. Steps /\ [Next]_vars =>
        [(pc' # pc /\ pc' \in {"subscribe", "inventory"} /\ hist.failures > 0)
           => clock >= hist.failedAt + Backoff(hist.failures - 1)]_vars
  <2> SUFFICES ASSUME Steps, Next, pc' # pc, pc' \in {"subscribe", "inventory"},
                      hist.failures > 0
               PROVE  clock >= hist.failedAt + Backoff(hist.failures - 1)
    BY DEF vars
  <2>1. Top \/ StartInventory
    BY DEF Next, Thread, Tick, SubscribeOk, SubscribeErr, StartWait, InventoryReturns,
           InventoryComplete, InventoryOrdinary, InventoryLost,
           WaitReturns, WaitDeadline, WaitLinkChanged, WaitErr
  <2>2. RetryReady(state, clock)
    BY <2>1 DEF Top, StartInventory, AcquisitionReady
  <2>3. /\ state.retry_not_before # None /\ hist.failedAt # None
        /\ state.retry_not_before >= hist.failedAt + Backoff(hist.failures - 1)
    BY DEF Steps, FailureSteps
  <2>4. /\ clock \in Nat /\ hist.failedAt \in Nat /\ state.retry_not_before \in Nat
        /\ hist.failures - 1 \in Nat
    BY <2>3, StepFields
  <2>5. Backoff(hist.failures - 1) \in Nat
    BY <2>4, BackoffFacts
  <2>6. clock >= state.retry_not_before
    BY <2>2, <2>3 DEF RetryReady
  <2>7. QED
    BY <2>3, <2>4, <2>5, <2>6
<1>2. QED
  BY <1>1, StepsInvariance, PTL DEF Spec, FailureFloor

\* record_event() and start_acquisition(): an inventory that only notifications
\* ask for keeps the doubled distance from the last one, however the
\* notifications are spread over waits and inventories.
THEOREM EventTheorem ==
  ASSUME CapReached
  PROVE  Spec => EventBackoff
<1>1. Steps /\ [Next]_vars =>
        [(pc = "check" /\ pc' = "inventory" /\ ~state.needs_inventory
          /\ clock < state.last_success + RECONCILE)
           => clock >= hist.lastStart + Backoff(hist.bursts)]_vars
  <2> SUFFICES ASSUME Steps, Next, pc = "check", pc' = "inventory",
                      ~state.needs_inventory, clock < state.last_success + RECONCILE
               PROVE  clock >= hist.lastStart + Backoff(hist.bursts)
    BY DEF vars
  <2>1. StartInventory
    BY DEF Next, Thread, Tick, Top, SubscribeOk, SubscribeErr, StartWait,
           InventoryReturns, WaitReturns, WaitDeadline, WaitLinkChanged, WaitErr
  <2>2. state.last_success # None /\ hist.lastStart # None
    BY DEF Steps, IInv, Owed, EventSteps
  <2>3. clock \in Nat /\ state.last_success \in Nat /\ hist.lastStart \in Nat
    BY <2>2, StepFields DEF State, Option, Time
  <2>4. state.event_deadline # None /\ clock >= state.event_deadline
    BY <2>1, <2>3, ReconcileAssumption DEF StartInventory, AcquisitionReady
  <2>5. state.event_deadline >= hist.lastStart + Backoff(hist.bursts)
    BY <2>2, <2>4 DEF Steps, EventSteps
  <2>6. state.event_deadline \in Nat /\ Backoff(hist.bursts) \in Nat
    BY <2>4, StepFields, BackoffFacts
  <2>7. QED
    BY <2>3, <2>4, <2>5, <2>6
<1>2. QED
  BY <1>1, StepsInvariance, PTL DEF Spec, EventBackoff

=============================================================================
