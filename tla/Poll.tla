-------------------------------- MODULE Poll --------------------------------
(***************************************************************************)
(* SocketIo::wait of src/netlink.rs: poll() takes milliseconds in an i32,  *)
(* a Duration counts nanoseconds in far more bits, and signals interrupt   *)
(* the call.  One caller after another waits; how long is what it has left *)
(* of its timeout, so time needs no origin.                                *)
(***************************************************************************)
EXTENDS Integers

CONSTANTS
  MILLI,      \* the clock's ticks in a millisecond (10^6 ns)
  I32_MAX,    \* largest timeout of poll()
  MaxTimeout, \* bound on a caller's timeout, in ticks
  Never       \* the time left of a poll() without a timeout

ASSUME PollAssumption ==
  /\ MILLI \in Nat \ {0}
  /\ I32_MAX \in Nat \ {0}
  /\ MaxTimeout \in Nat

ASSUME NeverAssumption == Never \notin Int

VARIABLES
  pc,      \* "idle", "top" of the loop, in "poll", or "returned"
  timeout, \* the argument
  elapsed, \* started.elapsed(), as far as it is below the timeout
  left,    \* ticks until poll() gives up, Never if it never does
  ready    \* the result: the sockets that are readable and those that failed

pollVars == <<pc, timeout, elapsed, left, ready>>

Sockets == {"notification", "dump"}

Flags == {"POLLIN", "POLLERR", "POLLHUP", "POLLNVAL"}

NoEvents == [socket \in Sockets |-> {}]

NotReady == [readable |-> {}, failed |-> {}]

-----------------------------------------------------------------------------

PollInit ==
  /\ pc = "idle" /\ timeout = 0 /\ elapsed = 0 /\ left = Never
  /\ ready = NotReady

Call ==
  /\ pc \in {"idle", "returned"}
  /\ pc' = "top"
  /\ timeout' \in 0 .. MaxTimeout
  /\ elapsed' = 0 /\ left' = Never
  /\ ready' = NotReady

\* A cast to i32 keeps the low bits.
AsI32(n) ==
  LET size == 2 * (I32_MAX + 1)
      low  == n % size
  IN IF low > I32_MAX THEN low - size ELSE low

WholeMillisDown(remaining) == remaining \div MILLI

\* Whole milliseconds, rounded up.
WholeMillis(remaining) ==
  remaining \div MILLI + (IF remaining % MILLI = 0 THEN 0 ELSE 1)

Millis(remaining) ==
  AsI32(IF WholeMillis(remaining) < I32_MAX THEN WholeMillis(remaining) ELSE I32_MAX)

RemainingStale == timeout

\* What is left of the timeout; elapsed does not count beyond it.
Remaining == timeout - elapsed

\* poll() never times out with a negative argument.
StartPoll ==
  /\ pc = "top"
  /\ pc' = "poll"
  /\ left' = LET millis == Millis(Remaining)
             IN IF millis < 0 THEN Never ELSE millis * MILLI
  /\ UNCHANGED <<timeout, elapsed, ready>>

Tick ==
  /\ pc \in {"top", "poll"}
  /\ elapsed' = IF elapsed < timeout THEN elapsed + 1 ELSE elapsed
  /\ left' = IF left \in {Never, 0} THEN left ELSE left - 1
  /\ <<elapsed', left'>> # <<elapsed, left>>
  /\ UNCHANGED <<pc, timeout, ready>>

\* EINTR.
Interrupted ==
  /\ pc = "poll"
  /\ pc' = "top" /\ left' = Never
  /\ UNCHANGED <<timeout, elapsed, ready>>

PollErr ==
  /\ pc = "poll"
  /\ pc' = "idle" /\ left' = Never
  /\ UNCHANGED <<timeout, elapsed, ready>>

Result(found) ==
  [readable |-> {s \in Sockets : found[s] \cap {"POLLIN", "POLLERR"} # {}},
   failed   |-> {s \in Sockets : found[s] \cap {"POLLHUP", "POLLNVAL"} # {}}]

\* poll() reports any events at any time, and none only at its timeout.
PollOk(found) ==
  /\ pc = "poll"
  /\ found = NoEvents => left = 0
  /\ pc' = "returned" /\ left' = Never
  /\ ready' = Result(found)
  /\ UNCHANGED <<timeout, elapsed>>

PollNext ==
  \/ Call \/ StartPoll \/ Tick \/ Interrupted \/ PollErr
  \/ \E found \in [Sockets -> SUBSET Flags] : PollOk(found)

(***************************************************************************)
(* Fairness.  Time passes, the thread runs, and signals do not interrupt   *)
(* every poll() that has reached its timeout.                              *)
(***************************************************************************)
PollFairness == WF_pollVars(Tick) /\ WF_pollVars(StartPoll) /\ SF_pollVars(PollOk(NoEvents))

PollSpec == PollInit /\ [][PollNext]_pollVars /\ PollFairness

-----------------------------------------------------------------------------

Smaller(a, b) == IF a < b THEN a ELSE b

\* wait() reports nothing only when its timeout, or the longest that poll()
\* can wait, has passed.  A return before that would make the monitor's loop
\* spin until its deadline.
NoEarlyDeadline ==
  pc = "returned" /\ ready = NotReady => elapsed >= Smaller(timeout, I32_MAX * MILLI)

\* wait() ends, however often signals restart it and however long its timeout
\* is; the deadline of an inventory and the monitor's schedule rest on that.
WaitEnds == pc \in {"top", "poll"} ~> pc \in {"returned", "idle"}

=============================================================================
