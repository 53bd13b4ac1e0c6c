-------------------------- MODULE LinkMonitorLive --------------------------
(***************************************************************************)
(* The monitor on the netlink adapter and the kernel over unbounded time:   *)
(* module LinkMonitor, with a clock that stops at MaxTime while every time  *)
(* stamp grows older, as in module MonitorLive.  The reconciliation          *)
(* interval is longer than the horizon: a periodic inventory never comes to  *)
(* the rescue, so whatever the table catches up with, it does because of a   *)
(* notification or of a loss.                                               *)
(***************************************************************************)
EXTENDS LinkMonitor

ASSUME NoReconciliationAssumption ==
  /\ MaxTime < RECONCILE
  /\ MaxTime > EVENT_RESET /\ MaxTime > MAX_DELAY /\ MaxTime > INVENTORY_TIMEOUT

Older(t) == IF t = None THEN None ELSE SaturatingSub(t, 1)

\* Time passes at the horizon.
NetAge ==
  /\ clock = MaxTime
  /\ state' = [state EXCEPT !.retry_not_before = Older(@),
                            !.event_deadline   = Older(@),
                            !.last_event       = Older(@),
                            !.last_success     = Older(@)]
  /\ wake' = Older(wake)
  /\ hist' = [hist EXCEPT !.lastStart  = Older(@),
                          !.dirtySince = Older(@),
                          !.failedAt   = Older(@)]
  /\ dump' = IF dump = None THEN None
             ELSE [dump EXCEPT !.deadline = Older(@),
                               !.events = [first |-> Older(@.first), last |-> Older(@.last)]]
  /\ UNCHANGED <<clock, pc, published, kernel, notification>>

LiveNext == NetNext \/ NetAge

(***************************************************************************)
(* Fairness.  Time passes, the thread is scheduled, system calls return,    *)
(* poll() returns at its timeout and, again and again, with the dump.       *)
(***************************************************************************)
PollDump == PollReturns /\ dump'.ready # None /\ "dump" \in dump'.ready

Fairness ==
  /\ WF_allVars(NetTick \/ NetAge)
  /\ WF_allVars(NetControl)
  /\ WF_allVars(NetSubscribe)
  /\ WF_allVars(DumpRequestErr \/ DumpRequest \/ DumpTimeout \/ DumpPoll)
  /\ WF_allVars(DumpNotice \/ DumpNoticeErr)
  /\ WF_allVars(DumpRefused \/ DumpHalf \/ DumpDone)
  /\ WF_allVars(WaitTimeout \/ WaitNotice \/ WaitLost)
  /\ WF_allVars(PollReturns) /\ SF_allVars(PollDump)

LiveSpec == NetInit /\ [][LiveNext]_allVars /\ Fairness

-----------------------------------------------------------------------------

\* What the system calls and the kernel can do to the adapter that is not the
\* consequence of something else: a call fails, a socket hangs up, a dump is
\* late or refused although nothing changed, a datagram is damaged.
Fault ==
  \/ NetSubscribe /\ notification' = notification
  \/ DumpRequestErr \/ DumpTimeout
  \/ InLoop({}) /\ (PollLost \/ PollDumpFailed)
  \/ DumpRefused /\ ~dump.interrupted
  \/ WaitLost /\ ~(NoticeReady /\ ReceiveFails)
  \/ KernelNotice

\* When the kernel's links stop changing and the faults end, the table shows
\* the kernel's links and keeps showing them, without any reconciliation:
\* whatever was dropped, refused, torn or late before has left a trace that
\* makes the monitor look again.
TableCatchesUp ==
  <>[][~Fault]_allVars => <>[](published # None /\ published.links = <<kernel, kernel>>)

=============================================================================
