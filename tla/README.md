# Verification of agentx-ifstack

`agentx-ifstack` is an AgentX subagent that serves `ifStackTable` (RFC 2863):
which network interface is stacked on which. One thread keeps a table in step
with the kernel's links over rtnetlink; another keeps an AgentX session with the
SNMP master and answers its requests from the latest table. This directory holds
TLA+ models of the program, TLC runs over small instances of them, and TLAPS
proofs for all instances. Paths below are relative to the repository.

## 1. The system

| Component | Code | State | Operations |
|---|---|---|---|
| Monitor scheduling | `src/monitor.rs` `State`, `run` | continuity generation, `subscribed`, `needs_inventory`, `retry_not_before`, `failure_delay`, `event_deadline`, `event_delay`, `last_event`, `last_success` | subscribe, request an inventory, wait, accept / fail / lose continuity |
| Table publication | `src/monitor.rs` `publication`, `TablePublisher`, `TableReader` | an `RwLock<Option<Arc<Mib>>>` | publish, withdraw (`unavailable`), snapshot |
| Netlink adapter | `src/netlink.rs` `NetlinkSource`, `SocketIo` | notification socket, request sequence; per inventory: dump socket, deadline, events, links | `subscribe`, `inventory`, `wait` |
| Link decoding | `src/netlink.rs` `decode_datagram`, `decode_link`, `consume_dump` | none (pure) | datagram to `ObservedLink`s |
| Topology | `src/link.rs` | none (pure) | `Topology::from_observed`: refuse, or build memberships and layers |
| MIB | `src/mib.rs` | an immutable ordered table | `get`, `get_next`, `get_bulk` |
| AgentX session | `src/session.rs` | stream, session id, byte order, read timeout | Open, Register, then one reply per request |
| Supervisor | `src/main.rs` | reconnect delay | start the monitor, run sessions for ever |
| Readiness | `src/notify.rs` | none | `READY=1` once a session is registered |
| Configuration | `src/config.rs` | none after start | command line and TOML |
| Service unit | `packaging/agentx-ifstack.service` | start limit, start timeout | start, restart by exit status, give up |
| Packaging tests, CI policy, lint rules | `packaging/*.py`, `scripts/`, `.opengrep/`, `.github/` | not part of the running program | |

**Interaction.** `main` starts the monitor thread and then runs sessions in its
own thread. The two share only the publication lock: the monitor replaces or
withdraws the whole table, a session takes one snapshot per request. The monitor
calls the adapter through the `Acquisition` trait (three blocking calls and a
clock); the adapter talks to the kernel over two netlink sockets, one that
receives change notifications and one per dump. An inventory that completes
passes through `Topology::from_observed` and `Mib::from_topology` before it is
published.

**What is hard here.** Notifications arrive before, during and after the dump
they invalidate. The kernel drops them when the socket is full. A dump is read in
parts while links change. Two exponential delays (failures, events), a
reconciliation timer, a quiet period and an inventory deadline interact in one
loop that must neither spin nor oversleep. A loss of notifications must withdraw
the table and never let an older inventory bring it back. A management station
walks a table that is replaced between its requests. Datagrams declare their own
lengths, stray from one request to another or are cut by the buffer. The exit
status, the readiness message and the unit's limits together decide whether a
failing start is retried, reported or given up. `PROJECT.json` lists these
as hazards, each at its line, with the properties that would catch it.

## 2. The modules

    Schedule ──> Monitor ──> MCMonitor           (run: monitor)
                   │  │ └──> MonitorLive          (run: monitor_live)
                   │  └────> MonitorProofs        (TLAPS)
                   │  implements Publication
                   └──────── LinkMonitor          (run: link_monitor), implements Monitor
                               ├──> LinkMonitorLive   (run: link_monitor_live)
                               └──> LinkMonitorProofs (TLAPS, uses MonitorProofs)
    Netlink ──> Decoders                          (run: decoders)
       │           └──> DecodersProofs            (TLAPS)
       ├──────> DumpStream                        (run: dump_stream)
       │           ├──> DumpStreamProofs          (TLAPS)
       │        Poll                              (run: poll)
       └──────> NetlinkProofs                     (TLAPS, used by the two above)
    Link, Mib ──> Topologies                      (run: topologies)
                     ├──> MibProofs               (TLAPS)
    Mib ──────> TableWalk ──> MCTableWalk         (run: table_walk)
    Session, Publication ──> Daemon               (run: daemon)
                               └──> DaemonProofs  (TLAPS)
    Config ──> CommandLines ──> MCCommandLines    (run: command_lines)
       │           └──> CommandLinesProofs        (TLAPS)
       └─────> Service ──> MCService              (run: service)

- **Schedule** is `struct State`: one operator per method, from the old state to
  the new one, so that `run()`'s steps compose them in the order of the code.
- **Monitor** is `run()` over *any* implementation of `Acquisition`. The blocking
  calls are control states (`top`, `subscribe`, `check`, `inventory`, `wait`);
  what a call returns is the environment's choice among what the trait's two
  implementations can return, the stale generation the tests' controlled adapter
  returns included. The clock ticks in every control state, so a thread that is
  not scheduled for a long time is among the behaviours. The variable `hist`
  is history that no guard reads: when the last inventory was requested, since
  when a change is uncovered, how many failures and event-driven inventories
  came in a row. It lets properties compare the code's own deadlines with what
  actually happened.
- **Publication** is the abstract specification of what sessions may rely on:
  subscribe, publish under a live subscription, withdraw with a new generation.
  It has no time and no failures.
- **MonitorLive** adds unbounded time and fairness to Monitor (section 4).
- **LinkMonitor** puts the production adapter under the thread and a kernel under
  the adapter. `subscribe`, `inventory` (request, the loop's deadline test, poll,
  notification before dump, refusal, completion) and `wait` are actions that
  conjoin the corresponding actions of Monitor. The kernel is external: a version
  number per state of its link table, a bounded notification queue that sets an
  error when it overflows (`ENOBUFS`), and dumps in two datagrams, each filled
  when the kernel writes it and flagged (`NLM_F_DUMP_INTR`) when the table
  changed in between. That it is flagged for *every* change is an assumption
  stronger than Linux keeps, which does so for links that are added or removed.
  `NoTornTable` rests on it: on Linux an attribute that changes in the middle of a
  dump can leave a torn table until the notification of the change has led to the
  next inventory. Of a datagram only the reaction of the code is kept:
  a change, nothing, or refused. **LinkMonitorLive** adds unbounded time and
  fairness (section 4).
- **Netlink** is the decoders, as operators: `decode_datagram` over the lengths
  and the padding of messages, `set_once` and `decode_link` over lists of
  attributes, `consume_dump`, the messages of `receive_notification`, and
  `next_sequence`. The bytes of a datagram are their number and the header a
  reader finds at each offset; what `NetlinkMessage::deserialize` makes of a
  message is external. An error is `None`: which of several is reported decides
  nothing. **Decoders** writes datagrams and damages them, and enumerates
  attribute lists; **DumpStream** runs one dump after another on
  a socket into which a kernel that goes wrong, earlier requests and other
  senders write. LinkMonitor and DumpStream share `inventory()`: the first has
  its deadline, notifications and a table that changes, the second what is in the
  datagrams; "refused" in the first is `ReceiveErr` in the second.
- **Poll** is `SocketIo::wait`: nanoseconds to milliseconds to an `i32`, signals,
  and the events of the two sockets. LinkMonitor's `PollReturns` and `WaitTimeout`
  are its callers' view of it.
- **Link**, **Mib** are the pure parts: `Topology::from_observed` with all its
  refusals, rows of a topology, and the three lookups. **Topologies** enumerates
  the inventories a dump can build up to a bound, with the references of a link
  independent of each other and of its kind, **TableWalk** a station's walk
  with `GetNext` and `GetBulk` under a changing table.
- **Session** is `session::run` with `receive`, `read_before`, `acknowledge` and
  `dispatch`. Where the thread is and what it waits for are two variables; the
  read timeout of the stream, what is left of the blocking call and what is left
  of a frame's budget are countdowns, so time needs no bound. A PDU is a type, a
  session id, a packet id and what is special about its payload. Making a reply,
  with the snapshot that `dispatch` takes, and writing it are two steps: the lock
  is released in between, and the monitor may replace or withdraw the table. (Only
  the reply to Close, which reads nothing, is written in the step that ends the
  session.) The master is external: it rejects, repeats and misaddresses
  acknowledgements and sends any request to any session, but acknowledges nothing
  it has not done.
- **Daemon** is `main`: the supervisor's loop around Session, the monitor as
  Publication (which Monitor implements), and the process that ends with its
  monitor. Two variables are history: `run`, the number of sessions since the last
  long one, and `vouched`, the tables, or `None` for none, that the live
  subscription vouched for since the request being answered arrived.
- **Config** is `load()` as an operator of the arguments and of what is found at
  each path; **CommandLines** enumerates both. A file is absent, bad, or sets
  some of the keys: what TOML refuses is external.
- **Service** is the process as its service manager sees it: `main()` up to its
  loop with the exit statuses, `notify::ready` with the two forms of address, and
  the lines of the unit that decide about starts (`Type=notify`, start timeout,
  restart policy, start limit). systemd is external and modelled by the meaning of
  those options; a session is registered or not.

`PROJECT.json` maps every definition to the lines it models. Operators whose
name says what they get wrong (`NextDelayUncapped`, `DumpNoticeForgets`) are
plausible mistakes kept next to the correct definition; no specification uses
them. Each property has one that breaks it, listed under `mutants`, which is how
we know that the property depends on the code it is about.

Left abstract: the wording of errors and logs; the bytes inside netlink and
AgentX messages; `Duration` saturation (after 2^64 s). `poll`'s timeout is capped
at `i32::MAX` milliseconds (module Poll), so a longer wait returns early: Monitor
allows every early `Deadline` to a subscribed thread; LinkMonitor, whose waits are
short, has no cap.

## 3. The runs

| Run | Module | What it shows |
|---|---|---|
| `monitor` | MCMonitor | Monitor over an arbitrary adapter |
| `monitor_live` | MonitorLive | the thread over unbounded time |
| `link_monitor` | LinkMonitor | thread + netlink adapter + kernel |
| `daemon` | Daemon | sessions, supervisor and monitor with a master that is uncooperative, or comes back |
| `link_monitor_live` | LinkMonitorLive | the same over unbounded time, without reconciliation |
| `decoders` | Decoders | datagrams, whole, cut and with wrong lengths; link messages |
| `dump_stream` | DumpStream | dump after dump over faulty and stray datagrams |
| `poll` | Poll | waits with signals and with timeouts beyond `poll`'s |
| `command_lines` | MCCommandLines | every command line of up to four arguments |
| `service` | MCService | the process under its systemd unit |
| `topologies` | Topologies | every inventory of up to three links with up to three references |
| `table_walk` | MCTableWalk | walks over tables that are replaced |

**`monitor`.** `TypeOK`: both delays stay within their bounds. `NoForgottenEvent`:
a notification or a loss that no published inventory covers is being inventoried
or is owed one. `WakeIsExact`: the deadline `next_deadline` computes is exactly
the time at which the loop's own tests succeed. `BoundedStaleness`: a sleeping
thread with an uncovered change wakes within `MAX_DELAY` of the change or of the
last failure. `TableTracksContinuity`: a visible table belongs to the current,
subscribed generation. `FailureFloor`, `EventBackoff`: attempts respect the
closed form of the two backoffs, computed from the history and not from the
code's fields. `AttemptSpacing`: no two inventories are requested within
`INITIAL_DELAY`. `ImplementsPublication`: refinement of Publication.
*Bounds:* delays 1..3, so that the cap is not a power of two times the first
delay and both backoffs reach it; reset and reconciliation after 4 ticks, so that
either may expire first; 7 ticks, enough for three failures in a row, for a quiet
period followed by new events and for a reconciliation after either; three
generations, so that the counter wraps and an old generation is told from the
current one; one valid and one refused inventory. `CapAssumption` checks that the
saturated history counters are at the cap. The clock bound ends every behaviour,
hence `CHECK_DEADLOCK FALSE`.

**`monitor_live`.** `KeepsTrying`, `TableReturns`;
deadlock is checked, and there is none. See section 4.

**`link_monitor`.** `SubscriptionIsReal`: `state.subscribed` and the adapter's
socket agree. `NoTornTable`: a published table is one state of the kernel.
`NoSilentStaleness`: whenever the table differs from the kernel, something in the
program or in the socket knows. `NetTypeOK`: types, and the order of the event
batch. `ImplementsMonitor`: the adapter does nothing that Monitor does not
already allow, so the results of `monitor` and the proofs apply to it.
*Bounds:* two changes of the link table, a queue of two datagrams, three ticks
with an inventory timeout of one. Two changes put one before and one after any
step of an inventory and, with a spurious datagram, overflow the queue; three
ticks let an inventory time out, the failure delay pass and the next one run.
The backoff arithmetic is the business of `monitor`, so the delays are small.

**`daemon`.** `RegistrationIsReal`: only a session that the master registered
serves the table or announces readiness. `IdleTimeoutRestored`: between frames the
read timeout is what it was before the last one. `AnswersEveryRequest`: the
session never waits for a frame while the master waits for an answer.
`AnswersAreCurrent`: a reply tells what the live subscription vouched for at an
instant since its request arrived, a table or that there is none; it may be as old
as the request, since the table can be withdrawn while the reply is made and
written, but not older.
`SessionTypeOK`: types, and a read timeout that is never zero. `ReconnectBackoff`:
the delay in closed form. `NeverHangs`: no frame and no handshake lasts for ever
(`FrameEnds`, `Reconnects`). `ServesAgain`: once the faults end and the master is back, a
session registers and keeps serving, and is not ended for being idle. Deadlock is
checked. (`ClosedByMaster`, only a Close of this session ends it with `Ok`, is proved
and needs no run.)
*Bounds:* timeouts of two ticks, so that a budget is used up in parts; two session
ids, one of them foreign; delays 1..3 and long sessions of two ticks, so that
short and long ones follow each other and the cap is reached (`CapAssumption`);
one generation and one table, so that a table that is vouched for is told from a
withdrawn one and from none; the proof covers any number of both. Time and the number of sessions are not bounded.

**`topologies`.** `OrderIndependent`: the order of the dump is irrelevant.
`RowsAreAStack`: the rows satisfy RFC 2863's boundary rows, relate no interface
to itself and mention only known ones. A link may be a member of a controller and
have a lower link or an underlay at the same time, and hold references that mean
nothing for its kind. Three links are the smallest number with a
controller, its member and something layered on either; indexes 1 to 3 contain
dangling, self- and mutual references, and a duplicated or missing name. Bridge
stands for the controllers, VLAN for the layered kinds, VXLAN for underlays. The
links hold up to three references in any of their fields (`MaxReferences`): enough
for an enslaved VLAN above one link while another refers to either, and for a cycle
of three. The theorems have no bound.

**`table_walk`.** `WalkIsComplete`: a walk reports every row that was always
there and nothing outside its range. `WalkEnds`: it ends, if tables are available
again and again. `LookupsAgree`: `get` against `get_next` and the prefix order
(`GetAgrees`), `get_bulk` against the interleaving of repeated `get_next`
(`BulkIsRepeatedNext`; the reference is `IsRepeatedNext`). Six tables on up to three
interfaces, walks bounded inside the column, at its end and unbounded; a limit of
five bindings, which cuts a repetition of two ranges in the middle.

**`link_monitor_live`.** `TableCatchesUp`: once the links stop changing and the
faults end, the table becomes the kernel's and stays so, although the
reconciliation interval is beyond the horizon. What was dropped, refused, torn or
overtaken before has to have left a trace. *Bounds:* two changes, a queue of one
datagram, so that the second change overflows it; three ticks, longer than every
interval but the reconciliation (`NoReconciliationAssumption`).

**`decoders`.** `FramingIsExact`: what a sender framed is what the decoder returns,
and a datagram cut anywhere is refused, unless the cut falls between two messages.
`DecodeAdvances`: whatever a header declares, the loop advances by a header at
least and stays within the datagram. `FieldsAreTheAttributes`: a link is the value
of each attribute that occurs once, in whatever order; a duplicate refuses it;
infos count wherever they stand; a known kind is never lost. *Bounds:* three messages with 0, 1, 3 or 4 bytes
after the header, so that the padding is 0, 1 and 3 bytes, inside and at the end;
every cut and every length in every header; four attributes, so that two LinkInfos,
a name and another one meet; every kind the code knows and an unknown one. The inputs are
enumerated and end at their bounds, hence `CHECK_DEADLOCK FALSE`, here and in
`topologies` and `command_lines`.

**`dump_stream`.** `CompleteIsWhole`: an inventory that is returned is the whole
answer to its own request. `RequestsAreTold`: sequence numbers differ within any
`SEQUENCES - 1` requests, and no datagram would be accepted on both sockets.
*Bounds:* four sequence numbers, so that the counter
wraps; up to five links in any number of datagrams; a buffer that three messages
fit but four do not, and a byte limit that five links exceed and three do not.
(Each dump has a socket of its own, so a stray answer needs a socket with a reused
address; the model allows it.)

**`poll`.** `NoEarlyDeadline`: `wait` reports nothing only when its timeout, or the
longest that `poll` takes, is over. `WaitEnds`: it returns. *Bounds:* three ticks
in a millisecond and an `i32` of at most three, with timeouts up to 14 ticks: both
below and above the cap, and every remainder.

**`command_lines`.** `CommandLineIsAnEdit`: a program that runs does what it would
do without arguments on a default file with the contents of the selected one and
the given socket; every other command line ends it. (A single dash does not make an
option of what follows `--config` or `--socket`: `--socket -h` names a socket.)
*Bounds:* four arguments hold both options, or one twice; the default file, which an
option may name too, and two others are absent, bad, empty, valid, repairable by a
socket or beyond repair.

**`service`.** `StartsEnd`: starts that never register are given up, whatever makes
them fail. `BecomesActive`: a start that nothing disturbs makes the unit active for
good, whichever form the address of the manager's socket has. Deadlock is checked.
*Bounds:* a start timeout of two ticks, a delay of one and a window of ten that
holds the three starts it counts, as the unit's own comment demands and
`WindowAssumption` states.

## 4. Time and fairness

Time is counted in ticks of the code's monotonic clock. In MonitorLive the clock
stops at `MaxTime` and a further tick (`Age`) moves all stamps one unit into the
past. The code only compares and subtracts times, and `HorizonAssumption` makes
the horizon longer than every interval it measures, so a stamp that reaches 0
is already decided.

Fairness assumed: time passes; the thread is scheduled (weak fairness on its own
steps); `subscribe` returns, `inventory` returns (it has a three-second
deadline), `wait` returns at its timeout. No fairness is assumed of *what* they
return. `TableReturns` has as its hypotheses that subscriptions do not fail for
ever and that valid inventories are not refused for ever: without them the code can only retry, which is `KeepsTrying`. In Daemon both
threads are scheduled, `connect` and `write` return and a blocking read returns at
its timeout; of the master nothing is assumed, it may stay silent or send a frame
byte by byte for ever. (`connect` on a Unix socket has no timeout in the code: a
master that lets its backlog fill up holds the daemon, which the model leaves to
the kernel.) LinkMonitorLive treats time as MonitorLive does and assumes
the same of the thread; `poll` returns at its timeout and does not withhold the
dump for ever. Its hypothesis is that the faults (`Fault`) end: calls that fail,
sockets that hang up, dumps that are late or refused although nothing changed,
damaged datagrams. Overflow, interruption and their consequences are no faults in
that sense. `ServesAgain` assumes of the master (`MasterFairness`) that it opens and registers what it is
asked to and does not stretch every answer beyond its time, and that failing calls,
bad acknowledgements, unfinished frames and Close end (`Fault`). An acknowledgement
is bad by the master's own record (`GoodAnswer`): a session that refuses a good one,
say because of an id left over, is not excused. An idle master is no fault either.
That the process ends with its monitor is the fairness of `Exit`: `run_monitor` calls
`exit` right after it has caught the panic. In Poll, signals may interrupt every call but not for ever
the ones that have reached their timeout (strong fairness). In Service the manager
does what is due and the process gets past its start; only `BecomesActive` has
hypotheses (`Undisturbed`): no fault, a usable configuration, a master that
registers the table in time, and somebody who starts a failed unit again.

In TableWalk the station is assumed to send its next request when a table is there.

## 5. Proofs

A theorem holds for every value of the constants that the named assumptions of
the modules allow. TLC evaluates those assumptions in the runs, and each inductive
invariant was model-checked before it was proved.

**The monitor thread** (`MonitorProofs`, from `DelayAssumption`,
`ResetAssumption`, `ReconcileAssumption`, `GenerationsAssumption`,
`NoneAssumption`, `LinksAssumption`, `BoundAssumption`).
`TypeCorrect`, `EventsAreKept`, `WakeTheorem`, `StalenessTheorem`,
`ContinuityTheorem` are the invariants `TypeOK`, `NoForgottenEvent`,
`WakeIsExact`, `BoundedStaleness`, `TableTracksContinuity`; `SpacingTheorem` is the
action property `AttemptSpacing`; `Refinement` is `Spec => Pub!Spec`, Monitor
implements Publication.

None of these is inductive alone. `IInv` adds what the code knows but does not say.
*Control*: the thread subscribes only when it is not subscribed and runs an
inventory only when it is, and a running inventory has used up what asked for it.
*Owed*: outside an inventory, `needs_inventory` is false only for a subscribed
thread with a success behind it and no failure since, so the reconciliation
deadline exists. *Spacing*: each way to become due (failure, event, reconciliation)
lies at least `INITIAL_DELAY` after the last request. *Prompt*: a pending event's
deadline lies within `MAX_DELAY` of the uncovered change, and the failure deadline
within `MAX_DELAY` of the failure. Lemmas on the operators of Schedule (what
`RecordBatch`, `AcceptInventory`, `Fail`, `LoseContinuity` preserve) carry the
arithmetic; then one lemma per action shows that it preserves `IInv`.

`FloorTheorem` and `EventTheorem` are `FailureFloor` and `EventBackoff`, the closed
forms of the two backoffs. Their invariant `Steps` ties the code's delay fields to
the history's counters: `failure_delay` is the delay of the next failure, the
retry deadline lies the current one after the last failure (*FailureSteps*),
`event_delay` is the delay after the next request, and a pending event keeps the
current one from the last request (*EventSteps*). The counters of the history stop
at `BackoffCap`, so both theorems assume `CapReached`: at that count the delay is at
its cap. (The run `monitor` states it as `CapAssumption`.) The prover knows nothing
of `2^n`; the lemma `PowerDoubles` gets `2^(n+1) = 2 * 2^n` by counting the subsets
of `1 .. n + 1`.

**The thread on the netlink adapter** (`LinkMonitorProofs`, the assumptions above
and `AdapterAssumption`, `InventoriesAssumption`, `NoSocketAssumption`).
`NetTypeCorrect`, `SubscriptionTheorem`, `TornTheorem`, `StaleTheorem` are the
invariants of the run `link_monitor`; `NetRefinement` says that every behaviour is
one of Monitor, `NetPublication` that it therefore implements Publication. The two
go together: a step of the adapter is a step of Monitor because the events of a
running inventory are among `Batches`, which is part of the invariant; and the
invariant uses `IInv`, which the step preserves because it is one of Monitor.
`NoSilentStaleness` is not inductive, since a readable socket may hold nothing but
noise that is then consumed: *Covered* demands that the change itself is queued, or
the overflow mark is set (`Pending`). *Running* says of an inventory that the half
it will read next is the kernel's current table, or a notification is pending or
has been seen; that the halves agree unless the dump is flagged; and that what
`poll` found in the notification socket is still there.

**Waiting** (`DumpStreamProofs`, from `PollAssumption`, `NeverAssumption`).
`DeadlineTheorem` is `NoEarlyDeadline` for every tick, every timeout and every width
of the C integer. *GivesUpLate*: what has passed and what the current `poll` has
left add up to what is owed, however often signals interrupted it. The lemmas on
`WholeMillis`, `AsI32` and `Millis` do the rounding and the cap. `NearTheorem` is what
`WaitEnds` needs besides fairness: `poll` is never started without a timeout, and
gives up less than a millisecond after its caller's.

**Decoding** (`NetlinkProofs`, from `HeaderAssumption`; `DecodersProofs`, also from
`PayloadsAssumption`, `NoneAssumption`, `ValuesAssumption`). `AdvanceTheorem`,
`FramingTheorem`, `FieldsTheorem` are the three invariants of `decoders`, without
their bounds: any number of messages with any payloads, any list of attributes.
`RoundTrip` and `CutTrip` are the facts about `decode_datagram` behind them.
`Laid` describes a datagram by the offsets its messages start at; `Put` extends it,
padding keeps it, and decoding from the i-th offset gives the messages from the
i-th on, by induction from the end. `FieldsTheorem` follows from what the slots
hold after every prefix of a list (`SlotIs`).

**The dump** (`DumpStreamProofs`, from these and `LimitsAssumption`,
`SequencesAssumption`). `WholeTheorem` is `CompleteIsWhole`: any table, any split
into datagrams, any faults. Its invariant `Answers` says that what `inventory()`
has kept is a prefix of the kernel's table, and that the datagrams in the socket
continue exactly there, each the next part of the answer, its end, or one that is
refused. `ToldTheorem` is `RequestsAreTold`: the remembered numbers are the last
ones counted backwards across the wrap (`Back`).

**Topology** (`MibProofs`, from `IndexAssumption`). `AnyOrder`:
`Topology::from_observed` gives the same result for a list and any reordering of
it; `OrderTheorem` is `OrderIndependent`, its instance for the reorderings that the
run compares. `AnyStack`: the table of any list that is accepted, whatever its links
are, is a stack (`IsStack`); `StackTheorem` is `RowsAreAStack`, its instance for the
inventories of the run, of any length and with any number of references. A
topology that is accepted relates known interfaces only and none to itself
(`SoundTopology`), and the rows of such a topology are a stack.

**Lookups and walks** (`MibProofs`, from `BulkAssumption`, `RepetitionsAssumption`,
`TablesAssumption`: the limits are positive, tables are finite sets of pairs of
indexes). The order of object identifiers is total (`LessIrreflexive`,
`LessTransitive`, `LessTotal`), so a finite set of candidates has a first one and
`GetNext` answers it (`NextFacts`). `BulkReference` says that `get_bulk` answers what
`IsRepeatedNext` defines, for every table, list of ranges and request, whatever the
limit cuts. Its invariant goes through both loops: the bindings so far stand at their
*Places* (non-repeaters first, then repetition by repetition), the ranges have moved
as far as the walks of repeated `GetNext`, and the loop is over exactly at the limit
or after a repetition that found nothing. `LookupTheorem` is `LookupsAgree`, from it
and from what `get` says of names between `STATUS` and the next column.
`WalkTheorem` is `WalkIsComplete` under any sequence of tables. Its invariant
`Walking` says that a row that was always there has been reported or is still ahead
of the range, and that nothing reported is ahead; the answer to one request, of
either kind, is a *Chain* of `GetNext` answers that keeps it. `ProgressTheorem` is what
`WalkEnds` needs besides fairness: a request that does not end the walk reports a row
that was not reported before.

**The command line** (`CommandLinesProofs`, from `NoneAssumption`, `PathsAssumption`,
`ContentsAssumption`: `None` is no argument, no path looks like a `--option`, a file is
in one of its three states and sets keys only if it is present). `EditTheorem` is
`CommandLineIsAnEdit` for command lines of any length, any names and files of any
contents. After every prefix of the arguments (*Reads*), the loop goes on exactly if
options and values came in turn so far, waits for a value exactly after an odd number,
and holds the value that followed the last occurrence of each option. `OverrideIsAKey`
says that overriding the socket is the same as giving the key in the file.

**The session and the supervisor** (`DaemonProofs`, from `TimeoutAssumption`,
`SessionAssumption`, `StreamAssumption`, `AbsenceAssumption`, `BackoffAssumption`,
`CapAssumption`). `SessionTypeCorrect`, `IdleTimeoutTheorem`, `AnswerTheorem` are
invariants of Daemon, and so is `CurrentTheorem`; `RegistrationTheorem`,
`CloseTheorem`, `ReconnectTheorem` are action properties. The invariant `DInv` says what the properties
leave out: the timeout that `receive` keeps during a frame (*Timeouts*); that an
acknowledgement about to be believed is true, and that what was believed is
(*Handshake*); that the master waits only for the frame being answered (*Owing*);
and Publication's own invariant (*Published*). The lemma `Causes` says which steps
announce readiness, end a session or make a reply; the action properties follow
from it. `CurrentTheorem` is `AnswersAreCurrent`: the history holds what is vouched
for now (*Vouching*), which is what `snapshot` returns (*Published*), and no step of
the monitor takes anything out of it before the reply is written. `ReconnectTheorem` is `ReconnectBackoff`, from the invariant that the
delay is the closed form of the number of sessions since the last long one.

*Induction.* The prover cannot instantiate a theorem about every predicate, which
is how the libraries state induction. The proofs use a least element instead
(`LeastElement`, from `NatLessThanWellFounded` and `WFMin`, which take sets): the
least counterexample refutes itself. That a recursive function of Netlink, Mib or
Config satisfies its defining equation is proved the same way, by building it up.

*Only model-checked:* liveness and what rests on fairness (`KeepsTrying`,
`TableReturns`, `TableCatchesUp`, `ServesAgain`, `NeverHangs`, `WalkEnds`,
`WaitEnds`, `StartsEnd`, `BecomesActive`), which the prover does not treat. Every invariant, action property and refinement that a run
checks is also proved.

## 6. Not modelled

Not modelled: the bytes inside netlink and AgentX messages (the codecs are
libraries), TOML, log output and the log level, the sandboxing options of the
unit, package building, CI policy and lint rules. They keep no state of the running
program, or are code of others.

Nothing of the plan is left: every part of the running program has its module, and
what is not proved is liveness.
