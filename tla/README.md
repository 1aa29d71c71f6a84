# A verification project for nx-reversing

nx-reversing has two programs for the Switch and some host tools. `net-probe`
is a background module that registers itself with the service manager `sm` as a
man in the middle (MITM) of networking services, forwards every request
unchanged and writes a trace. `toolbox` is an application that sends controlled
workloads through those services. The tools on the host answer the workloads and
reconcile the reports.

This directory holds TLA+ models of that code, the configurations TLC checks
them with, and proofs TLAPS checks. `PROJECT.json` lists components, runs, the
source lines each definition stands for, findings, hazards and theorems.

## Inventory

### net-probe

| component | state | operations | correct when |
|---|---|---|---|
| logger (`logger.cpp`, `fs_runtime.cpp`) | one ring of lines, one ring of blobs per kind, drop counters, the flush event, the file backend's state | `Log`, `AppendLine`, `AppendBytes` from any thread; the flush thread; `Initialize`, `Shutdown` | nothing is duplicated or reordered, every loss is counted once, shutdown drains and ends |
| start and shutdown (`main.cpp`, end of `mitm_service.cpp`) | two server managers, five threads, their ready events, the shutdown event and flag, the registrations with `sm`, `g_mitm_start_lock` | `StartServers`, `StopServers`, `RequestShutdown`, the thread functions | all targets or none are served, teardown ends and leaves nothing |
| session and object tracking (`mitm_trace.cpp`) | fixed tables of sessions, session handles, clone handles, domain objects | hooks of the server manager: accept, clone, close, convert, returned object, close of an object | the tables say what is open, and the end of a client is seen when it happens |
| MITM policy and `bsd:s` admission (`mitm_service.cpp`, `build_config.hpp`) | counters of pending and active sessions, the toolbox ordinal | `ShouldMitm*`, promote, drop | the counters are the sessions there are, the chosen sessions of the forwarder are intercepted |
| watchdog (`mitm_service.cpp`) | sampling counters, a cursor in the query trace | one sample every two seconds | every record is logged or counted, the log is never silent for long |
| message tracing (`mitm_trace.cpp`) | the message buffer, which belongs to the session | recognise, decode, print | what is traced is what was sent, over whatever the buffer held before |
| active probe (`probe.cpp`, `ipc_helpers.cpp`) | none | never run: the call in `main.cpp` is commented out | |

Interactions: `Main` initializes the logger, starts the servers, waits, stops
them and shuts the logger down. `sm` asks the MITM query thread whether to
intercept a client, then the MITM thread accepts it, forwards its requests
synchronously and calls the trace hooks, which change the tables and log. A
client of `wgp:ctl` calls `Shutdown`, which runs on the control thread and wakes
main through `g_shutdown_requested_event`. The watchdog and the boot watch only
read and log; the watchdog reads the MITM manager without a lock. Every thread
logs, so the logger's lock is the one all of them share.

What is hard: producers against the flush thread, with signals that are
cleared; the order of joins, unregistrations and releases at teardown, after
failures at any point of startup; a lock that is held while threads are joined;
tables that overflow; object ids that are given out again.

### toolbox

| component | state | operations | correct when |
|---|---|---|---|
| `wgnx:tun` scenarios (`wgnx_tunnel_scenario.cpp`, `wgnx_packet_scenario.cpp`) | a client session, flows, a completion queue, an event | UDP workload with retries on a full queue, TCP exchange, contract validation, packet echo | verdicts are right, no wake-up is dropped, everything is released |
| `bsd:s` scenarios (`bsd_system_*`, `manual_bsd_lifecycle.cpp`) | descriptors, counters | UDP workload in three modes, TCP exchange, phases of the manual lifecycle | success is earned, failure has a cause, descriptors are closed once |
| metrics (`udp_workload_metrics.hpp`) | first and last tick, round trips, a histogram | record a submission or an echo, summarise | figures are exact, percentiles conservative, nothing overflows |
| logger and runtime (`logger.cpp`, `runtime.cpp`, `startup_trace.cpp`) | recent lines, a UI sink, a log file | log, set the sink | no line stays unseen, a late call of the sink touches nothing |
| user interface and configuration (`app_ui.cpp`, `runtime_config.cpp`, `runtime_scenario.cpp`) | the run in progress, the configuration and its file, workload ids | start, edit, save, load, change pages | one run at a time, no id twice, no configuration lost |
| one-shot scenarios (`scenarios.cpp`, `https_scenario_parsing.cpp`) | sockets, contexts, services | sequences of service calls, HTTP transfers | each return gives back what was acquired, reports are true |

A press of Run reserves a workload id, saves the configuration and queues a task
for the one worker of Borealis. The worker runs the scenario, which logs; each
line is stored and handed to the sink, which queues a refresh for the UI thread,
and so does the end of the run. The scenarios share no state: the toolbox runs
one at a time (`runtime_scenario.cpp`) and each opens its own sessions.

What is hard: completions come in batches and a wait that ends in the middle of
one drops the rest; the state of a flow is read separately from its completions;
the service may close at any call; echoes are lost, late or repeated and streams
arrive in any cut; a verdict is concluded from polls whose events may coincide;
some twenty exits of a function release different things by hand; power may go
between two steps of a save; callbacks outlive the page and the loop that queued
them.

### Host tools

`tools/` holds an echo server, decoders and file transfer. They keep no state
that lives across steps apart from the echo server's counters. The echo server
is the peer in the environment of the workload modules.

## Plan

Done, in this order: `ProbeLogger` over `BoundedLog` with proofs; `ProbeLifecycle`
with proofs; `SessionTracker` with proofs; `BsdAdmission` with proofs; `ProbeWatchdog` with proofs;
`TunnelUdpWorkload`, `TunnelTcpExchange`, `TunnelContract` with proofs; `BsdUdpWorkload`,
`BsdTcpExchange`, `UdpWorkloadMetrics`, `PacketEcho`, `HttpTransfer`, `OneShotScenarios`
with proofs; `ConfigStore`, `RuntimeConfigFile`, `ToolboxSession` with proofs;
`MessageDecode` with proofs.

Left:

1. `ConfigStore` and `ToolboxSession` in one behaviour, so that a press of Run goes
   through the steps of its save while the worker ends another run.
2. The counters a snapshot of the tracker takes for the watchdog, read while the
   MITM thread changes the tables.

`ProbeLifecycle` meets `ProbeLogger` at one point: its `NothingLeftBehind`
is what makes `Shutdown` of the logger the last use of it. `SessionTracker` and
`MessageDecode` run entirely on the MITM thread of `ProbeLifecycle`, `BsdAdmission` on
it and the query thread, `ProbeWatchdog` on the watchdog thread.

## Modules

Operators whose comment says "faulty variant" are not part of a specification.
They are the plausible mistakes with which each property was tried: replacing the
definition that follows by its variant makes the property fail.

Four modules put several components into one run: `MCProbeObservers`,
`MCTunnelScenarios`, `MCSocketScenarios` and `MCToolboxApp`. The components of each
share no state, so interleaving them would only multiply states; an initial state
chooses one, and the others stay as they begin. Each component states what it
assumes of its constants as `Parameters`, which the run asserts.

### BoundedLog and ProbeLogger

`BoundedLog` is the promise to callers: queues that lose their oldest entry when
they are full and count each loss until it is reported. `ProbeLogger` is the
code. A critical section of `g_logger_lock` is one step; signals, waits, file
writes and the join are steps between them.

| code | model |
|---|---|
| `g_queue`, `g_blob_queues` and their heads, tails and counts | `slots`, `head`, `tail`, `count`, one function each over `Queues` |
| `QueueLineLocked`, `QueueBlobLocked` | `QueueLocked`, `RejectBlobLocked` |
| `Log`, `AppendLine`, `AppendBytes` | `LogLine`, `AppendBytes`, then `SignalFlush` |
| `FlushThreadMain` | `WaitSignaled`, `WaitTimeout`, `ClearFlushEvent`, `CheckStop` |
| `FlushPendingEntries` | `TakeBatch`, `EmitPendingDropWarnings`, `WriteEntry`, `NextBatch` |
| `Initialize`, `Shutdown`, `StopFlushThread` | `Initialize`, `RequestStop`, `SignalStop`, `JoinFlushThread` |

An entry is its number in the queue that accepted it, since order and loss are
all the properties tell apart. Writing fails nondeterministically, and a file
backend that is disabled stays so. Histories (`accepted`, `rejected`, `reported`,
`file`, `lost`) are never read by a guard, except for the two bounds.

Two facts the model shows and that its properties leave room for: a blob that no
slot can hold is counted under the generic kind without being queued, so one
refused after the last pass is not reported at exit; and a thread that logs after
the exit test queues an entry that is never written. `ProbeLifecycle` shows that
the threads of the servers are joined before.

### ProbeLifecycle

Main's position is `mainPc`; every call that can fail or wait is a step. The four
other threads are the control server, the MITM server, the boot watch and the
watchdog. `locked` is `g_mitm_start_lock`, held by main from the first to the last
line of `StartServers` and `StopServers`; `RequestShutdown` on the control thread
needs it. `Failures` selects which calls may fail. `installed` is what `sm` holds.
The flush thread belongs to `ProbeLogger`. The query thread of the server manager,
which answers `ShouldMitm`, is not part of the model: it belongs to the library
and the code never joins it. What it does is in `BsdAdmission`.

### SessionTracker

The tables are functions from slots to entries, with the code's search: the
entry's own slot, else the first free one, else the first slot, whoever it
belongs to. `open`, `root`, `domains` and `live` are what really exists, kept by
the server manager and the services. A hook runs to completion on the MITM
thread; `AcceptMitmConnection` is one action with the two hooks it calls. Kernel
handles are not reused, object ids are. The session table has 64 slots and the
manager at most 48 handles, so with the real sizes it never overflows; the
eviction is modelled all the same and the tight tables of `tracker` exercise it.
A path is cut at the size of its array, and nothing is added below one that was cut.

### BsdAdmission

The query thread of the server manager asks `ShouldMitm*` and the MITM thread
accepts, promotes or fails to; both change `pending` (`g_bsd_system_pending_mitm_sessions`), and the
second also `active`. Nothing orders the two, so every atomic operation is a step.
`waiting` and `established` are the sessions there really are, between the answer
and the accept and after it. `lost` counts positive answers that `sm` never turned
into a session, `acceptFailures` the accepts that failed: in both cases the code's
counters part from the sessions, and `CountersAgree` says by exactly how much. The ordinal of the
forwarder is `ordinalPid` and `ordinalCount`; the build's switches are constants.

### ProbeWatchdog

One sample is a wait, the drain of the query trace and a snapshot. The ring of the
library is external: it keeps the newest `RingSize` records, and writers go on
between any two iterations of the drain loop, which is why a cursor can fall
behind and `dropped` must jump with it.

### MessageDecode

A message is a run of words behind a HIPC header, in a buffer that keeps what
earlier messages left. The senders write it as the libraries do; `RequestInfo` and
`ResponseInfo` are what `ParseRequestInfo` and `ParseResponseInfo` conclude, with
the size checks that keep what stands in the buffer from being taken for the
message. Payloads may look like a header. `MessagesReadBack` says that every command and
reply is traced as its sender meant, and of closes what the trace says instead, which is
not what was meant: a session's close leaves an invalid record, a domain object's close a
`root_close` without the object (`CloseTracedAs`). One more limit shows: a reply of the
root object whose payload begins with the reply magic is read as one of a domain object,
and its payload is cut; of such a reply only the result is claimed.

### TunnelUdpWorkload, TunnelTcpExchange, TunnelContract

These three are functions of `wgnx_tunnel_scenario.cpp`. The service is external
and known only from how they use it: send queues with room, one `Writable` for a
flow that was refused, completions of all flows in one queue, echoes that may be
lost, late or repeated, an end of a flow or of the service at any point.

The history `failedAt` has every place at which a call failed because the service had
closed, those while flows are opened and released included. `toolbox/README.md:144` wants
no call after the first such failure. The UDP workload keeps to that after a failed send
or wait and the contract checks after a failed wait for an echo. `RetriesOnlyCloseFlow`
of each module says exactly what is called in the other cases; in the TCP exchange, and
after a failed `OpenConnectedFlow`, that is `CloseFlow`.

| code | model |
|---|---|
| the loop over datagrams, `SendUdpDatagram`, queue-full retries | `SendUdpDatagram`, `Blocked`, `RetrySend`, `NextDatagram` |
| `WaitForWritable`, `WaitForEcho` | `Wake`, `Tick`, `TimesOut`, `Receive` with the completions that end the wait |
| `WaitForTcpProgress` | `Wake`, `Tick`, `TimesOut`, `ReceiveCompletions`, `HandleCompletion`, `Evaluate` |
| `RunWgnxTunnelContractValidation` | one action per call, with the releases of its exit |

`Receive` takes a batch of the queue and drops what stands behind the completion that
ends the wait, as the code does. `TunnelContract` gives the service one `fault` to be
found: the context goes with the original, is not counted, stays after the last
close of all or of one, or a batch is answered wrongly.

### BsdUdpWorkload, BsdTcpExchange, HttpTransfer, PacketEcho, UdpWorkloadMetrics

`BsdUdpWorkload` has three modes (echo, silence, closure); a socket has room for
`Room` datagrams, an inbox, and may hang up, and a poll may report two of these at once.
`BsdTcpExchange` and `HttpTransfer` take streams in every cut; the first compares real
bytes, the second counts them, in a word of `Word` values so that a subtraction
wraps. In `PacketEcho` a word has two digits instead of two bytes, with the one's
complement sum the code computes, and the service's queue outlives a run.
`UdpWorkloadMetrics` keeps the round trips as history and compares each figure
with what they say, in numbers of `Width` bits.

### OneShotScenarios

A scenario is the sequence of its calls; a step says what the call acquires, what
it hands over, and what the failure path releases by hand, in order. One action per
kind of event: `RunScenario`, `CallSucceeds`, `CallFails`, `Complete`, `Release`, `Return`.
The phases of the manual lifecycle are the subsets its `static_assert`s allow.
Sockets are model values (`Sockets`), whatever else a call acquires is one of `Resources`,
and `Parameters` says that the two have nothing in common.

### ConfigStore, RuntimeConfigFile, ToolboxSession

`ConfigStore` has one action per file operation of `SaveRuntimeConfig`, each of which
may fail, and three faults: power that goes between any two, a read error at a
start, and an early write of stdio whose error `fprintf`'s unchecked result hides
(`unnoticed`). `path`, `tmp` and `bak` are the three files. `RuntimeConfigFile` reads
files line by line, validates, edits on the pages and writes back; of values it
keeps the range. Names are trimmed when they are read again, and a blank name is
not stored, so the profile keeps the name it was filled with: `Stored` says so.
`ToolboxSession` has the UI thread, the worker and the log. Borealis is external: a
FIFO of tasks with one worker, a FIFO of callbacks that only the main loop runs, and
a tab that builds its page anew when it is selected.

## Runs

| run | instance | question and answer |
|---|---|---|
| `logger_safety` | 2 producers, text ring and blob ring of 2 slots, text batches of 1, blob batches of 2, 3 entries per queue, 1 refused blob | every entry is in one place or counted; order is kept; exit leaves nothing; `BoundedLog` is implemented |
| `logger_live` | 1 producer, a text ring of 1 slot, a blob ring of 2, batches of 1, 3 entries per queue | entries leave the rings, losses are reported, shutdown ends |
| `lifecycle` | 2 targets, every failure, 2 `Shutdown` calls | complete set or nothing; managers outlive their users; main leaves nothing behind; main ends, or hangs in the one deadlock of finding 1 |
| `lifecycle_second_call` | no failure, 2 calls | violated: finding 1 |
| `tracker` | 2 sessions, 4 handles, 2 objects, paths of 3 names, calls 3 deep; tables with room (2, 4, 4, 4) and tables that overflow (1, 2, 2, 1) | the tables agree with what is open; one `client_disconnected`, at the last close; a client that is gone leaves nothing |
| `tracker_lost_handle` | 1 session, handle table of 2 slots | violated: finding 2 |
| `observers` | admission: 2 forwarder processes and a home menu, 3 services, 3 questions, every failure, every mode; watchdog: ring of 3, batches of 2, 5 records, 3 sessions; messages: 2 in one buffer, 2 objects, replies with more objects than slots | counters agree, chosen sessions are intercepted, records are accounted for, commands and replies are read as meant and closes as `CloseTracedAs` says; the pending count drains, the watchdog ends |
| `tunnel` | 2 flows, 3 datagrams, queue of 1, batches of 2, 1 retry, deadline of 1 tick; reply of 2 units out of up to 3; 3 contexts, 6 faults | success is earned, failure justified, a failed call followed by the stated calls alone, every run ends with everything released |
| `sockets` | request and reply of 3 bytes, up to 4 sent; UDP in 3 modes with 2 flows, and a burst; bodies of 0 to 5 bytes with headers within, at and beyond the limit; 3 sockets; words of 2 and 4 bits; numbers of 7 bits | the same for the socket scenarios; figures exact; releases in order |
| `http_split_header` | the same | violated: finding 3 |
| `app` | ids to 4, every fault; 4 unsigned settings to 2, 2 profiles, 3 lines and edits; 3 presses, 1 line per run | files survive every fault, pages show what happened, a start reads what was saved, a run is shown as over |
| `config_power_cut` | ids to 4, power cuts only | violated: finding 4 |

Why the bounds are enough.

- *Logger.* A ring of two slots wraps and overflows with three
  entries, a text batch of one makes a pass end with the ring still filled, and a
  blob batch of two takes a whole ring. The text ring of one slot
  in `logger_live` overflows between the last pass of the flush thread and its exit
  test, which is where a loss could go unreported. With one more slot the index
  arithmetic meets no new case, and the proofs cover all sizes.
- *Lifecycle.* Only the calls (0, 1, 2) and the number of targets are bounded; a
  third call finds the same state as the second, and two targets already mix
  success with failure.
- *Tracker.* Four handles allow a root and two clones to close in any order
  beside another session, and two objects allow a child and the reuse of an id; a
  table of one or two slots is full after the first steps, while 128 slots need a
  client that clones 128 times. Calls three deep make a path longer than three names.
- *Observers.* Three questions put a second process of the forwarder between
  questions of others; five records overrun a ring of three by more than the
  rest of a batch; two messages are one that leaves words behind and one that could
  be misread through them.
- *Tunnel.* Three datagrams over two flows come back to the first flow with
  completions of both queued; batches of two have a rest to drop; one retry
  already meets the limit; three contexts let one be held by other clients.
- *Sockets.* Streams of three and four bytes can be cut everywhere, within, at
  and behind the reply; a header limit of four lies within and at the headers of two,
  four and six; two flows tell the flow's own echo from another's.
- *App.* Four ids include the first, the last and one that cannot be reserved; two
  profiles fill, overflow and shrink the list; three presses are a run, a second
  while it ends, and one after a change of pages.

Deadlock is not checked: every run has counters that are bounded, and net-probe,
the scenarios and the toolbox are programs that are meant to stop. That they do so
where they should is what `MainEnds`, `ShutdownCompletes`, `EndsReleased`, `ObserversProgress`
and `RunShownOver` say.

## Fairness

- `ProbeLogger`: weak fairness of the flush thread, because the kernel schedules
  runnable threads and `TimedWaitEvent` returns after `FlushInterval`; weak
  fairness of main once it has set the stop flag. Producers owe nothing, not even
  the signal after the unlock.
- `ProbeLifecycle`: weak fairness of main and of each thread. Main's waits have a
  timeout (`WaitForThreadReady`), or are joins. A server thread leaves its loop
  after `RequestStopProcessing`, since every call it forwards returns. The boot
  watch runs a fixed number of samples. Clients need not call `Shutdown`, and
  creating or registering need not succeed.
- `BsdAdmission`: weak fairness of each step of a handler that has begun; strong
  fairness of `Acknowledge`, because a waiting session keeps its server signaled and
  the manager takes signaled servers in turn, though other sessions come
  between. Clients owe nothing.
- `ProbeWatchdog`: weak fairness of the watchdog thread, whose wait has a timeout.
- Scenarios: weak fairness of the worker, since each of its calls returns and each
  wait has a deadline. Services and peers owe nothing. In `PacketEcho` polling and the
  clock are fair one by one, so a queue that never runs dry does not stop time. The
  tunnel's UDP workload looks at its deadline only when the completion queue is
  empty, so `EndsReleased` excepts an endless stream of echoes.
- `ToolboxSession`: weak fairness of the main loop's work, of the worker, and of each
  thread within a log call. The user owes nothing.
- `SessionTracker`, `MessageDecode`, `UdpWorkloadMetrics`, `ConfigStore`,
  `RuntimeConfigFile`: no liveness is claimed.

## Proofs

`ProbeLoggerProofs` proves for every set of producers and blob kinds, every
capacity and batch size, from `QueuesAssumption` and `SizesAssumption` alone:

- `TypeCorrect`: `Spec => []TypeOK`. Inductive as it stands, but only because
  `TypeOK` includes that head and tail are below the capacity and the count is at
  most the capacity.
- `RingsHoldNewest`: `Spec => []RingHoldsNewest`. Inductive with `TypeOK`. The
  work is in lemmas about `SlotAt`: going round the ring is injective over fewer
  places than the capacity, so writing at the head of a ring that is not full
  disturbs no counted slot, and at the head of a full one only the oldest.
- `EntriesAccounted`: `Spec => []EveryEntryAccounted`. `EveryEntryAccounted` alone
  is not inductive: `EmitPendingDropWarnings` and `TakeBatch` replace `warnings` and
  `batch`, so the flush thread must have disposed of both first. `FlushHolds`, proved
  first, says at which positions of the flush thread each may be non-empty.

`ProbeLoggerOrderProofs` builds on it:

- `FilesKeepOrder`: `Spec => []FilesInOrder`. An entry passes from the ring to the
  batch and from there to the file; `OrderOK` orders the three, bounding file and
  batch by the last entry that left the ring. It needs `RingHoldsNewest` for what a
  pass takes and `FlushHolds` for the batch it replaces.
- `LoggerIsBoundedLog`: `Spec => ImplementsBoundedLog`, the refinement of `BoundedLog`.
  Each action has its counterpart: an accepted line or blob is `Append`, with the loss
  of the oldest when the ring is full; a refused blob is a refusal; `TakeBatch` takes
  what the ring holds in order; a warning reports a count. What the rings show of
  themselves, head, tail and count, is turned into the abstract queue by
  `RingHoldsNewest`; steps that only move the flush thread stutter.
- `NothingLeftAtExit`: `Spec => ExitLeavesNothing`. A pass clears the counters and is
  the only step that makes room in a ring, so a loss since the last pass means a
  full ring (`LossesMeanFull`), which the exit test would have noticed. The generic
  kind is excepted, because refused blobs raise its counter with an empty ring.

`ProbeLifecycleProofs` proves for every set of targets, every choice of failing
calls and every number of `Shutdown` calls, from `RequestsAssumption`:

- `TypeCorrect`, `ManagersSafe`, `CompleteOrNothing`, `MainLeavesNothing` and
  `UninstalledLast`, each reading one of the run's properties off the same inductive
  invariant. None of them is inductive alone, since each depends on how main came
  to where it is. `Table` says what holds along main's way: where the lock is held
  and the managers exist, between which positions each thread may run, that what
  runs is what main has still to join, and how ownership grows and is given up.

`SessionTrackerProofs` proves for every number of sessions, handles and objects, every
size of the four tables and of a path, from the assumptions of `SessionTracker`, of which
`ObjectsAssumption` (object ids are finitely many, being 32 bits wide) is there for the
proofs:

- `TypeCorrect` and `NothingKept` hold whether or not a table overflows. That nothing of
  a session is left when it ends needs that entries belong to open sessions at all times,
  and that the entry overwritten by a full table is one entry: `SafeInv`.
- `TrackedAsOpen`, `DisconnectsOnce` and `PathsAreCalls` hold while the tables have room.
  `WhileRoom` says for each table that what is open fits and is in it. The step that
  needs most is an insertion: `SlotFor` must find a free slot, which follows by counting,
  since the entries that are in use are fewer than the slots. The first free slot is a least
  number of a set, which exists because strict inclusion of finite sets is well-founded.

`ProbeObserversProofs` proves, first of `BsdAdmission` alone, for every set of clients,
services and overrides, from that module's assumptions:

- `TypeCorrect`: `Spec => []TypeOK`. It includes where the two threads are, since
  "promote" is reached only for `bsd:s` and "note" only after a positive answer.
- `CountersCorrect`: `Spec => []CountersAgree`, from `PendingCorrect` and `ActiveCorrect`.
  Both sums are inductive with `TypeOK`, because they count a session in exactly one
  of its places. The inequality of `ActiveCorrect` is what remains of an equality after
  the destructor of a failed accept lowers a counter it never raised.
- `ForwarderSessionsCorrect`: `Spec => []ForwarderSessionsChosen`. The counter of the
  ordinals is one for all processes, so the invariant `OrdinalsFollow` says whose it
  is: it belongs to the forwarder that asked last, and a process that asked and is no
  longer counted has ended. That processes follow one another, with no id given out
  again, is what the code relies on and what the model's `running` says.

and then of the run `observers` for all three of its parts, each of whose steps is a step
of the part and leaves the others alone:

- `AdmissionCorrect`: the first two of these theorems, carried over.
- `WatchdogCorrect`: `MCSpec => []WatchdogAccounts`, for every size of the query trace and
  of the batches and every interval. `RecordsInv` has the cursor and the logged records
  in order by every pair and not just by neighbours. `SilenceInv` relates the histories to
  the code's counters: silent samples are the idle ones, and of a teardown at least as
  many samples were watched as are no longer in `remaining`.
- `DecodeCorrect`: `MCSpec => []MessagesReadBack`, with its exception for closes, for every set
  of payloads (sequences of words), ids, commands and results, every alignment and every buffer.
  `InFlight` says that a message that was sent and not traced stands in the buffer as a whole;
  the rest are lemmas about runs of words (where a part of a concatenation of three is cut out
  again) and one about each kind of message, which goes through the tests of the code in order.
  Three facts about numbers carry it: the two magics differ from each other and from the types
  of a domain header, and a first word with fewer than 256 ids and any size gives its type and
  size back. From `Parameters` it needs that payloads are words and that the ids of a message
  are counted in 8 bits.
- `PartsTypeCorrect`: `MCSpec => []TypesOK`.

`ToolboxAppProofs` proves, of `ConfigStore` for every `MaxId` and every set of faults, from
`IdAssumption`:

- `TypeCorrect`: `Spec => []TypeOK`.
- `FailureKeeps`: `Spec => FailureKeepsId`. It needs `PreviousKept` and `NewWhole`, which
  say what the three files hold at each step of a save.
- `FilesAlwaysSurvive`: `Spec => []FilesSurvive`, from the same two, `WholeCopy` (where
  the configuration that was there at the beginning is) and `RunsBelow` (the id in every
  file a start may read is beyond every run's). No fault is assumed away: what an early
  write that fails unnoticed destroys is excepted in the statement, by the history
  `unnoticed`. `AppFilesSurvive` carries it over to the run of the whole application.

and of the main loop and the worker of `ToolboxSession`, as `MCToolboxApp` runs them, for
every number of presses and of lines a run or the screen may have:

- `SessionTypeCorrect`: `MCSpec => []Session!TypeOK`.
- `SessionCorrect`: `MCSpec => []SessionShown`. What the pages show is a matter of who has
  yet to be told. `RunInv` says at each point of a run what the worker, its result, its
  summary and the outcome hold, `PagesInv` what a page shows against what the next refresh
  will. `UiFree` is what a press needs: a UI line that is being written keeps its writer in the
  log call, so that no refresh is set and overwritten within one.
- `LoopIsOver`: `MCSpec => [][Session!NothingAfterLoop]_allVars`, an action property: once the main
  loop has been left, no step changes the model or the pages, whatever callbacks and copies
  of the sink are still about.

and, with `RuntimeConfigFile`, of the whole application for every number of settings, profiles,
lines and edits:

- `TypesAreCorrect`: `MCSpec => []TypesOK`. `SettingsTyped` holds after any lines of a file,
  whatever they say, and includes that there is a profile to edit.
- `StepsAreAlwaysAllowed`: `MCSpec => StepsAreAllowed`, the run's action property. Besides
  `LoopIsOver` and `FailureKeeps` it says that a start after a save has every setting as it was
  saved, names trimmed (`RestartKeeps`). `ReadBackIs` proves it line by line: the fold over the
  lines of a saved file is a function by recursion, and what it has after each of them is stated
  for the line's number, by least numbers.

`SocketScenariosProofs` proves first of `BsdTcpExchange` alone, for every size of request
and reply, every expected reply and every stream, from `SizeAssumption`:

- `TypeCorrect`, `SuccessAlwaysEarned`, `MismatchAlwaysReal`, `FailureAlwaysHasCause` and
  `ReleasedOnceAlways`. The strengthenings are one predicate per resource and stage:
  `Entered` (the service is in force between its call and the end), `Opened` (the socket is
  open where the code has a descriptor), `Progress` (how far the request is at each
  position) and `Collected` (what was collected is the head of the stream, which is
  what makes verdicts independent of the cut).

and then of the run `sockets`, for every value of its constants that the modules' `Parameters`
allow (flows, datagrams, retries, deadlines, sizes of body, header and buffer, sockets, even
bases of a word's digits, widths of a number):

- `SuccessIsAlwaysEarned`, `ReportsAreAlwaysReal`, `TypesAreCorrect`: the three invariants of
  the run. What a success says has two exceptions, which are in the statement: the body of a
  transfer whose header came in several pieces has the expected size only once the earlier
  pieces are taken off (finding 3), and of `tcp_multi_connect` no reply is asked. `udp_echo` and
  `connection_test_global_ip` have had the right reply, the four scenarios that fetch something
  have had one that is not empty. `StepsAreAlwaysAllowed`: its action property.
  `NothingIsEverLeft`: at its end every scenario has given back its sockets, its sessions and
  the service, the one-shot scenarios on every one of their exits. This is the half of
  `EndsReleased` that is safety.

All five are read off `SocketsHold`, the conjunction of one inductive invariant per component:

- `UdpsHold`. `UdpPlace` says how far the workload is at each position of its loop. What
  waits to be read was answered by the peer, and every datagram done with has been
  (`UdpAnswered`); room that a poll reported is used or still to be used (`UdpRegained`). Both
  are needed because one poll may report several events, and the verdict comes from later
  calls. `UdpReleasing` follows the sockets through the way out.
- `HttpsHold`. `HttpSending` and `HttpReceiving` say that what was sent, and what was read of
  header and body, adds up to what the peers moved, in every cut. The count of the body is
  kept in a word, so its difference to the truth is stated modulo `Word`: it is what came of
  the header before its last piece (finding 3). `HttpEnding` says why a transfer ended,
  `HttpReleasing` what its end has still to give back.
- `PacketsAllHold`. The sum a packet carries proves right exactly when the packet is meant to
  be well formed. That is arithmetic of sums with the carry put back in, proved for words of two
  digits of any even base, of which 256 is the code's.
- `MetricsHold`. Types, the round trips as history, the figures, and each bucket of the
  histogram equal to the number of round trips that fall into it (`MetricBuckets`), which makes
  a percentile the bucket of the round trip with that rank. Powers of two and the sums over
  buckets are functions by recursion on the naturals; that such a function exists and satisfies its
  equation (`Iterated`) is proved here by least numbers.
- `OneShotHolds`. For a success, `OneShotUnfailed` relates the outcome to the calls and
  `OneShotReplied` says that a fetching scenario that has made its calls has received something,
  because its last call is the receive (`FetchesEnd`). The releases of a one-shot scenario are
  data in the model as they are lists of calls in the code, so the proof is a small calculus.
  `Frees(q, H, G)`: the releases `q` in their order take what is held from `H` to `G`, with
  nothing freed that is not there or that something still there works on. `Fine(step, H, J)`:
  whatever the call brings, the step leaves one of `J`, and if it may fail, its failure path
  frees all of `H`. `Leads(q, I, J)`: every step is fine from all that may be held before it;
  such sequences compose. `Sound(sc)` is then proved of each scenario, with every choice of the
  manual lifecycle's phases, and `OneShotPlace` is the state invariant it gives: what is held is
  one of the sets the annotation has at this place, and what the queue of releases makes of it
  is settled.

`TunnelScenariosProofs` proves of the three workloads over `wgnx:tun`, as `MCTunnelScenarios` runs
them, for every number of flows, datagrams, retries and contexts, every size of batches, queues
and replies and every deadline, from the `Parameters` of the three modules:

- `TunnelTypesOK`, `TunnelSuccessEarned` and `TunnelFailureJustified`:
  `Spec => []TypesOK`, `[]SuccessEarned` and `[]FailureJustified`, all three read off `TunnelInv`,
  the conjunction of one inductive invariant per workload. Of calls to a service that closed
  the last one says which are still made, in each workload (`RetriesOnlyCloseFlow`), not
  that there are none.
- `UdpInv`. That a wakeup is not dropped follows from how `ReceiveCompletions` is used: a batch is
  thrown away only after none of its completions would have ended the wait, so what was owed
  or queued for the flow is behind it. For the success, `UdpEchoed` says that the workload
  passes a datagram only when its own echo came; a queued echo was answered (`UdpInbound`).
- `TcpInv`. The reply is right when what was collected and what is still queued add up to what
  the peer sent, across any cut into pieces and batches. A sum over a queue would need induction
  over data; `Tally` states it without one, by the existence of the sums up to each place, which a
  step moves by one. With it, an Open state queued after the request stands behind all data
  (`TcpOpens`), so a close that was collected means that nothing is left (`TcpClosed`). Where the
  own write side is announced as well this fails, and only `EofIsReal` is claimed, as in the run.
- `ContractInv`. The verdict on the service is a matter of counting: `ContractHeld` says how many of
  its contexts are held while the others are filled, one more with a service that
  keeps the clone's than with one that forgets it, so at the probe a context is free exactly
  when the contract is broken. `ContractJudged` says which faults are excluded at each point.
- `TunnelReleasesAtEnd`: at its end every workload has given back its event and its flows, and the
  contract validation its contexts. This is the half of the run's `EndsReleased` that is
  safety. `TunnelReleasing` is inductive with `TunnelInv`: it follows the flows that are open at
  the service, notes that the workload's `lost` is set only when the service went, and says
  that a service that keeps count has a context held by an open session or by others
  (`ContractKept`). A service that leaks contexts is excepted, as in the property.

Only model-checked:

- Liveness, which is outside the prover's reach: `QueuedIsTakenOut`, `LossesAreReported`,
  `ShutdownCompletes`, `MainEnds`, `ObserversProgress`, `EndsReleased`, `RunShownOver`. Of
  `EndsReleased` in both its runs the releases are proved, and that the end is reached is not.

The theorems of the library that do induction for any predicate take an operator as a
parameter and cannot be used. Where a proof needs induction over a number, it takes the least
number for which the claim is false, which exists because `<` is well-founded
(`NatLessThanWellFounded`, `WFMin`). Only RECURSIVE operators stay out of reach, and the
modules do without them.

## Findings

1. `lifecycle_second_call`. `StopServers` joins the control thread with
   `g_mitm_start_lock` held. A second `Shutdown` call dispatched meanwhile waits for
   that lock in `RequestShutdown`, so neither thread goes on. `MainEnds` shows that
   this is the only way a teardown fails to end, and that one call alone never meets it.
2. `tracker_lost_handle`. Entries of closed handles stay until the session ends.
   A session that clones often enough fills the table, the next entry overwrites
   slot 0, and if that was its root handle, closing the newest clone is taken for
   the end of the client.
3. `http_split_header`. The piece that completes the header counts its body bytes
   from the length of the whole header, so a header in two pieces makes the count
   short by the first, or wrap. `CountShortByEarlierPieces` shows that nothing else disturbs it.
4. `config_power_cut`. Between the two renames of a save `config.ini` exists only as
   its backup, which no start reads: the next start begins with the default id.

### Other disagreements the models show

These have no run of their own; the models carry the behaviour as the code has it.

- `mitm_service.cpp:1607`: `wgp:ctl` is served before the targets are registered, so a
  `Shutdown` call in flight when a registration fails blocks the teardown in
  `StartServers` the way of finding 1.
- `mitm_trace.cpp:851`: `RememberDomainPath` does not reset `close_observed`, so an object
  with the id of a closed one is recorded as closed.
- `mitm_trace.cpp:3328`: the close of a domain object is traced as a `root_close`, where
  `docs/contracts/trace-format.md:295-303` has a `domain_close` with the object's id
  (`CloseTracedAs` states what the code does).
- `wgnx_tunnel_scenario.cpp:782`: the receive deadline holds for each wait, so a
  datagram on a full queue may take it as often as it is retried; `toolbox/README.md:132`
  says "within the configured receive deadline".
- `wgnx_tunnel_scenario.cpp:577`: after a `ReceiveCompletions` that failed because the
  service closed, the TCP exchange still calls `CloseFlow` (from line 522 or 577);
  `toolbox/README.md:144` says "without retrying the closed service". The UDP workload
  calls it after an `OpenConnectedFlow` that failed for this reason (line 706), and the
  contract checks once after a call other than the wait for an echo; a probe that failed
  so is taken for the refusal it asks for, and the datagram is still sent (line 1005).
- `wgnx_tunnel_scenario.cpp:1044`: when the validation opens a client again after the
  clone's close, it has closed its other clients too, so a service that keeps the
  clone's context passes, though `toolbox/README.md:247` says that the release is verified.
- `scenarios.cpp:1435`: a burst succeeds when peers close without a reply, though its
  description (line 1579) says that it "exchanges one payload on each".
- `runtime_config.cpp:607`: the results of `fprintf` are not looked at, only those of
  flushing and closing; an early write that fails leaves a torn file that is moved
  into place.
- `runtime_config.cpp:400`: a value that parses but is out of range makes all settings
  fall back; `toolbox/README.md:111` says "that individual setting falls back".
- `app_ui.cpp:849`: the end of a run does not refresh the run button of the Scenarios
  page; it stays disabled until the page is built anew.
- `logger.cpp:45`: no line is ever taken from the recent lines, which grow with every
  line logged; `toolbox/README.md:266` says that the log "retains the most recent 160".

## Not modelled

- Wording and layout of trace lines, logs and pages; buffer captures; names of
  commands: formatting that no property tells apart.
- The active probe: its call is commented out.
- `RunScenarios` and `RunScenarioStep`, which nothing calls; the curl and nifm scenarios,
  whose flags are never set and which are modelled as skipped.
- The tracker's snapshot counters (see Plan).
- The toolbox's log file, start-up trace and console: output only.
- Drawing and styles of the user interface; parsing of addresses and URLs.
- Host tools: input and output only.
- `sm`, the server manager, Borealis, the socket and `ssl` services, `wgnx:ctl` and
  `wgnx:tun`: external, modelled from their use.
