---------------------------- MODULE ProbeLogger ----------------------------
(***************************************************************************)
(* net-probe's logger (net-probe/src/logger.cpp): any thread queues lines  *)
(* and binary blobs into fixed ring buffers under g_logger_lock, a flush   *)
(* thread takes batches out of them and appends them to files.             *)
(*                                                                         *)
(* A critical section of g_logger_lock is one step.  The calls around it   *)
(* (SignalEvent, ClearEvent, TimedWaitEvent, WaitThread, the writes of the *)
(* flush thread) are steps of their own.  An entry is represented by its   *)
(* number: entry n of queue q is the n-th one q accepted.                  *)
(***************************************************************************)
EXTENDS Integers, Sequences, FiniteSets

CONSTANTS
  Producers,     \* threads that log while the flush thread runs
  BlobKinds,     \* BlobQueueKind
  Generic,       \* BlobQueueKind::Generic, where rejected blobs are counted
  Text,          \* the line queue
  Capacity,      \* QueueEntryCapacity, BinaryQueueEntryCapacity
  BatchSize,     \* FlushLineBatchSize, FlushBlobBatchSizePerFamily
  MaxAccepted,   \* bound: entries each queue accepts
  MaxRejected    \* bound: oversized blobs

Queues == {Text} \cup BlobKinds

ASSUME QueuesAssumption ==
  /\ Generic \in BlobKinds
  /\ Text \notin BlobKinds
ASSUME SizesAssumption ==
  /\ Capacity \in [Queues -> Nat \ {0}]
  /\ BatchSize \in [Queues -> Nat \ {0}]
  /\ MaxAccepted \in Nat
  /\ MaxRejected \in Nat

VARIABLES
  initialized,   \* g_logger_initialized
  stopRequested, \* g_flush_thread_stop_requested
  started,       \* g_flush_thread_started
  event,         \* g_flush_event is signaled (manual clear)
  backend,       \* g_file_backend_state
  slots,         \* g_queue, g_blob_queues
  head,          \* g_queue_head, g_blob_queue_heads
  tail,          \* g_queue_tail, g_blob_queue_tails
  count,         \* g_queue_count, g_blob_queue_counts
  dropped,       \* g_dropped_line_count, g_dropped_blob_counts
  batch,         \* g_flush_line_batch, g_flush_blob_batch, not yet written
  warnings,      \* FlushPendingEntries' dropped_line_count, dropped_blob_counts
  flushPc,       \* where the flush thread is
  mainPc,        \* where the thread that initializes and shuts down is
  signaling,     \* producers between the unlock and SignalEvent
  accepted,      \* history: entries each queue accepted
  rejected,      \* history: blobs refused by QueueBlobLocked
  reported,      \* history: losses named in an emitted drop warning
  file,          \* history: entries of each queue in the files, in order
  lost           \* history: entries taken out that no write put in a file

ring == <<slots, head, tail, count, dropped, accepted>>
output == <<backend, batch, warnings, reported, file, lost>>
control == <<initialized, stopRequested, started, mainPc>>
vars == <<ring, output, control, event, flushPc, signaling, rejected>>

Init ==
  /\ initialized = FALSE
  /\ stopRequested = FALSE
  /\ started = FALSE
  /\ event = FALSE
  /\ backend = "Uninitialized"
  /\ slots = [q \in Queues |-> [i \in 0..Capacity[q] - 1 |-> 0]]
  /\ head = [q \in Queues |-> 0]
  /\ tail = [q \in Queues |-> 0]
  /\ count = [q \in Queues |-> 0]
  /\ dropped = [q \in Queues |-> 0]
  /\ batch = [q \in Queues |-> <<>>]
  /\ warnings = [q \in Queues |-> 0]
  /\ flushPc = "none"
  /\ mainPc = "boot"
  /\ signaling = {}
  /\ accepted = [q \in Queues |-> 0]
  /\ rejected = 0
  /\ reported = [q \in Queues |-> 0]
  /\ file = [q \in Queues |-> <<>>]
  /\ lost = [q \in Queues |-> 0]

-----------------------------------------------------------------------------
(* The rings.  Indices stay below the capacity, so (i + 1) % capacity is a *)
(* step to the next slot or back to the first.                             *)

NextSlot(q, i) == IF i + 1 = Capacity[q] THEN 0 ELSE i + 1

\* The slot n places after the oldest entry of q.
SlotAt(q, n) == IF tail[q] + n < Capacity[q] THEN tail[q] + n ELSE tail[q] + n - Capacity[q]

\* Faulty variants, not used by the specification: an overflow that forgets
\* to advance the tail, and one that loses the newest entry.
QueueLockedKeepsTail(q) ==
  /\ accepted[q] < MaxAccepted
  /\ accepted' = [accepted EXCEPT ![q] = @ + 1]
  /\ slots' = [slots EXCEPT ![q][head[q]] = accepted[q] + 1]
  /\ head' = [head EXCEPT ![q] = NextSlot(q, @)]
  /\ count' = [count EXCEPT ![q] = IF @ = Capacity[q] THEN @ ELSE @ + 1]
  /\ dropped' = [dropped EXCEPT ![q] = IF count[q] = Capacity[q] THEN @ + 1 ELSE @]
  /\ UNCHANGED tail
QueueLockedLosesNewest(q) ==
  /\ accepted[q] < MaxAccepted
  /\ accepted' = [accepted EXCEPT ![q] = @ + 1]
  /\ \/ /\ count[q] = Capacity[q]
        /\ dropped' = [dropped EXCEPT ![q] = @ + 1]
        /\ UNCHANGED <<slots, head, tail, count>>
     \/ /\ count[q] # Capacity[q]
        /\ slots' = [slots EXCEPT ![q][head[q]] = accepted[q] + 1]
        /\ head' = [head EXCEPT ![q] = NextSlot(q, @)]
        /\ count' = [count EXCEPT ![q] = @ + 1]
        /\ UNCHANGED <<tail, dropped>>

\* QueueLineLocked and QueueBlobLocked with a valid entry: a full ring loses its oldest entry.
QueueLocked(q) ==
  /\ accepted[q] < MaxAccepted
  /\ accepted' = [accepted EXCEPT ![q] = @ + 1]
  /\ slots' = [slots EXCEPT ![q][head[q]] = accepted[q] + 1]
  /\ head' = [head EXCEPT ![q] = NextSlot(q, @)]
  /\ \/ /\ count[q] = Capacity[q]
        /\ tail' = [tail EXCEPT ![q] = NextSlot(q, @)]
        /\ dropped' = [dropped EXCEPT ![q] = @ + 1]
        /\ UNCHANGED count
     \/ /\ count[q] # Capacity[q]
        /\ count' = [count EXCEPT ![q] = @ + 1]
        /\ UNCHANGED <<tail, dropped>>

\* Faulty variant: the refused blob is not counted.
RejectBlobUncounted ==
  /\ rejected < MaxRejected
  /\ rejected' = rejected + 1
  /\ UNCHANGED ring

\* QueueBlobLocked with a blob it cannot hold.
RejectBlobLocked ==
  /\ rejected < MaxRejected
  /\ rejected' = rejected + 1
  /\ dropped' = [dropped EXCEPT ![Generic] = @ + 1]
  /\ UNCHANGED <<slots, head, tail, count, accepted>>

-----------------------------------------------------------------------------
(* The threads that log. *)

\* Log and AppendLine.
LogLine(p) ==
  /\ initialized
  /\ p \notin signaling
  /\ QueueLocked(Text)
  /\ signaling' = signaling \cup {p}
  /\ UNCHANGED <<output, control, event, flushPc, rejected>>

\* AppendBytes; the path selects the kind, the size decides whether it fits.
AppendBytes(p, k) ==
  /\ initialized
  /\ p \notin signaling
  /\ \/ QueueLocked(k) /\ UNCHANGED rejected
     \/ RejectBlobLocked
  /\ signaling' = signaling \cup {p}
  /\ UNCHANGED <<output, control, event, flushPc>>

\* SignalEvent after the critical section of Log, AppendLine or AppendBytes.
SignalFlush(p) ==
  /\ p \in signaling
  /\ event' = TRUE
  /\ signaling' = signaling \ {p}
  /\ UNCHANGED <<ring, output, control, flushPc, rejected>>

-----------------------------------------------------------------------------
(* The thread that starts and stops the logger. *)

\* Initialize, with StartFlushThread; a second call returns at once.
Initialize ==
  /\ mainPc = "boot"
  /\ ~initialized
  /\ QueueLocked(Text)                    \* the boot banner
  /\ initialized' = TRUE
  /\ stopRequested' = FALSE
  /\ started' = TRUE
  /\ flushPc' = "wait"
  /\ event' = TRUE
  /\ mainPc' = "running"
  /\ UNCHANGED <<output, signaling, rejected>>

\* Shutdown up to the stop flag.
RequestStop ==
  /\ mainPc = "running"
  /\ initialized /\ started
  /\ stopRequested' = TRUE
  /\ mainPc' = "signal"
  /\ UNCHANGED <<ring, output, initialized, started, event, flushPc, signaling, rejected>>

\* StopFlushThread: SignalEvent.
SignalStop ==
  /\ mainPc = "signal"
  /\ event' = TRUE
  /\ mainPc' = "join"
  /\ UNCHANGED <<ring, output, initialized, stopRequested, started, flushPc, signaling, rejected>>

\* StopFlushThread: WaitThread returns once the flush thread has exited.
JoinFlushThread ==
  /\ mainPc = "join"
  /\ flushPc = "exited"
  /\ started' = FALSE
  /\ mainPc' = "done"
  /\ UNCHANGED <<ring, output, initialized, stopRequested, event, flushPc, signaling, rejected>>

-----------------------------------------------------------------------------
(* The flush thread. *)

\* FlushThreadMain: TimedWaitEvent returns because the event is signaled ...
WaitSignaled ==
  /\ flushPc = "wait"
  /\ event
  /\ flushPc' = "clear"
  /\ UNCHANGED <<ring, output, control, event, signaling, rejected>>

\* Faulty variant: the wait has no timeout.
WaitForever == FALSE

\* ... or because FlushInterval has passed.
WaitTimeout ==
  /\ flushPc = "wait"
  /\ ~event
  /\ flushPc' = "take"
  /\ UNCHANGED <<ring, output, control, event, signaling, rejected>>

\* ClearEvent forgets every signal that came after the wait returned.
ClearFlushEvent ==
  /\ flushPc = "clear"
  /\ event' = FALSE
  /\ flushPc' = "take"
  /\ UNCHANGED <<ring, output, control, signaling, rejected>>

\* Faulty variant: the pops do not notice an empty ring.
PoppedBlindly(q) == BatchSize[q]

\* How many entries PopLineLocked or PopBlobLocked take out of q in one pass.
Popped(q) == IF count[q] < BatchSize[q] THEN count[q] ELSE BatchSize[q]

\* FlushPendingEntries' critical section: take the counters and a batch.
TakeBatch ==
  /\ flushPc = "take"
  /\ warnings' = dropped
  /\ dropped' = [q \in Queues |-> 0]
  /\ batch' = [q \in Queues |-> [i \in 1..Popped(q) |-> slots[q][SlotAt(q, i - 1)]]]
  /\ tail' = [q \in Queues |-> SlotAt(q, Popped(q))]
  /\ count' = [q \in Queues |-> count[q] - Popped(q)]
  /\ flushPc' = "warn"
  /\ UNCHANGED <<slots, head, accepted, control, event, signaling, rejected,
                 backend, reported, file, lost>>

\* EnsureFileBackendInitialized decides once; Disabled is for ever.
EnsureFileBackendInitialized ==
  backend' \in IF backend = "Uninitialized" THEN {"Ready", "Disabled"} ELSE {backend}

\* EmitPendingDropWarnings: the losses are named on the debug console whatever the file does.
\* A pass that took nothing ends FlushPendingEntries.
EmitPendingDropWarnings ==
  /\ flushPc = "warn"
  /\ \/ (\E q \in Queues : warnings[q] # 0) /\ EnsureFileBackendInitialized
     \/ (\A q \in Queues : warnings[q] = 0) /\ UNCHANGED backend
  /\ reported' = [q \in Queues |-> reported[q] + warnings[q]]
  /\ warnings' = [q \in Queues |-> 0]
  /\ flushPc' = IF \A q \in Queues : batch[q] = <<>> THEN "check" ELSE "write"
  /\ UNCHANGED <<ring, batch, file, lost, control, event, signaling, rejected>>

\* WriteBytesToFile for the next entry of the batch: lines first, and no
\* entry is tried twice.  Opening, creating, sizing or writing may fail.
WriteEntry(q) ==
  /\ flushPc = "write"
  /\ batch[q] # <<>>
  /\ q \in BlobKinds => batch[Text] = <<>>
  /\ EnsureFileBackendInitialized
  /\ \/ /\ backend' = "Ready"
        /\ file' = [file EXCEPT ![q] = Append(@, Head(batch[q]))]
        /\ UNCHANGED lost
     \/ /\ lost' = [lost EXCEPT ![q] = @ + 1]
        /\ UNCHANGED file
  /\ batch' = [batch EXCEPT ![q] = Tail(@)]
  /\ UNCHANGED <<ring, warnings, reported, control, event, flushPc, signaling, rejected>>

\* The batch is written: FlushPendingEntries takes the next one.
NextBatch ==
  /\ flushPc = "write"
  /\ \A q \in Queues : batch[q] = <<>>
  /\ flushPc' = "take"
  /\ UNCHANGED <<ring, output, control, event, signaling, rejected>>

\* Faulty variants: the exit test ignores the queues, or wants the signal
\* that the wait has already cleared.
CheckStopOnly ==
  /\ flushPc = "check"
  /\ flushPc' = IF stopRequested THEN "exited" ELSE "wait"
  /\ UNCHANGED <<ring, output, control, event, signaling, rejected>>
CheckStopSignaled ==
  /\ flushPc = "check"
  /\ flushPc' = IF stopRequested /\ event /\ \A q \in Queues : count[q] = 0 THEN "exited" ELSE "wait"
  /\ UNCHANGED <<ring, output, control, event, signaling, rejected>>

\* FlushThreadMain's last critical section.
CheckStop ==
  /\ flushPc = "check"
  /\ flushPc' = IF stopRequested /\ \A q \in Queues : count[q] = 0 THEN "exited" ELSE "wait"
  /\ UNCHANGED <<ring, output, control, event, signaling, rejected>>

-----------------------------------------------------------------------------
FlushThread ==
  \/ WaitSignaled \/ WaitTimeout \/ ClearFlushEvent \/ TakeBatch
  \/ EmitPendingDropWarnings \/ (\E q \in Queues : WriteEntry(q)) \/ NextBatch \/ CheckStop

Main == Initialize \/ RequestStop \/ SignalStop \/ JoinFlushThread

Next ==
  \/ \E p \in Producers : LogLine(p) \/ (\E k \in BlobKinds : AppendBytes(p, k)) \/ SignalFlush(p)
  \/ Main
  \/ FlushThread

Spec == Init /\ [][Next]_vars

\* The kernel schedules every runnable thread, and TimedWaitEvent returns
\* after FlushInterval.  Nothing forces main to ask for a stop.
Fairness ==
  /\ WF_vars(FlushThread)
  /\ WF_vars(SignalStop \/ JoinFlushThread)

FairSpec == Spec /\ Fairness

-----------------------------------------------------------------------------
RingTypeOK ==
  /\ DOMAIN slots = Queues
  /\ \A q \in Queues : slots[q] \in [0..Capacity[q] - 1 -> Nat]
  /\ head \in [Queues -> Nat] /\ tail \in [Queues -> Nat] /\ count \in [Queues -> Nat]
  /\ \A q \in Queues : head[q] < Capacity[q] /\ tail[q] < Capacity[q] /\ count[q] <= Capacity[q]
  /\ dropped \in [Queues -> Nat] /\ accepted \in [Queues -> Nat]

OutputTypeOK ==
  /\ backend \in {"Uninitialized", "Ready", "Disabled"}
  /\ warnings \in [Queues -> Nat] /\ reported \in [Queues -> Nat] /\ lost \in [Queues -> Nat]
  /\ batch \in [Queues -> Seq(Nat)] /\ file \in [Queues -> Seq(Nat)]

TypeOK ==
  /\ RingTypeOK
  /\ OutputTypeOK
  /\ initialized \in BOOLEAN /\ stopRequested \in BOOLEAN /\ started \in BOOLEAN
  /\ event \in BOOLEAN
  /\ flushPc \in {"none", "wait", "clear", "take", "warn", "write", "check", "exited"}
  /\ mainPc \in {"boot", "running", "signal", "join", "done"}
  /\ signaling \subseteq Producers
  /\ rejected \in Nat

\* The entries of q, oldest first.
Contents(q) == [i \in 1..count[q] |-> slots[q][SlotAt(q, i - 1)]]

\* However producers and the flush thread interleave, a ring holds exactly
\* the newest entries in the order they were queued: overflow costs the
\* oldest ones and never leaves a gap, a duplicate or an overwritten entry
\* that is still counted (QueueLineLocked, QueueBlobLocked, Pop*Locked).
RingHoldsNewest ==
  \A q \in Queues :
    /\ head[q] = SlotAt(q, count[q])
    /\ \A i \in 1..count[q] : Contents(q)[i] = accepted[q] - count[q] + i

\* What came in for q, what the flush thread took out of it, and what it lost.
Incoming(q) == accepted[q] + (IF q = Generic THEN rejected ELSE 0)
TakenOut(q) == Len(file[q]) + lost[q] + Len(batch[q])
CountedLosses(q) == dropped[q] + warnings[q] + reported[q]

\* Every entry a queue accepted, and every blob it refused, is in exactly
\* one place: a file, the flush thread's batch, the ring, a failed write, or
\* a loss counter (pending, copied by the flush thread, or reported).  The
\* counters are read and reset in one critical section and emitted outside
\* it (FlushPendingEntries), so no interleaving may count a loss twice.
EveryEntryAccounted ==
  \A q \in Queues : Incoming(q) = TakenOut(q) + count[q] + CountedLosses(q)

\* The files keep the order in which a queue accepted its entries, without
\* repetition, across batches, drops and failed writes.
FilesInOrder ==
  \A q \in Queues :
    \A i, j \in 1..Len(file[q]) : i < j => file[q][i] < file[q][j]

\* The flush thread leaves only when it was asked to and nothing it could
\* still write or report is left: every queue is empty and every overflow
\* has been reported (FlushThreadMain's exit test; refused blobs are the
\* exception, they are counted without being queued).
ExitLeavesNothing ==
  [][(flushPc # "exited" /\ flushPc' = "exited") =>
       /\ mainPc \in {"signal", "join"}
       /\ \A q \in Queues : count[q] = 0 /\ batch[q] = <<>> /\ warnings[q] = 0
       /\ \A q \in Queues \ {Generic} : dropped[q] = 0]_vars

\* An entry never stays in a ring while the flush thread runs, whatever
\* happens to the signal that announced it: ClearEvent may erase it, the
\* timed wait makes up for it.
QueuedIsTakenOut ==
  \A q \in Queues : (count[q] > 0 /\ flushPc # "exited") ~> (count[q] = 0 \/ flushPc = "exited")

\* Every loss counted while the flush thread runs is reported by it.
LossesAreReported ==
  \A q \in Queues \ {Generic} : (dropped[q] > 0 /\ flushPc # "exited") ~> (dropped[q] = 0)

\* A requested shutdown finishes: the flush thread drains, exits, is joined.
ShutdownCompletes == stopRequested ~> mainPc = "done"

\* The rings, batches and counters implement bounded queues that lose the
\* oldest entry and count each loss until it is reported.
Bounded == INSTANCE BoundedLog WITH
             contents <- [q \in Queues |-> Contents(q)],
             unreported <- [q \in Queues |-> dropped[q] + warnings[q]],
             Rejectable <- Generic
ImplementsBoundedLog == Bounded!Spec
=============================================================================
