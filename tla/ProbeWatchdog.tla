---------------------------- MODULE ProbeWatchdog ----------------------------
(***************************************************************************)
(* The watchdog thread of net-probe (net-probe/src/mitm_service.cpp): it   *)
(* wakes up every two seconds, samples how many sessions are tracked,      *)
(* drains the query trace, a ring that the query and MITM threads write    *)
(* and overwrite at their own pace, and decides whether to log.            *)
(*                                                                         *)
(* The ring belongs to the library (mitm_monitor) and is external: it      *)
(* keeps the newest RingSize records, numbered as they were written.  One  *)
(* iteration of the loop in LogMitmQueryTelemetry is one step.             *)
(***************************************************************************)
EXTENDS Naturals, Sequences

CONSTANTS
  RingSize,       \* external: records the query trace keeps
  BatchSize,      \* QueryTraceDrainBatchSize
  PostTeardown,   \* WatchdogPostTeardownSampleCount
  IdleInterval,   \* WatchdogIdleQuerySummaryIntervalCount
  MaxRecords,     \* bound: records written
  MaxSessions,    \* bound: sessions tracked at once
  MaxChanges      \* bound: sessions connected

\* What a module that instantiates this one assumes.
Parameters ==
  /\ RingSize \in Nat \ {0} /\ BatchSize \in Nat \ {0}
  /\ PostTeardown \in Nat /\ IdleInterval \in Nat \ {0}
  /\ MaxRecords \in Nat /\ MaxSessions \in Nat /\ MaxChanges \in Nat

VARIABLES
  written,      \* external: records written to the query trace
  tracked,      \* mitm_trace::GetTrackedSessionCount
  shutdown,     \* g_shutdown_requested_event is signaled
  pc,           \* "wait", "drain", "snapshot", "done"
  cursor,       \* g_query_trace_cursor
  dropped,      \* g_query_trace_dropped_total
  previous,     \* previous_tracked_session_count
  remaining,    \* post_teardown_samples_remaining
  idle,         \* idle_query_summary_samples
  sampled,      \* tracked_session_count of the current sample
  logged,       \* history: numbers of the records logged
  silent,       \* history: samples in a row that logged nothing
  sinceGone,    \* history: snapshots since a sample saw the last session gone
  connects      \* history: sessions connected

environment == <<written, tracked, shutdown, connects>>
vars == <<environment, pc, cursor, dropped, previous, remaining, idle, sampled, logged, silent, sinceGone>>

Lesser(a, b) == IF a < b THEN a ELSE b

Init ==
  /\ written = 0 /\ tracked = 0 /\ shutdown = FALSE /\ connects = 0
  /\ pc = "wait" /\ cursor = 0 /\ dropped = 0
  /\ previous = 0 /\ remaining = 0 /\ idle = 0 /\ sampled = 0
  /\ logged = <<>> /\ silent = 0 /\ sinceGone = PostTeardown

-----------------------------------------------------------------------------
(* The other threads. *)

\* RecordShouldMitmPolicyDecision and the library's own records.
WriteRecord ==
  /\ written < MaxRecords
  /\ written' = written + 1
  /\ UNCHANGED <<tracked, shutdown, connects, pc, cursor, dropped, previous, remaining, idle,
                 sampled, logged, silent, sinceGone>>

\* RememberSessionLocked, ForgetSessionLocked on the MITM thread.
ChangeSessions ==
  /\ \/ tracked < MaxSessions /\ connects < MaxChanges
        /\ tracked' = tracked + 1 /\ connects' = connects + 1
     \/ tracked > 0 /\ tracked' = tracked - 1 /\ UNCHANGED connects
  /\ UNCHANGED <<written, shutdown, pc, cursor, dropped, previous, remaining, idle, sampled,
                 logged, silent, sinceGone>>

\* RequestShutdown signals the event.
RequestShutdown ==
  /\ ~shutdown /\ shutdown' = TRUE
  /\ UNCHANGED <<written, tracked, connects, pc, cursor, dropped, previous, remaining, idle,
                 sampled, logged, silent, sinceGone>>

-----------------------------------------------------------------------------
(* WatchdogThreadMain. *)

\* Faulty variant: it does not end while sessions are tracked.
ExitWithoutSessions ==
  /\ pc = "wait" /\ shutdown /\ tracked = 0
  /\ pc' = "done"
  /\ UNCHANGED <<environment, cursor, dropped, previous, remaining, idle, sampled,
                 logged, silent, sinceGone>>

\* TimedWaitEvent returns with the event.
Exit ==
  /\ pc = "wait" /\ shutdown
  /\ pc' = "done"
  /\ UNCHANGED <<environment, cursor, dropped, previous, remaining, idle, sampled, logged, silent, sinceGone>>

\* TimedWaitEvent timed out: one sample, and whether it is worth a snapshot.
\* The idle count grows only where the other reasons for silence hold.
Sample ==
  LET gone == previous # 0 /\ tracked = 0
      left == IF gone THEN PostTeardown ELSE remaining
      counted == IF tracked = 0 /\ left = 0 THEN idle + 1 ELSE idle
      force == tracked = 0 /\ left = 0 /\ counted >= IdleInterval
      log == tracked # 0 \/ left # 0 \/ written # cursor \/ force
  IN /\ pc = "wait" /\ ~shutdown
     /\ previous' = tracked /\ remaining' = left /\ sampled' = tracked
     /\ idle' = IF log THEN 0 ELSE counted
     /\ silent' = IF log THEN 0 ELSE silent + 1
     /\ sinceGone' = IF gone THEN 0 ELSE sinceGone
     /\ pc' = IF log THEN "drain" ELSE "wait"
     /\ UNCHANGED <<environment, cursor, dropped, logged>>

\* External, DrainQueryTrace: the oldest record the ring still holds.
Oldest == IF written > RingSize THEN written - RingSize ELSE 0
Lost == IF Oldest > cursor THEN Oldest - cursor ELSE 0
Drained == Lesser(BatchSize, written - (cursor + Lost))

\* Faulty variant: losses are not added up.
DrainUncounted ==
  /\ pc = "drain"
  /\ UNCHANGED dropped
  /\ cursor' = cursor + Lost + Drained
  /\ logged' = logged \o [i \in 1..Drained |-> cursor + Lost + i]
  /\ pc' = IF Drained < BatchSize THEN "snapshot" ELSE "drain"
  /\ UNCHANGED <<environment, previous, remaining, idle, sampled, silent, sinceGone>>

\* One iteration of LogMitmQueryTelemetry: writers may overtake it between two.
Drain ==
  /\ pc = "drain"
  /\ dropped' = dropped + Lost
  /\ cursor' = cursor + Lost + Drained
  /\ logged' = logged \o [i \in 1..Drained |-> cursor + Lost + i]
  /\ pc' = IF Drained < BatchSize THEN "snapshot" ELSE "drain"
  /\ UNCHANGED <<environment, previous, remaining, idle, sampled, silent, sinceGone>>

\* The rest of the sample: state of the manager, of sm and of the tables.
Snapshot ==
  /\ pc = "snapshot"
  /\ remaining' = IF sampled = 0 /\ remaining # 0 THEN remaining - 1 ELSE remaining
  /\ sinceGone' = IF sinceGone < PostTeardown THEN sinceGone + 1 ELSE sinceGone
  /\ pc' = "wait"
  /\ UNCHANGED <<environment, cursor, dropped, previous, idle, sampled, logged, silent>>

Watchdog == Exit \/ Sample \/ Drain \/ Snapshot
Next == WriteRecord \/ ChangeSessions \/ RequestShutdown \/ Watchdog

Spec == Init /\ [][Next]_vars

\* The watchdog is scheduled and its wait has a timeout.
FairSpec == Spec /\ WF_vars(Watchdog)

-----------------------------------------------------------------------------
TypeOK ==
  /\ written \in Nat /\ tracked \in Nat /\ shutdown \in BOOLEAN /\ connects \in Nat
  /\ pc \in {"wait", "drain", "snapshot", "done"}
  /\ cursor \in Nat /\ dropped \in Nat /\ previous \in Nat /\ remaining \in 0..PostTeardown
  /\ idle \in 0..IdleInterval /\ sampled \in Nat
  /\ logged \in Seq(Nat) /\ silent \in Nat
  /\ sinceGone \in 0..PostTeardown

\* Every record the cursor has passed was logged, once and in order, or is in
\* the total of dropped ones, although the ring is overwritten meanwhile.
RecordsAccounted ==
  /\ cursor <= written
  /\ Len(logged) + dropped = cursor
  /\ \A i \in 1..Len(logged) : logged[i] <= cursor
  /\ \A i \in 1..Len(logged) - 1 : logged[i] < logged[i + 1]

\* The log is never silent for as many samples as the idle interval has: a
\* log that stops can be told from a probe that has nothing to say.
NeverSilentLong == silent < IdleInterval

\* After the sample that saw the last session gone, snapshots follow without a
\* silent sample until there were as many as the teardown is watched for.
TeardownWatched == sinceGone < PostTeardown => silent = 0

\* What was written is logged or counted, unless a shutdown comes first.
RecordsAreDrained ==
  \A n \in 1..MaxRecords : (written >= n) ~> (cursor >= n \/ shutdown)

\* After RequestShutdown the watchdog ends, also in the middle of a drain.
ShutdownEndsWatchdog == shutdown ~> (pc = "done")
=============================================================================
