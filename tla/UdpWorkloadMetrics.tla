------------------------- MODULE UdpWorkloadMetrics -------------------------
(***************************************************************************)
(* What a UDP workload measures (toolbox/src/udp_workload_metrics.hpp):    *)
(* the interval of its submissions, and of the round trips the smallest,   *)
(* mean, largest and a histogram by powers of two, from which percentiles  *)
(* are bounded.  Numbers are of Width bits; a nanosecond count is ticks by *)
(* Second / Frequency.                                                     *)
(*                                                                         *)
(* The round trips themselves, in ticks, are kept as history: every figure *)
(* is compared with what they say.  Byte counts are left out.              *)
(***************************************************************************)
EXTENDS Integers, Sequences, FiniteSetsExt

CONSTANTS
  Width,      \* bits of a number and buckets of the histogram, 64
  Second,     \* nanoseconds in a second
  Frequency,  \* ticks in a second
  MaxTick, MaxEchoes, MaxSubmissions  \* bounds

\* A one, shifted left.
Power[n \in Nat] == IF n = 0 THEN 1 ELSE 2 * Power[n - 1]
Limit == Power[Width]

\* What a module that instantiates this one assumes: a remainder of ticks and a
\* whole workload fit into a number.
Parameters ==
  /\ {Width, Second, Frequency, MaxEchoes} \subseteq Nat \ {0}
  /\ {MaxTick, MaxSubmissions} \subseteq Nat
  /\ Frequency * Second < Limit
  /\ MaxEchoes * ((MaxTick * Second) \div Frequency) < Limit

VARIABLES
  now,                                        \* external: the system tick
  submitted, first_tick, last_tick,
  echoed, rtt_min, rtt_max, rtt_total, histogram,
  trips                                       \* history: the round trips, in ticks

submissions == <<submitted, first_tick, last_tick>>
echoes == <<echoed, rtt_min, rtt_max, rtt_total, histogram, trips>>
vars == <<now, submissions, echoes>>

Bucket == 0..Width - 1

TicksToNanoseconds(ticks) ==
  ((ticks \div Frequency) * Second + ((ticks % Frequency) * Second) \div Frequency) % Limit

RttBucket(elapsed) == IF elapsed = 0 THEN 0 ELSE CHOOSE b \in Bucket : elapsed \in Power[b]..Power[b + 1] - 1

Init ==
  /\ now = 0 /\ submitted = 0 /\ first_tick = 0 /\ last_tick = 0
  /\ echoed = 0 /\ rtt_min = 0 /\ rtt_max = 0 /\ rtt_total = 0
  /\ histogram = [b \in Bucket |-> 0] /\ trips = <<>>

Tick == now < MaxTick /\ now' = now + 1 /\ UNCHANGED <<submissions, echoes>>

Submission ==
  /\ first_tick' = IF submitted = 0 THEN now ELSE first_tick
  /\ last_tick' = now

RecordSubmission ==
  /\ submitted < MaxSubmissions /\ submitted' = submitted + 1 /\ Submission
  /\ UNCHANGED <<now, echoes>>

RecordEcho == \E start \in 0..now :
  LET elapsed == TicksToNanoseconds(now - start) IN
  /\ echoed < MaxEchoes /\ echoed' = echoed + 1
  /\ rtt_min' = IF echoed = 0 \/ elapsed < rtt_min THEN elapsed ELSE rtt_min
  /\ rtt_max' = IF elapsed > rtt_max THEN elapsed ELSE rtt_max
  /\ rtt_total' = (rtt_total + elapsed) % Limit
  /\ histogram' = [histogram EXCEPT ![RttBucket(elapsed)] = @ + 1]
  /\ trips' = Append(trips, now - start)
  /\ UNCHANGED <<now, submissions>>

Next == Tick \/ RecordSubmission \/ RecordEcho

Spec == Init /\ [][Next]_vars

-----------------------------------------------------------------------------
(* What the summary reports. *)

SubmissionElapsed == IF submitted < 2 THEN 0 ELSE TicksToNanoseconds(last_tick - first_tick)
RttMean == IF echoed = 0 THEN 0 ELSE rtt_total \div echoed

Rank(percentile) == (echoed * percentile + 99) \div 100

ObservedUpTo[b \in Bucket] == histogram[b] + (IF b = 0 THEN 0 ELSE ObservedUpTo[b - 1])

RttPercentileUpper(percentile) ==
  LET b == Min({c \in Bucket : ObservedUpTo[c] >= Rank(percentile)})
  IN IF b + 1 = Width THEN Limit - 1 ELSE Power[b + 1]

-----------------------------------------------------------------------------
(* What the round trips say. *)

Exact(ticks) == (ticks * Second) \div Frequency
Trips == {Exact(trips[i]) : i \in DOMAIN trips}
AtMost(v) == Cardinality({i \in DOMAIN trips : Exact(trips[i]) <= v})
Percentile(percentile) == Min({v \in Trips : AtMost(v) * 100 >= percentile * Len(trips)})

TypeOK ==
  /\ now \in 0..MaxTick /\ submitted \in 0..MaxSubmissions /\ echoed \in 0..MaxEchoes
  /\ {rtt_min, rtt_max, rtt_total} \subseteq 0..Limit - 1
  /\ histogram \in [Bucket -> 0..MaxEchoes]
  /\ 0 <= first_tick /\ first_tick <= last_tick /\ last_tick <= now

\* The figures are those of the round trips, though the product of ticks and
\* nanoseconds would not fit into a number, and the mean is between the others.
FiguresExact ==
  /\ submitted >= 2 => SubmissionElapsed = Exact(last_tick - first_tick)
  /\ echoed > 0 =>
       /\ rtt_min = Min(Trips) /\ rtt_max = Max(Trips)
       /\ rtt_min <= RttMean /\ RttMean <= rtt_max

\* "conservative power-of-two histogram upper bounds rather than exact sample
\* percentiles" (toolbox/README.md:77): never below the percentile, at most twice it.
PercentilesConservative ==
  echoed > 0 => \A p \in {50, 95, 99} :
    /\ Percentile(p) <= RttPercentileUpper(p)
    /\ RttPercentileUpper(p) <= Max({2, 2 * Percentile(p)})
=============================================================================
