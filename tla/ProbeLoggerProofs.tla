------------------------- MODULE ProbeLoggerProofs -------------------------
(***************************************************************************)
(* Proofs about ProbeLogger, for every set of producers, every number of   *)
(* binary queues, every ring capacity and every batch size.                *)
(***************************************************************************)
EXTENDS ProbeLogger, SequenceTheorems, TLAPS

\* Moving an index one slot on stays inside the ring.
LEMMA NextSlotInRing ==
  ASSUME NEW q \in Queues, NEW i \in 0..Capacity[q] - 1
  PROVE  NextSlot(q, i) \in 0..Capacity[q] - 1
BY SizesAssumption DEF NextSlot

\* A place at most one lap after the tail is inside the ring.
LEMMA SlotAtInRing ==
  ASSUME RingTypeOK, NEW q \in Queues, NEW n \in 0..Capacity[q]
  PROVE  SlotAt(q, n) \in 0..Capacity[q] - 1
<1>1. tail[q] \in Nat /\ tail[q] < Capacity[q] /\ Capacity[q] \in Nat \ {0}
  BY SizesAssumption DEF RingTypeOK
<1>2. QED
  BY <1>1 DEF SlotAt

\* One pass pops at most what is there.
LEMMA PoppedFits ==
  ASSUME RingTypeOK, NEW q \in Queues
  PROVE  Popped(q) \in Nat /\ Popped(q) <= count[q] /\ Popped(q) <= Capacity[q]
<1>1. count[q] \in Nat /\ count[q] <= Capacity[q] /\ BatchSize[q] \in Nat /\ Capacity[q] \in Nat
  BY SizesAssumption DEF RingTypeOK
<1>2. QED
  BY <1>1 DEF Popped

-----------------------------------------------------------------------------
(* Type correctness. *)

\* Queuing an entry keeps the indices of every ring inside it.
LEMMA QueueLockedType ==
  ASSUME RingTypeOK, NEW q \in Queues, QueueLocked(q)
  PROVE  RingTypeOK'
<1>1. /\ head[q] \in 0..Capacity[q] - 1 /\ tail[q] \in 0..Capacity[q] - 1
      /\ Capacity[q] \in Nat \ {0}
  BY SizesAssumption DEF RingTypeOK
<1>2. NextSlot(q, head[q]) \in 0..Capacity[q] - 1 /\ NextSlot(q, tail[q]) \in 0..Capacity[q] - 1
  BY <1>1, NextSlotInRing
<1>3. accepted' \in [Queues -> Nat]
  BY DEF RingTypeOK, QueueLocked
<1>4. head' \in [Queues -> Nat] /\ \A r \in Queues : head'[r] < Capacity[r]
  <2>1. head' = [head EXCEPT ![q] = NextSlot(q, head[q])]
    BY DEF QueueLocked
  <2>2. NextSlot(q, head[q]) \in Nat /\ NextSlot(q, head[q]) < Capacity[q]
    BY <1>1, <1>2
  <2>3. QED
    BY <2>1, <2>2 DEF RingTypeOK
<1>5. tail' \in [Queues -> Nat] /\ \A r \in Queues : tail'[r] < Capacity[r]
  <2>1. tail' = tail \/ tail' = [tail EXCEPT ![q] = NextSlot(q, tail[q])]
    BY DEF QueueLocked
  <2>2. NextSlot(q, tail[q]) \in Nat /\ NextSlot(q, tail[q]) < Capacity[q]
    BY <1>1, <1>2
  <2>3. QED
    BY <2>1, <2>2 DEF RingTypeOK
<1>6. count' \in [Queues -> Nat] /\ \A r \in Queues : count'[r] <= Capacity[r]
  <2>1. \/ count' = count
        \/ count[q] # Capacity[q] /\ count' = [count EXCEPT ![q] = count[q] + 1]
    BY DEF QueueLocked
  <2>2. count[q] # Capacity[q] => count[q] + 1 \in Nat /\ count[q] + 1 <= Capacity[q]
    BY <1>1 DEF RingTypeOK
  <2>3. QED
    BY <2>1, <2>2 DEF RingTypeOK
<1>7. dropped' \in [Queues -> Nat]
  <2>1. dropped' = dropped \/ dropped' = [dropped EXCEPT ![q] = dropped[q] + 1]
    BY DEF QueueLocked
  <2>2. dropped[q] + 1 \in Nat
    BY DEF RingTypeOK
  <2>3. QED
    BY <2>1, <2>2 DEF RingTypeOK
<1>8. DOMAIN slots' = Queues /\ \A r \in Queues : slots'[r] \in [0..Capacity[r] - 1 -> Nat]
  <2>1. slots' = [slots EXCEPT ![q] = [slots[q] EXCEPT ![head[q]] = accepted[q] + 1]]
    BY DEF QueueLocked
  <2>2. accepted[q] + 1 \in Nat
    BY DEF RingTypeOK
  <2>3. [slots[q] EXCEPT ![head[q]] = accepted[q] + 1] \in [0..Capacity[q] - 1 -> Nat]
    BY <2>2, <1>1 DEF RingTypeOK
  <2>4. QED
    BY <2>1, <2>3 DEF RingTypeOK
<1>9. QED
  BY <1>3, <1>4, <1>5, <1>6, <1>7, <1>8 DEF RingTypeOK

\* A pass of the flush thread takes numbers out of the rings.
LEMMA TakeBatchType ==
  ASSUME RingTypeOK, TakeBatch
  PROVE  RingTypeOK' /\ batch' \in [Queues -> Seq(Nat)]
<1>1. \A q \in Queues : Popped(q) \in 0..Capacity[q] /\ Popped(q) <= count[q]
  BY PoppedFits, SizesAssumption
<1>2. \A q \in Queues : SlotAt(q, Popped(q)) \in 0..Capacity[q] - 1
  BY <1>1, SlotAtInRing
<1>3. tail' \in [Queues -> Nat] /\ \A q \in Queues : tail'[q] < Capacity[q]
  BY <1>2, SizesAssumption DEF TakeBatch
<1>4. count' \in [Queues -> Nat] /\ \A q \in Queues : count'[q] <= Capacity[q]
  BY <1>1, SizesAssumption DEF TakeBatch, RingTypeOK
<1>5. ASSUME NEW q \in Queues
      PROVE  [i \in 1..Popped(q) |-> slots[q][SlotAt(q, i - 1)]] \in Seq(Nat)
  <2>1. ASSUME NEW i \in 1..Popped(q) PROVE slots[q][SlotAt(q, i - 1)] \in Nat
    <3>1. i - 1 \in 0..Capacity[q]
      BY <1>1, SizesAssumption
    <3>2. SlotAt(q, i - 1) \in 0..Capacity[q] - 1
      BY <3>1, SlotAtInRing
    <3>3. QED
      BY <3>2 DEF RingTypeOK
  <2>2. Popped(q) \in Nat
    BY <1>1, SizesAssumption
  <2>3. QED
    BY <2>1, <2>2, IsASeq
<1>6. batch' \in [Queues -> Seq(Nat)]
  BY <1>5 DEF TakeBatch
<1>7. dropped' \in [Queues -> Nat] /\ UNCHANGED <<slots, head, accepted>>
  BY DEF TakeBatch
<1>8. QED
  BY <1>3, <1>4, <1>6, <1>7 DEF RingTypeOK

\* Writing an entry keeps the batch and the file sequences of numbers.
LEMMA WriteEntryType ==
  ASSUME OutputTypeOK, NEW q \in Queues, WriteEntry(q)
  PROVE  OutputTypeOK'
<1>1. batch[q] \in Seq(Nat) /\ batch[q] # <<>> /\ file[q] \in Seq(Nat)
  BY DEF WriteEntry, OutputTypeOK
<1>2. Tail(batch[q]) \in Seq(Nat) /\ Head(batch[q]) \in Nat
  BY <1>1
<1>3. Append(file[q], Head(batch[q])) \in Seq(Nat)
  BY <1>1, <1>2
<1>4. batch' \in [Queues -> Seq(Nat)]
  BY <1>2 DEF WriteEntry, OutputTypeOK
<1>5. file' \in [Queues -> Seq(Nat)] /\ lost' \in [Queues -> Nat]
  <2>1. \/ file' = [file EXCEPT ![q] = Append(file[q], Head(batch[q]))] /\ lost' = lost
        \/ file' = file /\ lost' = [lost EXCEPT ![q] = lost[q] + 1]
    BY DEF WriteEntry
  <2>2. lost[q] + 1 \in Nat
    BY DEF OutputTypeOK
  <2>3. file' \in [Queues -> Seq(Nat)]
    BY <1>3, <2>1 DEF OutputTypeOK
  <2>4. lost' \in [Queues -> Nat]
    BY <2>1, <2>2 DEF OutputTypeOK
  <2>5. QED
    BY <2>3, <2>4
<1>6. backend' \in {"Uninitialized", "Ready", "Disabled"}
  BY DEF WriteEntry, EnsureFileBackendInitialized, OutputTypeOK
<1>7. UNCHANGED <<warnings, reported>>
  BY DEF WriteEntry
<1>8. QED
  BY <1>4, <1>5, <1>6, <1>7 DEF OutputTypeOK

LEMMA TypeStep == TypeOK /\ [Next]_vars => TypeOK'
<1>. SUFFICES ASSUME TypeOK, [Next]_vars PROVE TypeOK'
  OBVIOUS
<1>a. RingTypeOK /\ OutputTypeOK
  BY DEF TypeOK
<1>b. ring' = ring => RingTypeOK'
  BY <1>a DEF ring, RingTypeOK
<1>c. output' = output => OutputTypeOK'
  BY <1>a DEF output, OutputTypeOK
<1>1. ASSUME NEW p \in Producers, LogLine(p) PROVE TypeOK'
  <2>1. RingTypeOK'
    BY <1>a, <1>1, QueueLockedType DEF LogLine, Queues
  <2>2. QED
    BY <1>1, <1>c, <2>1 DEF LogLine, TypeOK, control
<1>2. ASSUME NEW p \in Producers, NEW k \in BlobKinds, AppendBytes(p, k) PROVE TypeOK'
  <2>1. RingTypeOK' /\ rejected' \in Nat
    <3>1. CASE QueueLocked(k) /\ UNCHANGED rejected
      BY <1>a, <3>1, QueueLockedType DEF Queues, TypeOK
    <3>2. CASE RejectBlobLocked
      <4>1. dropped' = [dropped EXCEPT ![Generic] = dropped[Generic] + 1] /\ Generic \in Queues
        BY <3>2, QueuesAssumption DEF RejectBlobLocked, Queues
      <4>2. dropped' \in [Queues -> Nat]
        BY <1>a, <4>1 DEF RingTypeOK
      <4>3. UNCHANGED <<slots, head, tail, count, accepted>> /\ rejected' \in Nat
        BY <3>2 DEF RejectBlobLocked, TypeOK
      <4>4. QED
        BY <1>a, <4>2, <4>3 DEF RingTypeOK
    <3>3. QED
      BY <1>2, <3>1, <3>2 DEF AppendBytes
  <2>2. QED
    BY <1>2, <1>c, <2>1 DEF AppendBytes, TypeOK, control
<1>3. ASSUME NEW p \in Producers, SignalFlush(p) PROVE TypeOK'
  BY <1>3, <1>b, <1>c DEF SignalFlush, TypeOK, control
<1>4. CASE Initialize
  <2>1. RingTypeOK'
    BY <1>a, <1>4, QueueLockedType DEF Initialize, Queues
  <2>2. QED
    BY <1>4, <1>c, <2>1 DEF Initialize, TypeOK
<1>5. CASE RequestStop
  BY <1>5, <1>b, <1>c DEF RequestStop, TypeOK
<1>6. CASE SignalStop
  BY <1>6, <1>b, <1>c DEF SignalStop, TypeOK
<1>7. CASE JoinFlushThread
  BY <1>7, <1>b, <1>c DEF JoinFlushThread, TypeOK
<1>8. CASE WaitSignaled
  BY <1>8, <1>b, <1>c DEF WaitSignaled, TypeOK, control
<1>9. CASE WaitTimeout
  BY <1>9, <1>b, <1>c DEF WaitTimeout, TypeOK, control
<1>10. CASE ClearFlushEvent
  BY <1>10, <1>b, <1>c DEF ClearFlushEvent, TypeOK, control
<1>11. CASE TakeBatch
  <2>1. RingTypeOK' /\ batch' \in [Queues -> Seq(Nat)]
    BY <1>a, <1>11, TakeBatchType
  <2>2. OutputTypeOK'
    BY <1>a, <1>11, <2>1 DEF TakeBatch, OutputTypeOK, RingTypeOK
  <2>3. QED
    BY <1>11, <2>1, <2>2 DEF TakeBatch, TypeOK, control
<1>12. CASE EmitPendingDropWarnings
  <2>1. backend' \in {"Uninitialized", "Ready", "Disabled"}
    BY <1>a, <1>12 DEF EmitPendingDropWarnings, EnsureFileBackendInitialized, OutputTypeOK
  <2>2. reported' \in [Queues -> Nat] /\ warnings' \in [Queues -> Nat]
    BY <1>a, <1>12 DEF EmitPendingDropWarnings, OutputTypeOK
  <2>3. OutputTypeOK'
    BY <1>a, <1>12, <2>1, <2>2 DEF EmitPendingDropWarnings, OutputTypeOK
  <2>4. QED
    BY <1>12, <1>b, <2>3 DEF EmitPendingDropWarnings, TypeOK, control
<1>13. ASSUME NEW q \in Queues, WriteEntry(q) PROVE TypeOK'
  <2>1. OutputTypeOK'
    BY <1>a, <1>13, WriteEntryType
  <2>2. QED
    BY <1>13, <1>b, <2>1 DEF WriteEntry, TypeOK, control
<1>14. CASE NextBatch
  BY <1>14, <1>b, <1>c DEF NextBatch, TypeOK, control
<1>15. CASE CheckStop
  BY <1>15, <1>b, <1>c DEF CheckStop, TypeOK, control
<1>16. CASE UNCHANGED vars
  BY <1>16, <1>b, <1>c DEF vars, TypeOK, control
<1>17. QED
  BY <1>1, <1>2, <1>3, <1>4, <1>5, <1>6, <1>7, <1>8, <1>9, <1>10, <1>11, <1>12,
     <1>13, <1>14, <1>15, <1>16 DEF Next, Main, FlushThread

\* Every variable keeps its type: the ring indices stay inside their ring
\* and no queue counts more entries than it has slots, whatever producers
\* and the flush thread do (logger.cpp, all operations).
THEOREM TypeCorrect == Spec => []TypeOK
<1>1. ASSUME Init PROVE TypeOK
  <2>1. RingTypeOK
    <3>1. ASSUME NEW q \in Queues
          PROVE  /\ slots[q] \in [0..Capacity[q] - 1 -> Nat]
                 /\ head[q] < Capacity[q] /\ tail[q] < Capacity[q] /\ count[q] <= Capacity[q]
      BY <1>1, SizesAssumption DEF Init
    <3>2. QED
      BY <1>1, <3>1 DEF Init, RingTypeOK
  <2>2. OutputTypeOK
    BY <1>1 DEF Init, OutputTypeOK
  <2>3. QED
    BY <1>1, <2>1, <2>2 DEF Init, TypeOK
<1>2. QED
  BY <1>1, TypeStep, PTL DEF Spec

-----------------------------------------------------------------------------
(* The rings. *)

\* Advancing the tail by one slot shifts every place by one.
LEMMA SlotAfterNext ==
  ASSUME RingTypeOK, NEW q \in Queues, tail'[q] = NextSlot(q, tail[q]), NEW n \in 0..Capacity[q] - 1
  PROVE  SlotAt(q, n)' = SlotAt(q, n + 1)
<1>1. tail[q] \in Nat /\ tail[q] < Capacity[q] /\ Capacity[q] \in Nat \ {0} /\ n \in Nat
  BY SizesAssumption DEF RingTypeOK
<1>2. QED
  BY <1>1 DEF SlotAt, NextSlot

\* Two places less than a lap apart are different slots.
LEMMA SlotsDiffer ==
  ASSUME RingTypeOK, NEW q \in Queues, NEW m \in Nat, NEW n \in Nat,
         m < n, n - m < Capacity[q], n <= Capacity[q]
  PROVE  SlotAt(q, m) # SlotAt(q, n)
<1>1. tail[q] \in Nat /\ tail[q] < Capacity[q] /\ Capacity[q] \in Nat \ {0}
  BY SizesAssumption DEF RingTypeOK
<1>2. QED
  BY <1>1 DEF SlotAt

\* What the ring of queue q holds; RingHoldsNewest says it for every queue.
RingOK(q) ==
  /\ head[q] = SlotAt(q, count[q])
  /\ \A i \in 1..count[q] : slots[q][SlotAt(q, i - 1)] = accepted[q] - count[q] + i

LEMMA RingsOK == ASSUME RingTypeOK PROVE RingHoldsNewest <=> \A q \in Queues : RingOK(q)
BY DEF RingHoldsNewest, RingOK, Contents

\* Queuing an entry: with room, the new entry extends the contents; without,
\* the oldest slot is overwritten and the tail moves past it.
LEMMA QueueLockedRing ==
  ASSUME RingTypeOK, NEW q \in Queues, QueueLocked(q), RingOK(q)
  PROVE  RingOK(q)'
<1>. DEFINE c == Capacity[q]
<1>1. /\ tail[q] \in Nat /\ tail[q] < c /\ count[q] \in Nat /\ count[q] <= c
      /\ c \in Nat \ {0} /\ accepted[q] \in Nat /\ head[q] \in 0..c - 1
  BY SizesAssumption DEF RingTypeOK
<1>2. head[q] = SlotAt(q, count[q])
  BY DEF RingOK
<1>3. accepted'[q] = accepted[q] + 1 /\ head'[q] = NextSlot(q, head[q])
  BY DEF QueueLocked, RingTypeOK
<1>4. /\ slots'[q][head[q]] = accepted[q] + 1
      /\ \A k \in 0..c - 1 : k # head[q] => slots'[q][k] = slots[q][k]
  <2>1. slots' = [slots EXCEPT ![q] = [slots[q] EXCEPT ![head[q]] = accepted[q] + 1]]
    BY DEF QueueLocked
  <2>2. slots'[q] = [slots[q] EXCEPT ![head[q]] = accepted[q] + 1]
    BY <2>1 DEF RingTypeOK
  <2>3. QED
    BY <1>1, <2>2 DEF RingTypeOK
<1>5. CASE count[q] # c
  <2>1. tail' = tail /\ count'[q] = count[q] + 1
    BY <1>5 DEF QueueLocked, RingTypeOK
  <2>2. \A n \in 0..c : SlotAt(q, n)' = SlotAt(q, n)
    BY <2>1 DEF SlotAt
  <2>3. head'[q] = SlotAt(q, count[q])'
    BY <1>1, <1>2, <1>3, <1>5, <2>1 DEF SlotAt, NextSlot
  <2>4. ASSUME NEW i \in 1..count'[q]
        PROVE  slots'[q][SlotAt(q, i - 1)'] = accepted'[q] - count'[q] + i
    <3>1. i \in Nat /\ i - 1 \in 0..c /\ SlotAt(q, i - 1) \in 0..c - 1
      BY <1>1, <1>5, <2>1, <2>4, SlotAtInRing
    <3>2. SlotAt(q, i - 1)' = SlotAt(q, i - 1)
      BY <2>2, <3>1
    <3>3. CASE i = count[q] + 1
      BY <1>1, <1>2, <1>3, <1>4, <2>1, <3>2, <3>3
    <3>4. CASE i # count[q] + 1
      <4>1. i \in 1..count[q] /\ i - 1 < count[q]
        BY <1>1, <2>1, <2>4, <3>4
      <4>2. SlotAt(q, i - 1) # head[q]
        BY <1>1, <1>2, <1>5, <4>1, SlotsDiffer
      <4>3. slots[q][SlotAt(q, i - 1)] = accepted[q] - count[q] + i
        BY <4>1 DEF RingOK
      <4>4. QED
        BY <1>1, <1>3, <1>4, <2>1, <3>1, <3>2, <4>2, <4>3
    <3>5. QED
      BY <3>3, <3>4
  <2>5. QED
    BY <2>3, <2>4 DEF RingOK
<1>6. CASE count[q] = c
  <2>1. tail'[q] = NextSlot(q, tail[q]) /\ count'[q] = count[q]
    BY <1>6 DEF QueueLocked, RingTypeOK
  <2>2. head[q] = tail[q]
    BY <1>1, <1>2, <1>6 DEF SlotAt
  <2>3. \A n \in 0..c - 1 : SlotAt(q, n)' = SlotAt(q, n + 1)
    BY <2>1, SlotAfterNext
  <2>4. head'[q] = SlotAt(q, count[q])'
    BY <1>1, <1>3, <1>6, <2>1, <2>2 DEF SlotAt, NextSlot
  <2>5. ASSUME NEW i \in 1..count'[q]
        PROVE  slots'[q][SlotAt(q, i - 1)'] = accepted'[q] - count'[q] + i
    <3>1. i \in Nat /\ i - 1 \in 0..c - 1 /\ i <= c /\ i >= 1
      BY <1>1, <1>6, <2>1, <2>5
    <3>2. SlotAt(q, i - 1)' = SlotAt(q, i)
      BY <1>1, <2>3, <3>1
    <3>3. CASE i = c
      <4>1. SlotAt(q, i) = head[q]
        BY <1>1, <2>2, <3>3 DEF SlotAt
      <4>2. QED
        BY <1>1, <1>3, <1>4, <1>6, <2>1, <3>2, <3>3, <4>1
    <3>4. CASE i # c
      <4>1. i < c /\ i + 1 \in 1..count[q]
        BY <1>1, <1>6, <3>1, <3>4
      <4>2. SlotAt(q, i) \in 0..c - 1 /\ SlotAt(q, i) # SlotAt(q, c)
        BY <1>1, <3>1, <4>1, SlotAtInRing, SlotsDiffer
      <4>3. slots[q][SlotAt(q, (i + 1) - 1)] = accepted[q] - count[q] + (i + 1)
        BY <4>1 DEF RingOK
      <4>4. (i + 1) - 1 = i
        BY <3>1
      <4>5. QED
        BY <1>1, <1>2, <1>3, <1>4, <1>6, <2>1, <3>1, <3>2, <4>2, <4>3, <4>4
    <3>5. QED
      BY <3>3, <3>4
  <2>6. QED
    BY <2>4, <2>5 DEF RingOK
<1>7. QED
  BY <1>5, <1>6

\* Queuing into one queue leaves the rings of the others alone.
LEMMA QueueLockedOthers ==
  ASSUME RingTypeOK, NEW q \in Queues, NEW r \in Queues, r # q, QueueLocked(q)
  PROVE  /\ slots'[r] = slots[r] /\ head'[r] = head[r] /\ tail'[r] = tail[r]
         /\ count'[r] = count[r] /\ dropped'[r] = dropped[r] /\ accepted'[r] = accepted[r]
<1>1. slots' = [slots EXCEPT ![q] = [slots[q] EXCEPT ![head[q]] = accepted[q] + 1]]
  BY DEF QueueLocked
<1>2. slots'[r] = slots[r] /\ head'[r] = head[r] /\ accepted'[r] = accepted[r]
  BY <1>1 DEF QueueLocked, RingTypeOK
<1>3. tail'[r] = tail[r] /\ count'[r] = count[r] /\ dropped'[r] = dropped[r]
  BY DEF QueueLocked, RingTypeOK
<1>4. QED
  BY <1>2, <1>3

LEMMA QueueLockedRings ==
  ASSUME RingTypeOK, NEW q \in Queues, QueueLocked(q), RingHoldsNewest
  PROVE  RingHoldsNewest'
<1>1. RingTypeOK'
  BY QueueLockedType
<1>2. \A r \in Queues : RingOK(r)
  BY RingsOK
<1>3. ASSUME NEW r \in Queues PROVE RingOK(r)'
  <2>1. CASE r = q
    BY <1>2, <2>1, QueueLockedRing
  <2>2. CASE r # q
    <3>1. /\ slots'[r] = slots[r] /\ head'[r] = head[r] /\ tail'[r] = tail[r]
          /\ count'[r] = count[r] /\ accepted'[r] = accepted[r]
      BY <2>2, QueueLockedOthers
    <3>2. RingOK(r)
      BY <1>2
    <3>3. QED
      BY <3>1, <3>2 DEF RingOK, SlotAt
  <2>3. QED
    BY <2>1, <2>2
<1>4. QED
  BY <1>3 DEF RingHoldsNewest, RingOK, Contents

\* Taking a batch removes the oldest entries and moves the tail past them.
LEMMA TakeBatchRings ==
  ASSUME RingTypeOK, TakeBatch, RingHoldsNewest
  PROVE  RingHoldsNewest'
<1>1. ASSUME NEW q \in Queues PROVE RingOK(q)'
  <2>. DEFINE c == Capacity[q]
              n == Popped(q)
  <2>1. /\ tail[q] \in Nat /\ tail[q] < c /\ count[q] \in Nat /\ count[q] <= c
        /\ c \in Nat \ {0} /\ accepted[q] \in Nat /\ head[q] \in 0..c - 1
    BY SizesAssumption DEF RingTypeOK
  <2>2. n \in Nat /\ n <= count[q] /\ n <= c
    BY PoppedFits
  <2>3. /\ tail'[q] = SlotAt(q, n) /\ count'[q] = count[q] - n
        /\ slots'[q] = slots[q] /\ head'[q] = head[q] /\ accepted'[q] = accepted[q]
    BY DEF TakeBatch
  <2>4. \A k \in 0..count[q] - n : SlotAt(q, k)' = SlotAt(q, k + n)
    BY <2>1, <2>2, <2>3 DEF SlotAt
  <2>5. RingOK(q)
    BY RingsOK
  <2>6. head'[q] = SlotAt(q, count[q])'
    <3>1. head[q] = SlotAt(q, count[q])
      BY <2>5 DEF RingOK
    <3>2. QED
      BY <2>1, <2>2, <2>3, <3>1 DEF SlotAt
  <2>7. ASSUME NEW i \in 1..count'[q]
        PROVE  slots'[q][SlotAt(q, i - 1)'] = accepted'[q] - count'[q] + i
    <3>1. i \in Nat /\ i - 1 \in 0..count[q] - n /\ i + n \in 1..count[q]
      BY <2>1, <2>2, <2>3, <2>7
    <3>2. SlotAt(q, i - 1)' = SlotAt(q, (i - 1) + n)
      BY <2>4, <3>1
    <3>3. (i - 1) + n = (i + n) - 1
      BY <2>2, <3>1
    <3>4. slots[q][SlotAt(q, (i + n) - 1)] = accepted[q] - count[q] + (i + n)
      BY <2>5, <3>1 DEF RingOK
    <3>5. QED
      BY <2>1, <2>2, <2>3, <3>1, <3>2, <3>3, <3>4
  <2>8. QED
    BY <2>6, <2>7 DEF RingOK
<1>2. QED
  BY <1>1 DEF RingHoldsNewest, RingOK, Contents

\* Only these steps touch a ring; the others leave it alone or only count.
LEMMA RingSteps ==
  ASSUME [Next]_vars
  PROVE  \/ \E q \in Queues : QueueLocked(q)
         \/ TakeBatch
         \/ UNCHANGED <<slots, head, tail, count, accepted>>
<1>. USE DEF ring
<1>1. CASE Main
  BY <1>1 DEF Main, Initialize, RequestStop, SignalStop, JoinFlushThread, Queues
<1>2. CASE FlushThread
  BY <1>2 DEF FlushThread, WaitSignaled, WaitTimeout, ClearFlushEvent, EmitPendingDropWarnings,
              WriteEntry, NextBatch, CheckStop
<1>3. ASSUME NEW p \in Producers,
             LogLine(p) \/ (\E k \in BlobKinds : AppendBytes(p, k)) \/ SignalFlush(p)
      PROVE  \/ \E q \in Queues : QueueLocked(q)
             \/ UNCHANGED <<slots, head, tail, count, accepted>>
  BY <1>3 DEF LogLine, AppendBytes, SignalFlush, RejectBlobLocked, Queues
<1>4. CASE UNCHANGED vars
  BY <1>4 DEF vars
<1>5. QED
  BY <1>1, <1>2, <1>3, <1>4 DEF Next

\* At every moment a ring holds exactly its newest entries in order
\* (QueueLineLocked, QueueBlobLocked, PopLineLocked, PopBlobLocked).
THEOREM RingsHoldNewest == Spec => []RingHoldsNewest
<1>1. ASSUME Init PROVE RingHoldsNewest
  <2>1. ASSUME NEW q \in Queues PROVE RingOK(q)
    BY <1>1, SizesAssumption DEF Init, RingOK, SlotAt
  <2>2. QED
    BY <2>1 DEF RingHoldsNewest, RingOK, Contents
<1>2. ASSUME TypeOK, RingHoldsNewest, [Next]_vars PROVE RingHoldsNewest'
  <2>1. RingTypeOK
    BY <1>2 DEF TypeOK
  <2>2. CASE UNCHANGED <<slots, head, tail, count, accepted>>
    BY <1>2, <2>2 DEF RingHoldsNewest, Contents, SlotAt
  <2>3. QED
    BY <1>2, <2>1, <2>2, RingSteps, QueueLockedRings, TakeBatchRings
<1>3. QED
  BY <1>1, <1>2, TypeCorrect, PTL DEF Spec

-----------------------------------------------------------------------------
(* Accounting. *)

\* What the flush thread still holds depends on where it is: it takes a new
\* batch only after the last one is written and its losses are reported.
FlushHolds ==
  /\ mainPc = "boot" => flushPc = "none"
  /\ flushPc \notin {"warn", "write"} => \A q \in Queues : batch[q] = <<>>
  /\ flushPc # "warn" => \A q \in Queues : warnings[q] = 0

LEMMA FlushHoldsStep == TypeOK /\ FlushHolds /\ [Next]_vars => FlushHolds'
<1>. SUFFICES ASSUME TypeOK, FlushHolds, [Next]_vars PROVE FlushHolds'
  OBVIOUS
<1>. USE DEF FlushHolds
<1>1. ASSUME NEW p \in Producers,
             LogLine(p) \/ (\E k \in BlobKinds : AppendBytes(p, k)) \/ SignalFlush(p)
      PROVE  FlushHolds'
  BY <1>1 DEF LogLine, AppendBytes, SignalFlush, output, control
<1>2. CASE Main
  BY <1>2 DEF Main, Initialize, RequestStop, SignalStop, JoinFlushThread, output
<1>3. CASE WaitSignaled \/ WaitTimeout \/ ClearFlushEvent \/ NextBatch \/ CheckStop
  BY <1>3 DEF WaitSignaled, WaitTimeout, ClearFlushEvent, NextBatch, CheckStop, output, control
<1>4. CASE TakeBatch
  BY <1>4 DEF TakeBatch, control
<1>5. CASE EmitPendingDropWarnings
  BY <1>5 DEF EmitPendingDropWarnings, control
<1>6. ASSUME NEW q \in Queues, WriteEntry(q) PROVE FlushHolds'
  BY <1>6 DEF WriteEntry, control
<1>7. CASE UNCHANGED vars
  BY <1>7 DEF vars, output, control
<1>8. QED
  BY <1>1, <1>2, <1>3, <1>4, <1>5, <1>6, <1>7 DEF Next, FlushThread

LEMMA FlushHoldsAlways == Spec => []FlushHolds
<1>1. Init => FlushHolds
  BY DEF Init, FlushHolds
<1>2. QED
  BY <1>1, FlushHoldsStep, TypeCorrect, PTL DEF Spec

\* The balance of one queue.
Balance(q) == Incoming(q) = TakenOut(q) + count[q] + CountedLosses(q)

\* All the terms of the balance are numbers.
LEMMA BalanceTerms ==
  ASSUME TypeOK, NEW q \in Queues
  PROVE  /\ accepted[q] \in Nat /\ rejected \in Nat /\ lost[q] \in Nat /\ count[q] \in Nat
         /\ dropped[q] \in Nat /\ warnings[q] \in Nat /\ reported[q] \in Nat
         /\ Len(file[q]) \in Nat /\ Len(batch[q]) \in Nat
BY DEF TypeOK, RingTypeOK, OutputTypeOK

LEMMA BalanceSums ==
  ASSUME TypeOK, NEW q \in Queues
  PROVE  Incoming(q) \in Nat /\ TakenOut(q) \in Nat /\ CountedLosses(q) \in Nat /\ count[q] \in Nat
<1>t. /\ accepted[q] \in Nat /\ rejected \in Nat /\ lost[q] \in Nat /\ count[q] \in Nat
      /\ dropped[q] \in Nat /\ warnings[q] \in Nat /\ reported[q] \in Nat
      /\ Len(file[q]) \in Nat /\ Len(batch[q]) \in Nat
  BY BalanceTerms
<1>1. Incoming(q) \in Nat
  <2>1. CASE q = Generic
    BY <1>t, <2>1 DEF Incoming
  <2>2. CASE q # Generic
    BY <1>t, <2>2 DEF Incoming
  <2>3. QED
    BY <2>1, <2>2
<1>2. TakenOut(q) \in Nat
  BY <1>t DEF TakenOut
<1>3. CountedLosses(q) \in Nat
  BY <1>t DEF CountedLosses
<1>4. QED
  BY <1>t, <1>1, <1>2, <1>3

\* Queuing moves the balance of one queue by one entry, or trades an entry
\* of a full ring for a loss.
LEMMA QueueLockedBalance ==
  ASSUME TypeOK, NEW q \in Queues, QueueLocked(q), UNCHANGED <<output, rejected>>,
         NEW r \in Queues, Balance(r)
  PROVE  Balance(r)'
<1>1. RingTypeOK
  BY DEF TypeOK
<1>2. TakenOut(r)' = TakenOut(r)
  BY DEF output, TakenOut
<1>3. CASE r # q
  <2>1. count'[r] = count[r] /\ dropped'[r] = dropped[r] /\ accepted'[r] = accepted[r]
    BY <1>1, <1>3, QueueLockedOthers
  <2>2. Incoming(r)' = Incoming(r) /\ CountedLosses(r)' = CountedLosses(r)
    BY <2>1 DEF output, Incoming, CountedLosses
  <2>3. QED
    BY <1>2, <2>1, <2>2 DEF Balance
<1>4. CASE r = q
  <2>1. Incoming(r)' = Incoming(r) + 1
    <3>1. accepted'[r] = accepted[r] + 1
      BY <1>1, <1>4 DEF QueueLocked, RingTypeOK
    <3>2. rejected' = rejected /\ rejected \in Nat /\ accepted[r] \in Nat
      BY BalanceTerms
    <3>3. CASE r = Generic
      BY <3>1, <3>2, <3>3 DEF Incoming
    <3>4. CASE r # Generic
      BY <3>1, <3>2, <3>4 DEF Incoming
    <3>5. QED
      BY <3>3, <3>4
  <2>2. \/ count'[r] = count[r] /\ CountedLosses(r)' = CountedLosses(r) + 1
        \/ count'[r] = count[r] + 1 /\ CountedLosses(r)' = CountedLosses(r)
    <3>1. \/ count'[r] = count[r] /\ dropped'[r] = dropped[r] + 1
          \/ count'[r] = count[r] + 1 /\ dropped'[r] = dropped[r]
      BY <1>1, <1>4 DEF QueueLocked, RingTypeOK
    <3>2. QED
      BY <3>1, BalanceTerms DEF CountedLosses, output
  <2>3. QED
    BY <1>2, <2>1, <2>2, BalanceSums DEF Balance
<1>5. QED
  BY <1>3, <1>4

\* A refused blob is a loss of the generic queue.
LEMMA RejectBalance ==
  ASSUME TypeOK, RejectBlobLocked, UNCHANGED output, NEW r \in Queues, Balance(r)
  PROVE  Balance(r)'
<1>1. TakenOut(r)' = TakenOut(r) /\ count'[r] = count[r]
  BY DEF output, TakenOut, RejectBlobLocked
<1>2. dropped'[r] = IF r = Generic THEN dropped[r] + 1 ELSE dropped[r]
  BY DEF RejectBlobLocked, TypeOK, RingTypeOK
<1>3. CASE r = Generic
  <2>1. Incoming(r)' = Incoming(r) + 1
    <3>1. accepted'[r] = accepted[r] /\ rejected' = rejected + 1
      BY DEF RejectBlobLocked
    <3>2. accepted[r] \in Nat /\ rejected \in Nat
      BY BalanceTerms
    <3>3. QED
      BY <1>3, <3>1, <3>2 DEF Incoming
  <2>2. CountedLosses(r)' = CountedLosses(r) + 1
    <3>1. dropped'[r] = dropped[r] + 1 /\ warnings'[r] = warnings[r] /\ reported'[r] = reported[r]
      BY <1>2, <1>3 DEF output
    <3>2. dropped[r] \in Nat /\ warnings[r] \in Nat /\ reported[r] \in Nat
      BY BalanceTerms
    <3>3. QED
      BY <3>1, <3>2 DEF CountedLosses
  <2>3. QED
    BY <1>1, <2>1, <2>2, BalanceSums DEF Balance
<1>4. CASE r # Generic
  BY <1>1, <1>2, <1>4 DEF RejectBlobLocked, output, Incoming, CountedLosses, Balance
<1>5. QED
  BY <1>3, <1>4

\* A pass moves entries from a ring to the batch, and losses to the copy.
LEMMA TakeBalance ==
  ASSUME TypeOK, FlushHolds, TakeBatch, NEW r \in Queues, Balance(r)
  PROVE  Balance(r)'
<1>1. batch[r] = <<>> /\ warnings[r] = 0
  BY DEF TakeBatch, FlushHolds
<1>2. Popped(r) \in Nat /\ Popped(r) <= count[r]
  BY PoppedFits DEF TypeOK
<1>3. Len(batch'[r]) = Popped(r)
  BY <1>2 DEF TakeBatch
<1>4. TakenOut(r)' = TakenOut(r) + Popped(r) /\ count'[r] = count[r] - Popped(r)
  BY <1>1, <1>2, <1>3, BalanceTerms DEF TakeBatch, TakenOut
<1>5. Incoming(r)' = Incoming(r) /\ CountedLosses(r)' = CountedLosses(r)
  BY <1>1, BalanceTerms DEF TakeBatch, Incoming, CountedLosses
<1>6. QED
  BY <1>2, <1>4, <1>5, BalanceSums DEF Balance

\* Reporting moves losses from the copy to the reported ones.
LEMMA EmitBalance ==
  ASSUME TypeOK, EmitPendingDropWarnings, NEW r \in Queues, Balance(r)
  PROVE  Balance(r)'
<1>1. /\ Incoming(r)' = Incoming(r) /\ TakenOut(r)' = TakenOut(r) /\ count'[r] = count[r]
  BY DEF EmitPendingDropWarnings, ring, Incoming, TakenOut
<1>2. CountedLosses(r)' = CountedLosses(r)
  BY BalanceTerms DEF EmitPendingDropWarnings, ring, CountedLosses
<1>3. QED
  BY <1>1, <1>2 DEF Balance

\* A write moves one entry from the batch to the file or to the failures.
LEMMA WriteBalance ==
  ASSUME TypeOK, NEW q \in Queues, WriteEntry(q), NEW r \in Queues, Balance(r)
  PROVE  Balance(r)'
<1>1. /\ Incoming(r)' = Incoming(r) /\ CountedLosses(r)' = CountedLosses(r)
      /\ count'[r] = count[r]
  BY DEF WriteEntry, ring, Incoming, CountedLosses
<1>2. batch[q] \in Seq(Nat) /\ batch[q] # <<>> /\ file[q] \in Seq(Nat)
  BY DEF WriteEntry, TypeOK, OutputTypeOK
<1>3. Len(Tail(batch[q])) = Len(batch[q]) - 1 /\ Len(Append(file[q], Head(batch[q]))) = Len(file[q]) + 1
  BY <1>2
<1>4. batch'[r] = IF r = q THEN Tail(batch[r]) ELSE batch[r]
  BY DEF WriteEntry, TypeOK, OutputTypeOK
<1>5. \/ /\ file'[r] = IF r = q THEN Append(file[r], Head(batch[q])) ELSE file[r]
         /\ lost'[r] = lost[r]
      \/ /\ lost'[r] = IF r = q THEN lost[r] + 1 ELSE lost[r]
         /\ file'[r] = file[r]
  BY DEF WriteEntry, TypeOK, OutputTypeOK
<1>6. TakenOut(r)' = TakenOut(r)
  <2>1. CASE r # q
    BY <1>4, <1>5, <2>1 DEF TakenOut
  <2>2. CASE r = q
    <3>1. Len(batch'[r]) = Len(batch[r]) - 1
      BY <1>3, <1>4, <2>2
    <3>2. \/ Len(file'[r]) = Len(file[r]) + 1 /\ lost'[r] = lost[r]
          \/ Len(file'[r]) = Len(file[r]) /\ lost'[r] = lost[r] + 1
      BY <1>3, <1>5, <2>2
    <3>3. Len(file[r]) \in Nat /\ lost[r] \in Nat /\ Len(batch[r]) \in Nat
      BY BalanceTerms
    <3>4. CASE Len(file'[r]) = Len(file[r]) + 1 /\ lost'[r] = lost[r]
      BY <3>1, <3>3, <3>4 DEF TakenOut
    <3>5. CASE Len(file'[r]) = Len(file[r]) /\ lost'[r] = lost[r] + 1
      <4>1. TakenOut(r)' = Len(file[r]) + (lost[r] + 1) + (Len(batch[r]) - 1)
        BY <3>1, <3>5 DEF TakenOut
      <4>2. QED
        BY <3>3, <4>1, \A x, y, z \in Nat : x + (y + 1) + (z - 1) = x + y + z DEF TakenOut
    <3>6. QED
      BY <3>2, <3>4, <3>5
  <2>3. QED
    BY <2>1, <2>2
<1>7. QED
  BY <1>1, <1>6 DEF Balance

\* No accepted entry and no refused blob is ever unaccounted for or counted
\* twice (FlushPendingEntries against the threads that log).
THEOREM EntriesAccounted == Spec => []EveryEntryAccounted
<1>1. EveryEntryAccounted <=> \A q \in Queues : Balance(q)
  BY DEF EveryEntryAccounted, Balance
<1>2. Init => EveryEntryAccounted
  <2>1. ASSUME Init, NEW q \in Queues PROVE Balance(q)
    BY <2>1 DEF Init, Balance, Incoming, TakenOut, CountedLosses
  <2>2. QED
    BY <1>1, <2>1
<1>3. ASSUME TypeOK, FlushHolds, EveryEntryAccounted, [Next]_vars PROVE EveryEntryAccounted'
  <2>1. ASSUME NEW r \in Queues PROVE Balance(r)'
    <3>a. Balance(r)
      BY <1>1, <1>3
    <3>1. ASSUME NEW p \in Producers, LogLine(p) PROVE Balance(r)'
      BY <1>3, <3>a, <3>1, QueueLockedBalance DEF LogLine, Queues
    <3>2. ASSUME NEW p \in Producers, NEW k \in BlobKinds, AppendBytes(p, k) PROVE Balance(r)'
      BY <1>3, <3>a, <3>2, QueueLockedBalance, RejectBalance DEF AppendBytes, Queues
    <3>3. CASE Initialize
      BY <1>3, <3>a, <3>3, QueueLockedBalance DEF Initialize, Queues
    <3>4. CASE TakeBatch
      BY <1>3, <3>a, <3>4, TakeBalance
    <3>5. CASE EmitPendingDropWarnings
      BY <1>3, <3>a, <3>5, EmitBalance
    <3>6. ASSUME NEW q \in Queues, WriteEntry(q) PROVE Balance(r)'
      BY <1>3, <3>a, <3>6, WriteBalance
    <3>7. CASE UNCHANGED <<ring, output, rejected>>
      BY <3>a, <3>7 DEF ring, output, Balance, Incoming, TakenOut, CountedLosses
    <3>8. ASSUME NEW p \in Producers, SignalFlush(p) PROVE UNCHANGED <<ring, output, rejected>>
      BY <3>8 DEF SignalFlush
    <3>9. RequestStop \/ SignalStop \/ JoinFlushThread => UNCHANGED <<ring, output, rejected>>
      BY DEF RequestStop, SignalStop, JoinFlushThread
    <3>10. WaitSignaled \/ WaitTimeout \/ ClearFlushEvent \/ NextBatch \/ CheckStop
             => UNCHANGED <<ring, output, rejected>>
      BY DEF WaitSignaled, WaitTimeout, ClearFlushEvent, NextBatch, CheckStop
    <3>11. UNCHANGED vars => UNCHANGED <<ring, output, rejected>>
      BY DEF vars
    <3>12. QED
      BY <1>3, <3>1, <3>2, <3>3, <3>4, <3>5, <3>6, <3>7, <3>8, <3>9, <3>10, <3>11
         DEF Next, Main, FlushThread
  <2>2. QED
    BY <2>1 DEF EveryEntryAccounted, Balance
<1>4. QED
  BY <1>2, <1>3, TypeCorrect, FlushHoldsAlways, PTL DEF Spec
=============================================================================
