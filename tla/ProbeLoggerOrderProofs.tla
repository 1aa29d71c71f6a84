------------------------ MODULE ProbeLoggerOrderProofs ------------------------
(***************************************************************************)
(* Proofs about what ProbeLogger's flush thread does with the entries it   *)
(* has taken out of the rings: the order of the files, what it leaves      *)
(* behind when it exits, and that all of it implements BoundedLog.  They   *)
(* rest on ProbeLoggerProofs.                                              *)
(***************************************************************************)
EXTENDS ProbeLoggerProofs

-----------------------------------------------------------------------------
(* The order of the files. *)

Increasing(s) == \A i, j \in 1..Len(s) : i < j => s[i] < s[j]

\* The last entry of q that left the ring, taken or lost.
LastOut(q) == accepted[q] - count[q]

\* Files, then the batch, then the ring: entries of q that were accepted one
\* after the other stay in that order on their way.
OrderOK(q) ==
  /\ Increasing(file[q])
  /\ Increasing(batch[q])
  /\ \A i \in 1..Len(file[q]), j \in 1..Len(batch[q]) : file[q][i] < batch[q][j]
  /\ \A i \in 1..Len(file[q]) : file[q][i] <= LastOut(q)
  /\ \A j \in 1..Len(batch[q]) : batch[q][j] <= LastOut(q)

LEMMA OrderTypes ==
  ASSUME TypeOK, NEW q \in Queues
  PROVE  /\ LastOut(q) \in Int /\ accepted[q] \in Nat /\ count[q] \in Nat
         /\ file[q] \in Seq(Nat) /\ batch[q] \in Seq(Nat)
<1>1. accepted[q] \in Nat /\ count[q] \in Nat /\ file[q] \in Seq(Nat) /\ batch[q] \in Seq(Nat)
  BY DEF TypeOK, RingTypeOK, OutputTypeOK
<1>2. QED
  BY <1>1 DEF LastOut

\* A queue that accepts an entry never takes back one that left its ring.
LEMMA LastOutGrows ==
  ASSUME TypeOK, NEW q \in Queues, QueueLocked(q), NEW r \in Queues
  PROVE  LastOut(r) <= LastOut(r)'
<1>1. accepted[r] \in Nat /\ count[r] \in Nat
  BY OrderTypes
<1>2. CASE r = q
  <2>1. accepted'[r] = accepted[r] + 1 /\ (count'[r] = count[r] \/ count'[r] = count[r] + 1)
    BY <1>2 DEF QueueLocked, TypeOK, RingTypeOK
  <2>2. QED
    BY <1>1, <2>1 DEF LastOut
<1>3. CASE r # q
  <2>1. accepted'[r] = accepted[r] /\ count'[r] = count[r]
    BY <1>3, QueueLockedOthers DEF TypeOK
  <2>2. QED
    BY <1>1, <2>1 DEF LastOut
<1>4. QED
  BY <1>2, <1>3

\* Entries that are neither taken nor written stay where they are.
LEMMA OrderKept ==
  ASSUME TypeOK, TypeOK', NEW r \in Queues, OrderOK(r),
         file'[r] = file[r], batch'[r] = batch[r], LastOut(r) <= LastOut(r)'
  PROVE  OrderOK(r)'
<1>1. LastOut(r) \in Int /\ LastOut(r)' \in Int /\ file[r] \in Seq(Nat) /\ batch[r] \in Seq(Nat)
  <2>1. accepted'[r] \in Nat /\ count'[r] \in Nat
    BY DEF TypeOK, RingTypeOK
  <2>2. QED
    BY <2>1, OrderTypes DEF LastOut
<1>2. \A i \in 1..Len(file[r]) : file[r][i] \in Nat /\ file[r][i] <= LastOut(r)
  BY <1>1 DEF OrderOK
<1>3. \A j \in 1..Len(batch[r]) : batch[r][j] \in Nat /\ batch[r][j] <= LastOut(r)
  BY <1>1 DEF OrderOK
<1>4. ASSUME NEW n \in Nat, n <= LastOut(r) PROVE n <= LastOut(r)'
  BY <1>1, <1>4
<1>5. \A i \in 1..Len(file[r]) : file[r][i] <= LastOut(r)'
  BY <1>2, <1>4
<1>6. \A j \in 1..Len(batch[r]) : batch[r][j] <= LastOut(r)'
  BY <1>3, <1>4
<1>7. QED
  BY <1>5, <1>6 DEF OrderOK, Increasing

\* A pass takes entries that are younger than all that left the ring before.
LEMMA TakeKeepsOrder ==
  ASSUME TypeOK, FlushHolds, RingHoldsNewest, TakeBatch, NEW q \in Queues, OrderOK(q)
  PROVE  OrderOK(q)'
<1>. DEFINE n == Popped(q)
            out == LastOut(q)
<1>1. RingTypeOK /\ out \in Int /\ accepted[q] \in Nat /\ count[q] \in Nat /\ file[q] \in Seq(Nat)
  BY OrderTypes DEF TypeOK
<1>2. n \in Nat /\ n <= count[q]
  BY <1>1, PoppedFits
<1>3. batch'[q] = [i \in 1..n |-> slots[q][SlotAt(q, i - 1)]]
  BY DEF TakeBatch
<1>4. ASSUME NEW i \in 1..n PROVE batch'[q][i] = out + i
  <2>1. i \in 1..count[q]
    BY <1>1, <1>2
  <2>2. slots[q][SlotAt(q, i - 1)] = accepted[q] - count[q] + i
    BY <1>1, <2>1, RingsOK DEF RingOK
  <2>3. QED
    BY <1>3, <2>2 DEF LastOut
<1>5. Len(batch'[q]) = n
  BY <1>2, <1>3
<1>6. file'[q] = file[q] /\ LastOut(q)' = out + n
  <2>1. accepted'[q] = accepted[q] /\ count'[q] = count[q] - n /\ file'[q] = file[q]
    BY DEF TakeBatch
  <2>2. QED
    BY <1>1, <1>2, <2>1 DEF LastOut
<1>7. Increasing(file[q]) /\ \A i \in 1..Len(file[q]) : file[q][i] \in Nat /\ file[q][i] <= out
  BY <1>1 DEF OrderOK
<1>. HIDE DEF n, out
<1>8. Increasing(batch[q])'
  BY <1>1, <1>2, <1>4, <1>5 DEF Increasing
<1>9. \A i \in 1..Len(file'[q]), j \in 1..Len(batch'[q]) : file'[q][i] < batch'[q][j]
  <2>1. ASSUME NEW i \in 1..Len(file'[q]), NEW j \in 1..Len(batch'[q])
        PROVE  file'[q][i] < batch'[q][j]
    <3>1. file'[q][i] \in Nat /\ file'[q][i] <= out
      BY <1>6, <1>7
    <3>2. batch'[q][j] = out + j /\ j >= 1 /\ j \in Nat
      BY <1>2, <1>4, <1>5
    <3>3. QED
      BY <1>1, <3>1, <3>2
  <2>2. QED
    BY <2>1
<1>10. \A i \in 1..Len(file'[q]) : file'[q][i] <= LastOut(q)'
  BY <1>1, <1>2, <1>6, <1>7
<1>11. \A j \in 1..Len(batch'[q]) : batch'[q][j] <= LastOut(q)'
  BY <1>1, <1>2, <1>4, <1>5, <1>6
<1>12. Increasing(file[q])'
  BY <1>6, <1>7 DEF Increasing
<1>13. QED
  BY <1>8, <1>9, <1>10, <1>11, <1>12 DEF OrderOK

\* The next entry of a batch is younger than the file and older than the rest.
LEMMA WriteKeepsOrder ==
  ASSUME TypeOK, NEW q \in Queues, WriteEntry(q), OrderOK(q)
  PROVE  OrderOK(q)'
<1>. DEFINE b == batch[q]
            f == file[q]
<1>1. LastOut(q) \in Int /\ f \in Seq(Nat) /\ b \in Seq(Nat) /\ b # <<>>
  BY OrderTypes DEF WriteEntry
<1>2. /\ Len(Tail(b)) = Len(b) - 1 /\ Len(b) \in Nat /\ Len(b) >= 1 /\ Head(b) = b[1]
      /\ \A j \in 1..Len(Tail(b)) : Tail(b)[j] = b[j + 1]
  BY <1>1
<1>3. /\ Len(f) \in Nat /\ Len(Append(f, b[1])) = Len(f) + 1
      /\ Append(f, b[1])[Len(f) + 1] = b[1]
      /\ \A i \in 1..Len(f) : Append(f, b[1])[i] = f[i]
  BY <1>1
<1>4. LastOut(q)' = LastOut(q)
  BY DEF WriteEntry, ring, LastOut
<1>5. batch'[q] = Tail(b) /\ (file'[q] = Append(f, b[1]) \/ file'[q] = f)
  BY <1>2 DEF WriteEntry, TypeOK, OutputTypeOK
<1>6. /\ Increasing(f) /\ Increasing(b)
      /\ \A i \in 1..Len(f), j \in 1..Len(b) : f[i] < b[j]
      /\ \A i \in 1..Len(f) : f[i] <= LastOut(q)
      /\ \A j \in 1..Len(b) : b[j] <= LastOut(q)
  BY DEF OrderOK
<1>7. (\A i \in 1..Len(f) : f[i] \in Nat) /\ (\A j \in 1..Len(b) : b[j] \in Nat)
  BY <1>1
<1>. HIDE DEF b, f
<1>8. Increasing(batch[q])'
  BY <1>2, <1>5, <1>6, <1>7 DEF Increasing
<1>9. \A j \in 1..Len(batch'[q]) : batch'[q][j] <= LastOut(q)'
  BY <1>2, <1>4, <1>5, <1>6
<1>10. CASE file'[q] = f
  <2>1. \A i \in 1..Len(f), j \in 1..Len(batch'[q]) : f[i] < batch'[q][j]
    BY <1>2, <1>5, <1>6
  <2>2. QED
    BY <1>4, <1>6, <1>8, <1>9, <1>10, <2>1 DEF OrderOK, Increasing
<1>11. CASE file'[q] = Append(f, b[1])
  <2>1. \A i \in 1..Len(file'[q]) : i \in 1..Len(f) \/ i = Len(f) + 1
    BY <1>3, <1>11
  <2>2. Increasing(file[q])'
    BY <1>2, <1>3, <1>6, <1>7, <1>11, <2>1 DEF Increasing
  <2>3. \A i \in 1..Len(file'[q]), j \in 1..Len(batch'[q]) : file'[q][i] < batch'[q][j]
    <3>1. \A j \in 1..Len(batch'[q]) : batch'[q][j] = b[j + 1] /\ j + 1 \in 1..Len(b) /\ b[1] < b[j + 1]
      BY <1>2, <1>5, <1>6 DEF Increasing
    <3>2. QED
      BY <1>2, <1>3, <1>6, <1>11, <2>1, <3>1
  <2>4. \A i \in 1..Len(file'[q]) : file'[q][i] <= LastOut(q)'
    BY <1>2, <1>3, <1>4, <1>6, <1>11, <2>1
  <2>5. QED
    BY <1>8, <1>9, <2>2, <2>3, <2>4 DEF OrderOK
<1>12. QED
  BY <1>5, <1>10, <1>11

\* The files keep the order in which the queues accepted their entries,
\* across batches, overflows and failed writes (FlushPendingEntries).
THEOREM FilesKeepOrder == Spec => []FilesInOrder
<1>. DEFINE Order == \A q \in Queues : OrderOK(q)
<1>1. ASSUME Init PROVE Order
  BY <1>1 DEF Init, OrderOK, Increasing
<1>2. ASSUME TypeOK, TypeOK', FlushHolds, RingHoldsNewest, Order, [Next]_vars PROVE Order'
  <2>1. ASSUME NEW r \in Queues PROVE OrderOK(r)'
    <3>1. OrderOK(r) /\ LastOut(r) \in Int
      BY <1>2, OrderTypes
    <3>2. ASSUME NEW q \in Queues, WriteEntry(q) PROVE OrderOK(r)'
      <4>1. CASE r = q
        BY <1>2, <3>1, <3>2, <4>1, WriteKeepsOrder
      <4>2. CASE r # q
        <5>1. file'[r] = file[r] /\ batch'[r] = batch[r] /\ LastOut(r)' = LastOut(r)
          BY <1>2, <3>2, <4>2 DEF WriteEntry, ring, LastOut, TypeOK, OutputTypeOK
        <5>2. QED
          BY <1>2, <3>1, <5>1, OrderKept
      <4>3. QED
        BY <4>1, <4>2
    <3>3. CASE TakeBatch
      BY <1>2, <3>1, <3>3, TakeKeepsOrder
    <3>4. CASE UNCHANGED <<file, batch>>
      <4>1. LastOut(r) <= LastOut(r)'
        <5>1. CASE UNCHANGED <<slots, head, tail, count, accepted>>
          BY <3>1, <5>1 DEF LastOut
        <5>2. CASE TakeBatch
          BY <1>2, <3>1, <5>2, TakeKeepsOrder, OrderTypes, PoppedFits DEF TakeBatch, LastOut, TypeOK
        <5>3. QED
          BY <1>2, <5>1, <5>2, RingSteps, LastOutGrows
      <4>2. QED
        BY <1>2, <3>1, <3>4, <4>1, OrderKept
    <3>5. ASSUME ~TakeBatch, \A q \in Queues : ~WriteEntry(q) PROVE UNCHANGED <<file, batch>>
      BY <1>2, <3>5 DEF Next, Main, FlushThread, LogLine, AppendBytes, SignalFlush, Initialize,
         RequestStop, SignalStop, JoinFlushThread, WaitSignaled, WaitTimeout, ClearFlushEvent,
         EmitPendingDropWarnings, NextBatch, CheckStop, output, vars
    <3>6. QED
      BY <3>2, <3>3, <3>4, <3>5
  <2>2. QED
    BY <2>1
<1>3. Order => FilesInOrder
  BY DEF OrderOK, Increasing, FilesInOrder
<1>. HIDE DEF Order
<1>4. QED
  BY <1>1, <1>2, <1>3, TypeCorrect, FlushHoldsAlways, RingsHoldNewest, PTL DEF Spec

-----------------------------------------------------------------------------
(* What the flush thread leaves behind. *)

\* Only a full ring has lost an entry since the last pass, and only a pass
\* makes room in a ring again, so a loss not yet taken means entries to take.
LossesMeanFull == \A q \in Queues \ {Generic} : dropped[q] # 0 => count[q] = Capacity[q]

\* The stop flag is raised by Shutdown, which waits for the exit after it.
StopIsAsked ==
  /\ stopRequested => mainPc \in {"signal", "join", "done"}
  /\ mainPc = "done" => flushPc = "exited"

LEMMA LossesStep ==
  ASSUME TypeOK, LossesMeanFull, [Next]_vars
  PROVE  LossesMeanFull'
<1>1. ASSUME NEW r \in Queues, QueueLocked(r) PROVE LossesMeanFull'
  <2>1. ASSUME NEW q \in Queues \ {Generic}, dropped'[q] # 0 PROVE count'[q] = Capacity[q]
    <3>1. count[q] \in Nat /\ count[q] <= Capacity[q] /\ dropped[q] # 0 => count[q] = Capacity[q]
      BY DEF LossesMeanFull
    <3>2. CASE q = r
      BY <1>1, <2>1, <3>1, <3>2 DEF QueueLocked, TypeOK, RingTypeOK
    <3>3. CASE q # r
      BY <1>1, <2>1, <3>1, <3>3, QueueLockedOthers DEF TypeOK, LossesMeanFull
    <3>4. QED
      BY <3>2, <3>3
  <2>2. QED
    BY <2>1 DEF LossesMeanFull
<1>2. CASE RejectBlobLocked
  BY <1>2 DEF RejectBlobLocked, LossesMeanFull, TypeOK, RingTypeOK
<1>3. CASE TakeBatch
  BY <1>3 DEF TakeBatch, LossesMeanFull
<1>4. CASE UNCHANGED <<dropped, count>>
  BY <1>4 DEF LossesMeanFull
<1>5. \/ \E r \in Queues : QueueLocked(r)
      \/ RejectBlobLocked \/ TakeBatch \/ UNCHANGED <<dropped, count>>
  BY DEF Next, Main, FlushThread, LogLine, AppendBytes, SignalFlush, Initialize, RequestStop,
     SignalStop, JoinFlushThread, WaitSignaled, WaitTimeout, ClearFlushEvent,
     EmitPendingDropWarnings, WriteEntry, NextBatch, CheckStop, ring, vars, Queues
<1>6. QED
  BY <1>1, <1>2, <1>3, <1>4, <1>5

LEMMA StopStep ==
  ASSUME TypeOK, FlushHolds, StopIsAsked, [Next]_vars
  PROVE  StopIsAsked'
<1>. USE DEF StopIsAsked, control
<1>1. ASSUME NEW p \in Producers,
             LogLine(p) \/ (\E k \in BlobKinds : AppendBytes(p, k)) \/ SignalFlush(p)
      PROVE  StopIsAsked'
  BY <1>1 DEF LogLine, AppendBytes, SignalFlush
<1>2. CASE Main
  BY <1>2 DEF Main, Initialize, RequestStop, SignalStop, JoinFlushThread
<1>3. CASE FlushThread
  BY <1>3 DEF FlushThread, WaitSignaled, WaitTimeout, ClearFlushEvent, TakeBatch,
     EmitPendingDropWarnings, WriteEntry, NextBatch, CheckStop
<1>4. CASE UNCHANGED vars
  BY <1>4 DEF vars
<1>5. QED
  BY <1>1, <1>2, <1>3, <1>4 DEF Next

\* The flush thread leaves only when Shutdown asked it to, and then no queue
\* holds an entry and no overflow is unreported (FlushThreadMain).
THEOREM NothingLeftAtExit == Spec => ExitLeavesNothing
<1>1. Init => LossesMeanFull /\ StopIsAsked
  BY DEF Init, LossesMeanFull, StopIsAsked
<1>2. ASSUME TypeOK, FlushHolds, LossesMeanFull, StopIsAsked, [Next]_vars
      PROVE  [(flushPc # "exited" /\ flushPc' = "exited") =>
                /\ mainPc \in {"signal", "join"}
                /\ \A q \in Queues : count[q] = 0 /\ batch[q] = <<>> /\ warnings[q] = 0
                /\ \A q \in Queues \ {Generic} : dropped[q] = 0]_vars
  <2>1. ASSUME flushPc # "exited", flushPc' = "exited" PROVE CheckStop
    BY <1>2, <2>1 DEF Next, Main, FlushThread, LogLine, AppendBytes, SignalFlush, Initialize,
       RequestStop, SignalStop, JoinFlushThread, WaitSignaled, WaitTimeout, ClearFlushEvent,
       TakeBatch, EmitPendingDropWarnings, WriteEntry, NextBatch, vars
  <2>2. ASSUME flushPc # "exited", flushPc' = "exited", CheckStop
        PROVE  /\ mainPc \in {"signal", "join"}
               /\ \A q \in Queues : count[q] = 0 /\ batch[q] = <<>> /\ warnings[q] = 0
               /\ \A q \in Queues \ {Generic} : dropped[q] = 0
    <3>1. flushPc = "check" /\ stopRequested /\ \A q \in Queues : count[q] = 0
      BY <2>2 DEF CheckStop
    <3>2. mainPc \in {"signal", "join"}
      BY <1>2, <3>1 DEF StopIsAsked
    <3>3. \A q \in Queues : batch[q] = <<>> /\ warnings[q] = 0
      BY <1>2, <3>1 DEF FlushHolds
    <3>4. \A q \in Queues : Capacity[q] # 0
      BY SizesAssumption
    <3>5. \A q \in Queues \ {Generic} : dropped[q] = 0
      BY <1>2, <3>1, <3>4 DEF LossesMeanFull
    <3>6. QED
      BY <3>1, <3>2, <3>3, <3>5
  <2>3. QED
    BY <2>1, <2>2
<1>3. QED
  BY <1>1, <1>2, LossesStep, StopStep, TypeCorrect, FlushHoldsAlways, PTL DEF Spec, ExitLeavesNothing

-----------------------------------------------------------------------------
(* The logger implements BoundedLog. *)

\* The newest entries of a queue that has count[q] of them, oldest first.
Newest(q) == [i \in 1..count[q] |-> accepted[q] - count[q] + i]

\* What the abstract queues contain and what they have still to report.
Queued == [q \in Queues |-> Contents(q)]
Owed == [q \in Queues |-> dropped[q] + warnings[q]]

LEMMA ContentsAreNewest ==
  ASSUME RingHoldsNewest, NEW q \in Queues
  PROVE  Contents(q) = Newest(q)
BY DEF RingHoldsNewest, Contents, Newest

LEMMA ContentsStayNewest ==
  ASSUME RingHoldsNewest', NEW q \in Queues
  PROVE  Contents(q)' = Newest(q)'
BY DEF RingHoldsNewest, Contents, Newest

LEMMA NewestTypes ==
  ASSUME TypeOK, RingHoldsNewest, NEW q \in Queues
  PROVE  /\ count[q] \in Nat /\ accepted[q] \in Nat /\ Capacity[q] \in Nat \ {0}
         /\ Contents(q) \in Seq(Int) /\ Len(Contents(q)) = count[q]
         /\ \A i \in 1..count[q] : Contents(q)[i] = accepted[q] - count[q] + i
<1>1. count[q] \in Nat /\ accepted[q] \in Nat /\ Capacity[q] \in Nat \ {0}
  BY SizesAssumption DEF TypeOK, RingTypeOK
<1>2. Contents(q) = Newest(q)
  BY ContentsAreNewest
<1>3. Newest(q) \in Seq(Int)
  <2>1. \A i \in 1..count[q] : accepted[q] - count[q] + i \in Int
    BY <1>1
  <2>2. QED
    BY <1>1, <2>1, IsASeq DEF Newest
<1>4. QED
  BY <1>1, <1>2, <1>3 DEF Newest

\* With room the new entry follows the others; without, the oldest leaves.
LEMMA QueuedEntryIsLast ==
  ASSUME TypeOK, RingHoldsNewest, RingHoldsNewest', NEW q \in Queues, QueueLocked(q)
  PROVE  /\ count[q] # Capacity[q] => Contents(q)' = Append(Contents(q), accepted[q] + 1)
         /\ count[q] = Capacity[q] => Contents(q)' = Append(Tail(Contents(q)), accepted[q] + 1)
<1>. DEFINE old == Contents(q)
            n == count[q]
            a == accepted[q]
<1>1. /\ n \in Nat /\ a \in Nat /\ Capacity[q] \in Nat \ {0} /\ old \in Seq(Int) /\ Len(old) = n
      /\ \A i \in 1..n : old[i] = a - n + i
  BY NewestTypes
<1>2. /\ accepted'[q] = a + 1
      /\ n # Capacity[q] => count'[q] = n + 1
      /\ n = Capacity[q] => count'[q] = n
  BY DEF QueueLocked, TypeOK, RingTypeOK
<1>3. Contents(q)' = [i \in 1..count'[q] |-> accepted'[q] - count'[q] + i]
  BY ContentsStayNewest DEF Newest
<1>4. ASSUME n # Capacity[q] PROVE Contents(q)' = Append(old, a + 1)
  <2>1. Contents(q)' = [i \in 1..n + 1 |-> a - n + i]
    <3>1. \A i \in 1..n + 1 : (a + 1) - (n + 1) + i = a - n + i
      BY <1>1
    <3>2. QED
      BY <1>2, <1>3, <1>4, <3>1
  <2>2. Append(old, a + 1) = [i \in 1..n + 1 |-> IF i = n + 1 THEN a + 1 ELSE old[i]]
    BY <1>1
  <2>3. \A i \in 1..n + 1 : a - n + i = IF i = n + 1 THEN a + 1 ELSE old[i]
    BY <1>1
  <2>4. QED
    BY <2>1, <2>2, <2>3
<1>5. ASSUME n = Capacity[q] PROVE Contents(q)' = Append(Tail(old), a + 1)
  <2>1. Contents(q)' = [i \in 1..n |-> (a + 1) - n + i]
    BY <1>2, <1>3, <1>5
  <2>2. n >= 1 /\ old # <<>>
    BY <1>1, <1>5
  <2>3. /\ Tail(old) \in Seq(Int) /\ Len(Tail(old)) = n - 1
        /\ \A i \in 1..n - 1 : Tail(old)[i] = old[i + 1]
    BY <1>1, <2>2
  <2>. HIDE DEF old, n, a
  <2>4. Append(Tail(old), a + 1) = [i \in 1..n |-> IF i = n THEN a + 1 ELSE Tail(old)[i]]
    <3>1. Append(Tail(old), a + 1)
            = [i \in 1..Len(Tail(old)) + 1 |-> IF i = Len(Tail(old)) + 1 THEN a + 1 ELSE Tail(old)[i]]
      BY <1>1, <2>3
    <3>2. Len(Tail(old)) + 1 = n
      BY <1>1, <2>3
    <3>3. QED
      BY <3>1, <3>2
  <2>5. \A i \in 1..n : (a + 1) - n + i = IF i = n THEN a + 1 ELSE Tail(old)[i]
    BY <1>1, <2>2, <2>3
  <2>6. QED
    BY <2>1, <2>4, <2>5
<1>6. QED
  BY <1>4, <1>5

\* QueueLineLocked and QueueBlobLocked accept an entry.
LEMMA QueueAccepts ==
  ASSUME TypeOK, RingHoldsNewest, RingHoldsNewest', NEW q \in Queues, QueueLocked(q), UNCHANGED warnings
  PROVE  Bounded!Accept(q)
<1>1. \A r \in Queues : r # q => Contents(r)' = Contents(r) /\ dropped'[r] = dropped[r]
  <2>1. ASSUME NEW r \in Queues, r # q PROVE Contents(r)' = Contents(r) /\ dropped'[r] = dropped[r]
    <3>1. /\ accepted'[r] = accepted[r] /\ count'[r] = count[r] /\ tail'[r] = tail[r]
          /\ slots'[r] = slots[r] /\ dropped'[r] = dropped[r]
      BY <2>1, QueueLockedOthers DEF TypeOK
    <3>2. QED
      BY <3>1 DEF Contents, SlotAt
  <2>2. QED
    BY <2>1
<1>2. Len(Queued[q]) = count[q] /\ count[q] \in Nat /\ count[q] <= Capacity[q] /\ Capacity[q] \in Nat
  BY NewestTypes DEF Queued, TypeOK, RingTypeOK
<1>3. accepted' = [accepted EXCEPT ![q] = @ + 1]
  BY DEF QueueLocked
<1>4. CASE count[q] # Capacity[q]
  <2>1. Queued' = [Queued EXCEPT ![q] = Append(@, accepted[q] + 1)]
    BY <1>1, <1>4, QueuedEntryIsLast DEF Queued
  <2>2. Owed' = Owed
    BY <1>4 DEF QueueLocked, Owed
  <2>3. Len(Queued[q]) < Capacity[q]
    BY <1>2, <1>4
  <2>4. QED
    BY <1>3, <2>1, <2>2, <2>3 DEF Bounded!Accept, Queued, Owed
<1>5. CASE count[q] = Capacity[q]
  <2>1. Queued' = [Queued EXCEPT ![q] = Append(Tail(@), accepted[q] + 1)]
    BY <1>1, <1>5, QueuedEntryIsLast DEF Queued
  <2>2. Owed' = [Owed EXCEPT ![q] = @ + 1]
    <3>1. dropped'[q] = dropped[q] + 1 /\ dropped[q] \in Nat /\ warnings[q] \in Nat
      BY <1>5 DEF QueueLocked, TypeOK, RingTypeOK, OutputTypeOK
    <3>2. dropped'[q] + warnings'[q] = dropped[q] + warnings[q] + 1
      BY <3>1
    <3>3. QED
      BY <1>1, <3>2 DEF Owed
  <2>3. Len(Queued[q]) = Capacity[q]
    BY <1>2, <1>5
  <2>4. QED
    BY <1>3, <2>1, <2>2, <2>3 DEF Bounded!Accept, Queued, Owed
<1>6. QED
  BY <1>4, <1>5

\* QueueBlobLocked counts a blob it cannot hold.
LEMMA RefusalCounts ==
  ASSUME TypeOK, RejectBlobLocked, UNCHANGED warnings
  PROVE  Bounded!Reject
<1>1. Queued' = Queued /\ accepted' = accepted
  BY DEF RejectBlobLocked, Queued, Contents, SlotAt
<1>2. Owed' = [Owed EXCEPT ![Generic] = @ + 1]
  <2>1. Generic \in Queues /\ dropped \in [Queues -> Nat] /\ warnings \in [Queues -> Nat]
    BY QueuesAssumption DEF Queues, TypeOK, RingTypeOK, OutputTypeOK
  <2>2. dropped' = [dropped EXCEPT ![Generic] = dropped[Generic] + 1]
    BY DEF RejectBlobLocked
  <2>3. dropped'[Generic] + warnings'[Generic] = dropped[Generic] + warnings[Generic] + 1
    BY <2>1, <2>2
  <2>4. QED
    BY <2>1, <2>2, <2>3 DEF Owed
<1>3. QED
  BY <1>1, <1>2 DEF Bounded!Reject, Queued, Owed

\* A pass of FlushPendingEntries takes a prefix of every queue; the losses it
\* copies are still owed.
LEMMA PassTakes ==
  ASSUME TypeOK, FlushHolds, RingHoldsNewest, RingHoldsNewest', TakeBatch
  PROVE  Bounded!Take
<1>1. ASSUME NEW q \in Queues
      PROVE  \E n \in 0..Len(Contents(q)) : Contents(q)' = SubSeq(Contents(q), n + 1, Len(Contents(q)))
  <2>. DEFINE old == Contents(q)
              c == count[q]
              a == accepted[q]
              n == Popped(q)
  <2>1. /\ c \in Nat /\ a \in Nat /\ old \in Seq(Int) /\ Len(old) = c
        /\ \A i \in 1..c : old[i] = a - c + i
    BY NewestTypes
  <2>2. n \in Nat /\ n <= c
    BY PoppedFits DEF TypeOK
  <2>3. Contents(q)' = [i \in 1..c - n |-> a - (c - n) + i]
    <3>1. count'[q] = c - n /\ accepted'[q] = a
      BY DEF TakeBatch
    <3>2. Contents(q)' = [i \in 1..count'[q] |-> accepted'[q] - count'[q] + i]
      BY ContentsStayNewest DEF Newest
    <3>3. QED
      BY <3>1, <3>2
  <2>. HIDE DEF old, c, a, n
  <2>4. SubSeq(old, n + 1, c) = [i \in 1..c - n |-> old[i + n]]
    <3>1. /\ SubSeq(old, n + 1, c) \in Seq(Int)
          /\ Len(SubSeq(old, n + 1, c)) = c - n
          /\ \A i \in 1..c - n : SubSeq(old, n + 1, c)[i] = old[i + n]
      BY <2>1, <2>2
    <3>2. QED
      BY <2>1, <2>2, <3>1
  <2>5. \A i \in 1..c - n : old[i + n] = a - (c - n) + i
    BY <2>1, <2>2
  <2>6. Contents(q)' = SubSeq(old, n + 1, Len(old)) /\ n \in 0..Len(old)
    BY <2>1, <2>2, <2>3, <2>4, <2>5
  <2>7. QED
    BY <2>6 DEF old
<1>2. /\ DOMAIN Queued' = Queues
      /\ \A q \in Queues : \E n \in 0..Len(Queued[q]) : Queued'[q] = SubSeq(Queued[q], n + 1, Len(Queued[q]))
  BY <1>1 DEF Queued
<1>3. accepted' = accepted
  BY DEF TakeBatch
<1>4. Owed' = Owed
  <2>1. \A q \in Queues : warnings[q] = 0
    BY DEF TakeBatch, FlushHolds
  <2>2. dropped \in [Queues -> Nat] /\ warnings' = dropped /\ dropped' = [q \in Queues |-> 0]
    BY DEF TakeBatch, TypeOK, RingTypeOK
  <2>3. \A q \in Queues : dropped'[q] + warnings'[q] = dropped[q] + warnings[q]
    BY <2>1, <2>2
  <2>4. QED
    BY <2>3 DEF Owed
<1>5. QED
  BY <1>2, <1>3, <1>4 DEF Bounded!Take, Queued, Owed

\* EmitPendingDropWarnings reports losses that were counted, and no others.
LEMMA WarningsReport ==
  ASSUME TypeOK, EmitPendingDropWarnings
  PROVE  Bounded!Report
<1>1. Queued' = Queued /\ accepted' = accepted
  BY DEF EmitPendingDropWarnings, ring, Queued, Contents, SlotAt
<1>2. DOMAIN Owed' = Queues /\ \A q \in Queues : Owed'[q] \in 0..Owed[q]
  <2>1. dropped \in [Queues -> Nat] /\ warnings \in [Queues -> Nat]
    BY DEF TypeOK, RingTypeOK, OutputTypeOK
  <2>2. dropped' = dropped /\ warnings' = [q \in Queues |-> 0]
    BY DEF EmitPendingDropWarnings, ring
  <2>3. \A q \in Queues : dropped'[q] + warnings'[q] \in 0..dropped[q] + warnings[q]
    BY <2>1, <2>2
  <2>4. QED
    BY <2>3 DEF Owed
<1>3. QED
  BY <1>1, <1>2 DEF Bounded!Report, Queued, Owed

\* Every step of the logger is a step of BoundedLog or is not seen by it.
LEMMA StepsImplement ==
  ASSUME TypeOK, FlushHolds, RingHoldsNewest, RingHoldsNewest', [Next]_vars
  PROVE  [Bounded!Next]_(Bounded!vars)
<1>1. ASSUME NEW p \in Producers, LogLine(p) PROVE Bounded!Accept(Text)
  BY <1>1, QueueAccepts DEF LogLine, output, Queues
<1>2. ASSUME NEW p \in Producers, NEW k \in BlobKinds, AppendBytes(p, k)
      PROVE  Bounded!Accept(k) \/ Bounded!Reject
  BY <1>2, QueueAccepts, RefusalCounts DEF AppendBytes, output, Queues
<1>3. CASE Initialize
  BY <1>3, QueueAccepts DEF Initialize, output, Queues, Bounded!Next
<1>4. CASE TakeBatch
  BY <1>4, PassTakes DEF Bounded!Next
<1>5. CASE EmitPendingDropWarnings
  BY <1>5, WarningsReport DEF Bounded!Next
<1>6. CASE UNCHANGED <<ring, warnings>>
  <2>1. Queued' = Queued /\ accepted' = accepted /\ Owed' = Owed
    BY <1>6 DEF ring, Queued, Owed, Contents, SlotAt
  <2>2. QED
    BY <2>1 DEF Bounded!vars, Queued, Owed
<1>7. ASSUME NEW p \in Producers, SignalFlush(p) PROVE UNCHANGED <<ring, warnings>>
  BY <1>7 DEF SignalFlush, output
<1>8. RequestStop \/ SignalStop \/ JoinFlushThread => UNCHANGED <<ring, warnings>>
  BY DEF RequestStop, SignalStop, JoinFlushThread, output
<1>9. WaitSignaled \/ WaitTimeout \/ ClearFlushEvent \/ NextBatch \/ CheckStop => UNCHANGED <<ring, warnings>>
  BY DEF WaitSignaled, WaitTimeout, ClearFlushEvent, NextBatch, CheckStop, output
<1>10. ASSUME NEW q \in Queues, WriteEntry(q) PROVE UNCHANGED <<ring, warnings>>
  BY <1>10 DEF WriteEntry
<1>11. UNCHANGED vars => UNCHANGED <<ring, warnings>>
  BY DEF vars, output
<1>12. Text \in Queues /\ BlobKinds \subseteq Queues
  BY DEF Queues
<1>13. ASSUME NEW p \in Producers, LogLine(p) PROVE Bounded!Next
  BY <1>1, <1>12, <1>13 DEF Bounded!Next
<1>14. ASSUME NEW p \in Producers, NEW k \in BlobKinds, AppendBytes(p, k) PROVE Bounded!Next
  BY <1>2, <1>12, <1>14 DEF Bounded!Next
<1>15. QED
  BY <1>3, <1>4, <1>5, <1>6, <1>7, <1>8, <1>9, <1>10, <1>11, <1>13, <1>14 DEF Next, Main, FlushThread

\* The logger keeps what it promises its callers: bounded queues that never
\* block, lose the oldest entry when they overflow and count every loss until
\* it is reported, for any number of producers and whatever the flush thread
\* does at any moment (logger.cpp, all operations).
THEOREM LoggerIsBoundedLog == Spec => ImplementsBoundedLog
<1>1. ASSUME Init PROVE Bounded!Init
  <2>1. Queued = [q \in Queues |-> <<>>]
    <3>1. ASSUME NEW q \in Queues PROVE Contents(q) = <<>>
      BY <1>1 DEF Init, Contents
    <3>2. QED
      BY <3>1 DEF Queued
  <2>2. Owed = [q \in Queues |-> 0] /\ accepted = [q \in Queues |-> 0]
    BY <1>1 DEF Init, Owed
  <2>3. QED
    BY <2>1, <2>2 DEF Bounded!Init, Queued, Owed
<1>2. TypeOK /\ FlushHolds /\ RingHoldsNewest /\ RingHoldsNewest' /\ [Next]_vars => [Bounded!Next]_(Bounded!vars)
  BY StepsImplement
<1>3. QED
  BY <1>1, <1>2, TypeCorrect, FlushHoldsAlways, RingsHoldNewest, PTL
  DEF Spec, ImplementsBoundedLog, Bounded!Spec
=============================================================================
