----------------------- MODULE TunnelScenariosProofs -----------------------
(***************************************************************************)
(* Proofs about the workloads that use wgnx:tun: the UDP workload, the TCP *)
(* exchange and the contract validation, as MCTunnelScenarios runs them.   *)
(* They hold for every number of flows, datagrams, retries and contexts,   *)
(* every size of batches, queues and replies and every deadline, and for   *)
(* queues of any length at the service.                                    *)
(*                                                                         *)
(* Each workload has an invariant of its own, UdpInv, TcpInv and           *)
(* ContractInv; a step of one leaves the others alone, so TunnelInv, their *)
(* conjunction, is inductive.                                              *)
(***************************************************************************)
EXTENDS MCTunnelScenarios, FiniteSetTheorems, SequenceTheorems, WellFoundedInduction, TLAPS

-----------------------------------------------------------------------------
(* The UDP workload: what its variables hold.  A step only disturbs some   *)
(* of them, so each group has a lemma of its own.                          *)

\* What the parameters of the UDP workload are.
LEMMA UdpFacts ==
  /\ FlowCount \in Nat \ {0} /\ Datagrams \in Nat /\ MaxRetries \in Nat /\ BatchSize \in Nat \ {0}
  /\ Deadline \in Nat \ {0} /\ QueueSize \in Nat \ {0} /\ MaxQueued \in Nat
BY UdpParameters DEF Udp!Parameters

\* A datagram goes to a flow: sequence % FlowCount.
LEMMA FlowsOf == ASSUME NEW r \in BOOLEAN, NEW n \in Nat PROVE n % FlowCount \in Udp(r)!Flows
BY UdpFacts DEF Udp!Flows

\* Where the workload is.
UdpPlace ==
  /\ udpPc \in Udp(TRUE)!Pcs /\ udpOpened \in 0..FlowCount
  /\ lost \in BOOLEAN /\ outcome \in {"none", "success", "failed"}
  /\ udpEvent \in BOOLEAN /\ udpClock \in 0..Deadline /\ waited \in Nat /\ udpAlive \in BOOLEAN
\* What it counts.
UdpCounts ==
  /\ sequence \in 0..Datagrams /\ retries \in 0..MaxRetries
  /\ accepted \in 0..Datagrams /\ echoed \in 0..Datagrams
\* How the counts go with the place: one datagram at a time is on its way.
UdpSent ==
  /\ udpPc \in {"prepare", "open", "abandon", "send", "waitWritable", "receiveWritable"} => accepted = sequence
  /\ udpPc \in {"waitEcho", "receiveEcho"} => accepted = sequence + 1
  /\ udpPc \in {"waitWritable", "receiveWritable"} => sequence < Datagrams
  /\ echoed <= sequence
\* One call fails because the service went, and the closing of the flows that
\* were opened if it was the opening of another.
UdpFailures ==
  /\ udpFailedAt \subseteq Udp(TRUE)!Pcs
  /\ udpPc \notin {"abandon", "close", "done"} => udpFailedAt = {}
  /\ udpPc \notin {"close", "done"} => ~lost
  /\ udpPc = "abandon" => udpFailedAt \subseteq {"open"}
  /\ udpPc = "close" /\ ~lost => udpFailedAt = {}
  /\ udpFailedAt \subseteq {"open", "abandon"} \/ \E at \in Udp(TRUE)!Pcs : udpFailedAt \subseteq {at}
\* What the service and the network hold.
UdpNet ==
  /\ flows \subseteq Udp(TRUE)!Flows /\ udpPortless \subseteq Udp(TRUE)!Flows /\ ended \subseteq Udp(TRUE)!Flows
  /\ blocked \subseteq Udp(TRUE)!Flows /\ network \subseteq Udp(TRUE)!Sequences
       /\ answered \subseteq Udp(TRUE)!Sequences
\* The send queues and the completion queue.
UdpQueues ==
  /\ sendQueue \in [Udp(TRUE)!Flows -> Seq(Udp(TRUE)!Sequences)]
  /\ udpCompletions \in Seq(Udp(TRUE)!Completions)

\* The type invariant, by groups.
LEMMA UdpTypeIs == Udp(TRUE)!TypeOK <=> UdpPlace /\ UdpNet /\ UdpQueues /\ UdpCounts
  /\ udpFailedAt \subseteq Udp(TRUE)!Pcs
BY Zenon DEF Udp!TypeOK, UdpPlace, UdpNet, UdpQueues, UdpCounts

-----------------------------------------------------------------------------
(* The first of the completions that end a wait. *)

\* FirstMatch finds an element: the least, which exists.
LEMMA FirstMatchMatches ==
  ASSUME NEW r \in BOOLEAN, NEW S, S \subseteq Nat, S # {}
  PROVE  Udp(r)!FirstMatch(S) \in S
<1> DEFINE Below == {0..i : i \in S}
<1>1. Below \subseteq FiniteSubsetsOf(Nat) /\ Below # {}
  <2>1. \A i \in S : IsFiniteSet(0..i) /\ 0..i \in SUBSET Nat
    BY FS_Interval
  <2> QED BY <2>1 DEF FiniteSubsetsOf
<1>2. PICK T \in Below : \A V \in Below : ~ (<<V, T>> \in StrictSubsetOrdering(Nat))
  <2> HIDE DEF Below
  <2> QED BY <1>1, FS_StrictSubsetOrderingWellFounded, WFMin
<1>3. PICK i \in S : T = 0..i
  OBVIOUS
<1>4. \A j \in S : i <= j
  <2> SUFFICES ASSUME NEW j \in S, j < i PROVE FALSE
    OBVIOUS
  <2>1. 0..j \subseteq 0..i /\ 0..j # 0..i /\ 0..j \in Below
    OBVIOUS
  <2>2. <<0..j, T>> \in StrictSubsetOrdering(Nat)
    BY <2>1, <1>3 DEF StrictSubsetOrdering
  <2> QED BY <2>1, <2>2, <1>2
<1> QED BY <1>4 DEF Udp!FirstMatch

\* ReceiveCompletions: how many completions the batch takes.
Taken == IF Len(udpCompletions) < BatchSize THEN Len(udpCompletions) ELSE BatchSize

\* The batch is the front of the queue, and Rest what stays behind it.
LEMMA BatchIs ==
  ASSUME NEW r \in BOOLEAN, UdpQueues, udpCompletions # <<>>
  PROVE  /\ Taken \in 1..Len(udpCompletions)
         /\ DOMAIN Udp(r)!Batch = 1..Taken /\ \A i \in 1..Taken : Udp(r)!Batch[i] = udpCompletions[i]
         /\ Udp(r)!Rest \in Seq(Udp(TRUE)!Completions) /\ Len(Udp(r)!Rest) = Len(udpCompletions) - Taken
         /\ \A i \in 1..Len(Udp(r)!Rest) : Udp(r)!Rest[i] = udpCompletions[Taken + i]
<1>1. udpCompletions \in Seq(Udp(TRUE)!Completions) /\ Len(udpCompletions) \in Nat \ {0}
  BY EmptySeq DEF UdpQueues
<1>2. Taken \in 1..Len(udpCompletions)
  BY <1>1, UdpFacts DEF Taken
<1>3. Udp(r)!Batch = SubSeq(udpCompletions, 1, Taken)
  BY DEF Udp!Batch, Taken
<1>4. Len(Udp(r)!Batch) = Taken /\ DOMAIN Udp(r)!Batch = 1..Taken
         /\ \A i \in 1..Taken : Udp(r)!Batch[i] = udpCompletions[i]
  BY <1>1, <1>2, <1>3, SubSeqProperties
<1>5. Udp(r)!Rest = SubSeq(udpCompletions, Taken + 1, Len(udpCompletions))
  BY <1>4 DEF Udp!Rest
<1>6. Udp(r)!Rest \in Seq(Udp(TRUE)!Completions)
  <2>1. \A i \in Taken + 1..Len(udpCompletions) : udpCompletions[i] \in Udp(TRUE)!Completions
    <3>. TAKE i \in Taken + 1..Len(udpCompletions)
    <3>1. i \in 1..Len(udpCompletions)
      BY <1>1, <1>2
    <3>. QED
      BY <1>1, <3>1, ElementOfSeq
  <2>2. Taken + 1 \in Int /\ Len(udpCompletions) \in Int
    BY <1>1, <1>2
  <2>. HIDE DEF Taken
  <2>3. SubSeq(udpCompletions, Taken + 1, Len(udpCompletions)) \in Seq(Udp(TRUE)!Completions)
    BY ONLY <2>1, <2>2, SubSeqProperties
  <2>. QED
    BY <1>5, <2>3
<1>7. Len(Udp(r)!Rest) = Len(udpCompletions) - Taken
  BY <1>1, <1>2, <1>5, SubSeqProperties
<1>8. \A i \in 1..Len(Udp(r)!Rest) : Udp(r)!Rest[i] = udpCompletions[Taken + i]
  <2>. SUFFICES ASSUME NEW i \in 1..Len(Udp(r)!Rest) PROVE Udp(r)!Rest[i] = udpCompletions[Taken + i]
    OBVIOUS
  <2>1. Udp(r)!Rest[i] = udpCompletions[Taken + 1 + i - 1]
    BY <1>1, <1>2, <1>5, <1>7, SubSeqProperties
  <2>. QED
    BY <2>1, <1>2
<1>. QED
  BY <1>2, <1>4, <1>6, <1>7, <1>8

-----------------------------------------------------------------------------
(* What a wait for completions does, whichever it is for. *)

\* The loop over datagrams is left: whether the service is lost is noted.
UdpLeaves ==
  /\ udpPc' = "close"
  /\ \/ lost' = TRUE /\ ~udpAlive /\ udpFailedAt' = udpFailedAt \cup {udpPc}
     \/ lost' = FALSE /\ udpFailedAt' = udpFailedAt

\* What a wait never touches.
UdpLeft == UNCHANGED <<udpOpened, accepted, outcome, udpEvent, udpClock, udpAlive, flows, udpPortless,
                       ended, sendQueue, blocked, network, answered>>

\* The wait for room: it ends, fails, or drops completions that would not end it.
LEMMA WritableReceived ==
  ASSUME NEW r \in BOOLEAN, UdpQueues, Udp(r)!ReceiveWritable
  PROVE  /\ udpPc = "receiveWritable" /\ UdpLeft /\ UNCHANGED <<sequence, retries, echoed, waited>>
         /\ \/ UdpLeaves
            \/ udpPc' \in {"waitWritable", "receiveWritable", "send"} /\ UNCHANGED <<lost, udpFailedAt>>
         /\ udpCompletions' = udpCompletions \/ (udpCompletions # <<>> /\ udpCompletions' = Udp(r)!Rest)
         /\ udpPc' \in {"waitWritable", "receiveWritable"} /\ udpCompletions' # udpCompletions =>
              \A i \in 1..Taken : ~Udp(r)!EndsWritableWait(udpCompletions[i])
<1> DEFINE matching == {i \in DOMAIN Udp(r)!Batch : Udp(r)!EndsWritableWait(Udp(r)!Batch[i])}
<1>1. Udp(r)!Receive("waitWritable", "receiveWritable", matching, Udp(r)!RetrySend)
  BY DEF Udp!ReceiveWritable
<1>2. UdpLeft /\ udpPc = "receiveWritable"
  BY <1>1 DEF Udp!Receive, UdpLeft
<1>3. \/ UNCHANGED <<sequence, retries, echoed, waited, udpCompletions>>
           /\ (UdpLeaves \/ (udpPc' = "waitWritable" /\ UNCHANGED <<lost, udpFailedAt>>))
      \/ /\ udpCompletions # <<>> /\ udpCompletions' = Udp(r)!Rest
         /\ IF Udp(r)!FirstMatch(matching) = 0
            THEN UNCHANGED <<udpPc, sequence, retries, echoed, lost, waited, udpFailedAt>>
            ELSE UNCHANGED <<sequence, retries, echoed, waited>>
                 /\ (UdpLeaves \/ (udpPc' = "send" /\ UNCHANGED <<lost, udpFailedAt>>))
  <2>. HIDE DEF matching
  <2>. QED
    BY <1>1 DEF Udp!Receive, Udp!LeaveLoop, Udp!RetrySend, UdpLeaves
<1>4. ASSUME udpCompletions # <<>>, Udp(r)!FirstMatch(matching) = 0
      PROVE  \A i \in 1..Taken : ~Udp(r)!EndsWritableWait(udpCompletions[i])
  <2>1. DOMAIN Udp(r)!Batch = 1..Taken /\ \A i \in 1..Taken : Udp(r)!Batch[i] = udpCompletions[i]
    BY <1>4, BatchIs
  <2>2. matching \subseteq 1..Taken /\ 1..Taken \subseteq Nat \ {0}
    BY <1>4, <2>1, BatchIs
  <2>. HIDE DEF matching
  <2>3. matching = {}
    BY <1>4, <2>2, FirstMatchMatches
  <2>. USE DEF matching
  <2>. QED
    BY <2>1, <2>3
<1>. HIDE DEF matching
<1>5. UNCHANGED <<sequence, retries, echoed, waited>>
  BY <1>3
<1>6. \/ UdpLeaves
      \/ udpPc' \in {"waitWritable", "receiveWritable", "send"} /\ UNCHANGED <<lost, udpFailedAt>>
  BY <1>2, <1>3
<1>7. udpCompletions' = udpCompletions \/ (udpCompletions # <<>> /\ udpCompletions' = Udp(r)!Rest)
  BY <1>3
<1>8. udpPc' \in {"waitWritable", "receiveWritable"} /\ udpCompletions' # udpCompletions =>
        \A i \in 1..Taken : ~Udp(r)!EndsWritableWait(udpCompletions[i])
  BY <1>3, <1>4 DEF UdpLeaves
<1>. QED
  BY <1>2, <1>5, <1>6, <1>7, <1>8

\* The wait for an echo: only an echo of this datagram counts.
LEMMA EchoReceived ==
  ASSUME NEW r \in BOOLEAN, UdpQueues, Udp(r)!ReceiveEcho
  PROVE  /\ udpPc = "receiveEcho" /\ UdpLeft
         /\ \/ UdpLeaves /\ UNCHANGED <<sequence, retries, echoed, waited>>
            \/ udpPc' \in {"waitEcho", "receiveEcho"} /\ UNCHANGED <<sequence, retries, echoed, waited, lost,
                 udpFailedAt>>
            \/ /\ echoed' = echoed + 1 /\ Udp(r)!NextDatagram /\ UNCHANGED <<lost, udpFailedAt>>
               /\ \E i \in 1..Len(udpCompletions) :
                    udpCompletions[i].type = "Inbound" /\ udpCompletions[i].sequence = sequence
         /\ udpCompletions' = udpCompletions \/ (udpCompletions # <<>> /\ udpCompletions' = Udp(r)!Rest)
<1> DEFINE matching == {i \in DOMAIN Udp(r)!Batch : Udp(r)!EndsEchoWait(Udp(r)!Batch[i])}
<1>1. Udp(r)!Receive("waitEcho", "receiveEcho", matching, Udp(r)!EchoMatched)
  BY DEF Udp!ReceiveEcho
<1>2. UdpLeft /\ udpPc = "receiveEcho"
  BY <1>1 DEF Udp!Receive, UdpLeft
<1>3. udpCompletions # <<>> /\ matching # {} =>
        /\ Udp(r)!FirstMatch(matching) \in 1..Len(udpCompletions)
        /\ Udp(r)!Batch[Udp(r)!FirstMatch(matching)] = udpCompletions[Udp(r)!FirstMatch(matching)]
        /\ Udp(r)!EndsEchoWait(udpCompletions[Udp(r)!FirstMatch(matching)])
  <2>. SUFFICES ASSUME udpCompletions # <<>>, matching # {}
       PROVE  /\ Udp(r)!FirstMatch(matching) \in 1..Len(udpCompletions)
              /\ Udp(r)!Batch[Udp(r)!FirstMatch(matching)] = udpCompletions[Udp(r)!FirstMatch(matching)]
              /\ Udp(r)!EndsEchoWait(udpCompletions[Udp(r)!FirstMatch(matching)])
    OBVIOUS
  <2>1. DOMAIN Udp(r)!Batch = 1..Taken /\ \A i \in 1..Taken : Udp(r)!Batch[i] = udpCompletions[i]
    BY BatchIs
  <2>2. matching \subseteq 1..Taken /\ 1..Taken \subseteq Nat \ {0} /\ 1..Taken \subseteq 1..Len(udpCompletions)
    <3>. HIDE DEF Taken
    <3>1. Taken \in 1..Len(udpCompletions)
      BY BatchIs
    <3>2. Len(udpCompletions) \in Nat
      BY LenProperties DEF UdpQueues
    <3>. QED
      BY ONLY <2>1, <3>1, <3>2
  <2>. HIDE DEF matching
  <2>3. PICK m \in matching : m = Udp(r)!FirstMatch(matching)
    BY <2>2, FirstMatchMatches
  <2>. USE DEF matching
  <2>4. m \in 1..Taken /\ Udp(r)!EndsEchoWait(udpCompletions[m])
    BY <2>1
  <2>. QED
    BY <2>1, <2>2, <2>3, <2>4
<1>. HIDE DEF matching
<1>4. \/ UNCHANGED <<sequence, retries, echoed, waited, udpCompletions>>
           /\ (UdpLeaves \/ (udpPc' = "waitEcho" /\ UNCHANGED <<lost, udpFailedAt>>))
      \/ /\ udpCompletions # <<>> /\ udpCompletions' = Udp(r)!Rest
         /\ \/ UNCHANGED <<udpPc, sequence, retries, echoed, lost, waited, udpFailedAt>>
            \/ UdpLeaves /\ UNCHANGED <<sequence, retries, echoed, waited>>
            \/ /\ Udp(r)!FirstMatch(matching) # 0
               /\ Udp(r)!Batch[Udp(r)!FirstMatch(matching)].type # "FlowStateChanged"
               /\ echoed' = echoed + 1 /\ Udp(r)!NextDatagram /\ UNCHANGED <<lost, udpFailedAt>>
  BY <1>1 DEF Udp!Receive, Udp!LeaveLoop, Udp!EchoMatched, UdpLeaves
<1>5. ASSUME udpCompletions # <<>>, Udp(r)!FirstMatch(matching) # 0,
             Udp(r)!Batch[Udp(r)!FirstMatch(matching)].type # "FlowStateChanged"
      PROVE  \E i \in 1..Len(udpCompletions) :
               udpCompletions[i].type = "Inbound" /\ udpCompletions[i].sequence = sequence
  <2>1. matching # {}
    BY <1>5 DEF Udp!FirstMatch
  <2>2. PICK m \in 1..Len(udpCompletions) :
          m = Udp(r)!FirstMatch(matching) /\ Udp(r)!Batch[m] = udpCompletions[m]
            /\ Udp(r)!EndsEchoWait(udpCompletions[m])
    BY <1>3, <1>5, <2>1
  <2>. QED
    BY <1>5, <2>2 DEF Udp!EndsEchoWait
<1>. QED
  BY <1>2, <1>4, <1>5

-----------------------------------------------------------------------------
(* The UDP workload: its steps, and what they count. *)

\* An echo in the queue has been answered.
UdpInbound ==
  \A i \in 1..Len(udpCompletions) :
     udpCompletions[i].type = "Inbound" => udpCompletions[i].sequence \in answered

\* The service leaves the workload alone.
LEMMA UdpServiceLeaves ==
  ASSUME NEW r \in BOOLEAN, Udp(r)!Service
  PROVE  /\ UNCHANGED <<udpPc, udpOpened, sequence, retries, accepted, echoed, lost, outcome, udpEvent,
                        udpClock, waited, udpFailedAt, flows, udpPortless>>
         /\ udpAlive /\ udpAlive' \in BOOLEAN
BY DEF Udp!Service, Udp!ServiceSends, Udp!AnnounceWritable, Udp!EndFlow, Udp!EchoArrives, Udp!Shutdown,
     Udp!progress

\* Types of place, event and verdict are kept.
LEMMA UdpPlaceStep ==
  ASSUME NEW r \in BOOLEAN, UdpPlace, UdpQueues, [Udp(r)!Next]_(Udp(r)!vars)
  PROVE  UdpPlace'
<1>. USE UdpFacts DEF UdpPlace, Udp!Pcs, Udp!progress, Udp!service
<1>1. CASE Udp(r)!Service
  BY <1>1, UdpServiceLeaves
<1>2. CASE Udp(r)!ReceiveWritable
  BY <1>2, WritableReceived DEF UdpLeft, UdpLeaves
<1>3. CASE Udp(r)!ReceiveEcho
  <2>1. UdpLeft /\ (UdpLeaves \/ Udp(r)!NextDatagram \/ udpPc' \in {"waitEcho", "receiveEcho"})
        /\ (waited' = waited \/ waited' = 0) /\ (lost' = lost \/ UdpLeaves)
    BY <1>3, EchoReceived DEF Udp!NextDatagram
  <2>2. udpPc' \in {"close", "send", "waitEcho", "receiveEcho"}
    BY ONLY <2>1 DEF UdpLeaves, Udp!NextDatagram
  <2>3. lost' \in BOOLEAN
    BY <2>1 DEF UdpLeaves
  <2>4. waited' \in Nat
    BY <2>1
  <2>. QED
    BY <2>1, <2>2, <2>3, <2>4 DEF UdpLeft
<1>4. CASE Udp(r)!SendUdpDatagram
  <2>1. UNCHANGED <<udpOpened, outcome, udpEvent, udpAlive>>
    BY <1>4 DEF Udp!SendUdpDatagram
  <2>2. udpPc' \in {"send", "close", "waitEcho", "waitWritable"}
    BY <1>4 DEF Udp!SendUdpDatagram, Udp!Accept, Udp!Blocked, Udp!Refused, Udp!LeaveLoop, Udp!NextDatagram
  <2>3. lost' \in BOOLEAN
    BY <1>4 DEF Udp!SendUdpDatagram, Udp!Accept, Udp!Blocked, Udp!Refused, Udp!LeaveLoop
  <2>4. udpClock' \in {0, udpClock} /\ waited' \in {0, waited}
    BY <1>4 DEF Udp!SendUdpDatagram, Udp!Accept, Udp!Blocked, Udp!Refused, Udp!NextDatagram
  <2>. QED
    BY <2>1, <2>2, <2>3, <2>4
<1>5. CASE Udp(r)!Prepare \/ Udp(r)!Abandon
  BY <1>5 DEF Udp!Prepare, Udp!Abandon
<1>10. CASE Udp(r)!OpenConnectedFlow
  <2>1. UNCHANGED <<lost, outcome, udpEvent, udpClock, waited, udpAlive>> /\ udpPc' \in {"open", "send",
          "abandon"}
    BY <1>10 DEF Udp!OpenConnectedFlow
  <2>2. udpOpened' \in 0..FlowCount
    BY <1>10 DEF Udp!OpenConnectedFlow
  <2>. QED
    BY <2>1, <2>2
<1>6. CASE Udp(r)!CloseFlows
  BY <1>6 DEF Udp!CloseFlows, Udp!End
<1>7. CASE Udp(r)!Wake("waitWritable", "receiveWritable") \/ Udp(r)!Wake("waitEcho", "receiveEcho")
  BY <1>7 DEF Udp!Wake
<1>8. ASSUME NEW wait \in {"waitWritable", "waitEcho"}, Udp(r)!Tick(wait) \/ Udp(r)!TimesOut(wait)
      PROVE  UdpPlace'
  <2>1. CASE Udp(r)!Tick(wait)
    BY <2>1 DEF Udp!Tick
  <2>2. CASE Udp(r)!TimesOut(wait)
    BY <2>2 DEF Udp!TimesOut, Udp!LeaveLoop
  <2>. QED
    BY <1>8, <2>1, <2>2
<1>9. CASE UNCHANGED Udp(r)!vars
  BY <1>9 DEF Udp!vars
<1>. QED
  BY <1>1, <1>2, <1>3, <1>4, <1>5, <1>6, <1>7, <1>8, <1>9, <1>10 DEF Udp!Next, Udp!Workload

\* Steps that neither send nor receive.
UdpSteps(r) ==
  \/ Udp(r)!Prepare \/ Udp(r)!OpenConnectedFlow \/ Udp(r)!Abandon \/ Udp(r)!CloseFlows
  \/ Udp(r)!Wake("waitWritable", "receiveWritable") \/ Udp(r)!Wake("waitEcho", "receiveEcho")
  \/ (\E wait \in {"waitWritable", "waitEcho"} : Udp(r)!Tick(wait) \/ Udp(r)!TimesOut(wait))

\* Steps of the workload between sending and receiving count nothing.
LEMMA UdpBetween ==
  ASSUME NEW r \in BOOLEAN, UdpSteps(r)
  PROVE  /\ UNCHANGED <<sequence, retries, accepted, echoed, udpAlive, ended, sendQueue, blocked, network,
              answered, udpCompletions>>
         /\ udpPc' \in {"waitWritable", "receiveWritable"} => udpPc \in {"waitWritable", "receiveWritable"}
         /\ udpPc' \in {"waitEcho", "receiveEcho"} => udpPc \in {"waitEcho", "receiveEcho"}
         /\ udpPc' \in {"prepare", "open", "abandon", "send"} => udpPc \in {"prepare", "open"}
         /\ udpPc' \notin {"close", "done"} => udpPc \notin {"close", "done"} /\ UNCHANGED lost
<1>. USE DEF Udp!progress, Udp!service
<1>1. CASE Udp(r)!Prepare \/ Udp(r)!Abandon
  BY <1>1 DEF Udp!Prepare, Udp!Abandon
<1>5. CASE Udp(r)!OpenConnectedFlow
  <2>1. udpPc = "open" /\ udpPc' \in {"open", "send", "abandon"}
    BY <1>5 DEF Udp!OpenConnectedFlow
  <2>2. UNCHANGED <<sequence, retries, accepted, echoed, lost, udpAlive>>
    BY <1>5 DEF Udp!OpenConnectedFlow
  <2>4. UNCHANGED <<ended, sendQueue, blocked, network, answered, udpCompletions>>
    BY <1>5 DEF Udp!OpenConnectedFlow
  <2>. QED
    BY <2>1, <2>2, <2>4
<1>2. CASE Udp(r)!CloseFlows
  BY <1>2 DEF Udp!CloseFlows, Udp!End
<1>3. CASE Udp(r)!Wake("waitWritable", "receiveWritable") \/ Udp(r)!Wake("waitEcho", "receiveEcho")
  BY <1>3 DEF Udp!Wake
<1>4. CASE \E wait \in {"waitWritable", "waitEcho"} : Udp(r)!Tick(wait) \/ Udp(r)!TimesOut(wait)
  BY <1>4 DEF Udp!Tick, Udp!TimesOut, Udp!LeaveLoop
<1>. QED
  BY <1>1, <1>2, <1>3, <1>4, <1>5 DEF UdpSteps

\* A send: taken, refused for a full queue and owed a Writable, or failed.
LEMMA SendIs ==
  ASSUME NEW r \in BOOLEAN, Udp(r)!SendUdpDatagram
  PROVE  /\ udpPc = "send"
         /\ UNCHANGED <<udpOpened, echoed, outcome, udpEvent, udpAlive, flows, udpPortless, ended, network,
              answered, udpCompletions>>
         /\ \/ /\ sequence < Datagrams /\ accepted' = accepted + 1 /\ UNCHANGED <<lost, udpFailedAt>>
               /\ IF r THEN udpPc' = "waitEcho" /\ UNCHANGED <<sequence, retries>> ELSE Udp(r)!NextDatagram
            \/ /\ sequence < Datagrams /\ udpPc' = "waitWritable" /\ retries < MaxRetries
                    /\ retries' = retries + 1
               /\ Udp(r)!Flow \in blocked' /\ UNCHANGED <<sequence, accepted, lost, udpFailedAt>>
            \/ UdpLeaves /\ UNCHANGED <<sequence, retries, accepted>>
            \/ udpPc' = "close" /\ UNCHANGED <<sequence, retries, accepted, lost, udpFailedAt>>
<1>1. udpPc = "send" /\ UNCHANGED <<udpOpened, echoed, outcome, udpEvent, udpAlive, flows, udpPortless,
        ended, network, answered, udpCompletions>>
  BY DEF Udp!SendUdpDatagram
<1>2. CASE sequence < Datagrams /\ Udp(r)!Accept
  BY <1>1, <1>2 DEF Udp!Accept
<1>3. CASE sequence < Datagrams /\ Udp(r)!Blocked
  BY <1>1, <1>3 DEF Udp!Blocked
<1>4. CASE Udp(r)!Refused
  BY <1>1, <1>4 DEF Udp!Refused, Udp!LeaveLoop, UdpLeaves
<1>5. CASE udpPc' = "close" /\ UNCHANGED <<sequence, retries, accepted, lost, udpFailedAt>>
  BY <1>1, <1>5
<1>. QED
  BY <1>2, <1>3, <1>4, <1>5 DEF Udp!SendUdpDatagram

\* The kinds of steps the proofs go by.
LEMMA UdpStepKinds ==
  ASSUME NEW r \in BOOLEAN, [Udp(r)!Next]_(Udp(r)!vars)
  PROVE  \/ Udp(r)!Service \/ Udp(r)!ReceiveWritable \/ Udp(r)!ReceiveEcho \/ Udp(r)!SendUdpDatagram
         \/ UdpSteps(r) \/ UNCHANGED udpVars
BY Zenon DEF Udp!Next, Udp!Workload, UdpSteps, Udp!vars, Udp!progress, Udp!service, udpVars

\* No counter leaves its range, the retries of a datagram included.
LEMMA UdpCountsStep ==
  ASSUME NEW r \in BOOLEAN, UdpCounts, UdpSent, UdpQueues, [Udp(r)!Next]_(Udp(r)!vars)
  PROVE  UdpCounts'
<1>. USE UdpFacts DEF UdpCounts
<1>1. CASE Udp(r)!Service
  BY <1>1, UdpServiceLeaves
<1>2. CASE Udp(r)!ReceiveWritable
  BY <1>2, WritableReceived DEF UdpLeft
<1>3. CASE Udp(r)!ReceiveEcho
  <2>1. udpPc = "receiveEcho" /\ UNCHANGED accepted
        /\ (UNCHANGED <<sequence, retries, echoed>> \/ (echoed' = echoed + 1 /\ sequence' = sequence + 1
             /\ retries' = 0))
    BY <1>3, EchoReceived DEF UdpLeft, Udp!NextDatagram
  <2>. QED
    BY <2>1 DEF UdpSent
<1>4. CASE Udp(r)!SendUdpDatagram
  <2>1. UNCHANGED echoed
        /\ \/ sequence < Datagrams /\ accepted' = accepted + 1 /\ UNCHANGED <<sequence, retries>>
           \/ sequence < Datagrams /\ accepted' = accepted + 1 /\ sequence' = sequence + 1 /\ retries' = 0
           \/ UNCHANGED <<sequence, accepted>> /\ (retries' = retries \/ (retries < MaxRetries
                /\ retries' = retries + 1))
        /\ accepted = sequence
    BY <1>4, SendIs DEF Udp!NextDatagram, UdpSent
  <2>. QED
    BY <2>1
<1>5. CASE UdpSteps(r)
  BY <1>5, UdpBetween
<1>6. CASE UNCHANGED udpVars
  BY <1>6 DEF udpVars
<1>. QED
  BY <1>1, <1>2, <1>3, <1>4, <1>5, <1>6, UdpStepKinds

\* What was accepted keeps pace with the datagram it is at.
LEMMA UdpSentStep ==
  ASSUME NEW r \in BOOLEAN, UdpCounts, UdpSent, UdpQueues, [Udp(r)!Next]_(Udp(r)!vars)
  PROVE  UdpSent'
<1>. USE UdpFacts DEF UdpSent
<1>1. CASE Udp(r)!Service
  BY <1>1, UdpServiceLeaves
<1>2. CASE Udp(r)!ReceiveWritable
  BY <1>2, WritableReceived DEF UdpLeft, UdpLeaves
<1>3. CASE Udp(r)!ReceiveEcho
  <2>1. udpPc = "receiveEcho" /\ UNCHANGED accepted /\ (UNCHANGED <<sequence, echoed>>
          \/ (echoed' = echoed + 1 /\ sequence' = sequence + 1))
    BY <1>3, EchoReceived DEF UdpLeft, Udp!NextDatagram
  <2>2. udpPc' \in {"waitEcho", "receiveEcho"} => UNCHANGED sequence
    BY <1>3, EchoReceived DEF UdpLeaves, Udp!NextDatagram
  <2>3. udpPc' \in {"waitEcho", "receiveEcho", "close"} \/ (udpPc' = "send" /\ sequence' = sequence + 1)
    BY <1>3, EchoReceived DEF UdpLeaves, Udp!NextDatagram
  <2>. QED
    BY <2>1, <2>2, <2>3 DEF UdpCounts
<1>4. CASE Udp(r)!SendUdpDatagram
  <2>1. UNCHANGED echoed /\ accepted = sequence /\ udpPc = "send"
        /\ \/ udpPc' = "waitEcho" /\ accepted' = accepted + 1 /\ UNCHANGED sequence
           \/ udpPc' \in {"send", "close"} /\ accepted' = accepted + 1 /\ sequence' = sequence + 1
           \/ udpPc' = "waitWritable" /\ sequence < Datagrams /\ UNCHANGED <<sequence, accepted>>
           \/ udpPc' = "close" /\ UNCHANGED <<sequence, accepted>>
    BY <1>4, SendIs DEF Udp!NextDatagram, UdpLeaves
  <2>. QED
    BY <2>1 DEF UdpCounts
<1>5. CASE UdpSteps(r)
  BY <1>5, UdpBetween
<1>6. CASE UNCHANGED udpVars
  BY <1>6 DEF udpVars
<1>. QED
  BY <1>1, <1>2, <1>3, <1>4, <1>5, <1>6, UdpStepKinds

-----------------------------------------------------------------------------
(* The UDP workload: failures, the service, and how its queue grows. *)

\* A call fails for a lost service once, and the workload goes on to close.
LEMMA UdpFailuresStep ==
  ASSUME NEW r \in BOOLEAN, UdpPlace, UdpFailures, UdpQueues, [Udp(r)!Next]_(Udp(r)!vars)
  PROVE  UdpFailures'
<1>. USE DEF UdpFailures
<1>1. CASE Udp(r)!Service
  BY <1>1, UdpServiceLeaves
<1>2. CASE UdpLeaves /\ udpPc \in {"send", "receiveWritable", "receiveEcho"}
  BY <1>2 DEF UdpLeaves, Udp!Pcs
<1>3. CASE udpPc \notin {"abandon", "close", "done"} /\ UNCHANGED <<lost, udpFailedAt>>
  BY <1>3
<1>4. CASE Udp(r)!ReceiveWritable
  BY <1>2, <1>3, <1>4, WritableReceived
<1>5. CASE Udp(r)!ReceiveEcho
  BY <1>2, <1>3, <1>5, EchoReceived
<1>6. CASE Udp(r)!SendUdpDatagram
  BY <1>2, <1>3, <1>6, SendIs
<1>7. CASE UdpSteps(r)
  <2>1. CASE Udp(r)!Prepare
    <3>1. /\ udpPc = "prepare" /\ udpPc' \in {"open", "done"} /\ UNCHANGED lost
          /\ UNCHANGED udpFailedAt \/ (udpPc' = "done" /\ udpFailedAt' = udpFailedAt \cup {"prepare"})
      BY <2>1 DEF Udp!Prepare, Udp!NoteFailure, UdpPlace
    <3>. QED
      BY <3>1 DEF Udp!Pcs
  <2>2. CASE Udp(r)!OpenConnectedFlow
    <3>1. /\ udpPc = "open" /\ udpPc' \in {"open", "send", "abandon"} /\ UNCHANGED lost
          /\ UNCHANGED udpFailedAt \/ (udpPc' = "abandon" /\ udpFailedAt' = udpFailedAt \cup {"open"})
      BY <2>2 DEF Udp!OpenConnectedFlow, Udp!NoteFailure, UdpPlace
    <3>. QED
      BY <3>1 DEF Udp!Pcs
  <2>3. CASE Udp(r)!Abandon
    <3>1. /\ udpPc = "abandon" /\ udpPc' = "done" /\ UNCHANGED lost
          /\ UNCHANGED udpFailedAt \/ udpFailedAt' = udpFailedAt \cup {"abandon"}
      BY <2>3 DEF Udp!Abandon, Udp!NoteFailure, UdpPlace
    <3>. QED
      BY <3>1 DEF Udp!Pcs
  <2>4. CASE Udp(r)!CloseFlows
    <3>1. udpPc = "close" /\ udpPc' = "done" /\ UNCHANGED lost
          /\ (UNCHANGED udpFailedAt \/ (~lost /\ udpFailedAt' = udpFailedAt \cup {"close"}))
      BY <2>4 DEF Udp!CloseFlows, Udp!End, UdpPlace
    <3>. QED
      BY <3>1 DEF Udp!Pcs
  <2>5. CASE Udp(r)!Wake("waitWritable", "receiveWritable") \/ Udp(r)!Wake("waitEcho", "receiveEcho")
    BY <1>3, <2>5 DEF Udp!Wake
  <2>6. ASSUME NEW wait \in {"waitWritable", "waitEcho"}, Udp(r)!Tick(wait) \/ Udp(r)!TimesOut(wait)
        PROVE  UdpFailures'
    BY <1>3, <2>6 DEF Udp!Tick, Udp!TimesOut, Udp!LeaveLoop
  <2>. QED
    BY <1>7, <2>1, <2>2, <2>3, <2>4, <2>5, <2>6 DEF UdpSteps
<1>8. CASE UNCHANGED udpVars
  BY <1>8 DEF udpVars
<1>. QED
  BY <1>1, <1>4, <1>5, <1>6, <1>7, <1>8, UdpStepKinds

\* The service names flows and datagrams that exist.
LEMMA UdpNetStep ==
  ASSUME NEW r \in BOOLEAN, UdpPlace, UdpCounts, UdpNet, UdpQueues, [Udp(r)!Next]_(Udp(r)!vars)
  PROVE  UdpNet'
<1>. USE UdpFacts DEF UdpNet
<1>1. ASSUME NEW f \in Udp(r)!Flows, Udp(r)!ServiceSends(f) PROVE UdpNet'
  <2>1. sendQueue[f] \in Seq(Udp(TRUE)!Sequences) /\ sendQueue[f] # <<>>
    BY <1>1 DEF Udp!ServiceSends, UdpQueues, Udp!Flows
  <2>2. Head(sendQueue[f]) \in Udp(TRUE)!Sequences
    BY <2>1, HeadTailProperties
  <2>. QED
    BY <1>1, <2>2 DEF Udp!ServiceSends
<1>2. ASSUME NEW f \in Udp(r)!Flows, Udp(r)!AnnounceWritable(f) \/ Udp(r)!EndFlow(f) PROVE UdpNet'
  BY <1>2 DEF Udp!AnnounceWritable, Udp!EndFlow, Udp!Flows
<1>3. ASSUME NEW n \in Udp(r)!Sequences, Udp(r)!EchoArrives(n) PROVE UdpNet'
  BY <1>3 DEF Udp!EchoArrives, Udp!Sequences
<1>4. CASE Udp(r)!Shutdown
  BY <1>4 DEF Udp!Shutdown
<1>5. CASE Udp(r)!Service
  BY <1>1, <1>2, <1>3, <1>4, <1>5 DEF Udp!Service
<1>6. CASE UdpLeft
  BY <1>6 DEF UdpLeft
<1>7. CASE Udp(r)!SendUdpDatagram
  <2>1. Udp(r)!Flow \in Udp(TRUE)!Flows
    BY FlowsOf DEF Udp!Flow, Udp!Flows, UdpCounts
  <2>2. blocked' \subseteq blocked \cup {Udp(r)!Flow}
    BY <1>7 DEF Udp!SendUdpDatagram, Udp!Accept, Udp!Blocked, Udp!Refused
  <2>. QED
    BY <1>7, <2>1, <2>2, SendIs
<1>8. CASE UdpSteps(r)
  <2>1. flows' \subseteq Udp(TRUE)!Flows /\ udpPortless' \subseteq Udp(TRUE)!Flows
    <3>1. CASE Udp(r)!OpenConnectedFlow
      <4>1. udpOpened < FlowCount => udpOpened \in Udp(TRUE)!Flows
        BY DEF UdpPlace, Udp!Flows
      <4>2. \/ UNCHANGED <<flows, udpPortless>>
            \/ udpOpened < FlowCount /\ flows' = flows \cup {udpOpened}
               /\ (udpPortless' = udpPortless \/ udpPortless' = udpPortless \cup {udpOpened})
        BY <3>1 DEF Udp!OpenConnectedFlow
      <4>. QED
        BY <4>1, <4>2
    <3>2. CASE Udp(r)!Abandon
      BY <3>2 DEF Udp!Abandon
    <3>3. CASE Udp(r)!CloseFlows
      BY <3>3 DEF Udp!CloseFlows, Udp!End
    <3>4. CASE Udp(r)!Prepare
      BY <3>4 DEF Udp!Prepare, Udp!service
    <3>5. CASE Udp(r)!Wake("waitWritable", "receiveWritable") \/ Udp(r)!Wake("waitEcho", "receiveEcho")
      BY <3>5 DEF Udp!Wake, Udp!service
    <3>6. CASE \E wait \in {"waitWritable", "waitEcho"} : Udp(r)!Tick(wait) \/ Udp(r)!TimesOut(wait)
      BY <3>6 DEF Udp!Tick, Udp!TimesOut, Udp!service
    <3>. QED
      BY <1>8, <3>1, <3>2, <3>3, <3>4, <3>5, <3>6 DEF UdpSteps
  <2>. QED
    BY <1>8, <2>1, UdpBetween
<1>9. CASE UNCHANGED udpVars
  BY <1>9 DEF udpVars
<1>. QED
  BY <1>5, <1>6, <1>7, <1>8, <1>9, UdpStepKinds, WritableReceived, EchoReceived

\* What a sequence holds once an element is appended.
LEMMA AppendIs ==
  ASSUME NEW S, NEW s \in Seq(S), NEW x \in S, NEW t, t = Append(s, x)
  PROVE  /\ t \in Seq(S) /\ Len(s) \in Nat /\ Len(t) = Len(s) + 1
         /\ (\A i \in 1..Len(s) : t[i] = s[i]) /\ t[Len(s) + 1] = x
BY AppendProperties, LenProperties

\* The completions the service makes are completions.
LEMMA CompletionIs ==
  ASSUME NEW type \in {"Writable", "Inbound", "FlowStateChanged"},
         NEW f \in Udp(TRUE)!Flows, NEW n \in Udp(TRUE)!Sequences \cup {0}
  PROVE  [type |-> type, flow |-> f, sequence |-> n] \in Udp(TRUE)!Completions
BY Zenon DEF Udp!Completions

\* A completion is queued at the end.
LEMMA CompletionQueued ==
  ASSUME NEW c \in Udp(TRUE)!Completions, UdpQueues, udpCompletions' = Append(udpCompletions, c)
  PROVE  /\ udpCompletions' \in Seq(Udp(TRUE)!Completions) /\ Len(udpCompletions) \in Nat
         /\ Len(udpCompletions') = Len(udpCompletions) + 1
         /\ \A i \in 1..Len(udpCompletions) : udpCompletions'[i] = udpCompletions[i]
         /\ udpCompletions'[Len(udpCompletions) + 1] = c
<1>. DEFINE set == Udp(TRUE)!Completions
<1>1. udpCompletions \in Seq(set) /\ udpCompletions' = Append(udpCompletions, c) /\ c \in set
  BY DEF UdpQueues
<1>. HIDE DEF set
<1>2. /\ udpCompletions' \in Seq(set) /\ Len(udpCompletions) \in Nat
      /\ Len(udpCompletions') = Len(udpCompletions) + 1
      /\ \A i \in 1..Len(udpCompletions) : udpCompletions'[i] = udpCompletions[i]
      /\ udpCompletions'[Len(udpCompletions) + 1] = c
  BY ONLY <1>1, AppendIs
<1>. QED
  BY <1>2 DEF set

-----------------------------------------------------------------------------
(* The UDP workload: the completion queue. *)

\* What the service queues, and what it owes after that.
LEMMA ServiceCompletion ==
  ASSUME NEW r \in BOOLEAN, UdpNet, UdpQueues, Udp(r)!Service
  PROVE  \/ UNCHANGED <<udpCompletions, ended>> /\ (UNCHANGED <<blocked, answered>> \/ ~udpAlive')
         \/ \E f \in Udp(TRUE)!Flows :
              /\ udpCompletions' = Append(udpCompletions, Udp(r)!Completion("Writable", f, 0))
              /\ blocked' = blocked \ {f} /\ UNCHANGED answered
         \/ \E f \in Udp(TRUE)!Flows :
              /\ udpCompletions' = Append(udpCompletions, Udp(r)!Completion("FlowStateChanged", f, 0))
              /\ blocked' = blocked \ {f} /\ UNCHANGED answered
         \/ \E n \in Udp(TRUE)!Sequences :
              /\ udpCompletions' = Append(udpCompletions, Udp(r)!Completion("Inbound", n % FlowCount, n))
              /\ answered' = answered \cup {n} /\ UNCHANGED blocked
<1>. USE DEF Udp!Flows, Udp!Sequences
<1>1. ASSUME NEW f \in Udp(r)!Flows, Udp(r)!ServiceSends(f)
      PROVE UNCHANGED <<udpCompletions, ended, blocked, answered>>
  BY <1>1 DEF Udp!ServiceSends
<1>2. CASE \E f \in Udp(r)!Flows : Udp(r)!AnnounceWritable(f)
  BY <1>2 DEF Udp!AnnounceWritable
<1>3. CASE \E f \in Udp(r)!Flows : Udp(r)!EndFlow(f)
  BY <1>3 DEF Udp!EndFlow
<1>4. CASE \E n \in Udp(r)!Sequences : Udp(r)!EchoArrives(n)
  BY <1>4 DEF Udp!EchoArrives
<1>5. CASE Udp(r)!Shutdown
  BY <1>5 DEF Udp!Shutdown
<1>. QED
  BY <1>1, <1>2, <1>3, <1>4, <1>5 DEF Udp!Service

\* The flow an echo belongs to.
LEMMA EchoFlow == ASSUME NEW n \in Udp(TRUE)!Sequences PROVE n % FlowCount \in Udp(TRUE)!Flows /\ n \in Nat
<1>1. n \in Nat
  BY UdpFacts DEF Udp!Sequences
<1>2. n % FlowCount \in Udp(TRUE)!Flows
  BY <1>1, FlowsOf, TRUE \in BOOLEAN
<1>. QED
  BY <1>1, <1>2

\* A completion of the service leaves the queue well formed: echoes queued are answered.
LEMMA ServiceQueues ==
  ASSUME NEW r \in BOOLEAN, UdpNet, UdpQueues, UdpInbound, Udp(r)!Service
  PROVE  udpCompletions' \in Seq(Udp(TRUE)!Completions) /\ UdpInbound'
<1>1. CASE UNCHANGED udpCompletions
  <2>1. UNCHANGED answered
    BY <1>1 DEF Udp!Service, Udp!ServiceSends, Udp!AnnounceWritable, Udp!EndFlow, Udp!EchoArrives, Udp!Shutdown
  <2>. QED
    BY <1>1, <2>1 DEF UdpInbound, UdpQueues
<1>2. ASSUME NEW c \in Udp(TRUE)!Completions, udpCompletions' = Append(udpCompletions, c),
             answered \subseteq answered', c.type = "Inbound" => c.sequence \in answered'
      PROVE  udpCompletions' \in Seq(Udp(TRUE)!Completions) /\ UdpInbound'
  <2>1. /\ udpCompletions' \in Seq(Udp(TRUE)!Completions) /\ Len(udpCompletions) \in Nat
        /\ Len(udpCompletions') = Len(udpCompletions) + 1
        /\ \A i \in 1..Len(udpCompletions) : udpCompletions'[i] = udpCompletions[i]
        /\ udpCompletions'[Len(udpCompletions) + 1] = c
    BY <1>2, CompletionQueued
  <2>2. ASSUME NEW i \in 1..Len(udpCompletions'), udpCompletions'[i].type = "Inbound"
        PROVE  udpCompletions'[i].sequence \in answered'
    <3>1. CASE i = Len(udpCompletions) + 1
      BY <1>2, <2>1, <2>2, <3>1
    <3>2. CASE i \in 1..Len(udpCompletions)
      BY <1>2, <2>1, <2>2, <3>2 DEF UdpInbound
    <3>. QED
      BY <2>1, <3>1, <3>2
  <2>. QED
    BY <2>1, <2>2 DEF UdpInbound
<1>3. ASSUME NEW type \in {"Writable", "FlowStateChanged"}, NEW f \in Udp(TRUE)!Flows,
             udpCompletions' = Append(udpCompletions, Udp(r)!Completion(type, f, 0)), UNCHANGED answered
      PROVE  udpCompletions' \in Seq(Udp(TRUE)!Completions) /\ UdpInbound'
  <2>. DEFINE c == [type |-> type, flow |-> f, sequence |-> 0]
  <2>1. c \in Udp(TRUE)!Completions
    BY Zenon, CompletionIs
  <2>2. c.type # "Inbound"
    OBVIOUS
  <2>3. udpCompletions' = Append(udpCompletions, c)
    BY <1>3 DEF Udp!Completion
  <2>. HIDE DEF c
  <2>. QED
    BY <1>2, <1>3, <2>1, <2>2, <2>3
<1>4. ASSUME NEW n \in Udp(TRUE)!Sequences, answered' = answered \cup {n},
             udpCompletions' = Append(udpCompletions, Udp(r)!Completion("Inbound", n % FlowCount, n))
      PROVE  udpCompletions' \in Seq(Udp(TRUE)!Completions) /\ UdpInbound'
  <2>. DEFINE c == [type |-> "Inbound", flow |-> n % FlowCount, sequence |-> n]
  <2>1. c \in Udp(TRUE)!Completions
    BY Zenon, EchoFlow, CompletionIs
  <2>2. c.sequence = n
    OBVIOUS
  <2>3. udpCompletions' = Append(udpCompletions, c)
    BY <1>4 DEF Udp!Completion
  <2>. HIDE DEF c
  <2>. QED
    BY <1>2, <1>4, <2>1, <2>2, <2>3
<1>. QED
  BY <1>1, <1>3, <1>4, ServiceCompletion

\* So does the removal of a batch.
LEMMA RestQueues ==
  ASSUME NEW r \in BOOLEAN, UdpQueues, udpCompletions # <<>>, udpCompletions' = Udp(r)!Rest
  PROVE  udpCompletions' \in Seq(Udp(TRUE)!Completions) /\ (UdpInbound /\ UNCHANGED answered => UdpInbound')
<1>1. udpCompletions' \in Seq(Udp(TRUE)!Completions)
  BY BatchIs
<1>2. ASSUME UdpInbound, UNCHANGED answered, NEW i \in 1..Len(udpCompletions'),
               udpCompletions'[i].type = "Inbound"
      PROVE  udpCompletions'[i].sequence \in answered'
  <2>1. Taken \in 1..Len(udpCompletions) /\ Len(udpCompletions') = Len(udpCompletions) - Taken
        /\ udpCompletions'[i] = udpCompletions[Taken + i]
    BY BatchIs
  <2>2. Len(udpCompletions) \in Nat
    BY LenProperties DEF UdpQueues
  <2>3. Taken + i \in 1..Len(udpCompletions)
    <3>. HIDE DEF Taken
    <3>. QED BY <2>1, <2>2
  <2>. QED
    BY <1>2, <2>1, <2>3 DEF UdpInbound
<1>. QED
  BY <1>1, <1>2 DEF UdpInbound

\* Queues stay well formed, and every echo queued is one that was answered.
LEMMA UdpQueuesStep ==
  ASSUME NEW r \in BOOLEAN, UdpPlace, UdpCounts, UdpNet, UdpQueues, UdpInbound, [Udp(r)!Next]_(Udp(r)!vars)
  PROVE  UdpQueues' /\ UdpInbound'
<1>1. CASE Udp(r)!Service
  <2>1. sendQueue' \in [Udp(TRUE)!Flows -> Seq(Udp(TRUE)!Sequences)]
    <3>1. ASSUME NEW f \in Udp(r)!Flows, NEW q \in Seq(Udp(TRUE)!Sequences),
                   sendQueue' = [sendQueue EXCEPT ![f] = q]
          PROVE  sendQueue' \in [Udp(TRUE)!Flows -> Seq(Udp(TRUE)!Sequences)]
      BY <3>1 DEF UdpQueues
    <3>2. ASSUME NEW f \in Udp(r)!Flows, Udp(r)!ServiceSends(f)
          PROVE \E q \in Seq(Udp(TRUE)!Sequences) : sendQueue' = [sendQueue EXCEPT ![f] = q]
      <4>1. sendQueue[f] \in Seq(Udp(TRUE)!Sequences) /\ sendQueue[f] # <<>>
        BY <3>2 DEF Udp!ServiceSends, UdpQueues, Udp!Flows
      <4>2. Tail(sendQueue[f]) \in Seq(Udp(TRUE)!Sequences)
        BY <4>1, HeadTailProperties
      <4>. QED
        BY <3>2, <4>2 DEF Udp!ServiceSends
    <3>3. ASSUME NEW f \in Udp(r)!Flows, Udp(r)!EndFlow(f)
          PROVE \E q \in Seq(Udp(TRUE)!Sequences) : sendQueue' = [sendQueue EXCEPT ![f] = q]
      BY <3>3, EmptySeq DEF Udp!EndFlow
    <3>4. CASE UNCHANGED sendQueue
      BY <3>4 DEF UdpQueues
    <3>. QED
      BY <1>1, <3>1, <3>2, <3>3, <3>4 DEF Udp!Service, Udp!AnnounceWritable, Udp!EchoArrives, Udp!Shutdown
  <2>. QED
    BY <1>1, <2>1, ServiceQueues DEF UdpQueues
<1>2. CASE UdpLeft /\ udpCompletions # <<>> /\ udpCompletions' = Udp(r)!Rest
  BY <1>2, RestQueues DEF UdpLeft, UdpQueues
<1>3. CASE UNCHANGED <<sendQueue, answered, udpCompletions>>
  BY <1>3 DEF UdpQueues, UdpInbound
<1>4. CASE Udp(r)!SendUdpDatagram
  <2>1. UNCHANGED <<udpCompletions, answered>>
    BY <1>4 DEF Udp!SendUdpDatagram
  <2>2. CASE UNCHANGED sendQueue
    BY <1>3, <2>1, <2>2
  <2>3. CASE sequence < Datagrams /\ Udp(r)!Accept
    <3>1. sequence \in Udp(TRUE)!Sequences /\ Udp(r)!Flow \in Udp(TRUE)!Flows
      BY <2>3, UdpFacts, FlowsOf DEF Udp!Sequences, Udp!Flow, Udp!Flows, UdpCounts
    <3>2. sendQueue[Udp(r)!Flow] \in Seq(Udp(TRUE)!Sequences)
      BY <3>1 DEF UdpQueues
    <3>3. Append(sendQueue[Udp(r)!Flow], sequence) \in Seq(Udp(TRUE)!Sequences)
      BY <3>1, <3>2, AppendProperties
    <3>4. sendQueue' = [sendQueue EXCEPT ![Udp(r)!Flow] = Append(sendQueue[Udp(r)!Flow], sequence)]
      BY <2>3 DEF Udp!Accept
    <3>. QED
      BY <2>1, <3>1, <3>3, <3>4 DEF UdpQueues, UdpInbound
  <2>. QED
    BY <1>4, <2>2, <2>3 DEF Udp!SendUdpDatagram, Udp!Blocked, Udp!Refused
<1>5. CASE Udp(r)!ReceiveWritable
  BY <1>2, <1>3, <1>5, WritableReceived DEF UdpLeft
<1>6. CASE Udp(r)!ReceiveEcho
  BY <1>2, <1>3, <1>6, EchoReceived DEF UdpLeft
<1>7. CASE UdpSteps(r)
  BY <1>3, <1>7, UdpBetween
<1>8. CASE UNCHANGED udpVars
  BY <1>3, <1>8 DEF udpVars
<1>. QED
  BY <1>1, <1>4, <1>5, <1>6, <1>7, <1>8, UdpStepKinds

-----------------------------------------------------------------------------
(* The UDP workload: echoes, verdict and wakeups. *)

\* Echo replies: every datagram before this one was answered.
UdpEchoed == echoed = sequence /\ \A n \in 0..sequence - 1 : n \in answered

\* With echo replies the workload passes a datagram only when its own echo came.
LEMMA UdpEchoedStep ==
  ASSUME UdpCounts, UdpQueues, UdpInbound, UdpEchoed, [Udp(TRUE)!Next]_(Udp(TRUE)!vars)
  PROVE  UdpEchoed'
<1>. USE DEF UdpEchoed
<1>1. CASE UNCHANGED <<echoed, sequence>> /\ answered \subseteq answered'
  BY <1>1
<1>2. CASE Udp(TRUE)!Service
  <2>1. answered \subseteq answered'
    BY <1>2 DEF Udp!Service, Udp!ServiceSends, Udp!AnnounceWritable, Udp!EndFlow, Udp!EchoArrives, Udp!Shutdown
  <2>. QED
    BY <1>1, <1>2, <2>1, UdpServiceLeaves
<1>3. CASE Udp(TRUE)!ReceiveWritable
  BY <1>1, <1>3, WritableReceived DEF UdpLeft
<1>4. CASE Udp(TRUE)!ReceiveEcho
  <2>1. UNCHANGED answered
    BY <1>4, EchoReceived DEF UdpLeft
  <2>2. ASSUME echoed' = echoed + 1, Udp(TRUE)!NextDatagram,
               NEW i \in 1..Len(udpCompletions), udpCompletions[i].type = "Inbound",
                 udpCompletions[i].sequence = sequence
        PROVE  UdpEchoed'
    <3>1. sequence \in answered
      BY <2>2 DEF UdpInbound
    <3>2. sequence' = sequence + 1 /\ sequence \in Nat
      BY <2>2, UdpFacts DEF Udp!NextDatagram, UdpCounts
    <3>. QED
      BY <2>1, <2>2, <3>1, <3>2
  <2>. QED
    BY <1>1, <1>4, <2>1, <2>2, EchoReceived
<1>5. CASE Udp(TRUE)!SendUdpDatagram
  <2>1. UNCHANGED <<sequence, echoed, answered>>
    BY <1>5, SendIs
  <2>. QED
    BY <1>1, <2>1
<1>6. CASE UdpSteps(TRUE)
  BY <1>1, <1>6, UdpBetween
<1>7. CASE UNCHANGED udpVars
  BY <1>1, <1>7 DEF udpVars
<1>. QED
  BY <1>2, <1>3, <1>4, <1>5, <1>6, <1>7, UdpStepKinds

\* A success pronounced satisfies the condition of result.success.
UdpVerdict(r) ==
  outcome = "success" => udpPc = "done" /\ Udp(r)!Verdict

\* A success is pronounced at the end, with the counts that make it one.
LEMMA UdpVerdictStep ==
  ASSUME NEW r \in BOOLEAN, UdpQueues, outcome # "none" => udpPc = "done", [Udp(r)!Next]_(Udp(r)!vars)
  PROVE  (UdpVerdict(r) => UdpVerdict(r)') /\ (outcome' # "none" => udpPc' = "done")
<1>. USE DEF UdpVerdict, Udp!Verdict
<1>1. CASE UNCHANGED <<udpPc, outcome, accepted, echoed>>
  BY <1>1
<1>2. CASE udpPc # "done" /\ UNCHANGED outcome
  BY <1>2
<1>3. CASE Udp(r)!Service
  BY <1>1, <1>3, UdpServiceLeaves
<1>4. CASE Udp(r)!ReceiveWritable
  BY <1>2, <1>4, WritableReceived DEF UdpLeft
<1>5. CASE Udp(r)!ReceiveEcho
  BY <1>2, <1>5, EchoReceived DEF UdpLeft
<1>6. CASE Udp(r)!SendUdpDatagram
  BY <1>2, <1>6, SendIs
<1>7. CASE UdpSteps(r)
  <2>1. CASE Udp(r)!Prepare
    BY <1>2, <2>1 DEF Udp!Prepare
  <2>2. CASE Udp(r)!OpenConnectedFlow
    BY <1>2, <2>2 DEF Udp!OpenConnectedFlow
  <2>3. CASE Udp(r)!Abandon
    BY <2>3 DEF Udp!Abandon
  <2>4. CASE Udp(r)!CloseFlows
    BY <2>4 DEF Udp!CloseFlows, Udp!End, Udp!progress
  <2>5. CASE Udp(r)!Wake("waitWritable", "receiveWritable") \/ Udp(r)!Wake("waitEcho", "receiveEcho")
    BY <1>2, <2>5 DEF Udp!Wake
  <2>6. CASE \E wait \in {"waitWritable", "waitEcho"} : Udp(r)!Tick(wait) \/ Udp(r)!TimesOut(wait)
    BY <1>2, <2>6 DEF Udp!Tick, Udp!TimesOut
  <2>. QED
    BY <1>7, <2>1, <2>2, <2>3, <2>4, <2>5, <2>6 DEF UdpSteps
<1>8. CASE UNCHANGED udpVars
  BY <1>1, <1>8 DEF udpVars
<1>. QED
  BY <1>3, <1>4, <1>5, <1>6, <1>7, <1>8, UdpStepKinds

\* A completion in the queue ends the wait for room of the flow of s.
Announced(s) ==
  \E i \in 1..Len(udpCompletions) :
     udpCompletions[i].flow = s % FlowCount /\ udpCompletions[i].type \in {"Writable", "FlowStateChanged"}

\* WakeupNotDropped in terms of the queue, for a flow.
LEMMA WakeupIs ==
  ASSUME NEW r \in BOOLEAN
  PROVE  Udp(r)!WakeupNotDropped <=> (udpPc \in {"waitWritable", "receiveWritable"} /\ udpAlive =>
                                        sequence % FlowCount \in blocked \/ Announced(sequence))
BY DEF Udp!WakeupNotDropped, Udp!Flow, Announced

\* The batch that is thrown away holds no completion that would end the wait, so the
\* Writable that is owed, or the end of the flow, is still queued behind it.
LEMMA WakeupStep ==
  ASSUME NEW r \in BOOLEAN, UdpNet, UdpQueues, Udp(TRUE)!WakeupNotDropped, [Udp(r)!Next]_(Udp(r)!vars)
  PROVE  Udp(TRUE)!WakeupNotDropped'
<1>. DEFINE Waiting == udpPc \in {"waitWritable", "receiveWritable"} /\ udpAlive
            Assured == sequence % FlowCount \in blocked \/ Announced(sequence)
<1>0. (Waiting => Assured) /\ ((Waiting' => Assured') => Udp(TRUE)!WakeupNotDropped')
  BY WakeupIs DEF Announced, Udp!WakeupNotDropped, Udp!Flow
<1>1. CASE UNCHANGED <<sequence, blocked, udpCompletions>> /\ (Waiting' => Waiting)
  BY <1>0, <1>1 DEF Announced
<1>2. CASE Udp(r)!Service
  <2>1. UNCHANGED <<udpPc, sequence>> /\ udpAlive
    BY <1>2, UdpServiceLeaves
  <2>2. ASSUME NEW type \in {"Writable", "Inbound", "FlowStateChanged"}, NEW f \in Udp(TRUE)!Flows,
               NEW n \in Udp(TRUE)!Sequences \cup {0}, type # "Inbound" \/ UNCHANGED blocked,
                 blocked \ {f} \subseteq blocked',
               udpCompletions' = Append(udpCompletions, Udp(r)!Completion(type, f, n)), Assured
        PROVE  Assured'
    <3>1. /\ Len(udpCompletions) \in Nat /\ Len(udpCompletions') = Len(udpCompletions) + 1
          /\ (\A i \in 1..Len(udpCompletions) : udpCompletions'[i] = udpCompletions[i])
          /\ udpCompletions'[Len(udpCompletions) + 1].type = type
          /\ udpCompletions'[Len(udpCompletions) + 1].flow = f
      <4>. DEFINE c == [type |-> type, flow |-> f, sequence |-> n]
      <4>1. c \in Udp(TRUE)!Completions
        BY Zenon, CompletionIs
      <4>2. c.type = type /\ c.flow = f
        OBVIOUS
      <4>3. udpCompletions' = Append(udpCompletions, c)
        BY <2>2 DEF Udp!Completion
      <4>. HIDE DEF c
      <4>. QED
        BY <4>1, <4>2, <4>3, CompletionQueued
    <3>2. CASE Announced(sequence)
      BY <2>1, <3>1, <3>2 DEF Announced
    <3>3. CASE sequence % FlowCount \in blocked'
      BY <2>1, <3>3
    <3>4. CASE sequence % FlowCount = f /\ type # "Inbound"
      <4>1. Len(udpCompletions) + 1 \in 1..Len(udpCompletions')
        BY <3>1
      <4>. QED
        BY <2>1, <3>1, <3>4, <4>1 DEF Announced
    <3>. QED
      BY <2>2, <3>2, <3>3, <3>4
  <2>3. CASE UNCHANGED udpCompletions /\ (UNCHANGED blocked \/ ~udpAlive')
    BY <1>0, <2>1, <2>3 DEF Announced
  <2>4. 0 \in Udp(TRUE)!Sequences \cup {0} /\ \A n \in Udp(TRUE)!Sequences : n % FlowCount \in Udp(TRUE)!Flows
    BY EchoFlow
  <2>. QED
    BY <1>0, <1>2, <2>1, <2>2, <2>3, <2>4, ServiceCompletion
<1>3. CASE Udp(r)!ReceiveWritable
  <2>1. UNCHANGED <<sequence, blocked, udpAlive>> /\ udpPc = "receiveWritable"
    BY <1>3, WritableReceived DEF UdpLeft
  <2>2. CASE UNCHANGED udpCompletions
    BY <1>1, <2>1, <2>2
  <2>3. ASSUME udpCompletions # <<>>, udpCompletions' = Udp(r)!Rest, Waiting', Announced(sequence),
               udpCompletions' # udpCompletions
        PROVE  Announced(sequence)'
    <3>1. PICK i \in 1..Len(udpCompletions) :
            udpCompletions[i].flow = sequence % FlowCount /\ udpCompletions[i].type \in {"Writable",
              "FlowStateChanged"}
      BY <2>3 DEF Announced
    <3>2. \A j \in 1..Taken : ~Udp(r)!EndsWritableWait(udpCompletions[j])
      BY <1>3, <2>3, WritableReceived
    <3>3. Udp(r)!EndsWritableWait(udpCompletions[i])
      BY <3>1 DEF Udp!EndsWritableWait, Udp!Flow
    <3>4. /\ Taken \in 1..Len(udpCompletions) /\ Len(udpCompletions') = Len(udpCompletions) - Taken
          /\ \A j \in 1..Len(udpCompletions') : udpCompletions'[j] = udpCompletions[Taken + j]
      BY <2>3, BatchIs
    <3>5. Len(udpCompletions) \in Nat
      BY LenProperties DEF UdpQueues
    <3>. HIDE DEF Taken
    <3>6. i - Taken \in 1..Len(udpCompletions') /\ Taken + (i - Taken) = i
      BY <3>2, <3>3, <3>4, <3>5
    <3>7. udpCompletions'[i - Taken] = udpCompletions[i]
      BY <3>4, <3>6
    <3>. QED
      BY <2>1, <3>1, <3>6, <3>7 DEF Announced
  <2>. QED
    BY <1>0, <1>3, <2>1, <2>2, <2>3, WritableReceived
<1>4. CASE Udp(r)!ReceiveEcho
  BY <1>0, <1>4, EchoReceived DEF UdpLeaves, Udp!NextDatagram
<1>5. CASE Udp(r)!SendUdpDatagram
  <2>1. Waiting' => UNCHANGED sequence /\ Udp(r)!Flow \in blocked'
    BY <1>5, SendIs DEF UdpLeaves, Udp!NextDatagram
  <2>. QED
    BY <1>0, <2>1 DEF Udp!Flow
<1>6. CASE UdpSteps(r)
  BY <1>1, <1>6, UdpBetween
<1>7. CASE UNCHANGED udpVars
  BY <1>1, <1>7 DEF udpVars
<1>. QED
  BY <1>2, <1>3, <1>4, <1>5, <1>6, <1>7, UdpStepKinds

-----------------------------------------------------------------------------
(* The TCP exchange: its values, and the stream of completions.  What is  *)
(* left of a batch comes before what is still queued: TcpQueue.            *)

\* What the parameters of the TCP exchange are.
LEMMA TcpFacts ==
  ReplySize \in Nat \ {0} /\ BatchSize \in Nat \ {0} /\ Deadline \in Nat \ {0} /\ MaxSent \in Nat
BY TcpParameters DEF Tcp!Parameters

\* Completions of the stream, and what each says.
TcpMessages ==
  {[type |-> "FlowStateChanged", state |-> s] : s \in {"Open", "Closed"}}
  \cup {[type |-> "InboundTcpStream", size |-> n, right |-> b] : n \in 1..MaxSent, b \in BOOLEAN}
OpenState == [type |-> "FlowStateChanged", state |-> "Open"]
SizeOf(c) == IF c.type = "InboundTcpStream" THEN c.size ELSE 0
RightOf(c) == c.type = "InboundTcpStream" => c.right

\* The size and the rightness of a completion.
LEMMA MessageFacts ==
  ASSUME NEW c \in TcpMessages
  PROVE  /\ SizeOf(c) \in Nat /\ (c.type = "InboundTcpStream" => SizeOf(c) > 0 /\ SizeOf(c) = c.size)
         /\ (c = OpenState => SizeOf(c) = 0 /\ RightOf(c))
BY TcpFacts DEF TcpMessages, OpenState, SizeOf, RightOf

\* What the service queues are such completions.
LEMMA MessagesAre ==
  /\ \A a \in BOOLEAN : Tcp(a)!State("Open") \in TcpMessages /\ Tcp(a)!State("Closed") \in TcpMessages
  /\ \A a \in BOOLEAN, n \in 1..MaxSent, b \in BOOLEAN : Tcp(a)!Data(n, b) \in TcpMessages
<1>1. ASSUME NEW a \in BOOLEAN, NEW s \in {"Open", "Closed"} PROVE Tcp(a)!State(s) \in TcpMessages
  <2>1. Tcp(a)!State(s) \in {[type |-> "FlowStateChanged", state |-> x] : x \in {"Open", "Closed"}}
    BY DEF Tcp!State
  <2>. QED
    BY <2>1 DEF TcpMessages
<1>2. ASSUME NEW a \in BOOLEAN, NEW n \in 1..MaxSent, NEW b \in BOOLEAN PROVE Tcp(a)!Data(n, b) \in TcpMessages
  <2>1. Tcp(a)!Data(n, b) \in
          {[type |-> "InboundTcpStream", size |-> x, right |-> y] : x \in 1..MaxSent, y \in BOOLEAN}
    <3>1. Tcp(a)!Data(n, b) = [type |-> "InboundTcpStream", size |-> n, right |-> b]
      BY Zenon DEF Tcp!Data
    <3>2. \E x \in 1..MaxSent, y \in BOOLEAN :
             Tcp(a)!Data(n, b) = [type |-> "InboundTcpStream", size |-> x, right |-> y]
      BY Zenon, <3>1
    <3>. QED
      BY <3>2
  <2>. QED
    BY <2>1 DEF TcpMessages
<1>. QED
  BY Zenon, <1>1, <1>2

\* The type invariant in three parts, and the types of the queues.
TcpTypes ==
  /\ tcpPc \in Tcp(TRUE)!Pcs /\ phase \in {"connect", "reply"} /\ tcpClock \in 0..Deadline
  /\ tcpVerdict \in {"none", "setup", "deadline", "status", "lost", "terminal", "state",
                     "malformed", "premature_eof", "write", "close", "success"}
  /\ tcpEvent \in BOOLEAN /\ tcpAlive \in BOOLEAN /\ tcpPortless \in BOOLEAN
  /\ tcpFlow \in {"none", "connecting", "open", "closed", "released"}
  /\ tcpFailedAt \subseteq Tcp(TRUE)!Pcs
TcpPeer == remoteOpen \in BOOLEAN /\ requested \in BOOLEAN /\ sent \in 0..MaxSent /\ wrong \in BOOLEAN
TcpProgress ==
  progress \in [open: BOOLEAN, remoteClosed: BOOLEAN, malformed: BOOLEAN, size: 0..ReplySize, right: BOOLEAN]
TcpQueues == batch \in Seq(TcpMessages) /\ tcpCompletions \in Seq(TcpMessages)

\* One call fails because the service went, and the closing of the flow after it.
TcpFailures ==
  /\ tcpPc \notin {"release", "done"} => tcpFailedAt = {}
  /\ tcpPc = "release" => \E at \in Tcp(TRUE)!Pcs : tcpFailedAt \subseteq {at}
  /\ \E at \in Tcp(TRUE)!Pcs : tcpFailedAt \subseteq {at, "release"}

\* The type invariant, by groups.
LEMMA TcpTypeIs == Tcp(TRUE)!TypeOK <=> TcpTypes /\ TcpPeer /\ TcpProgress
BY Zenon DEF Tcp!TypeOK, TcpTypes, TcpPeer, TcpProgress

\* What is still to be handled, and how it moves.
TcpQueue == batch \o tcpCompletions
Appended(c) ==
  /\ Len(TcpQueue)' = Len(TcpQueue) + 1 /\ \A i \in 1..Len(TcpQueue) : TcpQueue'[i] = TcpQueue[i]
  /\ TcpQueue'[Len(TcpQueue) + 1] = c
Shifted ==
  /\ Len(TcpQueue) > 0 /\ Len(TcpQueue)' = Len(TcpQueue) - 1
  /\ \A i \in 1..Len(TcpQueue) - 1 : TcpQueue'[i] = TcpQueue[i + 1]
Kept == Len(TcpQueue)' = Len(TcpQueue) /\ \A i \in 1..Len(TcpQueue) : TcpQueue'[i] = TcpQueue[i]

\* What two queues hold one after the other.
LEMMA JoinIs ==
  ASSUME NEW set, NEW b \in Seq(set), NEW t \in Seq(set), NEW q, q = b \o t
  PROVE  /\ Len(b) \in Nat /\ Len(t) \in Nat /\ Len(q) \in Nat
         /\ Len(q) = Len(b) + Len(t) /\ q \in Seq(set)
         /\ \A i \in 1..Len(q) : q[i] = IF i <= Len(b) THEN b[i] ELSE t[i - Len(b)]
         /\ \A i \in 1..Len(q) : q[i] \in set
<1>1. q \in Seq(set) /\ Len(q) = Len(b) + Len(t)
      /\ \A i \in 1..Len(q) : q[i] = IF i <= Len(b) THEN b[i] ELSE t[i - Len(b)]
  BY ONLY ConcatProperties, b \in Seq(set), t \in Seq(set), q = b \o t
<1>2. Len(b) \in Nat /\ Len(t) \in Nat /\ Len(q) \in Nat
  BY ONLY <1>1, LenProperties, b \in Seq(set), t \in Seq(set)
<1>3. \A i \in 1..Len(q) : q[i] \in set
  BY ONLY <1>1, ElementOfSeq
<1>. QED
  BY <1>1, <1>2, <1>3

\* A completion is queued.
LEMMA QueueAppended ==
  ASSUME TcpQueues, NEW c \in TcpMessages, tcpCompletions' = Append(tcpCompletions, c), UNCHANGED batch
  PROVE  TcpQueues' /\ Appended(c)
<1>. DEFINE set == TcpMessages
            queue == TcpQueue
            next == TcpQueue'
            old == tcpCompletions
            new == tcpCompletions'
<1>1. old \in Seq(set) /\ batch \in Seq(set) /\ c \in set /\ new = Append(old, c)
  BY DEF TcpQueues
<1>0. queue = batch \o old /\ next = batch \o new
  BY DEF TcpQueue
<1>. HIDE DEF set, queue, next, old, new
<1>2. /\ new \in Seq(set) /\ Len(old) \in Nat /\ Len(new) = Len(old) + 1
      /\ (\A i \in 1..Len(old) : new[i] = old[i]) /\ new[Len(old) + 1] = c
  BY ONLY <1>1, AppendIs
<1>3. TcpQueues'
  BY <1>1, <1>2 DEF TcpQueues, set, new
<1>4. /\ Len(batch) \in Nat /\ Len(old) \in Nat /\ Len(queue) = Len(batch) + Len(old)
      /\ \A i \in 1..Len(queue) : queue[i] = IF i <= Len(batch) THEN batch[i] ELSE old[i - Len(batch)]
  BY ONLY <1>0, <1>1, JoinIs
<1>5. /\ Len(next) = Len(batch) + Len(new)
      /\ \A i \in 1..Len(next) : next[i] = IF i <= Len(batch) THEN batch[i] ELSE new[i - Len(batch)]
  BY ONLY <1>0, <1>1, <1>2, JoinIs
<1>6. Len(next) = Len(queue) + 1 /\ next[Len(queue) + 1] = c
  BY ONLY <1>2, <1>4, <1>5
<1>7. ASSUME NEW i \in 1..Len(queue) PROVE next[i] = queue[i]
  BY ONLY <1>2, <1>4, <1>5, <1>6, i \in 1..Len(queue)
<1>. QED
  BY <1>3, <1>6, <1>7 DEF Appended, queue, next

\* The head of a batch is handled.
LEMMA QueueShifted ==
  ASSUME TcpQueues, batch # <<>>, batch' = Tail(batch), UNCHANGED tcpCompletions
  PROVE  TcpQueues' /\ Shifted /\ TcpQueue[1] = Head(batch) /\ Head(batch) \in TcpMessages
<1>. DEFINE set == TcpMessages
            queue == TcpQueue
            next == TcpQueue'
            rest == batch'
<1>1. tcpCompletions \in Seq(set) /\ batch \in Seq(set) /\ rest = Tail(batch)
  BY DEF TcpQueues
<1>0. queue = batch \o tcpCompletions /\ next = rest \o tcpCompletions
  BY DEF TcpQueue
<1>. HIDE DEF set, queue, next, rest
<1>2. /\ rest \in Seq(set) /\ Len(rest) = Len(batch) - 1 /\ Len(batch) \in Nat \ {0}
      /\ (\A i \in 1..Len(batch) - 1 : rest[i] = batch[i + 1]) /\ Head(batch) = batch[1] /\ Head(batch) \in set
  <2>1. Len(batch) \in Nat \ {0}
    BY ONLY <1>1, EmptySeq, LenProperties, batch # <<>>
  <2>2. rest \in Seq(set) /\ Len(rest) = Len(batch) - 1 /\ Head(batch) \in set
        /\ \A i \in 1..Len(rest) : rest[i] = batch[i + 1]
    BY ONLY <1>1, HeadTailProperties, batch # <<>>
  <2>. QED
    BY <2>1, <2>2
<1>3. TcpQueues'
  BY <1>1, <1>2 DEF TcpQueues, set, rest
<1>4. /\ Len(tcpCompletions) \in Nat /\ Len(queue) = Len(batch) + Len(tcpCompletions)
      /\ \A i \in 1..Len(queue) : queue[i] = IF i <= Len(batch) THEN batch[i]
           ELSE tcpCompletions[i - Len(batch)]
  BY ONLY <1>0, <1>1, JoinIs
<1>5. /\ Len(next) = Len(rest) + Len(tcpCompletions)
      /\ \A i \in 1..Len(next) : next[i] = IF i <= Len(rest) THEN rest[i] ELSE tcpCompletions[i - Len(rest)]
  BY ONLY <1>0, <1>1, <1>2, JoinIs
<1>6. Len(queue) > 0 /\ Len(next) = Len(queue) - 1 /\ queue[1] = Head(batch)
  BY ONLY <1>2, <1>4, <1>5
<1>7. ASSUME NEW i \in 1..Len(queue) - 1 PROVE next[i] = queue[i + 1]
  <2>1. CASE i <= Len(rest)
    BY ONLY <1>2, <1>4, <1>5, <1>6, <2>1, i \in 1..Len(queue) - 1
  <2>2. CASE ~(i <= Len(rest))
    <3>1. i \in 1..Len(next) /\ i + 1 \in 1..Len(queue) /\ ~(i + 1 <= Len(batch))
            /\ i + 1 - Len(batch) = i - Len(rest)
      BY ONLY <1>2, <1>4, <1>6, <2>2, i \in 1..Len(queue) - 1
    <3>. QED
      BY ONLY <1>4, <1>5, <2>2, <3>1
  <2>. QED
    BY <2>1, <2>2
<1>. QED
  BY <1>2, <1>3, <1>6, <1>7 DEF Shifted, queue, next, set

\* A batch is taken: nothing is lost, nothing overtakes.
LEMMA QueueKept ==
  ASSUME TcpQueues, batch = <<>>, NEW n \in 1..Len(tcpCompletions),
         batch' = SubSeq(tcpCompletions, 1, n),
         tcpCompletions' = SubSeq(tcpCompletions, n + 1, Len(tcpCompletions))
  PROVE  TcpQueues' /\ Kept
<1>. DEFINE set == TcpMessages
            queue == TcpQueue
            next == TcpQueue'
            old == tcpCompletions
            taken == batch'
            left == tcpCompletions'
<1>1. /\ old \in Seq(set) /\ batch \in Seq(set) /\ taken = SubSeq(old, 1, n) /\ n \in 1..Len(old)
      /\ left = SubSeq(old, n + 1, Len(old)) /\ batch = <<>>
  BY DEF TcpQueues
<1>0. queue = batch \o old /\ next = taken \o left
  BY DEF TcpQueue
<1>. HIDE DEF set, queue, next, old, taken, left
<1>2. Len(old) \in Nat /\ Len(batch) = 0 /\ \A i \in 1..Len(old) : old[i] \in set
  BY ONLY <1>1, LenProperties, EmptySeq, ElementOfSeq
<1>3. taken \in Seq(set) /\ Len(taken) = n /\ \A i \in 1..n : taken[i] = old[i]
  <2>1. (\A i \in 1..n : old[i] \in set) /\ 1 \in Int /\ n \in Int
    BY ONLY <1>1, <1>2
  <2>2. SubSeq(old, 1, n) \in Seq(set)
    BY ONLY <2>1, SubSeqProperties
  <2>3. Len(SubSeq(old, 1, n)) = n /\ \A i \in 1..n : SubSeq(old, 1, n)[i] = old[i]
    BY ONLY <1>1, <1>2, <2>1, SubSeqProperties
  <2>. QED
    BY ONLY <1>1, <2>2, <2>3
<1>4. left \in Seq(set) /\ Len(left) = Len(old) - n /\ \A i \in 1..Len(old) - n : left[i] = old[n + i]
  <2>1. (\A i \in n + 1..Len(old) : old[i] \in set) /\ n + 1 \in Int /\ Len(old) \in Int
    BY ONLY <1>1, <1>2
  <2>2. SubSeq(old, n + 1, Len(old)) \in Seq(set)
    BY ONLY <2>1, SubSeqProperties
  <2>3. /\ Len(SubSeq(old, n + 1, Len(old))) = Len(old) - n
        /\ \A i \in 1..Len(old) - n : SubSeq(old, n + 1, Len(old))[i] = old[n + 1 + i - 1]
    BY ONLY <1>1, <1>2, <2>1, SubSeqProperties
  <2>4. \A i \in 1..Len(old) - n : n + 1 + i - 1 = n + i
    BY ONLY <1>1, <1>2
  <2>. QED
    BY ONLY <1>1, <2>2, <2>3, <2>4
<1>5. TcpQueues'
  BY <1>3, <1>4 DEF TcpQueues, set, taken, left
<1>6. /\ Len(queue) = Len(old)
      /\ \A i \in 1..Len(queue) : queue[i] = IF i <= 0 THEN batch[i] ELSE old[i - 0]
  BY ONLY <1>0, <1>1, <1>2, JoinIs
<1>7. /\ Len(next) = n + Len(left)
      /\ \A i \in 1..Len(next) : next[i] = IF i <= n THEN taken[i] ELSE left[i - n]
  <2>1. /\ Len(next) = Len(taken) + Len(left)
        /\ \A i \in 1..Len(next) : next[i] = IF i <= Len(taken) THEN taken[i] ELSE left[i - Len(taken)]
    <3>1. next = taken \o left /\ taken \in Seq(set) /\ left \in Seq(set)
      BY ONLY <1>0, <1>3, <1>4
    <3>. QED
      BY ONLY <3>1, JoinIs
  <2>. QED
    BY ONLY <1>3, <2>1
<1>8. Len(next) = Len(queue)
  BY ONLY <1>1, <1>2, <1>4, <1>6, <1>7
<1>9. ASSUME NEW i \in 1..Len(queue) PROVE next[i] = queue[i]
  <2>1. CASE i <= n
    BY ONLY <1>1, <1>2, <1>3, <1>6, <1>7, <1>8, <2>1, i \in 1..Len(queue)
  <2>2. CASE ~(i <= n)
    <3>1. i - n \in 1..Len(old) - n /\ n + (i - n) = i /\ queue[i] = old[i]
      BY ONLY <1>1, <1>2, <1>6, <2>2, i \in 1..Len(queue)
    <3>. QED
      BY ONLY <1>4, <1>7, <1>8, <2>2, <3>1, i \in 1..Len(queue)
  <2>. QED
    BY <2>1, <2>2
<1>. QED
  BY <1>5, <1>8, <1>9 DEF Kept, queue, next

-----------------------------------------------------------------------------
(* The TCP exchange: where it is, and the kinds of its steps. *)

NoProgress == [open |-> FALSE, remoteClosed |-> FALSE, malformed |-> FALSE, size |-> 0, right |-> TRUE]

\* What goes with the place the exchange is at.
TcpStage ==
  /\ tcpPc \notin {"handle", "release", "done"} => batch = <<>>
  /\ tcpPc \in {"prepare", "open"} => tcpFlow = "none" /\ progress = NoProgress
  /\ phase = "connect" => progress.size = 0 /\ progress.right /\ ~progress.malformed
                          /\ (requested => tcpPc \in {"shutdown", "release", "done"})
  /\ phase = "reply" => requested
  /\ requested => tcpFlow \notin {"none", "connecting"}
  /\ ~requested => sent = 0 /\ ~wrong
  /\ tcpPc \in {"prepare", "open", "check", "write", "shutdown"} => phase = "connect"
  /\ tcpPc \in {"check", "write"} => progress.open
  /\ tcpPc = "close" => phase = "reply"
  /\ tcpPc = "shutdown" => requested

StreamLeft == UNCHANGED <<requested, sent, wrong, remoteOpen>>
\* Steps that move no completion and learn nothing of the stream.
Quiet ==
  /\ UNCHANGED <<batch, tcpCompletions, progress, phase>> /\ StreamLeft
  /\ tcpFlow' = tcpFlow \/ (tcpPc = "open" /\ tcpPc' # "open" /\ tcpFlow' = "connecting")
       \/ (tcpPc' = "done" /\ tcpFlow' = "released")
  /\ \/ tcpPc' = tcpPc \/ tcpPc' \in {"release", "done"} \/ (tcpPc = "prepare" /\ tcpPc' = "open")
     \/ (tcpPc = "open" /\ tcpPc' = "wait") \/ (tcpPc \in {"wait", "receive"} /\ tcpPc' \in {"wait", "receive"})
     \/ (tcpPc = "check" /\ tcpPc' = "write")
  /\ \/ tcpVerdict' = tcpVerdict \/ tcpVerdict' \notin {"malformed", "premature_eof", "success"}
     \/ (tcpVerdict' = "success" /\ tcpPc = "close")

\* A completion arrives.
Arrives ==
  /\ UNCHANGED <<batch, progress, phase, requested, tcpPc, tcpVerdict>>
  /\ \E c \in TcpMessages :
       /\ tcpCompletions' = Append(tcpCompletions, c)
       /\ \/ /\ c = OpenState /\ tcpFlow = "connecting" /\ tcpFlow' = "open" /\ remoteOpen' = TRUE
             /\ UNCHANGED <<sent, wrong>>
          \/ /\ c.type = "InboundTcpStream" /\ tcpFlow = "open" /\ requested /\ remoteOpen
             /\ sent' = sent + SizeOf(c) /\ (wrong' <=> wrong \/ ~RightOf(c))
             /\ UNCHANGED <<tcpFlow, remoteOpen>>
          \/ /\ c = OpenState /\ requested /\ remoteOpen' = FALSE /\ UNCHANGED <<tcpFlow, sent, wrong>>
          \/ /\ c.type # "InboundTcpStream" /\ c # OpenState /\ tcpFlow \in {"connecting", "open"}
             /\ tcpFlow' = "closed" /\ remoteOpen' = FALSE /\ UNCHANGED <<sent, wrong>>

\* ReceiveCompletions takes a batch.
Takes ==
  /\ tcpPc = "receive" /\ tcpPc' = "handle" /\ UNCHANGED <<progress, phase, tcpVerdict, tcpFlow>> /\ StreamLeft
  /\ \E n \in 1..Len(tcpCompletions) :
       /\ batch' = SubSeq(tcpCompletions, 1, n)
       /\ tcpCompletions' = SubSeq(tcpCompletions, n + 1, Len(tcpCompletions))

\* The first completion of the batch is handled.
Handles ==
  /\ tcpPc = "handle" /\ batch # <<>> /\ batch' = Tail(batch)
  /\ UNCHANGED <<tcpPc, tcpCompletions, phase, tcpVerdict, tcpFlow>> /\ StreamLeft
  /\ \/ /\ Head(batch) = OpenState
        /\ progress' = [progress EXCEPT !.open = TRUE, !.remoteClosed = ~remoteOpen]
     \/ /\ Head(batch).type = "InboundTcpStream"
        /\ progress' = IF progress.size + Head(batch).size > ReplySize
                       THEN [progress EXCEPT !.malformed = TRUE]
                       ELSE [progress EXCEPT !.size = @ + Head(batch).size, !.right = @ /\ Head(batch).right]

\* The batch is handled: the wait ends, or goes on.
Judges ==
  /\ tcpPc = "handle" /\ batch = <<>> /\ UNCHANGED <<batch, tcpCompletions, phase, tcpFlow>> /\ StreamLeft
  /\ progress' = [progress EXCEPT !.malformed = Tcp(TRUE)!Malformed]
  /\ \/ Tcp(TRUE)!Malformed /\ tcpPc' = "release" /\ tcpVerdict' = "malformed"
     \/ /\ ~Tcp(TRUE)!Malformed /\ phase = "reply" /\ progress.remoteClosed /\ ~Tcp(TRUE)!ReplyValid
        /\ tcpPc' = "release" /\ tcpVerdict' = "premature_eof"
     \/ ~Tcp(TRUE)!Malformed /\ tcpPc' = "receive" /\ UNCHANGED tcpVerdict
     \/ /\ ~Tcp(TRUE)!Malformed /\ phase = "connect" /\ progress.open /\ tcpPc' = "check"
             /\ UNCHANGED tcpVerdict
     \/ /\ ~Tcp(TRUE)!Malformed /\ phase # "connect" /\ progress.remoteClosed /\ Tcp(TRUE)!ReplyValid
        /\ tcpPc' = "close" /\ UNCHANGED tcpVerdict

\* The request is written.
Writes ==
  /\ tcpPc = "write" /\ tcpPc' = "shutdown" /\ tcpFlow = "open" /\ requested'
  /\ UNCHANGED <<batch, tcpCompletions, progress, phase, tcpVerdict, tcpFlow, sent, wrong, remoteOpen>>

\* The own side is closed, and the wait for the reply begins.
Replies ==
  /\ tcpPc = "shutdown" /\ tcpPc' = "wait" /\ tcpFlow = "open" /\ phase' = "reply" /\ progress' = NoProgress
  /\ batch' = <<>> /\ UNCHANGED <<tcpVerdict, tcpFlow>> /\ StreamLeft
  /\ \/ UNCHANGED tcpCompletions
     \/ scenario # "tcp" /\ tcpCompletions' = Append(tcpCompletions, OpenState)

\* Every step of the exchange or of its service is of one of these kinds.
LEMMA StreamSteps ==
  ASSUME NEW a \in BOOLEAN, a <=> scenario # "tcp", TcpPeer, TcpQueues, TcpStage, [Tcp(a)!Next]_(Tcp(a)!vars)
  PROVE  Quiet \/ Arrives \/ Takes \/ Handles \/ Judges \/ Writes \/ Replies
<1>. USE DEF Tcp!service, StreamLeft
<1>0. ASSUME NEW why, Tcp(a)!GiveUp(why), why \notin {"malformed", "premature_eof", "success"} PROVE Quiet
  BY <1>0 DEF Tcp!GiveUp, Quiet
<1>1. CASE Tcp(a)!Service
  <2>1. UNCHANGED <<batch, progress, phase, tcpPc, tcpVerdict>>
    BY <1>1 DEF Tcp!Service
  <2>2. CASE Tcp(a)!Establish
    <3>1. Tcp(a)!State("Open") = OpenState /\ Tcp(a)!State("Open") \in TcpMessages
      BY MessagesAre DEF Tcp!State, OpenState
    <3>2. /\ OpenState \in TcpMessages /\ tcpCompletions' = Append(tcpCompletions, OpenState)
          /\ tcpFlow = "connecting" /\ tcpFlow' = "open" /\ remoteOpen' = TRUE /\ UNCHANGED <<sent, wrong,
               requested>>
      BY <2>2, <3>1 DEF Tcp!Establish
    <3>. QED
      BY <2>1, <3>2 DEF Arrives
  <2>3. CASE Tcp(a)!PeerCloses
    <3>1. Tcp(a)!State("Open") = OpenState /\ Tcp(a)!State("Open") \in TcpMessages
      BY MessagesAre DEF Tcp!State, OpenState
    <3>2. /\ OpenState \in TcpMessages /\ tcpCompletions' = Append(tcpCompletions, OpenState)
          /\ requested /\ remoteOpen' = FALSE /\ UNCHANGED <<tcpFlow, sent, wrong, requested>>
      BY <2>3, <3>1 DEF Tcp!PeerCloses
    <3>. QED
      BY <2>1, <3>2 DEF Arrives
  <2>4. CASE Tcp(a)!FlowEnds
    <3>. DEFINE c == Tcp(a)!State("Closed")
    <3>1. c.type # "InboundTcpStream" /\ c # OpenState /\ c \in TcpMessages
      BY MessagesAre DEF Tcp!State, OpenState
    <3>2. /\ tcpCompletions' = Append(tcpCompletions, c) /\ tcpFlow \in {"connecting", "open"}
          /\ tcpFlow' = "closed" /\ remoteOpen' = FALSE /\ UNCHANGED <<sent, wrong, requested>>
      BY <2>4 DEF Tcp!FlowEnds
    <3>. HIDE DEF c
    <3>. QED
      BY <2>1, <3>1, <3>2 DEF Arrives
  <2>5. ASSUME NEW n \in 1..MaxSent, NEW b \in BOOLEAN, Tcp(a)!PeerSends(n, b) PROVE Arrives
    <3>. DEFINE c == Tcp(a)!Data(n, b)
    <3>1. c.type = "InboundTcpStream" /\ SizeOf(c) = n /\ (RightOf(c) <=> b) /\ c \in TcpMessages
      BY MessagesAre DEF Tcp!Data, SizeOf, RightOf
    <3>2. /\ tcpCompletions' = Append(tcpCompletions, c) /\ tcpFlow = "open" /\ requested /\ remoteOpen
          /\ sent' = sent + n /\ wrong' = (wrong \/ ~b) /\ UNCHANGED <<tcpFlow, remoteOpen, requested>>
      BY <2>5 DEF Tcp!PeerSends
    <3>. HIDE DEF c
    <3>. QED
      BY <2>1, <3>1, <3>2 DEF Arrives
  <2>6. CASE Tcp(a)!Shutdown
    BY <2>1, <2>6 DEF Tcp!Shutdown, Quiet
  <2>. QED
    BY <1>1, <2>2, <2>3, <2>4, <2>5, <2>6 DEF Tcp!Service
<1>2. CASE Tcp(a)!Prepare
  BY <1>2 DEF Tcp!Prepare, Quiet
<1>3. CASE Tcp(a)!OpenConnectedFlow
  BY <1>3 DEF Tcp!OpenConnectedFlow, Tcp!StartWait, Tcp!NoProgress, NoProgress, TcpStage, Quiet
<1>4. CASE Tcp(a)!Wake \/ Tcp(a)!Tick \/ Tcp(a)!TimesOut
  BY <1>4 DEF Tcp!Wake, Tcp!Tick, Tcp!TimesOut, Quiet
<1>5. CASE Tcp(a)!ReceiveCompletions
  <2>1. CASE Tcp(a)!GiveUp(IF tcpAlive THEN "status" ELSE "lost")
    BY <1>0, <2>1
  <2>2. ASSUME tcpPc = "receive", (tcpPc' = "wait" /\ UNCHANGED tcpVerdict) \/ (tcpPc' = "release"
                 /\ tcpVerdict' = "deadline"),
               UNCHANGED <<phase, batch, progress, Tcp(a)!service>>
        PROVE  Quiet
    BY <2>2 DEF Quiet
  <2>3. ASSUME tcpPc = "receive", tcpAlive, tcpCompletions # <<>>,
               LET n == IF Len(tcpCompletions) < BatchSize THEN Len(tcpCompletions) ELSE BatchSize
               IN batch' = SubSeq(tcpCompletions, 1, n) /\ tcpCompletions' = SubSeq(tcpCompletions, n + 1,
                 Len(tcpCompletions)),
               tcpPc' = "handle", UNCHANGED <<phase, progress, tcpVerdict, tcpFlow, remoteOpen, requested,
                 sent, wrong>>
        PROVE  Takes
    <3>. DEFINE n == IF Len(tcpCompletions) < BatchSize THEN Len(tcpCompletions) ELSE BatchSize
    <3>1. Len(tcpCompletions) \in Nat \ {0}
      BY <2>3, EmptySeq DEF TcpQueues
    <3>2. n \in 1..Len(tcpCompletions)
      BY <3>1, TcpFacts
    <3>. QED
      BY <2>3, <3>2 DEF Takes
  <2>. QED
    BY <1>5, <2>1, <2>2, <2>3 DEF Tcp!ReceiveCompletions
<1>6. CASE Tcp(a)!HandleCompletion
  <2>1. CASE Tcp(a)!GiveUp("state")
    BY <1>0, <2>1
  <2>1a. CASE tcpVerdict' = "terminal" /\ tcpPc' = "release" /\ UNCHANGED <<phase, batch, progress, Tcp(a)!service>>
    BY <2>1a DEF Quiet
  <2>2. Tcp(a)!State("Open") = OpenState
    BY DEF Tcp!State, OpenState
  <2>3. Tcp(a)!Collect(Head(batch)) =
          IF progress.size + Head(batch).size > ReplySize
          THEN [progress EXCEPT !.malformed = TRUE]
          ELSE [progress EXCEPT !.size = @ + Head(batch).size, !.right = @ /\ Head(batch).right]
    BY DEF Tcp!Collect
  <2>. QED
    BY <1>6, <2>1, <2>1a, <2>2, <2>3 DEF Tcp!HandleCompletion, Handles
<1>7. CASE Tcp(a)!Evaluate
  <2>1. (Tcp(a)!Malformed <=> Tcp(TRUE)!Malformed) /\ (Tcp(a)!ReplyValid <=> Tcp(TRUE)!ReplyValid)
    BY DEF Tcp!Malformed, Tcp!ReplyValid
  <2>2. Tcp(a)!Malformed = Tcp(TRUE)!Malformed
    BY Zenon DEF Tcp!Malformed, Tcp!ReplyValid
  <2>3. progress' = [progress EXCEPT !.malformed = Tcp(TRUE)!Malformed]
    BY Zenon, <1>7, <2>2 DEF Tcp!Evaluate
  <2>4. UNCHANGED <<batch, tcpCompletions, phase, tcpFlow>> /\ StreamLeft /\ tcpPc = "handle" /\ batch = <<>>
    BY <1>7 DEF Tcp!Evaluate
  <2>. QED
    BY <1>7, <2>1, <2>3, <2>4 DEF Tcp!Evaluate, Tcp!Complete, Judges
<1>8. CASE Tcp(a)!CheckOpen
  BY <1>0, <1>8 DEF Tcp!CheckOpen, Quiet
<1>9. CASE Tcp(a)!WriteTcpStream
  BY <1>0, <1>9 DEF Tcp!WriteTcpStream, Writes
<1>10. CASE Tcp(a)!ShutdownTcpWrite
  BY <1>0, <1>10 DEF Tcp!ShutdownTcpWrite, Tcp!StartWait, Tcp!NoProgress, NoProgress, Tcp!State, OpenState,
       Replies
<1>11. CASE Tcp(a)!CloseFlow \/ Tcp(a)!Release
  BY <1>11 DEF Tcp!CloseFlow, Tcp!Release, Tcp!ReleaseFlow, Quiet
<1>12. CASE UNCHANGED Tcp(a)!vars
  BY <1>12 DEF Tcp!vars, Quiet
<1>. QED
  BY <1>1, <1>2, <1>3, <1>4, <1>5, <1>6, <1>7, <1>8, <1>9, <1>10, <1>11, <1>12 DEF Tcp!Next, Tcp!Exchange

-----------------------------------------------------------------------------
(* The TCP exchange: the stream adds up.  S[i] is what was collected once  *)
(* the first i completions of TcpQueue are handled, and i is in R when it   *)
(* was all right; at the end of the queue that is what the peer has sent.   *)
(* A step of the stream moves these sums by one place, so nothing has to be *)
(* summed up by induction.                                                  *)

Tally(S, R) ==
  /\ S \in [0..Len(TcpQueue) -> Nat] /\ R \subseteq 0..Len(TcpQueue)
  /\ S[0] = progress.size /\ (0 \in R <=> progress.right)
  /\ S[Len(TcpQueue)] = sent /\ (Len(TcpQueue) \in R <=> ~wrong)
  /\ \A i \in 0..Len(TcpQueue) : S[i] <= sent /\ (i \notin R => wrong)
  /\ \A i \in 1..Len(TcpQueue) :
        S[i] = S[i - 1] + SizeOf(TcpQueue[i]) /\ (i \in R <=> i - 1 \in R /\ RightOf(TcpQueue[i]))
  /\ scenario = "tcp" /\ requested =>
       \A i \in 1..Len(TcpQueue) : TcpQueue[i] = OpenState => S[i] = sent /\ (i \in R <=> ~wrong)

TcpTally == ~progress.malformed => \E S, R : Tally(S, R)

OpenQueued == \E i \in 1..Len(TcpQueue) : TcpQueue[i] = OpenState
\* Open states in the queue: of the connection, or of the close of the peer.
TcpOpens ==
  /\ tcpFlow \in {"none", "connecting"} => ~progress.open /\ ~OpenQueued
  /\ ~requested =>
       /\ progress.open => ~OpenQueued
       /\ \A i, j \in 1..Len(TcpQueue) : TcpQueue[i] = OpenState /\ TcpQueue[j] = OpenState => i = j
  /\ scenario = "tcp" /\ requested /\ OpenQueued => ~remoteOpen

\* Once the close of the peer is collected, so is all that it sent.
TcpClosed ==
  phase = "reply" /\ progress.remoteClosed =>
    /\ ~remoteOpen
    /\ scenario = "tcp" /\ ~progress.malformed => progress.size = sent /\ (progress.right <=> ~wrong)

\* The verdict, and what it rests on.
TcpVerdicts ==
  /\ progress.malformed => wrong \/ sent > ReplySize
  /\ tcpVerdict = "malformed" => wrong \/ sent > ReplySize
  /\ tcpPc = "close" \/ tcpVerdict \in {"success", "premature_eof"} => requested /\ ~remoteOpen
  /\ scenario = "tcp" /\ (tcpPc = "close" \/ tcpVerdict = "success") => sent = ReplySize /\ ~wrong
  /\ scenario = "tcp" /\ tcpVerdict = "premature_eof" => sent < ReplySize

\* The sums go on when a completion arrives: the last one is again what was sent.
LEMMA TallyAppended ==
  ASSUME NEW S, NEW R, Tally(S, R), TcpPeer, TcpPeer', Len(TcpQueue) \in Nat, NEW c, Appended(c),
           SizeOf(c) \in Nat,
         UNCHANGED <<scenario, requested>>, progress.size' = progress.size, progress.right' <=> progress.right,
         sent' = sent + SizeOf(c), wrong' <=> wrong \/ ~RightOf(c),
         c = OpenState => SizeOf(c) = 0 /\ RightOf(c),
         scenario = "tcp" /\ requested /\ OpenQueued => SizeOf(c) = 0 /\ RightOf(c)
  PROVE  \E T, Q : Tally(T, Q)'
<1>. DEFINE n == Len(TcpQueue)
<1>10. PICK T : T = [i \in 0..n + 1 |-> IF i = n + 1 THEN sent' ELSE S[i]]
  OBVIOUS
<1>11. PICK Q : Q = R \cup {i \in {n + 1} : ~wrong'}
  OBVIOUS
<1>. USE <1>10, <1>11
<1>1. n \in Nat /\ Len(TcpQueue)' = n + 1
  BY DEF Appended
<1>2. T \in [0..n + 1 -> Nat] /\ Q \subseteq 0..n + 1 /\ n + 1 \notin R
  <2>1. S \in [0..n -> Nat] /\ R \subseteq 0..n /\ sent' \in Nat
    BY TcpFacts DEF Tally, TcpPeer
  <2>. HIDE DEF n
  <2>2. ASSUME NEW i \in 0..n + 1 PROVE T[i] \in Nat
    BY <1>1, <2>1, <2>2
  <2>3. T \in [0..n + 1 -> Nat]
    BY <2>2
  <2>. QED
    <3>1. Q \subseteq 0..n + 1
      <4>. SUFFICES ASSUME NEW i \in Q PROVE i \in 0..n + 1
        OBVIOUS
      <4>. QED
        BY ONLY <1>1, <2>1, <1>11, i \in Q
    <3>2. n + 1 \notin R
      BY ONLY <1>1, <2>1
    <3>. QED
      BY ONLY <2>3, <3>1, <3>2
<1>3. T[0] = progress.size' /\ (0 \in Q <=> progress.right')
  BY <1>1 DEF Tally
<1>4. T[n + 1] = sent' /\ (n + 1 \in Q <=> ~wrong')
  BY <1>1, <1>2
<1>5. sent \in Nat /\ sent' \in Nat /\ sent <= sent' /\ (wrong => wrong')
  BY TcpFacts DEF TcpPeer
<1>6. ASSUME NEW i \in 0..n + 1 PROVE T[i] <= sent' /\ (i \notin Q => wrong')
  BY <1>1, <1>2, <1>5 DEF Tally
<1>7. ASSUME NEW i \in 1..n + 1
      PROVE  T[i] = T[i - 1] + SizeOf(TcpQueue'[i]) /\ (i \in Q <=> i - 1 \in Q /\ RightOf(TcpQueue'[i]))
  <2>1. CASE i \in 1..n
    <3>1. TcpQueue'[i] = TcpQueue[i] /\ T[i] = S[i] /\ T[i - 1] = S[i - 1] /\ i # n + 1 /\ i - 1 # n + 1
      BY <1>1, <2>1 DEF Appended
    <3>2. S[i] = S[i - 1] + SizeOf(TcpQueue[i]) /\ (i \in R <=> i - 1 \in R /\ RightOf(TcpQueue[i]))
      BY <2>1 DEF Tally
    <3>. QED
      BY <3>1, <3>2
  <2>2. CASE i = n + 1
    <3>1. TcpQueue'[i] = c /\ T[i] = sent' /\ T[i - 1] = S[n] /\ S[n] = sent /\ i - 1 = n /\ n # n + 1
      BY <1>1, <2>2 DEF Appended, Tally
    <3>2. (n \in R <=> ~wrong) /\ (i \in Q <=> ~wrong') /\ (i - 1 \in Q <=> n \in R)
      BY <1>1, <1>2, <2>2, <3>1 DEF Tally
    <3>. QED
      BY <3>1, <3>2
  <2>. QED
    BY <1>1, <2>1, <2>2
<1>8. ASSUME scenario' = "tcp", requested', NEW i \in 1..n + 1, TcpQueue'[i] = OpenState
      PROVE  T[i] = sent' /\ (i \in Q <=> ~wrong')
  <2>1. CASE i = n + 1
    BY <1>4, <2>1
  <2>2. CASE i \in 1..n
    <3>1. TcpQueue[i] = OpenState /\ i # n + 1 /\ T[i] = S[i]
      BY <1>1, <1>8, <2>2 DEF Appended
    <3>2. S[i] = sent /\ (i \in R <=> ~wrong) /\ OpenQueued
      BY <1>8, <2>2, <3>1 DEF Tally, OpenQueued
    <3>. QED
      BY <1>5, <1>8, <2>2, <3>1, <3>2
  <2>. QED
    BY <1>1, <1>8, <2>1, <2>2
<1>. HIDE <1>10, <1>11
<1>9. Tally(T, Q)'
  <2>. DEFINE m == Len(TcpQueue)'
  <2>1. m = n + 1
    BY <1>1
  <2>. HIDE DEF m, n
  <2>2. T \in [0..m -> Nat] /\ Q \subseteq 0..m
    BY ONLY <1>2, <2>1
  <2>3. T[m] = sent' /\ (m \in Q <=> ~wrong')
    BY ONLY <1>4, <2>1
  <2>4. \A i \in 0..m : T[i] <= sent' /\ (i \notin Q => wrong')
    BY ONLY <1>6, <2>1
  <2>5. \A i \in 1..m :
          T[i] = T[i - 1] + SizeOf(TcpQueue'[i]) /\ (i \in Q <=> i - 1 \in Q /\ RightOf(TcpQueue'[i]))
    BY ONLY <1>7, <2>1
  <2>6. scenario' = "tcp" /\ requested' =>
          \A i \in 1..m : TcpQueue'[i] = OpenState => T[i] = sent' /\ (i \in Q <=> ~wrong')
    BY ONLY <1>8, <2>1
  <2>. QED
    BY Zenon, <1>3, <2>2, <2>3, <2>4, <2>5, <2>6 DEF Tally, m
<1>. QED
  BY <1>9

\* They lose their first place when the first completion is handled.
LEMMA TallyShifted ==
  ASSUME NEW S, NEW R, Tally(S, R), Len(TcpQueue) \in Nat, Shifted,
         UNCHANGED <<scenario, requested, sent, wrong>>,
         progress.size' = S[1], progress.right' <=> 1 \in R
  PROVE  \E T, Q : Tally(T, Q)'
<1>. DEFINE n == Len(TcpQueue)
<1>10. PICK T : T = [i \in 0..n - 1 |-> S[i + 1]]
  OBVIOUS
<1>11. PICK Q : Q = {i \in 0..n - 1 : i + 1 \in R}
  OBVIOUS
<1>. USE <1>10, <1>11
<1>1. n \in Nat \ {0} /\ Len(TcpQueue)' = n - 1
  BY DEF Shifted
<1>2. T \in [0..n - 1 -> Nat] /\ Q \subseteq 0..n - 1
  BY <1>1 DEF Tally
<1>3. T[0] = progress.size' /\ (0 \in Q <=> progress.right')
  BY <1>1
<1>4. T[n - 1] = sent' /\ (n - 1 \in Q <=> ~wrong')
  BY <1>1 DEF Tally
<1>6. ASSUME NEW i \in 0..n - 1 PROVE T[i] <= sent' /\ (i \notin Q => wrong')
  <2>1. i + 1 \in 0..n
    BY <1>1
  <2>2. T[i] = S[i + 1] /\ (i \in Q <=> i + 1 \in R)
    BY <1>1
  <2>3. S[i + 1] <= sent /\ (i + 1 \notin R => wrong)
    <3>1. \A j \in 0..n : S[j] <= sent /\ (j \notin R => wrong)
      BY DEF Tally
    <3>. QED
      BY ONLY <2>1, <3>1
  <2>. QED
    BY <2>2, <2>3
<1>7. ASSUME NEW i \in 1..n - 1
      PROVE  T[i] = T[i - 1] + SizeOf(TcpQueue'[i]) /\ (i \in Q <=> i - 1 \in Q /\ RightOf(TcpQueue'[i]))
  <2>1. TcpQueue'[i] = TcpQueue[i + 1] /\ T[i] = S[i + 1] /\ T[i - 1] = S[i] /\ i + 1 \in 1..n
    BY <1>1 DEF Shifted
  <2>2. S[i + 1] = S[i + 1 - 1] + SizeOf(TcpQueue[i + 1]) /\ (i + 1 \in R <=> i + 1 - 1 \in R
          /\ RightOf(TcpQueue[i + 1]))
    BY ONLY <2>1, Tally(S, R) DEF Tally
  <2>. QED
    BY <1>1, <2>1, <2>2
<1>8. ASSUME scenario' = "tcp", requested', NEW i \in 1..n - 1, TcpQueue'[i] = OpenState
      PROVE  T[i] = sent' /\ (i \in Q <=> ~wrong')
  <2>1. TcpQueue'[i] = TcpQueue[i + 1] /\ T[i] = S[i + 1] /\ i + 1 \in 1..n
    BY <1>1 DEF Shifted
  <2>. QED
    BY <1>1, <1>8, <2>1 DEF Tally
<1>. HIDE <1>10, <1>11
<1>9. Tally(T, Q)'
  <2>. DEFINE m == Len(TcpQueue)'
  <2>1. m = n - 1
    BY <1>1
  <2>. HIDE DEF m, n
  <2>2. T \in [0..m -> Nat] /\ Q \subseteq 0..m
    BY ONLY <1>2, <2>1
  <2>3. T[m] = sent' /\ (m \in Q <=> ~wrong')
    BY ONLY <1>4, <2>1
  <2>4. \A i \in 0..m : T[i] <= sent' /\ (i \notin Q => wrong')
    BY ONLY <1>6, <2>1
  <2>5. \A i \in 1..m :
          T[i] = T[i - 1] + SizeOf(TcpQueue'[i]) /\ (i \in Q <=> i - 1 \in Q /\ RightOf(TcpQueue'[i]))
    BY ONLY <1>7, <2>1
  <2>6. scenario' = "tcp" /\ requested' =>
          \A i \in 1..m : TcpQueue'[i] = OpenState => T[i] = sent' /\ (i \in Q <=> ~wrong')
    BY ONLY <1>8, <2>1
  <2>. QED
    BY Zenon, <1>3, <2>2, <2>3, <2>4, <2>5, <2>6 DEF Tally, m
<1>. QED
  BY <1>9

\* The queue and what is left of a batch stay what they are.
LEMMA TallyKept ==
  ASSUME NEW S, NEW R, Tally(S, R), Len(TcpQueue) \in Nat, Kept, UNCHANGED <<scenario, sent, wrong>>,
         progress.size' = progress.size, progress.right' <=> progress.right,
         scenario = "tcp" /\ requested' => requested \/ ~OpenQueued
  PROVE  Tally(S, R)'
<1>1. Len(TcpQueue)' = Len(TcpQueue) /\ \A i \in 1..Len(TcpQueue) : TcpQueue'[i] = TcpQueue[i]
  BY DEF Kept
<1>. QED
  BY <1>1 DEF Tally, OpenQueued

\* Nothing moves when neither queue changes.
LEMMA KeptIs == ASSUME UNCHANGED <<batch, tcpCompletions>> PROVE Kept
BY DEF Kept, TcpQueue

-----------------------------------------------------------------------------
(* The TCP exchange: how its steps move the queue. *)

StreamStep == Quiet \/ Arrives \/ Takes \/ Handles \/ Judges \/ Writes \/ Replies

\* An Open state is a completion.
LEMMA OpenIsMessage == OpenState \in TcpMessages
BY DEF OpenState, TcpMessages

\* How each kind of step moves the queue.
LEMMA QueueMoves ==
  ASSUME TcpQueues, TcpStage, StreamStep
  PROVE  /\ TcpQueues' /\ Len(TcpQueue) \in Nat /\ \A i \in 1..Len(TcpQueue) : TcpQueue[i] \in TcpMessages
         /\ Quiet \/ Takes \/ Judges \/ Writes => Kept
         /\ Handles => Shifted /\ TcpQueue[1] = Head(batch) /\ Head(batch) \in TcpMessages
         /\ Replies => Kept \/ (scenario # "tcp" /\ Appended(OpenState))
         /\ \A c \in TcpMessages : tcpCompletions' = Append(tcpCompletions, c) /\ UNCHANGED batch => Appended(c)
<1>0. Len(TcpQueue) \in Nat /\ \A i \in 1..Len(TcpQueue) : TcpQueue[i] \in TcpMessages
  <2>. DEFINE set == TcpMessages
  <2>1. batch \in Seq(set) /\ tcpCompletions \in Seq(set)
    BY DEF TcpQueues
  <2>. HIDE DEF set
  <2>2. Len(TcpQueue) \in Nat /\ \A i \in 1..Len(TcpQueue) : TcpQueue[i] \in set
    BY ONLY <2>1, JoinIs, TcpQueue = TcpQueue DEF TcpQueue
  <2>. QED
    BY <2>2 DEF set
<1>1. UNCHANGED <<batch, tcpCompletions>> => TcpQueues' /\ Kept
  BY KeptIs DEF TcpQueues
<1>2. Quiet \/ Judges \/ Writes => TcpQueues' /\ Kept
  BY <1>1 DEF Quiet, Judges, Writes
<1>3. \A c \in TcpMessages : tcpCompletions' = Append(tcpCompletions, c) /\ UNCHANGED batch => TcpQueues'
        /\ Appended(c)
  BY QueueAppended
<1>4. Arrives => TcpQueues'
  BY <1>3 DEF Arrives
<1>5. Takes => TcpQueues' /\ Kept
  <2>. SUFFICES ASSUME Takes PROVE TcpQueues' /\ Kept
    OBVIOUS
  <2>1. batch = <<>>
    BY DEF Takes, TcpStage
  <2>. QED
    BY <2>1, QueueKept DEF Takes
<1>6. Handles => TcpQueues' /\ Shifted /\ TcpQueue[1] = Head(batch) /\ Head(batch) \in TcpMessages
  BY QueueShifted DEF Handles
<1>7. Replies => TcpQueues' /\ (Kept \/ (scenario # "tcp" /\ Appended(OpenState)))
  <2>. SUFFICES ASSUME Replies PROVE TcpQueues' /\ (Kept \/ (scenario # "tcp" /\ Appended(OpenState)))
    OBVIOUS
  <2>1. UNCHANGED batch
    BY DEF Replies, TcpStage
  <2>. QED
    BY <1>1, <1>3, <2>1, OpenIsMessage DEF Replies
<1>. QED
  BY <1>0, <1>2, <1>3, <1>4, <1>5, <1>6, <1>7 DEF StreamStep

\* What the first completion of a batch adds.
LEMMA FirstCounts ==
  ASSUME TcpQueues, TcpProgress, NEW S, NEW R, Tally(S, R), Len(TcpQueue) \in Nat \ {0}
  PROVE  /\ S[1] = progress.size + SizeOf(TcpQueue[1]) /\ S[1] <= sent
         /\ 1 \in R <=> progress.right /\ RightOf(TcpQueue[1])
         /\ 1 \notin R => wrong
<1>. DEFINE n == Len(TcpQueue)
<1>1. 1 \in 1..n /\ 1 \in 0..n /\ 1 - 1 = 0
  OBVIOUS
<1>2. /\ \A i \in 0..n : S[i] <= sent /\ (i \notin R => wrong)
      /\ \A i \in 1..n :
           S[i] = S[i - 1] + SizeOf(TcpQueue[i]) /\ (i \in R <=> i - 1 \in R /\ RightOf(TcpQueue[i]))
      /\ S[0] = progress.size /\ (0 \in R <=> progress.right)
  BY DEF Tally
<1>. HIDE DEF n
<1>. QED
  BY ONLY <1>1, <1>2

\* No piece of a reply is there before the request.
LEMMA NoDataYet ==
  ASSUME TcpQueues, TcpProgress, TcpStage, TcpTally, Handles, ~requested, Shifted,
         Len(TcpQueue) \in Nat, TcpQueue[1] = Head(batch), Head(batch) \in TcpMessages, ~progress.malformed
  PROVE  Head(batch).type # "InboundTcpStream"
<1>. SUFFICES ASSUME Head(batch).type = "InboundTcpStream" PROVE FALSE
  OBVIOUS
<1>1. PICK S, R : Tally(S, R)
  BY DEF TcpTally
<1>2. SizeOf(TcpQueue[1]) > 0 /\ SizeOf(TcpQueue[1]) \in Nat
  BY MessageFacts
<1>3. S[1] = progress.size + SizeOf(TcpQueue[1]) /\ S[1] <= sent
  BY <1>1, FirstCounts DEF Shifted
<1>. QED
  BY <1>2, <1>3 DEF TcpStage, TcpProgress

\* Types of what the peer did are kept.
LEMMA TcpPeerStep ==
  ASSUME TcpPeer, NEW a \in BOOLEAN, [Tcp(a)!Next]_(Tcp(a)!vars)
  PROVE  TcpPeer'
<1>. USE TcpFacts DEF TcpPeer, Tcp!service
<1>1. ASSUME NEW n \in 1..MaxSent, NEW b \in BOOLEAN, Tcp(a)!PeerSends(n, b) PROVE TcpPeer'
  BY <1>1 DEF Tcp!PeerSends
<1>2. CASE Tcp(a)!Service
  BY <1>1, <1>2 DEF Tcp!Service, Tcp!Establish, Tcp!PeerCloses, Tcp!FlowEnds, Tcp!Shutdown
<1>3. CASE UNCHANGED <<remoteOpen, sent, wrong>> /\ (requested' = requested \/ requested' = TRUE)
  BY <1>3
<1>4. CASE Tcp(a)!Exchange
  <2>1. \A why : Tcp(a)!GiveUp(why) => UNCHANGED <<remoteOpen, sent, wrong, requested>>
    BY DEF Tcp!GiveUp
  <2>2. CASE Tcp(a)!Prepare \/ Tcp(a)!OpenConnectedFlow \/ Tcp(a)!Wake \/ Tcp(a)!Tick \/ Tcp(a)!TimesOut
               \/ Tcp(a)!Evaluate
    BY <1>3, <2>2 DEF Tcp!Prepare, Tcp!OpenConnectedFlow, Tcp!Wake, Tcp!Tick, Tcp!TimesOut, Tcp!Evaluate
  <2>3. CASE Tcp(a)!ReceiveCompletions \/ Tcp(a)!HandleCompletion
    BY <1>3, <2>1, <2>3 DEF Tcp!ReceiveCompletions, Tcp!HandleCompletion
  <2>4. CASE Tcp(a)!CheckOpen \/ Tcp(a)!WriteTcpStream \/ Tcp(a)!ShutdownTcpWrite
    BY <1>3, <2>1, <2>4 DEF Tcp!CheckOpen, Tcp!WriteTcpStream, Tcp!ShutdownTcpWrite
  <2>5. CASE Tcp(a)!CloseFlow \/ Tcp(a)!Release
    BY <1>3, <2>5 DEF Tcp!CloseFlow, Tcp!Release
  <2>. QED
    BY <1>4, <2>2, <2>3, <2>4, <2>5 DEF Tcp!Exchange
<1>5. CASE UNCHANGED Tcp(a)!vars
  BY <1>5 DEF Tcp!vars
<1>. QED
  BY <1>2, <1>4, <1>5 DEF Tcp!Next

-----------------------------------------------------------------------------
(* The TCP exchange: what is collected. *)

\* The empty progress has its type.
LEMMA NothingCollected == NoProgress \in [open: BOOLEAN, remoteClosed: BOOLEAN, malformed: BOOLEAN,
  size: 0..ReplySize, right: BOOLEAN]
<1>1. 0 \in 0..ReplySize
  BY TcpFacts
<1>. QED
  BY Zenon, <1>1 DEF NoProgress

\* What a completion does to the progress.
LEMMA HandledIs ==
  ASSUME TcpProgress, TcpPeer, Handles, Head(batch) \in TcpMessages
  PROVE  /\ TcpProgress'
         /\ \/ /\ Head(batch) = OpenState /\ progress'.open /\ (progress'.remoteClosed <=> ~remoteOpen)
               /\ progress'.size = progress.size /\ (progress'.right <=> progress.right)
               /\ (progress'.malformed <=> progress.malformed)
            \/ /\ Head(batch).type = "InboundTcpStream" /\ progress'.malformed
               /\ progress.size + SizeOf(Head(batch)) > ReplySize
               /\ (progress'.open <=> progress.open) /\ (progress'.remoteClosed <=> progress.remoteClosed)
            \/ /\ Head(batch).type = "InboundTcpStream" /\ (progress'.malformed <=> progress.malformed)
               /\ progress'.size = progress.size + SizeOf(Head(batch))
               /\ (progress'.right <=> progress.right /\ RightOf(Head(batch)))
               /\ (progress'.open <=> progress.open) /\ (progress'.remoteClosed <=> progress.remoteClosed)
<1>1. CASE Head(batch) = OpenState /\ progress' = [progress EXCEPT !.open = TRUE, !.remoteClosed = ~remoteOpen]
  BY <1>1 DEF TcpProgress, TcpPeer
<1>2. ASSUME Head(batch).type = "InboundTcpStream", progress.size + Head(batch).size > ReplySize,
             progress' = [progress EXCEPT !.malformed = TRUE]
      PROVE  /\ TcpProgress' /\ progress'.malformed /\ progress.size + SizeOf(Head(batch)) > ReplySize
             /\ (progress'.open <=> progress.open) /\ (progress'.remoteClosed <=> progress.remoteClosed)
  BY <1>2, MessageFacts DEF TcpProgress
<1>3. ASSUME Head(batch).type = "InboundTcpStream", ~(progress.size + Head(batch).size > ReplySize),
             progress' = [progress EXCEPT !.size = @ + Head(batch).size, !.right = @ /\ Head(batch).right]
      PROVE  /\ TcpProgress' /\ (progress'.malformed <=> progress.malformed)
             /\ progress'.size = progress.size + SizeOf(Head(batch))
             /\ (progress'.right <=> progress.right /\ RightOf(Head(batch)))
             /\ (progress'.open <=> progress.open) /\ (progress'.remoteClosed <=> progress.remoteClosed)
  <2>1. progress.size + Head(batch).size \in 0..ReplySize /\ SizeOf(Head(batch)) = Head(batch).size
    BY <1>3, MessageFacts, TcpFacts DEF TcpProgress
  <2>2. RightOf(Head(batch)) <=> Head(batch).right
    BY <1>3 DEF RightOf
  <2>. DEFINE size == progress.size + Head(batch).size
              right == progress.right /\ Head(batch).right
  <2>3. right \in BOOLEAN /\ size \in 0..ReplySize
    BY <2>1
  <2>4. progress' = [progress EXCEPT !.size = size, !.right = right]
    BY Zenon, <1>3
  <2>5. (right <=> progress.right /\ RightOf(Head(batch))) /\ size = progress.size + SizeOf(Head(batch))
    BY <2>1, <2>2
  <2>. HIDE DEF size, right
  <2>. QED
    BY <2>3, <2>4, <2>5 DEF TcpProgress
<1>. QED
  BY <1>1, <1>2, <1>3 DEF Handles

\* What the judgment at the end of a batch does to it.
LEMMA JudgedIs ==
  ASSUME TcpProgress, Judges
  PROVE  /\ TcpProgress' /\ (progress'.malformed <=> Tcp(TRUE)!Malformed)
         /\ (progress'.open <=> progress.open) /\ (progress'.remoteClosed <=> progress.remoteClosed)
         /\ progress'.size = progress.size /\ (progress'.right <=> progress.right)
<1>1. Tcp(TRUE)!Malformed \in BOOLEAN
  BY DEF Tcp!Malformed, Tcp!ReplyValid, TcpProgress
<1>. QED
  BY <1>1 DEF Judges, TcpProgress

\* The reply collected never exceeds the one expected.
LEMMA TcpProgressStep ==
  ASSUME TcpProgress, TcpPeer, TcpQueues, TcpStage, StreamStep
  PROVE  TcpProgress'
<1>1. CASE UNCHANGED progress
  BY <1>1 DEF TcpProgress
<1>2. CASE Quiet \/ Arrives \/ Takes \/ Writes
  BY <1>1, <1>2 DEF Quiet, Arrives, Takes, Writes
<1>3. CASE Handles
  BY <1>3, HandledIs, QueueMoves
<1>4. CASE Judges
  BY <1>4, JudgedIs
<1>5. CASE Replies
  BY <1>5, NothingCollected DEF Replies, TcpProgress
<1>. QED
  BY <1>2, <1>3, <1>4, <1>5 DEF StreamStep

\* Batch, request and phase go with the place the exchange is at.
LEMMA TcpStageStep ==
  ASSUME TcpProgress, TcpPeer, TcpQueues, TcpStage, TcpTally, phase \in {"connect", "reply"}, StreamStep
  PROVE  TcpStage'
<1>. USE DEF TcpStage, StreamLeft
<1>1. CASE Quiet
  BY <1>1 DEF Quiet
<1>2. CASE Arrives
  BY <1>2 DEF Arrives
<1>3. CASE Takes
  BY <1>3 DEF Takes
<1>4. CASE Handles
  <2>1. ~requested /\ ~progress.malformed => Head(batch).type # "InboundTcpStream"
    BY <1>4, NoDataYet, QueueMoves
  <2>2. phase = "connect" => progress'.size = 0 /\ progress'.right /\ ~progress'.malformed
    BY <1>4, <2>1, HandledIs, QueueMoves DEF Handles
  <2>. QED
    BY <1>4, <2>2 DEF Handles
<1>5. CASE Judges
  <2>1. phase = "connect" => ~Tcp(TRUE)!Malformed
    BY DEF Tcp!Malformed
  <2>2. phase = "connect" => progress'.size = 0 /\ progress'.right /\ ~progress'.malformed
    BY <1>5, <2>1, JudgedIs DEF Judges
  <2>3. tcpPc' = "check" => phase = "connect" /\ progress'.open
    BY <1>5, JudgedIs DEF Judges
  <2>. QED
    BY <1>5, <2>2, <2>3 DEF Judges
<1>6. CASE Writes
  BY <1>6 DEF Writes
<1>7. CASE Replies
  BY <1>7 DEF Replies
<1>. QED
  BY <1>1, <1>2, <1>3, <1>4, <1>5, <1>6, <1>7 DEF StreamStep

-----------------------------------------------------------------------------
(* The TCP exchange: the sums and the queued states, kept by every step. *)

\* What was collected and what is queued add up to what the peer sent, in every step.
LEMMA TcpTallyStep ==
  ASSUME TcpProgress, TcpPeer, TcpPeer', TcpQueues, TcpStage, TcpOpens, TcpTally, phase \in {"connect",
           "reply"},
         UNCHANGED scenario, StreamStep
  PROVE  TcpTally'
<1>. SUFFICES ASSUME ~progress'.malformed PROVE \E S, R : Tally(S, R)'
  BY DEF TcpTally
<1>1. ~progress.malformed
  <2>1. CASE Quiet \/ Arrives \/ Takes \/ Writes
    BY <2>1 DEF Quiet, Arrives, Takes, Writes
  <2>2. CASE Handles
    BY <2>2, HandledIs, QueueMoves
  <2>3. CASE Judges
    BY <2>3, JudgedIs DEF Tcp!Malformed
  <2>4. CASE Replies
    BY <2>4 DEF Replies, TcpStage
  <2>. QED
    BY <2>1, <2>2, <2>3, <2>4 DEF StreamStep
<1>2. PICK S, R : Tally(S, R)
  BY <1>1 DEF TcpTally
<1>3. Len(TcpQueue) \in Nat
  BY QueueMoves
<1>4. CASE /\ Kept /\ UNCHANGED <<sent, wrong>> /\ progress'.size = progress.size
           /\ progress'.right <=> progress.right
           /\ scenario = "tcp" /\ requested' => requested \/ ~OpenQueued
  BY <1>2, <1>3, <1>4, TallyKept
<1>5. CASE Quiet \/ Takes
  BY <1>4, <1>5, QueueMoves DEF Quiet, Takes, StreamLeft
<1>6. CASE Judges
  BY <1>4, <1>6, QueueMoves, JudgedIs DEF Judges, StreamLeft
<1>7. CASE Writes
  <2>1. ~requested => ~OpenQueued
    BY <1>7 DEF Writes, TcpStage, TcpOpens
  <2>. QED
    BY <1>4, <1>7, <2>1, QueueMoves DEF Writes
<1>8. CASE Handles
  <2>1. Shifted /\ TcpQueue[1] = Head(batch) /\ Head(batch) \in TcpMessages
    BY <1>8, QueueMoves
  <2>2. S[1] = progress.size + SizeOf(TcpQueue[1]) /\ S[1] <= sent
        /\ (1 \in R <=> progress.right /\ RightOf(TcpQueue[1]))
    BY <1>2, <1>3, <2>1, FirstCounts DEF Shifted
  <2>3. SizeOf(Head(batch)) \in Nat /\ (Head(batch) = OpenState => SizeOf(Head(batch)) = 0
          /\ RightOf(Head(batch)))
    BY <2>1, MessageFacts
  <2>4. progress'.size = progress.size + SizeOf(Head(batch)) /\ (progress'.right <=> progress.right
          /\ RightOf(Head(batch)))
    <3>1. progress.size \in Nat
      BY TcpFacts DEF TcpProgress
    <3>. QED
      BY <1>8, <2>1, <2>3, <3>1, HandledIs
  <2>. QED
    BY <1>2, <1>3, <1>8, <2>1, <2>2, <2>4, TallyShifted DEF Handles, StreamLeft
<1>9. CASE Replies
  <2>1. UNCHANGED <<sent, wrong, requested>> /\ progress'.size = progress.size
          /\ (progress'.right <=> progress.right)
    BY <1>9 DEF Replies, StreamLeft, TcpStage, NoProgress
  <2>2. CASE Kept
    BY <1>4, <2>1, <2>2
  <2>3. CASE scenario # "tcp" /\ Appended(OpenState)
    <3>1. SizeOf(OpenState) = 0 /\ RightOf(OpenState)
      BY OpenIsMessage, MessageFacts
    <3>2. sent' = sent + SizeOf(OpenState) /\ (wrong' <=> wrong \/ ~RightOf(OpenState))
      BY <2>1, <3>1 DEF TcpPeer
    <3>. QED
      BY <1>2, <1>3, <2>1, <2>3, <3>1, <3>2, TallyAppended
  <2>. QED
    BY <1>9, <2>2, <2>3, QueueMoves
<1>10. CASE Arrives
  <2>1. PICK c \in TcpMessages :
       /\ tcpCompletions' = Append(tcpCompletions, c)
       /\ sent' = sent + SizeOf(c) /\ (wrong' <=> wrong \/ ~RightOf(c))
       /\ c.type = "InboundTcpStream" => remoteOpen
    <3>1. \A c \in TcpMessages : c.type # "InboundTcpStream" => SizeOf(c) = 0 /\ RightOf(c)
      BY DEF SizeOf, RightOf
    <3>2. \A c \in TcpMessages : c = OpenState => c.type # "InboundTcpStream"
      BY DEF OpenState
    <3>3. sent = sent + 0
      BY DEF TcpPeer
    <3>. QED
      BY <1>10, <3>1, <3>2, <3>3 DEF Arrives
  <2>2. Appended(c) /\ UNCHANGED <<progress, requested>>
    BY <1>10, <2>1, QueueMoves DEF Arrives
  <2>3. SizeOf(c) \in Nat /\ (c = OpenState => SizeOf(c) = 0 /\ RightOf(c))
    BY MessageFacts
  <2>4. scenario = "tcp" /\ requested /\ OpenQueued => SizeOf(c) = 0 /\ RightOf(c)
    BY <2>1 DEF TcpOpens, SizeOf, RightOf
  <2>. QED
    BY <1>2, <1>3, <2>1, <2>2, <2>3, <2>4, TallyAppended
<1>. QED
  BY <1>5, <1>6, <1>7, <1>8, <1>9, <1>10 DEF StreamStep

\* Before the request one Open state at most is queued; after it, an Open state says that
\* the peer has closed.
LEMMA TcpOpensStep ==
  ASSUME TcpProgress, TcpPeer, TcpQueues, TcpStage, TcpOpens, phase \in {"connect", "reply"},
         UNCHANGED scenario, StreamStep
  PROVE  TcpOpens'
<1>0. Len(TcpQueue) \in Nat
  BY QueueMoves
<1>1. Kept => (OpenQueued' <=> OpenQueued)
              /\ \A i, j \in 1..Len(TcpQueue) :
                   TcpQueue'[i] = TcpQueue[i] /\ TcpQueue'[j] = TcpQueue[j] /\ Len(TcpQueue)' = Len(TcpQueue)
  BY DEF Kept, OpenQueued
<1>2. CASE /\ Kept /\ UNCHANGED <<remoteOpen>> /\ (progress'.open <=> progress.open)
           /\ tcpFlow' \in {"none", "connecting"} => tcpFlow \in {"none", "connecting"}
           /\ requested' = requested \/ (requested' /\ ~OpenQueued)
  BY <1>1, <1>2 DEF TcpOpens, Kept
<1>3. CASE Quiet
  <2>1. tcpFlow' \in {"none", "connecting"} => tcpFlow \in {"none", "connecting"}
    BY <1>3 DEF Quiet, TcpStage
  <2>. QED
    BY <1>2, <1>3, <2>1, QueueMoves DEF Quiet, StreamLeft
<1>4. CASE Takes
  BY <1>2, <1>4, QueueMoves DEF Takes, StreamLeft
<1>5. CASE Judges
  BY <1>2, <1>5, QueueMoves, JudgedIs DEF Judges, StreamLeft
<1>6. CASE Writes
  <2>1. requested \/ ~OpenQueued
    BY <1>6 DEF Writes, TcpStage, TcpOpens
  <2>. QED
    BY <1>2, <1>6, <2>1, QueueMoves DEF Writes, TcpPeer
<1>7. CASE Handles
  <2>1. Shifted /\ TcpQueue[1] = Head(batch) /\ Head(batch) \in TcpMessages
    BY <1>7, QueueMoves
  <2>2. UNCHANGED <<tcpFlow, requested, remoteOpen>>
    BY <1>7 DEF Handles, StreamLeft
  <2>3. progress'.open => progress.open \/ Head(batch) = OpenState
    BY <1>7, <2>1, HandledIs
  <2>4. \A i \in 1..Len(TcpQueue)' : i + 1 \in 1..Len(TcpQueue) /\ TcpQueue'[i] = TcpQueue[i + 1] /\ i + 1 # 1
    BY <1>0, <2>1 DEF Shifted
  <2>5. OpenQueued' => OpenQueued
    BY <2>4 DEF OpenQueued
  <2>6. 1 \in 1..Len(TcpQueue)
    BY <1>0, <2>1 DEF Shifted
  <2>7. Head(batch) = OpenState => OpenQueued
    BY <2>1, <2>6 DEF OpenQueued
  <2>8. ASSUME ~requested, NEW i \in 1..Len(TcpQueue)', NEW j \in 1..Len(TcpQueue)',
               TcpQueue'[i] = OpenState, TcpQueue'[j] = OpenState
        PROVE  i = j
    BY <1>0, <2>1, <2>4, <2>8 DEF TcpOpens, Shifted
  <2>9. ASSUME ~requested, Head(batch) = OpenState PROVE ~OpenQueued'
    BY <2>1, <2>4, <2>6, <2>9 DEF TcpOpens, OpenQueued
  <2>. QED
    BY <2>2, <2>3, <2>5, <2>7, <2>8, <2>9 DEF TcpOpens
<1>8. ASSUME NEW c, Appended(c), NEW i \in 1..Len(TcpQueue)', TcpQueue'[i] = OpenState
      PROVE  (i \in 1..Len(TcpQueue) /\ TcpQueue[i] = OpenState) \/ (i = Len(TcpQueue) + 1 /\ c = OpenState)
  BY <1>0, <1>8 DEF Appended
<1>9. ASSUME NEW c, Appended(c), c # OpenState, UNCHANGED <<requested, progress>>,
             tcpFlow' \in {"none", "connecting"} => tcpFlow \in {"none", "connecting"},
             remoteOpen' => remoteOpen
      PROVE  TcpOpens'
  BY <1>8, <1>9 DEF TcpOpens, OpenQueued
<1>10. CASE Arrives
  <2>1. PICK c \in TcpMessages :
       /\ tcpCompletions' = Append(tcpCompletions, c)
       /\ \/ /\ c = OpenState /\ tcpFlow = "connecting" /\ tcpFlow' = "open" /\ remoteOpen' = TRUE
          \/ c.type = "InboundTcpStream" /\ UNCHANGED <<tcpFlow, remoteOpen>>
          \/ c = OpenState /\ requested /\ remoteOpen' = FALSE /\ UNCHANGED tcpFlow
          \/ c.type # "InboundTcpStream" /\ c # OpenState /\ tcpFlow' = "closed" /\ remoteOpen' = FALSE
    BY <1>10 DEF Arrives
  <2>2. Appended(c) /\ UNCHANGED <<progress, requested>>
    BY <1>10, <2>1, QueueMoves DEF Arrives
  <2>3. CASE c # OpenState
    BY <1>9, <2>1, <2>2, <2>3
  <2>4. CASE c = OpenState /\ tcpFlow = "connecting" /\ tcpFlow' = "open"
    <3>1. ~requested /\ ~OpenQueued /\ ~progress.open
      BY <2>4 DEF TcpStage, TcpOpens
    <3>. QED
      BY <1>8, <2>2, <2>4, <3>1 DEF TcpOpens, OpenQueued
  <2>5. CASE requested /\ remoteOpen' = FALSE /\ UNCHANGED tcpFlow
    BY <2>2, <2>5 DEF TcpOpens, TcpStage
  <2>6. c.type = "InboundTcpStream" => c # OpenState
    BY DEF OpenState
  <2>. QED
    BY <2>1, <2>3, <2>4, <2>5, <2>6
<1>11. CASE Replies
  <2>1. UNCHANGED <<tcpFlow, remoteOpen, requested>> /\ ~progress'.open /\ requested /\ tcpFlow = "open"
    BY <1>11 DEF Replies, StreamLeft, NoProgress, TcpStage
  <2>2. CASE Kept
    BY <1>1, <2>1, <2>2 DEF TcpOpens
  <2>3. CASE scenario # "tcp"
    BY <2>1, <2>3 DEF TcpOpens
  <2>. QED
    BY <1>11, <2>2, <2>3, QueueMoves
<1>. QED
  BY <1>3, <1>4, <1>5, <1>6, <1>7, <1>10, <1>11 DEF StreamStep

-----------------------------------------------------------------------------
(* The TCP exchange: the close of the peer, the verdict, and the types. *)

\* After the close is queued behind all data nothing more arrives to be collected.
LEMMA TcpClosedStep ==
  ASSUME TcpProgress, TcpPeer, TcpQueues, TcpStage, TcpOpens, TcpTally, TcpClosed, phase \in {"connect",
           "reply"},
         UNCHANGED scenario, StreamStep
  PROVE  TcpClosed'
<1>1. CASE /\ UNCHANGED <<phase, sent, wrong>> /\ (remoteOpen' => remoteOpen)
           /\ (progress'.remoteClosed <=> progress.remoteClosed) /\ progress'.size = progress.size
           /\ (progress'.right <=> progress.right) /\ (progress.malformed => progress'.malformed)
  BY <1>1 DEF TcpClosed
<1>2. CASE Quiet \/ Takes \/ Writes
  BY <1>1, <1>2 DEF Quiet, Takes, Writes, StreamLeft
<1>3. CASE Judges
  <2>1. progress.malformed => progress'.malformed
    BY <1>3, JudgedIs DEF Tcp!Malformed
  <2>. QED
    BY <1>1, <1>3, <2>1, JudgedIs DEF Judges, StreamLeft
<1>4. CASE Replies
  BY <1>4 DEF Replies, TcpClosed, NoProgress
<1>5. CASE Arrives
  <2>1. UNCHANGED <<phase, progress>>
    BY <1>5 DEF Arrives
  <2>2. CASE UNCHANGED <<sent, wrong>> /\ (remoteOpen' => remoteOpen)
    BY <1>1, <2>1, <2>2
  <2>3. CASE remoteOpen /\ UNCHANGED remoteOpen
    BY <2>1, <2>3 DEF TcpClosed
  <2>4. CASE tcpFlow = "connecting"
    BY <2>1, <2>4 DEF TcpClosed, TcpStage
  <2>. QED
    BY <1>5, <2>2, <2>3, <2>4 DEF Arrives, TcpPeer
<1>6. CASE Handles
  <2>1. Shifted /\ TcpQueue[1] = Head(batch) /\ Head(batch) \in TcpMessages /\ Len(TcpQueue) \in Nat \ {0}
    BY <1>6, QueueMoves DEF Shifted
  <2>2. UNCHANGED <<phase, requested, sent, wrong, remoteOpen>>
    BY <1>6 DEF Handles, StreamLeft
  <2>3. SizeOf(Head(batch)) \in Nat /\ progress.size \in Nat /\ sent \in Nat
    BY <2>1, MessageFacts, TcpFacts DEF TcpProgress, TcpPeer
  <2>4. CASE phase # "reply"
    BY <2>2, <2>4 DEF TcpClosed
  <2>5. ASSUME phase = "reply", Head(batch) = OpenState, progress'.remoteClosed,
               progress'.remoteClosed <=> ~remoteOpen, progress'.size = progress.size,
               progress'.right <=> progress.right, progress'.malformed <=> progress.malformed
        PROVE  TcpClosed'
    <3>1. ASSUME scenario = "tcp", ~progress.malformed
          PROVE  progress.size = sent /\ (progress.right <=> ~wrong)
      <4>1. PICK S, R : Tally(S, R)
        BY <3>1 DEF TcpTally
      <4>2. S[1] = progress.size + SizeOf(TcpQueue[1]) /\ (1 \in R <=> progress.right /\ RightOf(TcpQueue[1]))
        BY <2>1, <4>1, FirstCounts
      <4>3. S[1] = sent /\ (1 \in R <=> ~wrong)
        <5>1. requested /\ 1 \in 1..Len(TcpQueue) /\ TcpQueue[1] = OpenState
          BY <2>1, <2>5 DEF TcpStage
        <5>. QED
          BY <3>1, <4>1, <5>1 DEF Tally
      <4>4. SizeOf(OpenState) = 0 /\ RightOf(OpenState)
        BY OpenIsMessage, MessageFacts
      <4>. QED
        BY <2>1, <2>3, <2>5, <4>2, <4>3, <4>4
    <3>. QED
      BY <2>2, <2>5, <3>1 DEF TcpClosed
  <2>6. ASSUME phase = "reply", Head(batch).type = "InboundTcpStream",
                 progress'.remoteClosed <=> progress.remoteClosed,
               progress'.malformed \/ (~progress'.malformed /\ ~progress.malformed)
        PROVE  TcpClosed'
    <3>1. ASSUME progress.remoteClosed, scenario = "tcp", ~progress.malformed PROVE FALSE
      <4>1. PICK S, R : Tally(S, R)
        BY <3>1 DEF TcpTally
      <4>2. S[1] = progress.size + SizeOf(TcpQueue[1]) /\ S[1] <= sent
        BY <2>1, <4>1, FirstCounts
      <4>3. SizeOf(Head(batch)) > 0
        BY <2>1, <2>6, MessageFacts
      <4>. QED
        BY <2>1, <2>3, <2>6, <3>1, <4>2, <4>3 DEF TcpClosed
    <3>. QED
      BY <2>2, <2>6, <3>1 DEF TcpClosed
  <2>7. CASE ~progress'.remoteClosed
    BY <2>7 DEF TcpClosed
  <2>. QED
    BY <1>6, <2>1, <2>4, <2>5, <2>6, <2>7, HandledIs
<1>. QED
  BY <1>2, <1>3, <1>4, <1>5, <1>6 DEF StreamStep

\* Each verdict is right when it is given and stays right.
LEMMA TcpVerdictsStep ==
  ASSUME TcpProgress, TcpPeer, TcpPeer', TcpQueues, TcpStage, TcpTally, TcpClosed, TcpVerdicts,
         phase \in {"connect", "reply"}, UNCHANGED scenario, StreamStep
  PROVE  TcpVerdicts'
<1>0. sent \in Nat /\ ReplySize \in Nat
  BY TcpFacts DEF TcpPeer
<1>1. CASE /\ UNCHANGED <<requested, sent, wrong, remoteOpen>> /\ (progress'.malformed => progress.malformed)
           /\ tcpPc' = "close" => tcpPc = "close"
           /\ tcpVerdict' = tcpVerdict \/ tcpVerdict' \notin {"malformed", "premature_eof", "success"}
              \/ (tcpVerdict' = "success" /\ tcpPc = "close")
  BY <1>1 DEF TcpVerdicts
<1>2. CASE Quiet
  <2>1. tcpPc' = "close" => tcpPc = "close"
    BY <1>2 DEF Quiet
  <2>. QED
    BY <1>1, <1>2, <2>1 DEF Quiet, StreamLeft
<1>3. CASE Takes
  BY <1>1, <1>3 DEF Takes, StreamLeft
<1>4. CASE Replies
  BY <1>1, <1>4 DEF Replies, StreamLeft, NoProgress
<1>5. CASE Writes
  <2>1. UNCHANGED <<progress, sent, wrong, remoteOpen, tcpVerdict>> /\ requested' /\ tcpPc' # "close"
    BY <1>5 DEF Writes
  <2>. QED
    BY <2>1 DEF TcpVerdicts
<1>6. CASE Arrives
  <2>1. UNCHANGED <<progress, requested, tcpPc, tcpVerdict>>
    BY <1>6 DEF Arrives
  <2>2. CASE UNCHANGED <<sent, wrong>> /\ (remoteOpen' => remoteOpen)
    BY <2>1, <2>2 DEF TcpVerdicts, TcpPeer
  <2>3. ASSUME NEW c \in TcpMessages, remoteOpen, UNCHANGED remoteOpen, sent' = sent + SizeOf(c),
                 wrong' <=> wrong \/ ~RightOf(c)
        PROVE  TcpVerdicts'
    <3>1. sent <= sent' /\ sent' \in Nat /\ (wrong => wrong')
      BY <1>0, <2>3, MessageFacts
    <3>. QED
      BY <1>0, <2>1, <2>3, <3>1 DEF TcpVerdicts
  <2>4. CASE tcpFlow = "connecting" /\ UNCHANGED <<sent, wrong>>
    BY <2>1, <2>4 DEF TcpVerdicts, TcpStage
  <2>. QED
    BY <1>6, <2>2, <2>3, <2>4 DEF Arrives, TcpPeer
<1>7. CASE Handles
  <2>1. Shifted /\ TcpQueue[1] = Head(batch) /\ Head(batch) \in TcpMessages /\ Len(TcpQueue) \in Nat \ {0}
    BY <1>7, QueueMoves DEF Shifted
  <2>2. UNCHANGED <<requested, sent, wrong, remoteOpen, tcpPc, tcpVerdict>>
    BY <1>7 DEF Handles, StreamLeft
  <2>3. ASSUME ~progress.malformed, progress'.malformed PROVE sent > ReplySize
    <3>1. progress.size + SizeOf(Head(batch)) > ReplySize
      BY <1>7, <2>1, <2>3, HandledIs
    <3>2. PICK S, R : Tally(S, R)
      BY <2>3 DEF TcpTally
    <3>3. S[1] = progress.size + SizeOf(TcpQueue[1]) /\ S[1] <= sent
      BY <2>1, <3>2, FirstCounts
    <3>4. SizeOf(Head(batch)) \in Nat /\ progress.size \in Nat
      BY <2>1, MessageFacts, TcpFacts DEF TcpProgress
    <3>. QED
      BY <1>0, <2>1, <3>1, <3>3, <3>4
  <2>. QED
    BY <2>2, <2>3 DEF TcpVerdicts
<1>8. CASE Judges
  <2>1. UNCHANGED <<requested, sent, wrong, remoteOpen, phase>>
    BY <1>8 DEF Judges, StreamLeft
  <2>2. Tcp(TRUE)!Malformed => wrong \/ sent > ReplySize
    <3>1. CASE progress.malformed
      BY <3>1 DEF TcpVerdicts
    <3>2. CASE ~progress.malformed /\ ~progress.right
      <4>1. PICK S, R : Tally(S, R)
        BY <3>2 DEF TcpTally
      <4>2. 0 \in 0..Len(TcpQueue)
        BY QueueMoves
      <4>. QED
        BY <3>2, <4>1, <4>2 DEF Tally
    <3>. QED
      BY <3>1, <3>2 DEF Tcp!Malformed, Tcp!ReplyValid
  <2>3. progress'.malformed <=> Tcp(TRUE)!Malformed
    BY <1>8, JudgedIs
  <2>4. CASE Tcp(TRUE)!Malformed
    <3>1. tcpPc' = "release" /\ tcpVerdict' = "malformed"
      BY <1>8, <2>4 DEF Judges
    <3>. QED
      BY <2>1, <2>2, <2>4, <3>1 DEF TcpVerdicts
  <2>5. CASE ~Tcp(TRUE)!Malformed /\ tcpVerdict' = "premature_eof" /\ tcpPc' = "release"
             /\ phase = "reply" /\ progress.remoteClosed /\ ~Tcp(TRUE)!ReplyValid
    <3>1. requested /\ ~remoteOpen /\ ~progress.malformed
      BY <2>5 DEF TcpStage, TcpClosed, Tcp!Malformed
    <3>2. ASSUME scenario = "tcp" PROVE sent < ReplySize
      <4>1. progress.size = sent /\ (progress.right <=> ~wrong)
        BY <2>5, <3>1, <3>2 DEF TcpClosed
      <4>2. progress.size # ReplySize /\ progress.size \in 0..ReplySize
        BY <2>5 DEF Tcp!Malformed, TcpProgress
      <4>. QED
        BY <1>0, <4>1, <4>2
    <3>. QED
      BY <2>1, <2>3, <2>5, <3>1, <3>2 DEF TcpVerdicts
  <2>6. CASE ~Tcp(TRUE)!Malformed /\ UNCHANGED tcpVerdict /\ tcpPc' # "close"
    BY <1>8, <2>1, <2>3, <2>6 DEF TcpVerdicts
  <2>7. CASE ~Tcp(TRUE)!Malformed /\ UNCHANGED tcpVerdict /\ tcpPc' = "close"
             /\ phase # "connect" /\ progress.remoteClosed /\ Tcp(TRUE)!ReplyValid
    <3>1. requested /\ ~remoteOpen /\ ~progress.malformed /\ phase = "reply"
      BY <2>7 DEF TcpStage, TcpClosed, Tcp!Malformed
    <3>2. ASSUME scenario = "tcp" PROVE sent = ReplySize /\ ~wrong
      BY <2>7, <3>1, <3>2 DEF TcpClosed, Tcp!ReplyValid
    <3>. QED
      BY <2>1, <2>3, <2>7, <3>1, <3>2 DEF TcpVerdicts
  <2>. QED
    BY <1>8, <2>4, <2>5, <2>6, <2>7 DEF Judges
<1>. QED
  BY <1>2, <1>3, <1>4, <1>5, <1>6, <1>7, <1>8 DEF StreamStep

\* Types of place, event and verdict are kept.
LEMMA TcpTypesStep ==
  ASSUME TcpTypes, NEW a \in BOOLEAN, [Tcp(a)!Next]_(Tcp(a)!vars)
  PROVE  TcpTypes'
<1>. USE TcpFacts DEF TcpTypes, Tcp!service, Tcp!Pcs
<1>1. CASE Tcp(a)!Service
  <2>1. UNCHANGED <<tcpPc, phase, tcpClock, tcpVerdict, tcpEvent, tcpFailedAt, tcpPortless>>
    BY <1>1 DEF Tcp!Service, Tcp!Establish, Tcp!PeerCloses, Tcp!FlowEnds, Tcp!Shutdown, Tcp!PeerSends
  <2>2. tcpAlive' \in BOOLEAN
    BY <1>1 DEF Tcp!Service, Tcp!Establish, Tcp!PeerCloses, Tcp!FlowEnds, Tcp!Shutdown, Tcp!PeerSends
  <2>3. tcpFlow' \in {tcpFlow, "open", "closed"}
    BY <1>1 DEF Tcp!Service, Tcp!Establish, Tcp!PeerCloses, Tcp!FlowEnds, Tcp!Shutdown, Tcp!PeerSends
  <2>. QED
    BY <2>1, <2>2, <2>3
<1>2. ASSUME NEW why \in {"status", "lost", "terminal", "state", "write"}, Tcp(a)!GiveUp(why) PROVE TcpTypes'
  BY <1>2 DEF Tcp!GiveUp, Tcp!NoteFailure
<1>3. CASE Tcp(a)!Prepare \/ Tcp(a)!Wake \/ Tcp(a)!Tick \/ Tcp(a)!TimesOut
  <2>1. UNCHANGED <<phase, tcpAlive, tcpFlow, tcpPortless>> /\ tcpFailedAt' \in {tcpFailedAt, tcpFailedAt \cup {tcpPc}}
    BY <1>3 DEF Tcp!Prepare, Tcp!Wake, Tcp!Tick, Tcp!TimesOut, Tcp!NoteFailure
  <2>2. tcpPc' \in {"open", "done", "receive", "wait", "release"} /\ tcpVerdict' \in {tcpVerdict, "setup",
          "deadline"}
    BY <1>3 DEF Tcp!Prepare, Tcp!Wake, Tcp!Tick, Tcp!TimesOut
  <2>3. tcpEvent' \in BOOLEAN
    BY <1>3 DEF Tcp!Prepare, Tcp!Wake, Tcp!Tick, Tcp!TimesOut
  <2>4. tcpClock' = tcpClock \/ (tcpClock < Deadline /\ tcpClock' = tcpClock + 1)
    BY <1>3 DEF Tcp!Prepare, Tcp!Wake, Tcp!Tick, Tcp!TimesOut
  <2>. QED
    BY <2>1, <2>2, <2>3, <2>4
<1>4. CASE Tcp(a)!OpenConnectedFlow
  <2>1. UNCHANGED tcpAlive /\ tcpFailedAt' \in {tcpFailedAt, tcpFailedAt \cup {tcpPc}}
    BY <1>4 DEF Tcp!OpenConnectedFlow, Tcp!NoteFailure
  <2>2. tcpPc' \in {"wait", "done"} /\ tcpVerdict' \in {tcpVerdict, "setup"} /\ phase' \in {phase, "connect"}
    BY <1>4 DEF Tcp!OpenConnectedFlow, Tcp!StartWait
  <2>3. tcpClock' \in {0, tcpClock} /\ tcpEvent' \in BOOLEAN
    BY <1>4 DEF Tcp!OpenConnectedFlow, Tcp!StartWait
  <2>4. tcpFlow' \in {tcpFlow, "connecting"} /\ tcpPortless' \in BOOLEAN
    BY <1>4 DEF Tcp!OpenConnectedFlow
  <2>. QED
    BY <2>1, <2>2, <2>3, <2>4
<1>5. CASE Tcp(a)!ReceiveCompletions
  BY <1>2, <1>5 DEF Tcp!ReceiveCompletions
<1>6. CASE Tcp(a)!HandleCompletion
  BY <1>2, <1>6 DEF Tcp!HandleCompletion
<1>7. CASE Tcp(a)!Evaluate
  BY <1>7 DEF Tcp!Evaluate
<1>8. CASE Tcp(a)!CheckOpen \/ Tcp(a)!WriteTcpStream
  BY <1>2, <1>8 DEF Tcp!CheckOpen, Tcp!WriteTcpStream
<1>9. CASE Tcp(a)!ShutdownTcpWrite
  <2>1. CASE Tcp(a)!GiveUp("write")
    BY <1>2, <2>1
  <2>2. CASE Tcp(a)!StartWait("reply") /\ UNCHANGED <<tcpVerdict, tcpEvent, tcpAlive, tcpFlow, tcpPortless,
               tcpFailedAt>>
    <3>1. tcpPc' = "wait" /\ phase' = "reply" /\ tcpClock' = 0
      BY <2>2 DEF Tcp!StartWait
    <3>. QED
      BY <2>2, <3>1
  <2>. QED
    BY <1>9, <2>1, <2>2 DEF Tcp!ShutdownTcpWrite
<1>10. CASE Tcp(a)!CloseFlow \/ Tcp(a)!Release
  BY <1>10 DEF Tcp!CloseFlow, Tcp!Release, Tcp!ReleaseFlow, Tcp!NoteFailure
<1>11. CASE UNCHANGED Tcp(a)!vars
  BY <1>11 DEF Tcp!vars
<1>. QED
  BY <1>1, <1>3, <1>4, <1>5, <1>6, <1>7, <1>8, <1>9, <1>10, <1>11 DEF Tcp!Next, Tcp!Exchange

-----------------------------------------------------------------------------
(* The contract validation: its values, and the kinds of its steps. *)

\* A service has at least one context.
LEMMA CapacityIsNat == Capacity \in Nat \ {0}
BY ContractParameters DEF Contract!Parameters

\* Sessions, lost contexts and other clients are told apart.
LEMMA SessionsDiffer ==
  ASSUME NEW d \in BOOLEAN
  PROVE  /\ Contract(d)!Primary # Contract(d)!Clone
         /\ \A i \in Contract(d)!Extras : Contract(d)!Retained(i) \notin {Contract(d)!Primary,
              Contract(d)!Clone}
         /\ Contract(d)!Lost \notin Contract(d)!Sessions /\ Contract(d)!Other \notin Contract(d)!Sessions
BY DEF Contract!Primary, Contract!Clone, Contract!Retained, Contract!Lost, Contract!Other, Contract!Sessions

\* Where the validation is, and what it has open.
ContractPlace ==
  /\ pc \in Contract(TRUE)!Pcs /\ extra \in 0..Capacity - 1
  /\ flow \in BOOLEAN /\ eventOpen \in BOOLEAN /\ alive \in BOOLEAN
  /\ verdict \in {"none", "setup", "clone", "flow", "event", "capacity", "not_retained", "send",
                  "echo", "lost", "not_released", "dispositions", "success"}
  /\ fault \in {"none", "frees", "uncounted", "leaksAll", "leaks", "dispositions"}
  /\ failedAt \subseteq Contract(TRUE)!Pcs
ContractSessions == opened \subseteq Contract(TRUE)!Sessions /\ works \subseteq Contract(TRUE)!Sessions
ContractHolders == holders \in [Contract(TRUE)!Contexts ->
                                  SUBSET (Contract(TRUE)!Sessions \cup {Contract(TRUE)!Lost,
                                    Contract(TRUE)!Other})]

\* The type invariant, by groups.
LEMMA ContractTypeIs == Contract(TRUE)!TypeOK <=> ContractPlace /\ ContractSessions /\ ContractHolders
BY Zenon DEF Contract!TypeOK, ContractPlace, ContractSessions, ContractHolders

\* Steps that leave the service and its sessions as they are.
Advances(d) ==
  \/ (pc = "openFlow" /\ pc' = "loadEvent")
  \/ (pc = "loadEvent" /\ pc' = "closeOriginal")
  \/ (pc = "send" /\ pc' = "echo" /\ Contract(d)!Clone \in works)
  \/ (pc = "echo" /\ pc' = "closeClone")
  \/ (pc = "batch" /\ pc' = "sendBatch")
  \/ (pc = "sendBatch" /\ pc' = "batchEvent" /\ fault # "dispositions")
  \/ (pc = "batchEvent" /\ pc' = "batchEcho")
  \/ (pc = "batchEcho" /\ pc' = "closeBatch")
\* Steps that leave the contexts as they are: a call goes on or gives up.
Calls(d) ==
  /\ UNCHANGED <<extra, fault, alive, holders, works, opened>>
  /\ \/ UNCHANGED <<pc, verdict, failedAt>>
     \/ Advances(d) /\ UNCHANGED <<verdict, failedAt>>
     \/ /\ pc \notin {"abandon", "done"} /\ pc' = "abandon"
        /\ verdict' \in {"setup", "clone", "flow", "event", "send", "echo", "lost"}
             \/ (verdict' = "dispositions" /\ fault = "dispositions")
             \/ (verdict' = "capacity" /\ pc = "fill" /\ extra < Capacity - 1 /\ (Contract(d)!MayFail
                  \/ Contract(d)!Free = {}))
        /\ \/ failedAt' = failedAt \/ (failedAt' = failedAt \cup {pc} /\ (pc \in {"echo",
                "batchEcho"} => verdict' = "lost"))
     \/ pc = "closeBatch" /\ pc' = "done" /\ verdict' = "success" /\ failedAt' \subseteq failedAt \cup {pc}
     \/ /\ pc = "abandon" /\ pc' = "done" /\ UNCHANGED verdict
        /\ failedAt' = failedAt \/ (verdict # "lost" /\ failedAt' = failedAt \cup {pc})

\* A call on a session: it goes on, or gives up.
LEMMA CallIs ==
  ASSUME NEW d \in BOOLEAN, NEW at \in Contract(TRUE)!Pcs \ {"abandon", "done", "echo", "batchEcho"}, NEW s,
           NEW next,
         NEW why \in {"flow", "event", "send"}, Contract(d)!Call(at, s, next, why)
  PROVE  /\ pc = at /\ UNCHANGED <<extra, fault, alive, holders, works, opened>>
         /\ \/ s \in works /\ pc' = next /\ UNCHANGED <<verdict, failedAt>>
            \/ pc' = "abandon" /\ verdict' = why /\ failedAt' \in {failedAt, failedAt \cup {pc}}
BY DEF Contract!Call, Contract!NoteFailure, Contract!service

\* Giving up leaves the service alone.
LEMMA GiveUpIs ==
  ASSUME NEW d \in BOOLEAN, NEW why, Contract(d)!GiveUp(why)
  PROVE  /\ UNCHANGED <<extra, fault, alive, holders, works, opened>> /\ pc' = "abandon" /\ verdict' = why
         /\ failedAt' \in {failedAt, failedAt \cup {pc}}
BY DEF Contract!GiveUp, Contract!NoteFailure, Contract!service

\* The calls that open sessions.
Opens(d) ==
  /\ pc = "prepare" /\ pc' = "clone" /\ Contract(d)!OpenTunnelClient(Contract(d)!Primary)
  /\ UNCHANGED <<extra, flow, eventOpen, verdict, fault, alive, failedAt>>
Clones(d) ==
  /\ pc = "clone" /\ pc' = "openFlow" /\ Contract(d)!Primary \in works
  /\ holders' = [c \in Contract(d)!Contexts |->
       IF Contract(d)!Primary \in holders[c] THEN holders[c] \cup {Contract(d)!Clone} ELSE holders[c]]
  /\ works' = works \cup {Contract(d)!Clone} /\ opened' = opened \cup {Contract(d)!Clone}
  /\ UNCHANGED <<extra, flow, eventOpen, verdict, fault, alive, failedAt>>
Fills(d) ==
  /\ pc = "fill" /\ extra < Capacity - 1 /\ Contract(d)!OpenTunnelClient(Contract(d)!Retained(extra + 1))
  /\ extra' = extra + 1 /\ UNCHANGED <<pc, flow, eventOpen, verdict, fault, alive, failedAt>>
Filled ==
  /\ pc = "fill" /\ extra = Capacity - 1 /\ pc' = "probe"
  /\ UNCHANGED <<opened, extra, flow, eventOpen, verdict, fault, alive, holders, works, failedAt>>

\* Every step of the validation or of its service is of one of these kinds.
LEMMA ContractKinds ==
  ASSUME NEW d \in BOOLEAN, [Contract(d)!Next]_(Contract(d)!vars)
  PROVE  \/ Calls(d) \/ Opens(d) \/ Clones(d) \/ Contract(d)!CloseOriginal \/ Fills(d) \/ Filled
         \/ Contract(d)!Probe \/ Contract(d)!CloseClone \/ Contract(d)!CloseScoped
         \/ Contract(d)!OtherClient \/ Contract(d)!Shutdown
<1>. USE DEF Contract!service
<1>1. ASSUME NEW why \in {"setup", "clone"}, Contract(d)!GiveUp(why), pc \notin {"abandon", "done", "echo",
               "batchEcho"}
      PROVE  Calls(d)
  BY <1>1, GiveUpIs DEF Calls
<1>2. CASE Contract(d)!Prepare
  BY <1>1, <1>2 DEF Contract!Prepare, Opens
<1>3. CASE Contract(d)!CloneTunnelClient
  BY <1>1, <1>3 DEF Contract!CloneTunnelClient, Clones
<1>4. ASSUME NEW at \in Contract(TRUE)!Pcs \ {"abandon", "done", "echo", "batchEcho"}, NEW s, NEW next,
             NEW why \in {"flow", "event", "send"}, Contract(d)!Call(at, s, next, why), pc = at
               /\ pc' = next /\ s \in works => Advances(d)
      PROVE  Calls(d)
  BY <1>4, CallIs DEF Calls
<1>5. ASSUME Contract(d)!OpenFlow("openFlow", "loadEvent")
      PROVE  Calls(d)
  <2>1. Contract(d)!Call("openFlow", Contract(d)!Primary, "loadEvent", "flow")
    BY <1>5 DEF Contract!OpenFlow
  <2>2. pc = "openFlow" /\ pc' = "loadEvent" => Advances(d)
    BY DEF Advances
  <2>. QED
    BY <1>4, <2>1, <2>2 DEF Contract!Pcs
<1>5a. ASSUME Contract(d)!OpenFlow("batch", "sendBatch")
       PROVE  Calls(d)
  <2>1. Contract(d)!Call("batch", Contract(d)!Primary, "sendBatch", "flow")
    BY <1>5a DEF Contract!OpenFlow
  <2>2. pc = "batch" /\ pc' = "sendBatch" => Advances(d)
    BY DEF Advances
  <2>. QED
    BY <1>4, <2>1, <2>2 DEF Contract!Pcs
<1>6. ASSUME Contract(d)!LoadEvent("loadEvent", Contract(d)!Clone, "closeOriginal")
      PROVE  Calls(d)
  <2>1. Contract(d)!Call("loadEvent", Contract(d)!Clone, "closeOriginal", "event")
    BY <1>6 DEF Contract!LoadEvent
  <2>2. pc = "loadEvent" /\ pc' = "closeOriginal" => Advances(d)
    BY DEF Advances
  <2>. QED
    BY <1>4, <2>1, <2>2 DEF Contract!Pcs
<1>6a. ASSUME Contract(d)!LoadEvent("batchEvent", Contract(d)!Primary, "batchEcho")
       PROVE  Calls(d)
  <2>1. Contract(d)!Call("batchEvent", Contract(d)!Primary, "batchEcho", "event")
    BY <1>6a DEF Contract!LoadEvent
  <2>2. pc = "batchEvent" /\ pc' = "batchEcho" => Advances(d)
    BY DEF Advances
  <2>. QED
    BY <1>4, <2>1, <2>2 DEF Contract!Pcs
<1>7. CASE Contract(d)!SendOnClone
  BY <1>4, <1>7 DEF Contract!SendOnClone, Advances, Contract!Pcs
<1>8. CASE Contract(d)!SendBatch
  <2>1. CASE fault = "dispositions" /\ Contract(d)!Primary \in works
    <3>1. pc = "sendBatch" /\ Contract(d)!GiveUp("dispositions")
      BY <1>8, <2>1 DEF Contract!SendBatch
    <3>. QED
      BY <2>1, <3>1, GiveUpIs DEF Calls
  <2>2. CASE ~(fault = "dispositions" /\ Contract(d)!Primary \in works)
    BY <1>4, <1>8, <2>2 DEF Contract!SendBatch, Advances, Contract!Pcs
  <2>. QED
    BY <2>1, <2>2
<1>9. ASSUME NEW at \in {"echo", "batchEcho"}, NEW s, NEW next, Contract(d)!AwaitEcho(at, s, next), pc = at
               /\ pc' = next => Advances(d)
      PROVE  Calls(d)
  <2>1. pc = at /\ UNCHANGED <<extra, fault, alive, holders, works, opened>>
    BY <1>9 DEF Contract!AwaitEcho
  <2>2. \/ pc' = next /\ UNCHANGED <<verdict, failedAt>>
        \/ pc' = "abandon" /\ verdict' = "echo" /\ UNCHANGED failedAt
        \/ pc' = "abandon" /\ verdict' = "lost" /\ (failedAt' = failedAt \/ failedAt' = failedAt \cup {pc})
    BY <1>9 DEF Contract!AwaitEcho, Contract!NoteFailure
  <2>. QED
    BY <1>9, <2>1, <2>2 DEF Calls
<1>10. ASSUME Contract(d)!AwaitEcho("echo", Contract(d)!Clone, "closeClone")
       PROVE  Calls(d)
  <2>1. pc = "echo" /\ pc' = "closeClone" => Advances(d)
    BY DEF Advances
  <2>. QED
    BY <1>9, <1>10, <2>1
<1>10a. ASSUME Contract(d)!AwaitEcho("batchEcho", Contract(d)!Primary, "closeBatch")
        PROVE  Calls(d)
  <2>1. pc = "batchEcho" /\ pc' = "closeBatch" => Advances(d)
    BY DEF Advances
  <2>. QED
    BY <1>9, <1>10a, <2>1
<1>11. CASE Contract(d)!Finish
  BY <1>11 DEF Contract!Finish, Contract!NoteFailure, Calls
<1>12. CASE Contract(d)!Abandon
  BY <1>12 DEF Contract!Abandon, Calls
<1>13. CASE Contract(d)!Fill
  <2>1. CASE extra < Capacity - 1 /\ (Contract(d)!MayFail \/ Contract(d)!Free = {})
               /\ Contract(d)!GiveUp("capacity") /\ pc = "fill"
    BY <2>1, GiveUpIs DEF Calls
  <2>. QED
    BY <1>13, <2>1 DEF Contract!Fill, Fills, Filled
<1>14. CASE UNCHANGED Contract(d)!vars
  BY <1>14 DEF Contract!vars, Calls
<1>. QED
  BY <1>2, <1>3, <1>5, <1>5a, <1>6, <1>6a, <1>7, <1>8, <1>10, <1>10a, <1>11, <1>12, <1>13,
       <1>14 DEF Contract!Next, Contract!Validation

-----------------------------------------------------------------------------
(* The contract validation: types. *)

\* The flags of the open flow and of the open event.
LEMMA ContractFlagsStep ==
  ASSUME NEW d \in BOOLEAN, flow \in BOOLEAN, eventOpen \in BOOLEAN, [Contract(d)!Next]_(Contract(d)!vars)
  PROVE  flow' \in BOOLEAN /\ eventOpen' \in BOOLEAN
<1>. USE DEF Contract!service
<1>1. CASE Contract(d)!Prepare \/ Contract(d)!CloneTunnelClient
  BY <1>1 DEF Contract!Prepare, Contract!CloneTunnelClient, Contract!GiveUp
<1>2. ASSUME NEW at, NEW next, Contract(d)!OpenFlow(at, next)
      PROVE  flow' \in BOOLEAN /\ eventOpen' \in BOOLEAN
  BY <1>2 DEF Contract!OpenFlow
<1>3. ASSUME NEW at, NEW s, NEW next, Contract(d)!LoadEvent(at, s, next)
      PROVE  flow' \in BOOLEAN /\ eventOpen' \in BOOLEAN
  BY <1>3 DEF Contract!LoadEvent
<1>4. CASE Contract(d)!CloseOriginal \/ Contract(d)!Fill \/ Contract(d)!Probe \/ Contract(d)!SendOnClone
  BY <1>4 DEF Contract!CloseOriginal, Contract!Fill, Contract!Probe, Contract!SendOnClone, Contract!GiveUp
<1>5. ASSUME NEW at, NEW s, NEW next, Contract(d)!AwaitEcho(at, s, next)
      PROVE  flow' \in BOOLEAN /\ eventOpen' \in BOOLEAN
  BY <1>5 DEF Contract!AwaitEcho
<1>6. CASE Contract(d)!CloseClone \/ Contract(d)!SendBatch \/ Contract(d)!Finish \/ Contract(d)!Abandon
           \/ Contract(d)!CloseScoped
  BY <1>6 DEF Contract!CloseClone, Contract!SendBatch, Contract!Finish, Contract!Abandon, Contract!CloseScoped,
     Contract!GiveUp
<1>7. CASE Contract(d)!OtherClient \/ Contract(d)!Shutdown \/ UNCHANGED Contract(d)!vars
  BY <1>7 DEF Contract!OtherClient, Contract!Shutdown, Contract!vars
<1>. QED
  BY <1>1, <1>2, <1>3, <1>4, <1>5, <1>6, <1>7 DEF Contract!Next, Contract!Validation

\* Types of place, flags and verdict are kept.
LEMMA ContractPlaceStep ==
  ASSUME NEW d \in BOOLEAN, ContractPlace, [Contract(d)!Next]_(Contract(d)!vars)
  PROVE  ContractPlace'
<1>. USE DEF ContractPlace, Contract!Pcs
<1>1. flow' \in BOOLEAN /\ eventOpen' \in BOOLEAN
  BY ContractFlagsStep
<1>2. CASE Calls(d)
  <2>1. pc' \in Contract(TRUE)!Pcs
    BY <1>2 DEF Calls, Advances
  <2>2. verdict' \in {"none", "setup", "clone", "flow", "event", "capacity", "not_retained", "send",
                      "echo", "lost", "not_released", "dispositions", "success"}
    BY <1>2 DEF Calls
  <2>3. failedAt' \subseteq Contract(TRUE)!Pcs
    BY <1>2 DEF Calls
  <2>. QED
    BY <1>1, <1>2, <2>1, <2>2, <2>3 DEF Calls
<1>3. CASE Opens(d) \/ Clones(d) \/ Contract(d)!CloseOriginal \/ Filled
  BY <1>1, <1>3 DEF Opens, Clones, Contract!CloseOriginal, Filled
<1>4. CASE Fills(d)
  BY <1>1, <1>4, CapacityIsNat DEF Fills
<1>5. CASE Contract(d)!Probe
  BY <1>1, <1>5 DEF Contract!Probe, Contract!NoteFailure, Contract!service
<1>6. CASE Contract(d)!CloseClone
  BY <1>1, <1>6 DEF Contract!CloseClone, Contract!NoteFailure
<1>7. CASE Contract(d)!CloseScoped
  BY <1>1, <1>7 DEF Contract!CloseScoped
<1>8. CASE Contract(d)!OtherClient
  BY <1>1, <1>8 DEF Contract!OtherClient
<1>9. CASE Contract(d)!Shutdown
  BY <1>1, <1>9 DEF Contract!Shutdown
<1>. QED
  BY <1>2, <1>3, <1>4, <1>5, <1>6, <1>7, <1>8, <1>9, ContractKinds

\* The sessions of the validation are sessions.
LEMMA OurSessions ==
  ASSUME NEW d \in BOOLEAN
  PROVE  /\ Contract(d)!Primary \in Contract(TRUE)!Sessions /\ Contract(d)!Clone \in Contract(TRUE)!Sessions
         /\ \A i \in 1..Capacity - 1 : Contract(d)!Retained(i) \in Contract(TRUE)!Sessions
BY DEF Contract!Primary, Contract!Clone, Contract!Retained, Contract!Sessions, Contract!Extras

\* What is open and served are such sessions.
LEMMA ContractSessionsStep ==
  ASSUME NEW d \in BOOLEAN, ContractPlace, ContractSessions, [Contract(d)!Next]_(Contract(d)!vars)
  PROVE  ContractSessions'
<1>. USE DEF ContractSessions
<1>0. ASSUME NEW s \in Contract(TRUE)!Sessions, Contract(d)!OpenTunnelClient(s)
      PROVE  ContractSessions'
  BY <1>0 DEF Contract!OpenTunnelClient
<1>1. CASE Calls(d) \/ Filled \/ Contract(d)!Probe \/ Contract(d)!OtherClient \/ Contract(d)!Shutdown
  BY <1>1 DEF Calls, Filled, Contract!Probe, Contract!OtherClient, Contract!Shutdown, Contract!service
<1>2. CASE Opens(d)
  BY <1>0, <1>2, OurSessions DEF Opens
<1>3. CASE Clones(d)
  BY <1>3, OurSessions DEF Clones
<1>4. CASE Fills(d)
  <2>1. extra + 1 \in 1..Capacity - 1
    BY <1>4, CapacityIsNat DEF Fills, ContractPlace
  <2>. QED
    BY <1>0, <1>4, <2>1, OurSessions DEF Fills
<1>5. CASE Contract(d)!CloseOriginal \/ Contract(d)!CloseScoped
  BY <1>5 DEF Contract!CloseOriginal, Contract!CloseScoped, Contract!CloseSession, Contract!Served
<1>6. CASE Contract(d)!CloseClone
  BY <1>6, OurSessions DEF Contract!CloseClone
<1>. QED
  BY <1>1, <1>2, <1>3, <1>4, <1>5, <1>6, ContractKinds

\* Who may hold a context.
Keepers == Contract(TRUE)!Sessions \cup {Contract(TRUE)!Lost, Contract(TRUE)!Other}

\* After a close, contexts are held by sessions, clients or nobody.
LEMMA AfterTyped ==
  ASSUME NEW d \in BOOLEAN, ContractHolders, NEW ss
  PROVE  Contract(d)!After(ss) \in [Contract(TRUE)!Contexts -> SUBSET Keepers]
<1>1. ASSUME NEW c \in Contract(TRUE)!Contexts
      PROVE  (IF holders[c] \cap ss = {} THEN holders[c]
              ELSE IF holders[c] \subseteq ss
                   THEN (IF Contract(d)!Leaks(holders[c]) THEN {Contract(d)!Lost} ELSE {})
              ELSE IF fault \in {"frees", "uncounted"} /\ Contract(d)!Primary \in ss THEN {}
              ELSE holders[c] \ ss) \in SUBSET Keepers
  <2>1. holders[c] \subseteq Keepers /\ Contract(d)!Lost \in Keepers
    BY DEF ContractHolders, Keepers, Contract!Lost
  <2>. QED
    BY <2>1
<1>. QED
  BY <1>1 DEF Contract!After, Contract!Contexts

\* Contexts are held by sessions, clients or nobody.
LEMMA ContractHoldersStep ==
  ASSUME NEW d \in BOOLEAN, ContractPlace, ContractSessions, ContractHolders,
           [Contract(d)!Next]_(Contract(d)!vars)
  PROVE  ContractHolders'
<1>. DEFINE Typed == [Contract(TRUE)!Contexts -> SUBSET Keepers]
<1>a. /\ ContractHolders <=> holders \in Typed
      /\ ContractHolders' <=> holders' \in Typed
  BY Zenon DEF ContractHolders, Keepers
<1>b. /\ Contract(d)!Primary \in Keepers /\ Contract(d)!Clone \in Keepers /\ Contract(d)!Other \in Keepers
      /\ \A i \in 1..Capacity - 1 : Contract(d)!Retained(i) \in Keepers
  BY OurSessions DEF Keepers, Contract!Other
<1>0. ASSUME NEW s \in Keepers, Contract(d)!OpenTunnelClient(s)
      PROVE  holders' \in Typed
  BY <1>a, <1>0 DEF Contract!OpenTunnelClient, Contract!Free, Contract!Contexts
<1>1. CASE Calls(d) \/ Filled \/ Contract(d)!Probe
  BY <1>a, <1>1 DEF Calls, Filled, Contract!Probe, Contract!service
<1>2. CASE Opens(d)
  BY <1>0, <1>a, <1>b, <1>2 DEF Opens
<1>3. CASE Clones(d)
  <2>1. \A c \in Contract(TRUE)!Contexts :
          (IF Contract(d)!Primary \in holders[c] THEN holders[c] \cup {Contract(d)!Clone}
            ELSE holders[c]) \in SUBSET Keepers
    BY <1>a, <1>b
  <2>2. holders' \in Typed
    BY <1>3, <2>1 DEF Clones, Contract!Contexts
  <2>. QED
    BY <1>a, <2>2
<1>4. CASE Fills(d)
  <2>1. extra + 1 \in 1..Capacity - 1
    BY <1>4, CapacityIsNat DEF Fills, ContractPlace
  <2>. QED
    BY <1>0, <1>a, <1>b, <1>4, <2>1 DEF Fills
<1>5. CASE Contract(d)!CloseOriginal \/ Contract(d)!CloseScoped
  <2>1. PICK s : holders' = Contract(d)!After({s})
    BY <1>5 DEF Contract!CloseOriginal, Contract!CloseScoped, Contract!CloseSession
  <2>. QED
    BY <1>a, <2>1, AfterTyped
<1>6. CASE Contract(d)!CloseClone
  <2>1. PICK left \in Typed : \/ holders' = left
                              \/ \E c \in Contract(d)!Contexts : holders' = [left EXCEPT ![c] = {Contract(d)!Primary}]
    BY <1>6, AfterTyped DEF Contract!CloseClone
  <2>2. CASE holders' = left
    BY <1>a, <2>1, <2>2
  <2>3. ASSUME NEW c \in Contract(d)!Contexts, holders' = [left EXCEPT ![c] = {Contract(d)!Primary}]
        PROVE  ContractHolders'
    BY <1>a, <1>b, <2>1, <2>3 DEF Contract!Contexts
  <2>. QED
    BY <2>1, <2>2, <2>3
<1>7. CASE Contract(d)!OtherClient
  BY <1>a, <1>b, <1>7 DEF Contract!OtherClient, Contract!Contexts
<1>8. CASE Contract(d)!Shutdown
  BY <1>a, <1>8 DEF Contract!Shutdown, Contract!Contexts
<1>. QED
  BY <1>1, <1>2, <1>3, <1>4, <1>5, <1>6, <1>7, <1>8, ContractKinds

-----------------------------------------------------------------------------
(* The TCP exchange: failures. *)

\* A step leaves what failed as it is or adds itself, and then gives up.
TcpNotes ==
  /\ tcpPc' \in {"release", "done"}
  /\ tcpPc # "done" /\ (tcpPc = "release" => tcpPc' = "done")
  /\ tcpFailedAt' = tcpFailedAt \/ tcpFailedAt' = tcpFailedAt \cup {tcpPc}
TcpGoesOn ==
  /\ UNCHANGED tcpFailedAt
  /\ tcpPc' = tcpPc \/ tcpPc \notin {"release", "done"}

\* Which of the two each step of the exchange does.
LEMMA TcpNotesOrGoesOn ==
  ASSUME NEW a \in BOOLEAN, [Tcp(a)!Next]_(Tcp(a)!vars)
  PROVE  TcpNotes \/ TcpGoesOn
<1>. USE DEF TcpNotes, TcpGoesOn, Tcp!NoteFailure
<1>0. ASSUME NEW why, Tcp(a)!GiveUp(why), tcpPc \notin {"release", "done"}
      PROVE  TcpNotes
  BY <1>0 DEF Tcp!GiveUp
<1>1. CASE Tcp(a)!Service
  BY <1>1 DEF Tcp!Service
<1>2. CASE Tcp(a)!Prepare
  BY <1>2 DEF Tcp!Prepare
<1>3. CASE Tcp(a)!OpenConnectedFlow
  BY <1>3 DEF Tcp!OpenConnectedFlow, Tcp!StartWait
<1>4. CASE Tcp(a)!Wake \/ Tcp(a)!Tick \/ Tcp(a)!TimesOut
  BY <1>4 DEF Tcp!Wake, Tcp!Tick, Tcp!TimesOut
<1>5. CASE Tcp(a)!ReceiveCompletions
  BY <1>0, <1>5 DEF Tcp!ReceiveCompletions
<1>6. CASE Tcp(a)!HandleCompletion
  BY <1>0, <1>6 DEF Tcp!HandleCompletion
<1>7. CASE Tcp(a)!Evaluate
  BY <1>7 DEF Tcp!Evaluate
<1>8. CASE Tcp(a)!CheckOpen \/ Tcp(a)!WriteTcpStream
  BY <1>0, <1>8 DEF Tcp!CheckOpen, Tcp!WriteTcpStream
<1>9. CASE Tcp(a)!ShutdownTcpWrite
  BY <1>0, <1>9 DEF Tcp!ShutdownTcpWrite, Tcp!StartWait
<1>10. CASE Tcp(a)!CloseFlow \/ Tcp(a)!Release
  BY <1>10 DEF Tcp!CloseFlow, Tcp!Release
<1>11. CASE UNCHANGED Tcp(a)!vars
  BY <1>11 DEF Tcp!vars
<1>. QED
  BY <1>1, <1>2, <1>3, <1>4, <1>5, <1>6, <1>7, <1>8, <1>9, <1>10, <1>11 DEF Tcp!Next, Tcp!Exchange

\* After a failed call only the closing of the flow fails: nothing else is called.
LEMMA TcpFailuresStep ==
  ASSUME NEW a \in BOOLEAN, TcpTypes, TcpFailures, [Tcp(a)!Next]_(Tcp(a)!vars)
  PROVE  TcpFailures'
<1>. USE DEF TcpFailures
<1>1. CASE TcpGoesOn
  BY <1>1 DEF TcpGoesOn
<1>2. CASE TcpNotes /\ tcpPc = "release"
  BY <1>2 DEF TcpNotes
<1>3. CASE TcpNotes /\ tcpPc # "release"
  <2>1. tcpFailedAt = {} /\ tcpPc \in Tcp(TRUE)!Pcs
    BY <1>3 DEF TcpNotes, TcpTypes
  <2>2. tcpFailedAt' \subseteq {tcpPc} /\ tcpPc' \in {"release", "done"}
    BY <1>3, <2>1 DEF TcpNotes
  <2>. QED
    BY <2>1, <2>2
<1>. QED
  BY <1>1, <1>2, <1>3, TcpNotesOrGoesOn

-----------------------------------------------------------------------------
(* The contract validation: failures, and who holds the contexts.  The      *)
(* contexts that are held are counted, so that the probe can tell a service *)
(* that lost the clone's context.                                           *)

\* A call fails for a lost service only when it is gone, and with it every session.
ContractGone ==
  /\ failedAt # {} => ~alive
  /\ ~alive => works = {}
\* After a failed wait for an echo nothing else fails; after a failed probe the send
\* does, and after any other call the closing of the flow.
ContractFailures ==
  /\ pc \notin {"send", "abandon", "done"} => failedAt = {}
  /\ pc = "send" => failedAt \subseteq {"probe"}
  /\ pc = "abandon" => failedAt \subseteq {"probe", "send"} \/ \E at \in Contract(TRUE)!Pcs : failedAt \subseteq {at}
  /\ \/ failedAt \subseteq {"probe", "send", "abandon"}
     \/ \E at \in Contract(TRUE)!Pcs : failedAt \subseteq {at, "abandon"}
  /\ failedAt \cap {"echo", "batchEcho"} # {}
       => verdict = "lost" /\ \E at \in Contract(TRUE)!Pcs : failedAt = {at}

\* A call fails for a lost service only when the service is gone.
LEMMA ContractNotes ==
  ASSUME NEW d \in BOOLEAN, [Contract(d)!Next]_(Contract(d)!vars)
  PROVE  failedAt' = failedAt \/ ~alive
<1>. USE DEF Contract!NoteFailure
<1>1. ASSUME NEW at, NEW s, NEW next, NEW why, Contract(d)!Call(at, s, next, why)
      PROVE  failedAt' = failedAt \/ ~alive
  BY <1>1 DEF Contract!Call
<1>2. CASE Contract(d)!Prepare \/ Contract(d)!CloneTunnelClient \/ Contract(d)!Fill
  BY <1>2 DEF Contract!Prepare, Contract!CloneTunnelClient, Contract!Fill, Contract!GiveUp
<1>3. ASSUME NEW at, NEW s, NEW next, Contract(d)!OpenFlow(at, next) \/ Contract(d)!LoadEvent(at, s, next)
      PROVE  failedAt' = failedAt \/ ~alive
  BY <1>1, <1>3 DEF Contract!OpenFlow, Contract!LoadEvent
<1>4. CASE Contract(d)!CloseOriginal \/ Contract(d)!Probe \/ Contract(d)!CloseClone \/ Contract(d)!CloseScoped
  BY <1>4 DEF Contract!CloseOriginal, Contract!Probe, Contract!CloseClone, Contract!CloseScoped
<1>5. CASE Contract(d)!SendOnClone \/ Contract(d)!SendBatch
  BY <1>1, <1>5 DEF Contract!SendOnClone, Contract!SendBatch, Contract!GiveUp
<1>6. ASSUME NEW at, NEW s, NEW next, Contract(d)!AwaitEcho(at, s, next)
      PROVE  failedAt' = failedAt \/ ~alive
  BY <1>6 DEF Contract!AwaitEcho
<1>7. CASE Contract(d)!Finish \/ Contract(d)!Abandon
  BY <1>7 DEF Contract!Finish, Contract!Abandon
<1>8. CASE Contract(d)!OtherClient \/ Contract(d)!Shutdown \/ UNCHANGED Contract(d)!vars
  BY <1>8 DEF Contract!OtherClient, Contract!Shutdown, Contract!vars
<1>. QED
  BY <1>2, <1>3, <1>4, <1>5, <1>6, <1>7, <1>8 DEF Contract!Next, Contract!Validation

\* The end of the service ends every session, and only then a call fails for it.
LEMMA ContractGoneStep ==
  ASSUME NEW d \in BOOLEAN, ContractPlace, ContractGone, [Contract(d)!Next]_(Contract(d)!vars)
  PROVE  ContractGone'
<1>. USE ContractNotes DEF ContractGone, ContractPlace
<1>1. CASE Calls(d)
  BY <1>1 DEF Calls
<1>2. CASE Opens(d) \/ Fills(d)
  BY <1>2 DEF Opens, Fills, Contract!OpenTunnelClient
<1>3. CASE Clones(d) \/ Filled
  BY <1>3 DEF Clones, Filled
<1>4. CASE Contract(d)!CloseOriginal \/ Contract(d)!CloseScoped
  <2>1. ASSUME NEW s, Contract(d)!CloseSession(s)
        PROVE  works' \subseteq works
    BY <2>1 DEF Contract!CloseSession, Contract!Served
  <2>2. works' \subseteq works /\ UNCHANGED <<alive, failedAt>>
    BY <1>4, <2>1 DEF Contract!CloseOriginal, Contract!CloseScoped
  <2>. QED
    BY <2>2
<1>5. CASE Contract(d)!Probe
  BY <1>5 DEF Contract!Probe, Contract!NoteFailure, Contract!service
<1>6. CASE Contract(d)!CloseClone
  BY <1>6 DEF Contract!CloseClone, Contract!NoteFailure
<1>7. CASE Contract(d)!OtherClient \/ Contract(d)!Shutdown
  BY <1>7 DEF Contract!OtherClient, Contract!Shutdown
<1>. QED
  BY <1>1, <1>2, <1>3, <1>4, <1>5, <1>6, <1>7, ContractKinds

\* What fails after a call that failed because the service is gone.
LEMMA ContractFailuresStep ==
  ASSUME NEW d \in BOOLEAN, ContractPlace, ContractGone, ContractFailures, [Contract(d)!Next]_(Contract(d)!vars)
  PROVE  ContractFailures'
<1>. USE DEF ContractFailures
<1>1. CASE Calls(d)
  <2>1. CASE UNCHANGED <<pc, verdict, failedAt>>
    BY <2>1
  <2>2. CASE Advances(d) /\ UNCHANGED <<verdict, failedAt>>
    <3>1. pc = "send" => failedAt = {}
      BY <2>2 DEF Advances, ContractGone
    <3>. QED
      BY <2>2, <3>1 DEF Advances
  <2>3. CASE /\ pc \notin {"abandon", "done"} /\ pc' = "abandon"
             /\ \/ failedAt' = failedAt
                \/ (failedAt' = failedAt \cup {pc} /\ (pc \in {"echo", "batchEcho"} => verdict' = "lost"))
    <3>1. CASE pc = "send"
      BY <2>3, <3>1 DEF ContractPlace
    <3>2. CASE pc # "send"
      <4>1. failedAt = {} /\ pc \in Contract(TRUE)!Pcs
        BY <2>3, <3>2 DEF ContractPlace
      <4>. QED
        BY <2>3, <4>1
    <3>. QED
      BY <3>1, <3>2
  <2>4. CASE pc = "closeBatch" /\ pc' = "done" /\ failedAt' \subseteq failedAt \cup {pc}
    <3>1. failedAt = {} /\ pc \in Contract(TRUE)!Pcs
      BY <2>4 DEF ContractPlace
    <3>. QED
      BY <2>4, <3>1
  <2>5. CASE /\ pc = "abandon" /\ pc' = "done" /\ UNCHANGED verdict
             /\ failedAt' = failedAt \/ (verdict # "lost" /\ failedAt' = failedAt \cup {pc})
    BY <2>5
  <2>. QED
    BY <1>1, <2>1, <2>2, <2>3, <2>4, <2>5 DEF Calls
<1>2. CASE Opens(d) \/ Clones(d) \/ Contract(d)!CloseOriginal \/ Fills(d) \/ Filled
  BY <1>2 DEF Opens, Clones, Contract!CloseOriginal, Fills, Filled
<1>3. CASE Contract(d)!Probe
  <2>1. failedAt = {} /\ pc = "probe"
    BY <1>3 DEF Contract!Probe
  <2>2. \/ pc' = "abandon" /\ failedAt' = {}
        \/ pc' = "send" /\ failedAt' \subseteq {"probe"}
    BY <1>3, <2>1 DEF Contract!Probe, Contract!NoteFailure
  <2>. QED
    BY <2>2
<1>4. CASE Contract(d)!CloseClone
  <2>1. failedAt = {} /\ pc = "closeClone" /\ pc \in Contract(TRUE)!Pcs
    BY <1>4 DEF Contract!CloseClone, ContractPlace
  <2>2. \/ pc' \in {"batch", "done"} /\ failedAt' = {}
        \/ pc' = "abandon" /\ failedAt' \subseteq {pc}
    BY <1>4, <2>1 DEF Contract!CloseClone, Contract!NoteFailure
  <2>. QED
    BY <2>1, <2>2
<1>5. CASE Contract(d)!CloseScoped \/ Contract(d)!OtherClient \/ Contract(d)!Shutdown
  BY <1>5 DEF Contract!CloseScoped, Contract!OtherClient, Contract!Shutdown
<1>. QED
  BY <1>1, <1>2, <1>3, <1>4, <1>5, ContractKinds

\* The sessions that are open when the original is closed, the contexts held, who shares
\* the context of the clone, and the faults that forget it.
Ours == {Contract(FALSE)!Clone} \cup {Contract(FALSE)!Retained(i) : i \in Contract(FALSE)!Extras}
Held == {c \in 1..Capacity : holders[c] # {}}
Sharing == {Contract(FALSE)!Primary, Contract(FALSE)!Clone}
Forgets == fault \in {"frees", "uncounted"}

\* Who holds the contexts of a service that runs, as the validation advances.
ContractHeld ==
  /\ pc \in {"prepare", "clone", "openFlow", "loadEvent", "closeOriginal"} => extra = 0
  /\ pc = "probe" => extra = Capacity - 1
  /\ alive =>
       /\ pc = "prepare" => \A c \in 1..Capacity : holders[c] = {}
       /\ pc = "clone" => \A c \in 1..Capacity : holders[c] \in {{}, {Contract(FALSE)!Primary}}
       /\ pc \in {"openFlow", "loadEvent", "closeOriginal"} => \A c \in 1..Capacity : holders[c] \in {{},
            Sharing}
       /\ pc \in {"clone", "openFlow", "loadEvent", "closeOriginal"} => Cardinality(Held) = 1
       /\ pc \in {"fill", "probe"} => Cardinality(Held) = IF Forgets THEN extra ELSE extra + 1
       /\ pc \in {"fill", "probe", "send", "echo", "closeClone"}
            => \A c \in 1..Capacity : holders[c] \subseteq Ours
       /\ pc \in {"send", "echo", "closeClone"} => Held = 1..Capacity

\* There are no more contexts held than contexts.
LEMMA HeldIsFinite == IsFiniteSet(Held) /\ Cardinality(Held) \in 0..Capacity
<1>1. IsFiniteSet(1..Capacity) /\ Cardinality(1..Capacity) = Capacity
  BY FS_Interval, CapacityIsNat
<1>. QED
  BY <1>1, FS_Subset, FS_CardinalityType DEF Held

\* A client that is opened holds one context more.
LEMMA OpenedHeld ==
  ASSUME ContractHolders, NEW s, Contract(FALSE)!OpenTunnelClient(s)
  PROVE  /\ alive /\ Cardinality(Held') = Cardinality(Held) + 1
         /\ \A c \in 1..Capacity : holders'[c] \in {holders[c], {s}}
<1>1. PICK k \in 1..Capacity : holders[k] = {} /\ holders' = [holders EXCEPT ![k] = {s}]
  BY DEF Contract!OpenTunnelClient, Contract!Free, Contract!Contexts
<1>2. Held' = Held \cup {k} /\ k \notin Held
  BY <1>1 DEF Held, ContractHolders, Contract!Contexts
<1>3. Cardinality(Held') = Cardinality(Held) + 1
  BY <1>2, HeldIsFinite, FS_AddElement
<1>. QED
  BY <1>1, <1>3 DEF Contract!OpenTunnelClient, ContractHolders, Contract!Contexts

\* All contexts are held when as many are held as there are.
LEMMA AllHeld ==
  ASSUME Cardinality(Held) = Capacity
  PROVE  Held = 1..Capacity
<1>1. IsFiniteSet(1..Capacity) /\ Cardinality(1..Capacity) = Capacity
  BY FS_Interval, CapacityIsNat
<1>. QED
  BY <1>1, FS_Subset DEF Held

\* No context is free exactly when all are held.
LEMMA FreeIs == Contract(FALSE)!Free = {} <=> Held = 1..Capacity
BY DEF Contract!Free, Contract!Contexts, Held

\* When the original is closed the clone holds its context, unless the service forgets it.
LEMMA OriginalClosed ==
  ASSUME ContractHolders, \A c \in 1..Capacity : holders[c] \in {{}, Sharing}, Cardinality(Held) = 1,
         holders' = Contract(FALSE)!After({Contract(FALSE)!Primary}), UNCHANGED fault
  PROVE  /\ \A c \in 1..Capacity : holders'[c] \subseteq Ours
         /\ Cardinality(Held') = IF Forgets THEN 0 ELSE 1
<1>. DEFINE p == Contract(FALSE)!Primary
            k == Contract(FALSE)!Clone
<1>0. p # k /\ k \in Ours
  BY SessionsDiffer DEF Ours
<1>1. ASSUME NEW c \in 1..Capacity
      PROVE  holders'[c] = IF holders[c] = {} \/ Forgets THEN {} ELSE {k}
  <2>1. holders'[c] = IF holders[c] \cap {p} = {} THEN holders[c]
                      ELSE IF holders[c] \subseteq {p}
                           THEN (IF Contract(FALSE)!Leaks(holders[c]) THEN {Contract(FALSE)!Lost} ELSE {})
                      ELSE IF fault \in {"frees", "uncounted"} /\ p \in {p} THEN {}
                      ELSE holders[c] \ {p}
    BY DEF Contract!After, Contract!Contexts
  <2>. HIDE DEF p, k
  <2>2. holders[c] \in {{}, {p, k}}
    BY DEF Sharing, p, k
  <2>. QED
    BY <1>0, <2>1, <2>2 DEF Forgets
<1>2. CASE Forgets
  <2>1. Held' = {}
    BY <1>1, <1>2 DEF Held
  <2>. QED
    BY <1>1, <1>2, <2>1, FS_EmptySet
<1>3. CASE ~Forgets
  <2>1. Held' = Held
    BY <1>1, <1>3 DEF Held
  <2>. QED
    BY <1>0, <1>1, <1>3, <2>1
<1>. QED
  BY <1>2, <1>3

-----------------------------------------------------------------------------
(* The contract validation: the contexts held, kept by every step. *)

\* Steps after which nothing is claimed of the contexts any more, or nothing new.
LEMMA ContractHeldKept ==
  ASSUME ContractHeld, UNCHANGED <<extra, fault, holders>>, alive' => alive,
         \/ pc' = pc
         \/ pc' \notin {"prepare", "clone", "openFlow", "loadEvent", "closeOriginal", "fill", "probe", "send",
                        "echo", "closeClone"}
         \/ (pc = "openFlow" /\ pc' = "loadEvent") \/ (pc = "loadEvent" /\ pc' = "closeOriginal")
         \/ (pc = "send" /\ pc' = "echo") \/ (pc = "echo" /\ pc' = "closeClone")
  PROVE  ContractHeld'
<1>1. Held' = Held /\ (Forgets' <=> Forgets)
  BY DEF Held, Forgets
<1>. HIDE DEF Held, Forgets
<1>. QED
  BY <1>1 DEF ContractHeld

\* The first client holds one context.
LEMMA HeldOpened ==
  ASSUME ContractHolders, ContractHeld, Opens(FALSE)
  PROVE  ContractHeld'
<1>1. /\ alive /\ Cardinality(Held') = Cardinality(Held) + 1
      /\ \A c \in 1..Capacity : holders'[c] \in {holders[c], {Contract(FALSE)!Primary}}
  BY OpenedHeld DEF Opens
<1>2. /\ pc = "prepare" /\ pc' = "clone" /\ extra = 0 /\ extra' = 0
      /\ \A c \in 1..Capacity : holders[c] = {}
  BY <1>1 DEF Opens, ContractHeld
<1>3. Cardinality(Held) = 0
  <2>1. Held = {}
    BY <1>2 DEF Held
  <2>. QED
    BY <2>1, FS_EmptySet
<1>4. Cardinality(Held') = 1
  BY <1>1, <1>3
<1>5. \A c \in 1..Capacity : holders'[c] \in {{}, {Contract(FALSE)!Primary}}
  BY <1>1, <1>2
<1>. HIDE DEF Held
<1>. QED
  BY <1>2, <1>4, <1>5 DEF ContractHeld

\* Its clone shares it.
LEMMA HeldCloned ==
  ASSUME ContractHolders, ContractHeld, Clones(FALSE)
  PROVE  ContractHeld'
<1>. DEFINE p == Contract(FALSE)!Primary
            k == Contract(FALSE)!Clone
<1>1. \A c \in 1..Capacity : holders'[c] = IF p \in holders[c] THEN holders[c] \cup {k} ELSE holders[c]
  BY DEF Clones, Contract!Contexts
<1>2. pc = "clone" /\ pc' = "openFlow" /\ extra = 0 /\ UNCHANGED <<extra, alive, fault>>
  BY DEF Clones, ContractHeld
<1>3. Held' = Held
  BY <1>1 DEF Held
<1>4. alive => \A c \in 1..Capacity : holders'[c] \in {{}, Sharing}
  <2>. HIDE DEF p, k
  <2>1. Sharing = {p, k}
    BY DEF Sharing, p, k
  <2>2. alive => \A c \in 1..Capacity : holders[c] \in {{}, {p}}
    BY <1>2 DEF ContractHeld, p
  <2>. QED
    BY <1>1, <2>1, <2>2
<1>. HIDE DEF Held
<1>. QED
  BY <1>2, <1>3, <1>4 DEF ContractHeld

\* The clone keeps it.
LEMMA HeldByClone ==
  ASSUME ContractHolders, ContractHeld, Contract(FALSE)!CloseOriginal
  PROVE  ContractHeld'
<1>1. /\ pc = "closeOriginal" /\ pc' = "fill" /\ extra = 0 /\ UNCHANGED <<extra, alive, fault>>
      /\ holders' = Contract(FALSE)!After({Contract(FALSE)!Primary})
  BY DEF Contract!CloseOriginal, Contract!CloseSession, ContractHeld
<1>2. CASE alive
  <2>1. /\ \A c \in 1..Capacity : holders[c] \in {{}, Sharing}
        /\ Cardinality(Held) = 1
    BY <1>1, <1>2 DEF ContractHeld
  <2>2. /\ \A c \in 1..Capacity : holders'[c] \subseteq Ours
        /\ Cardinality(Held') = IF Forgets THEN 0 ELSE 1
    BY <1>1, <2>1, OriginalClosed
  <2>3. Forgets' <=> Forgets
    BY <1>1 DEF Forgets
  <2>. HIDE DEF Held, Forgets
  <2>4. Cardinality(Held') = IF Forgets' THEN extra' ELSE extra' + 1
    BY <1>1, <2>2, <2>3
  <2>. QED
    BY <1>1, <2>2, <2>4 DEF ContractHeld
<1>3. CASE ~alive
  BY <1>1, <1>3 DEF ContractHeld
<1>. QED
  BY <1>2, <1>3

\* Each retained client takes one more.
LEMMA HeldFilled ==
  ASSUME ContractPlace, ContractHolders, ContractHeld, Fills(FALSE)
  PROVE  ContractHeld'
<1>. DEFINE s == Contract(FALSE)!Retained(extra + 1)
<1>1. /\ alive /\ Cardinality(Held') = Cardinality(Held) + 1
      /\ \A c \in 1..Capacity : holders'[c] \in {holders[c], {s}}
  BY OpenedHeld DEF Fills
<1>2. /\ pc = "fill" /\ pc' = "fill" /\ extra < Capacity - 1 /\ extra' = extra + 1 /\ UNCHANGED fault
      /\ Cardinality(Held) = IF Forgets THEN extra ELSE extra + 1
      /\ \A c \in 1..Capacity : holders[c] \subseteq Ours
  BY <1>1 DEF Fills, ContractHeld
<1>3. extra \in Nat /\ extra + 1 \in 1..Capacity - 1
  BY <1>2, CapacityIsNat DEF ContractPlace
<1>4. s \in Ours
  BY <1>3 DEF Ours, Contract!Extras
<1>5. \A c \in 1..Capacity : holders'[c] \subseteq Ours
  <2>. HIDE DEF s
  <2>. QED
    BY <1>1, <1>2, <1>4
<1>6. Cardinality(Held') = IF Forgets' THEN extra' ELSE extra' + 1
  BY <1>1, <1>2, <1>3 DEF Forgets
<1>. HIDE DEF Held, Forgets
<1>. QED
  BY <1>2, <1>5, <1>6 DEF ContractHeld

\* The probe goes on when nothing is free.
LEMMA HeldProbed ==
  ASSUME ContractHeld, Contract(FALSE)!Probe
  PROVE  ContractHeld'
<1>1. pc = "probe" /\ UNCHANGED <<extra, fault, holders, alive>>
  BY DEF Contract!Probe, Contract!service
<1>2. CASE pc' = "abandon"
  BY <1>1, <1>2, ContractHeldKept
<1>3. CASE pc' = "send" /\ (~alive \/ Contract(FALSE)!Free = {})
  <2>1. alive => Held' = 1..Capacity
    BY <1>1, <1>3, FreeIs DEF Held
  <2>. QED
    BY <1>1, <1>3, <2>1 DEF ContractHeld
<1>. QED
  BY <1>2, <1>3 DEF Contract!Probe, Contract!MayFail

\* Throughout the validation the service that runs holds what it is asked to hold.
LEMMA ContractHeldStep ==
  ASSUME ContractPlace, ContractHolders, ContractHeld, [Contract(FALSE)!Next]_(Contract(FALSE)!vars)
  PROVE  ContractHeld'
<1>1. CASE Calls(FALSE)
  <2>1. /\ UNCHANGED <<extra, fault, holders, alive>>
        /\ \/ pc' = pc \/ Advances(FALSE) \/ pc' \in {"abandon", "done"}
    BY <1>1 DEF Calls
  <2>2. CASE Advances(FALSE)
    BY <2>1, <2>2, ContractHeldKept DEF Advances
  <2>. QED
    BY <2>1, <2>2, ContractHeldKept
<1>2. CASE Filled
  <2>1. Held' = Held /\ (Forgets' <=> Forgets)
    BY <1>2 DEF Filled, Held, Forgets
  <2>. HIDE DEF Held, Forgets
  <2>. QED
    BY <1>2, <2>1 DEF Filled, ContractHeld
<1>3. CASE Contract(FALSE)!CloseClone
  BY <1>3 DEF Contract!CloseClone, ContractHeld
<1>4. CASE Contract(FALSE)!CloseScoped
  BY <1>4 DEF Contract!CloseScoped, ContractHeld
<1>5. CASE Contract(FALSE)!Shutdown
  BY <1>5 DEF Contract!Shutdown, ContractHeld
<1>6. ~Contract(FALSE)!OtherClient
  BY DEF Contract!OtherClient
<1>. QED
  BY <1>1, <1>2, <1>3, <1>4, <1>5, <1>6, ContractKinds, HeldOpened, HeldCloned, HeldByClone, HeldFilled,
       HeldProbed

-----------------------------------------------------------------------------
(* The contract validation: what it has found out. *)

\* What the validation has found out about the service at each point.
ContractJudged ==
  /\ ~alive => works = {}
  /\ pc = "send" /\ Forgets => ~alive
  /\ pc \in {"echo", "closeClone"} => ~Forgets
  /\ pc \in {"batch", "sendBatch", "batchEvent", "batchEcho", "closeBatch"} \/ verdict = "success" =>
       fault \notin {"frees", "uncounted", "leaksAll"}
  /\ pc \in {"batchEvent", "batchEcho", "closeBatch"} \/ verdict = "success" => fault # "dispositions"
  /\ verdict \in {"not_retained", "not_released", "capacity", "dispositions"} /\ alive => fault # "none"

\* A service that kept the contract has room for the clients that fill it.
LEMMA CapacityRight ==
  ASSUME ContractPlace, ContractHeld, pc = "fill", extra < Capacity - 1, alive, Contract(FALSE)!Free = {}
  PROVE  fault # "none"
<1>1. Cardinality(Held) = Capacity
  <2>1. Held = 1..Capacity
    BY FreeIs
  <2>. QED
    BY <2>1, FS_Interval, CapacityIsNat
<1>2. Cardinality(Held) = IF Forgets THEN extra ELSE extra + 1
  BY DEF ContractHeld
<1>3. extra \in Nat
  BY DEF ContractPlace
<1>. QED
  BY <1>1, <1>2, <1>3, CapacityIsNat DEF Forgets

\* At the probe a context is free exactly when the service forgot the clone.
LEMMA ProbeRight ==
  ASSUME ContractPlace, ContractHeld, pc = "probe", alive
  PROVE  (Contract(FALSE)!Free = {}) <=> ~Forgets
<1>1. Cardinality(Held) = IF Forgets THEN Capacity - 1 ELSE (Capacity - 1) + 1
  BY DEF ContractHeld
<1>2. CASE Forgets
  <2>1. Cardinality(1..Capacity) = Capacity
    BY FS_Interval, CapacityIsNat
  <2>2. Held # 1..Capacity
    BY <1>1, <1>2, <2>1, CapacityIsNat
  <2>. QED
    BY <1>2, <2>2, FreeIs
<1>3. CASE ~Forgets
  <2>1. Cardinality(Held) = Capacity
    BY <1>1, <1>3, CapacityIsNat
  <2>. QED
    BY <1>3, <2>1, AllHeld, FreeIs
<1>. QED
  BY <1>2, <1>3

\* What the close of the clone and of the sessions that filled the service leaves.
LEMMA CloneClosedRight ==
  ASSUME ContractHeld, pc = "closeClone", alive, NEW c \in 1..Capacity
  PROVE  /\ fault = "none" => Contract(FALSE)!After(Ours)[c] = {}
         /\ fault = "leaksAll" => Contract(FALSE)!After(Ours)[c] # {}
<1>1. holders[c] # {} /\ holders[c] \subseteq Ours
  BY DEF ContractHeld, Held
<1>2. Contract(FALSE)!After(Ours)[c] = IF Contract(FALSE)!Leaks(holders[c]) THEN {Contract(FALSE)!Lost} ELSE {}
  BY <1>1 DEF Contract!After, Contract!Contexts
<1>. QED
  BY <1>2 DEF Contract!Leaks

\* A step that keeps the service, and where it judges nothing or rightly.
LEMMA JudgedCalls ==
  ASSUME ContractPlace, ContractHeld, ContractJudged, Calls(FALSE)
  PROVE  ContractJudged'
<1>1. UNCHANGED <<extra, fault, alive, works>> /\ (Forgets' <=> Forgets)
  BY DEF Calls, Forgets
<1>2. CASE UNCHANGED <<pc, verdict, failedAt>>
  BY <1>1, <1>2 DEF ContractJudged
<1>3. CASE Advances(FALSE) /\ UNCHANGED verdict
  <2>1. CASE pc = "send" /\ pc' = "echo" /\ Contract(FALSE)!Clone \in works
    BY <1>1, <1>3, <2>1 DEF ContractJudged
  <2>2. CASE pc = "sendBatch" /\ pc' = "batchEvent" /\ fault # "dispositions"
    BY <1>1, <1>3, <2>2 DEF ContractJudged
  <2>3. CASE \/ (pc = "openFlow" /\ pc' = "loadEvent") \/ (pc = "loadEvent" /\ pc' = "closeOriginal")
             \/ (pc = "echo" /\ pc' = "closeClone") \/ (pc = "batch" /\ pc' = "sendBatch")
             \/ (pc = "batchEvent" /\ pc' = "batchEcho") \/ (pc = "batchEcho" /\ pc' = "closeBatch")
    BY <1>1, <1>3, <2>3 DEF ContractJudged
  <2>. QED
    BY <1>3, <2>1, <2>2, <2>3 DEF Advances
<1>4. CASE pc' = "abandon" /\ verdict' \in {"setup", "clone", "flow", "event", "send", "echo", "lost"}
  BY <1>1, <1>4 DEF ContractJudged
<1>5. CASE pc' = "abandon" /\ verdict' = "dispositions" /\ fault = "dispositions"
  BY <1>1, <1>5 DEF ContractJudged
<1>6. CASE /\ pc' = "abandon" /\ verdict' = "capacity" /\ pc = "fill" /\ extra < Capacity - 1
           /\ Contract(FALSE)!MayFail \/ Contract(FALSE)!Free = {}
  <2>1. alive => fault # "none"
    BY <1>6, CapacityRight DEF Contract!MayFail
  <2>. QED
    BY <1>1, <1>6, <2>1 DEF ContractJudged
<1>7. CASE pc = "closeBatch" /\ pc' = "done" /\ verdict' = "success"
  BY <1>1, <1>7 DEF ContractJudged
<1>8. CASE pc = "abandon" /\ pc' = "done" /\ UNCHANGED verdict
  BY <1>1, <1>8 DEF ContractJudged
<1>. QED
  BY <1>2, <1>3, <1>4, <1>5, <1>6, <1>7, <1>8 DEF Calls

\* The probe accuses a service that forgot the clone, and no other.
LEMMA JudgedProbe ==
  ASSUME ContractPlace, ContractHeld, ContractJudged, Contract(FALSE)!Probe
  PROVE  ContractJudged'
<1>1. /\ pc = "probe" /\ UNCHANGED <<fault, alive, works>> /\ (Forgets' <=> Forgets)
      /\ \/ alive /\ Contract(FALSE)!Free # {} /\ verdict' = "not_retained" /\ pc' = "abandon"
         \/ (~alive \/ Contract(FALSE)!Free = {}) /\ pc' = "send" /\ UNCHANGED verdict
  BY DEF Contract!Probe, Contract!MayFail, Contract!service, Forgets
<1>2. alive => ((Contract(FALSE)!Free = {}) <=> ~Forgets)
  BY <1>1, ProbeRight
<1>3. Forgets => fault # "none"
  BY DEF Forgets
<1>4. CASE alive /\ Contract(FALSE)!Free # {} /\ verdict' = "not_retained" /\ pc' = "abandon"
  BY <1>1, <1>2, <1>3, <1>4 DEF ContractJudged
<1>5. CASE (~alive \/ Contract(FALSE)!Free = {}) /\ pc' = "send" /\ UNCHANGED verdict
  BY <1>1, <1>2, <1>5 DEF ContractJudged
<1>. QED
  BY <1>1, <1>4, <1>5

\* The last close accuses a service that keeps contexts, and passes none that keeps all.
LEMMA JudgedCloseClone ==
  ASSUME ContractHeld, ContractJudged, Contract(FALSE)!CloseClone
  PROVE  ContractJudged'
<1>. DEFINE left == Contract(FALSE)!After(Ours)
<1>1. /\ pc = "closeClone" /\ UNCHANGED <<fault, alive>> /\ (Forgets' <=> Forgets) /\ ~Forgets
      /\ \/ /\ alive /\ pc' = "batch" /\ verdict' = verdict
            /\ \E c \in 1..Capacity : left[c] = {}
         \/ /\ (~alive \/ \A c \in 1..Capacity : left[c] # {})
            /\ pc' = "abandon" /\ verdict' = "not_released" /\ works' \subseteq works
  BY DEF Contract!CloseClone, Ours, ContractJudged, Contract!MayFail, Contract!Contexts, Forgets
<1>2. alive => /\ fault = "none" => \A c \in 1..Capacity : left[c] = {}
               /\ fault = "leaksAll" => \A c \in 1..Capacity : left[c] # {}
  BY <1>1, CloneClosedRight
<1>3. 1 \in 1..Capacity
  BY CapacityIsNat
<1>4. CASE alive /\ pc' = "batch" /\ verdict' = verdict /\ \E c \in 1..Capacity : left[c] = {}
  <2>1. fault \notin {"frees", "uncounted", "leaksAll"}
    BY <1>1, <1>2, <1>4 DEF Forgets
  <2>. QED
    BY <1>1, <1>4, <2>1 DEF ContractJudged
<1>5. CASE /\ (~alive \/ \A c \in 1..Capacity : left[c] # {})
           /\ pc' = "abandon" /\ verdict' = "not_released" /\ works' \subseteq works
  <2>1. alive => fault # "none"
    BY <1>2, <1>3, <1>5
  <2>2. ~alive' => works' = {}
    BY <1>1, <1>5 DEF ContractJudged
  <2>. QED
    BY <1>1, <1>5, <2>1, <2>2 DEF ContractJudged
<1>. QED
  BY <1>1, <1>4, <1>5

\* The verdict of the validation is right while it is formed.
LEMMA ContractJudgedStep ==
  ASSUME ContractPlace, ContractHeld, ContractJudged, [Contract(FALSE)!Next]_(Contract(FALSE)!vars)
  PROVE  ContractJudged'
<1>0. fault' = fault => (Forgets' <=> Forgets)
  BY DEF Forgets
<1>1. CASE Opens(FALSE)
  <2>1. alive /\ UNCHANGED <<fault, alive, verdict>> /\ pc' = "clone"
    BY <1>1 DEF Opens, Contract!OpenTunnelClient
  <2>. QED
    BY <1>0, <2>1 DEF ContractJudged
<1>1a. CASE Fills(FALSE)
  <2>1. alive /\ UNCHANGED <<fault, alive, verdict, pc>> /\ pc = "fill"
    BY <1>1a DEF Fills, Contract!OpenTunnelClient
  <2>. QED
    BY <1>0, <2>1 DEF ContractJudged
<1>2. CASE Clones(FALSE)
  BY <1>0, <1>2 DEF Clones, ContractJudged
<1>3. CASE Contract(FALSE)!CloseOriginal \/ Contract(FALSE)!CloseScoped
  <2>1. works' \subseteq works
    BY <1>3 DEF Contract!CloseOriginal, Contract!CloseScoped, Contract!CloseSession, Contract!Served
  <2>2. UNCHANGED <<fault, alive, verdict>> /\ (pc' = "fill" \/ UNCHANGED pc)
    BY <1>3 DEF Contract!CloseOriginal, Contract!CloseScoped
  <2>. QED
    BY <1>0, <2>1, <2>2 DEF ContractJudged
<1>4. CASE Filled
  BY <1>0, <1>4 DEF Filled, ContractJudged
<1>5. CASE Contract(FALSE)!Shutdown
  BY <1>0, <1>5 DEF Contract!Shutdown, ContractJudged
<1>6. ~Contract(FALSE)!OtherClient
  BY DEF Contract!OtherClient
<1>. QED
  BY <1>1, <1>1a, <1>2, <1>3, <1>4, <1>5, <1>6, ContractKinds, JudgedCalls, JudgedProbe, JudgedCloseClone

-----------------------------------------------------------------------------
(* The scenarios together. *)

\* The invariant of each workload, and of the scenarios.
UdpInv ==
  /\ UdpPlace /\ UdpCounts /\ UdpSent /\ UdpFailures /\ UdpNet /\ UdpQueues /\ UdpInbound
  /\ outcome # "none" => udpPc = "done"
  /\ Udp(TRUE)!WakeupNotDropped
  /\ scenario = "burst" => UdpVerdict(FALSE)
  /\ scenario = "echo" => UdpVerdict(TRUE) /\ UdpEchoed
TcpInv ==
  /\ TcpTypes /\ TcpPeer /\ TcpProgress /\ TcpQueues /\ TcpStage
  /\ TcpOpens /\ TcpTally /\ TcpClosed /\ TcpVerdicts /\ TcpFailures
ContractInv ==
  /\ ContractPlace /\ ContractSessions /\ ContractHolders /\ ContractGone /\ ContractFailures
  /\ scenario = "contract" => ContractHeld /\ ContractJudged
TunnelInv == UdpInv /\ TcpInv /\ ContractInv

\* The invariants hold at the start.
LEMMA UdpInvInit == Udp(TRUE)!Init => UdpInv
<1>. SUFFICES ASSUME Udp(TRUE)!Init PROVE UdpInv
  OBVIOUS
<1>. USE UdpFacts DEF Udp!Init
<1>1. UdpPlace
  <2>1. udpOpened \in 0..FlowCount /\ udpClock \in 0..Deadline /\ waited \in Nat
    OBVIOUS
  <2>2. udpPc \in Udp(TRUE)!Pcs
    BY DEF Udp!Pcs
  <2>. QED
    BY <2>1, <2>2 DEF UdpPlace
<1>2. UdpCounts /\ UdpSent
  BY DEF UdpCounts, UdpSent
<1>3. UdpFailures /\ UdpNet
  BY DEF UdpFailures, UdpNet
<1>4. UdpQueues /\ UdpInbound
  BY DEF UdpQueues, UdpInbound
<1>5. Udp(TRUE)!WakeupNotDropped
  BY DEF Udp!WakeupNotDropped
<1>6. outcome = "none" /\ udpPc = "prepare" /\ UdpEchoed
  BY DEF UdpEchoed
<1>. QED
  BY <1>1, <1>2, <1>3, <1>4, <1>5, <1>6 DEF UdpInv, UdpVerdict

\* Every step of the UDP workload keeps its invariant.
LEMMA UdpInvStep ==
  ASSUME NEW r \in BOOLEAN, scenario = "burst" => ~r, scenario = "echo" => r, UdpInv,
         [Udp(r)!Next]_(Udp(r)!vars), UNCHANGED scenario
  PROVE  UdpInv'
<1>0. /\ UdpPlace /\ UdpCounts /\ UdpSent /\ UdpFailures /\ UdpNet /\ UdpQueues /\ UdpInbound
      /\ outcome # "none" => udpPc = "done"
      /\ Udp(TRUE)!WakeupNotDropped
      /\ scenario = "burst" => UdpVerdict(FALSE)
      /\ scenario = "echo" => UdpVerdict(TRUE) /\ UdpEchoed
  BY DEF UdpInv
<1>1. UdpPlace' /\ UdpCounts' /\ UdpSent'
  BY <1>0, UdpPlaceStep, UdpCountsStep, UdpSentStep
<1>2. UdpFailures' /\ UdpNet'
  BY <1>0, UdpFailuresStep, UdpNetStep
<1>3. UdpQueues' /\ UdpInbound'
  BY <1>0, UdpQueuesStep
<1>4. Udp(TRUE)!WakeupNotDropped'
  BY <1>0, WakeupStep
<1>5. outcome' # "none" => udpPc' = "done"
  BY <1>0, UdpVerdictStep
<1>6. scenario = "burst" => UdpVerdict(FALSE)'
  BY <1>0, UdpVerdictStep
<1>7. scenario = "echo" => UdpVerdict(TRUE)'
  BY <1>0, UdpVerdictStep
<1>8. scenario = "echo" => UdpEchoed'
  BY <1>0, UdpEchoedStep
<1>. QED
  BY <1>1, <1>2, <1>3, <1>4, <1>5, <1>6, <1>7, <1>8 DEF UdpInv

LEMMA TcpInvInit == Tcp(TRUE)!Init => TcpInv
<1>. SUFFICES ASSUME Tcp(TRUE)!Init PROVE TcpInv
  OBVIOUS
<1>. USE DEF Tcp!Init
<1>0. progress = NoProgress
  BY Zenon DEF NoProgress, Tcp!NoProgress
<1>1. TcpTypes /\ TcpPeer
  <2>1. tcpClock \in 0..Deadline /\ sent \in 0..MaxSent
    BY TcpFacts
  <2>2. tcpPc \in Tcp(TRUE)!Pcs
    BY DEF Tcp!Pcs
  <2>. QED
    BY <2>1, <2>2 DEF TcpTypes, TcpPeer
<1>2. TcpProgress
  BY <1>0, NothingCollected DEF TcpProgress
<1>3. TcpQueues
  BY DEF TcpQueues
<1>4. progress.size = 0 /\ progress.right /\ ~progress.malformed /\ ~progress.open /\ ~progress.remoteClosed
  <2>1. progress = [open |-> FALSE, remoteClosed |-> FALSE, malformed |-> FALSE, size |-> 0, right |-> TRUE]
    BY ONLY <1>0 DEF NoProgress
  <2>2. progress.size = 0
    BY ONLY <2>1
  <2>3. progress.right = TRUE /\ progress.malformed = FALSE
    BY ONLY Zenon, <2>1
  <2>4. progress.open = FALSE /\ progress.remoteClosed = FALSE
    BY ONLY Zenon, <2>1
  <2>. QED
    BY ONLY <2>2, <2>3, <2>4
<1>5. TcpStage
  BY <1>0, <1>4 DEF TcpStage
<1>6. TcpQueue = <<>>
  BY DEF TcpQueue
<1>7. TcpOpens
  <2>1. 1..Len(TcpQueue) = {}
    BY <1>6
  <2>. QED
    BY <1>4, <2>1 DEF TcpOpens, OpenQueued
<1>7a. TcpClosed /\ TcpVerdicts
  BY <1>4 DEF TcpClosed, TcpVerdicts
<1>7b. TcpFailures
  BY DEF TcpFailures, Tcp!Pcs
<1>8. TcpTally
  <2>1. Len(TcpQueue) = 0
    BY <1>6
  <2>2. PICK S : S = [i \in 0..0 |-> 0]
    OBVIOUS
  <2>3. S \in [0..0 -> Nat] /\ S[0] = 0
    BY <2>2
  <2>4. Tally(S, {0})
    BY <1>4, <2>1, <2>3 DEF Tally
  <2>. QED
    BY <2>4 DEF TcpTally
<1>. QED
  BY <1>1, <1>2, <1>3, <1>5, <1>7, <1>7a, <1>7b, <1>8 DEF TcpInv

\* Every step of the TCP exchange keeps its invariant.
LEMMA TcpInvStep ==
  ASSUME NEW a \in BOOLEAN, a <=> scenario # "tcp", TcpInv, [Tcp(a)!Next]_(Tcp(a)!vars), UNCHANGED scenario
  PROVE  TcpInv'
<1>0. /\ TcpTypes /\ TcpPeer /\ TcpProgress /\ TcpQueues /\ TcpStage
      /\ TcpOpens /\ TcpTally /\ TcpClosed /\ TcpVerdicts /\ TcpFailures
  BY DEF TcpInv
<1>1. TcpTypes' /\ TcpPeer'
  BY <1>0, TcpTypesStep, TcpPeerStep
<1>2. StreamStep
  BY <1>0, StreamSteps DEF StreamStep
<1>3. phase \in {"connect", "reply"}
  BY <1>0 DEF TcpTypes
<1>4. TcpQueues' /\ TcpProgress' /\ TcpStage'
  BY <1>0, <1>2, <1>3, QueueMoves, TcpProgressStep, TcpStageStep
<1>5. TcpOpens' /\ TcpTally'
  BY <1>0, <1>1, <1>2, <1>3, TcpOpensStep, TcpTallyStep
<1>6. TcpClosed' /\ TcpVerdicts'
  BY <1>0, <1>1, <1>2, <1>3, TcpClosedStep, TcpVerdictsStep
<1>7. TcpFailures'
  BY <1>0, TcpFailuresStep
<1>. QED
  BY <1>1, <1>4, <1>5, <1>6, <1>7 DEF TcpInv

LEMMA ContractInvInit == Contract(TRUE)!Init => ContractInv
<1>. SUFFICES ASSUME Contract(TRUE)!Init PROVE ContractInv
  OBVIOUS
<1>. USE CapacityIsNat DEF Contract!Init
<1>1. ContractPlace /\ ContractSessions
  <2>1. extra \in 0..Capacity - 1
    OBVIOUS
  <2>2. pc \in Contract(TRUE)!Pcs
    BY DEF Contract!Pcs
  <2>. QED
    BY <2>1, <2>2 DEF ContractPlace, ContractSessions
<1>2. ContractHolders
  BY DEF ContractHolders
<1>3. ContractGone /\ ContractFailures
  BY DEF ContractGone, ContractFailures, Contract!Pcs
<1>4. ContractHeld
  BY DEF ContractHeld, Contract!Contexts
<1>5. ContractJudged
  BY DEF ContractJudged
<1>. QED
  BY <1>1, <1>2, <1>3, <1>4, <1>5 DEF ContractInv

\* Every step of the validation keeps its invariant.
LEMMA ContractInvStep ==
  ASSUME NEW d \in BOOLEAN, scenario = "contract" => ~d, ContractInv,
         [Contract(d)!Next]_(Contract(d)!vars), UNCHANGED scenario
  PROVE  ContractInv'
<1>0. /\ ContractPlace /\ ContractSessions /\ ContractHolders /\ ContractGone /\ ContractFailures
      /\ scenario = "contract" => ContractHeld /\ ContractJudged
  BY DEF ContractInv
<1>1. ContractPlace' /\ ContractSessions' /\ ContractHolders' /\ ContractGone' /\ ContractFailures'
  BY <1>0, ContractPlaceStep, ContractSessionsStep, ContractHoldersStep, ContractGoneStep,
     ContractFailuresStep
<1>2. CASE scenario = "contract"
  <2>1. d = FALSE
    BY <1>2
  <2>2. [Contract(FALSE)!Next]_(Contract(FALSE)!vars)
    BY <2>1
  <2>3. ContractHeld' /\ ContractJudged'
    BY <1>0, <1>2, <2>2, ContractHeldStep, ContractJudgedStep
  <2>. QED
    BY <1>1, <2>3 DEF ContractInv
<1>3. CASE scenario # "contract"
  BY <1>1, <1>3 DEF ContractInv
<1>. QED
  BY <1>2, <1>3

\* One scenario runs; the others stutter.
LEMMA TunnelInductive == TunnelInv /\ [Next]_vars => TunnelInv'
<1>. SUFFICES ASSUME TunnelInv, [Next]_vars PROVE TunnelInv'
  OBVIOUS
<1>0. UdpInv /\ TcpInv /\ ContractInv
  BY DEF TunnelInv
<1>1. UNCHANGED scenario
  BY DEF Next, vars, UdpStep, TcpStep, ContractStep
<1>2. UdpInv'
  <2>1. CASE UNCHANGED udpVars
    <3>1. \A r \in BOOLEAN : [Udp(r)!Next]_(Udp(r)!vars)
      BY <2>1 DEF udpVars, Udp!vars, Udp!progress, Udp!service
    <3>. QED
      BY <1>0, <1>1, <3>1, UdpInvStep
  <2>2. CASE scenario = "burst" /\ Udp(FALSE)!Next
    BY <1>0, <1>1, <2>2, UdpInvStep
  <2>3. CASE scenario = "echo" /\ Udp(TRUE)!Next
    BY <1>0, <1>1, <2>3, UdpInvStep
  <2>. QED
    BY <2>1, <2>2, <2>3 DEF Next, vars, UdpStep, TcpStep, ContractStep
<1>3. TcpInv'
  <2>1. CASE UNCHANGED tcpVars
    <3>1. \A a \in BOOLEAN : [Tcp(a)!Next]_(Tcp(a)!vars)
      BY <2>1 DEF tcpVars, Tcp!vars, Tcp!service
    <3>. QED
      BY <1>0, <1>1, <3>1, TcpInvStep
  <2>2. CASE scenario = "tcp" /\ Tcp(FALSE)!Next
    BY <1>0, <1>1, <2>2, TcpInvStep
  <2>3. CASE scenario = "tcp announced" /\ Tcp(TRUE)!Next
    BY <1>0, <1>1, <2>3, TcpInvStep
  <2>. QED
    BY <2>1, <2>2, <2>3 DEF Next, vars, UdpStep, TcpStep, ContractStep
<1>4. ContractInv'
  <2>1. CASE UNCHANGED contractVars
    <3>1. \A d \in BOOLEAN : [Contract(d)!Next]_(Contract(d)!vars)
      BY <2>1 DEF contractVars, Contract!vars, Contract!service
    <3>. QED
      BY <1>0, <1>1, <3>1, ContractInvStep
  <2>2. CASE scenario = "contract" /\ Contract(FALSE)!Next
    BY <1>0, <1>1, <2>2, ContractInvStep
  <2>3. CASE scenario = "contract disturbed" /\ Contract(TRUE)!Next
    BY <1>0, <1>1, <2>3, ContractInvStep
  <2>. QED
    BY <2>1, <2>2, <2>3 DEF Next, vars, UdpStep, TcpStep, ContractStep
<1>. QED
  BY <1>2, <1>3, <1>4 DEF TunnelInv

LEMMA TunnelInit == Init => TunnelInv
BY UdpInvInit, TcpInvInit, ContractInvInit DEF Init, TunnelInv

\* The state of every scenario stays consistent with what its service and its peers did.
THEOREM TunnelCorrect == Spec => []TunnelInv
BY TunnelInit, TunnelInductive, PTL DEF Spec

\* Every variable of the tunnel scenarios keeps its type, for every value of the constants.
THEOREM TunnelTypesOK == Spec => []TypesOK
<1>1. TunnelInv => TypesOK
  BY UdpTypeIs, TcpTypeIs, ContractTypeIs DEF TunnelInv, UdpInv, TcpInv, ContractInv, TypesOK, UdpFailures
<1>. QED
  BY <1>1, TunnelCorrect, PTL

\* The invariant makes every success an earned one.
LEMMA SuccessFollows == TunnelInv => SuccessEarned
<1>. SUFFICES ASSUME TunnelInv PROVE SuccessEarned
  OBVIOUS
<1>0. UdpInv /\ TcpVerdicts /\ ContractInv
  BY DEF TunnelInv, TcpInv
<1>1. scenario = "burst" => Udp(FALSE)!SuccessMeansAnswered
  BY <1>0 DEF UdpInv, UdpVerdict, Udp!Verdict, Udp!SuccessMeansAnswered
<1>2. scenario = "echo" => Udp(TRUE)!SuccessMeansAnswered
  <2>. SUFFICES ASSUME scenario = "echo", outcome = "success"
                PROVE  accepted = Datagrams /\ answered = Udp(TRUE)!Sequences
    BY DEF Udp!SuccessMeansAnswered
  <2>1. accepted = Datagrams /\ echoed = Datagrams /\ UdpEchoed /\ UdpNet
    BY <1>0 DEF UdpInv, UdpVerdict, Udp!Verdict
  <2>2. answered \subseteq 0..Datagrams - 1 /\ \A n \in 0..Datagrams - 1 : n \in answered
    BY <2>1 DEF UdpEchoed, UdpNet, Udp!Sequences
  <2>. QED
    BY <2>1, <2>2 DEF Udp!Sequences
<1>3. scenario = "tcp" => Tcp(FALSE)!ReplyValidatedOnSuccess
  BY <1>0 DEF TcpVerdicts, Tcp!ReplyValidatedOnSuccess
<1>4. Tcp(TRUE)!EofIsReal
  BY <1>0 DEF TcpVerdicts, Tcp!EofIsReal
<1>5. scenario = "contract" => Contract(FALSE)!FaultsFound
  BY <1>0 DEF ContractInv, ContractJudged, Contract!FaultsFound
<1>. QED
  BY <1>1, <1>2, <1>3, <1>4, <1>5 DEF SuccessEarned

\* It justifies every failure that is reported.
LEMMA FailureFollows == TunnelInv => FailureJustified
<1>. SUFFICES ASSUME TunnelInv PROVE FailureJustified
  OBVIOUS
<1>0. UdpInv /\ TcpVerdicts /\ TcpFailures /\ ContractInv
  BY DEF TunnelInv, TcpInv
<1>1. Udp(TRUE)!WakeupNotDropped
  BY <1>0 DEF UdpInv
<1>2. Udp(TRUE)!RetriesOnlyCloseFlow
  <2>1. \/ udpFailedAt \subseteq {"open", "abandon"}
        \/ \E at \in Udp(TRUE)!Pcs : udpFailedAt \subseteq {at}
    BY <1>0 DEF UdpInv, UdpFailures
  <2>. QED
    BY <2>1 DEF Udp!RetriesOnlyCloseFlow, Udp!Pcs
<1>2a. Tcp(TRUE)!RetriesOnlyCloseFlow
  BY <1>0 DEF TcpFailures, Tcp!RetriesOnlyCloseFlow
<1>3. scenario = "tcp" => Tcp(FALSE)!NoFalseEof
  BY <1>0 DEF TcpVerdicts, Tcp!NoFalseEof
<1>4. Tcp(TRUE)!NoFalseMalformed
  BY <1>0 DEF TcpVerdicts, Tcp!NoFalseMalformed
<1>5. scenario = "contract" => Contract(FALSE)!NoFalseAlarm
  BY <1>0 DEF ContractInv, ContractJudged, Contract!NoFalseAlarm
<1>6. Contract(TRUE)!RetriesOnlyCloseFlow
  BY <1>0 DEF ContractInv, ContractFailures, Contract!RetriesOnlyCloseFlow
<1>. QED
  BY <1>1, <1>2, <1>2a, <1>3, <1>4, <1>5, <1>6 DEF FailureJustified

\* A tunnel scenario that reports success has done what it was to do: SendUdpDatagram was
\* answered for every datagram and every echo matched; WaitForTcpProgress saw the whole reply,
\* nothing else, and the end of the stream; the contract validation passes no service that has a
\* fault it is to find.
THEOREM TunnelSuccessEarned == Spec => []SuccessEarned
BY SuccessFollows, TunnelCorrect, PTL

\* A failure is reported for what did happen: no premature end of the stream, malformed reply
\* or broken contract that was not there, and ReceiveCompletions throws no completion away that a
\* wait needs.  A service that closed is still called only for CloseFlow (after a failed
\* OpenConnectedFlow of the UDP workload, and after any failed call of the TCP exchange, a failed
\* ReceiveCompletions included, against toolbox/README.md:144), and by the contract checks once
\* more after a probe or a CloseFlow that failed; not at all after a failed send or wait of the UDP
\* workload or a failed echo wait of the contract checks.
THEOREM TunnelFailureJustified == Spec => []FailureJustified
BY FailureFollows, TunnelCorrect, PTL

-----------------------------------------------------------------------------
(* What is released at the end. *)

\* Which flows are open at the service: those that were opened, and one that was
\* refused for its endpoint; the loss of the service is noted only when it went.
UdpReleasing ==
  /\ lost => ~udpAlive
  /\ udpPc = "prepare" => flows = {} /\ ~udpEvent
  /\ udpPc \in {"open", "abandon"} => \A f \in flows : f < udpOpened \/ f \in udpPortless
  /\ Udp(TRUE)!ReleasedAtEnd

\* A wait or a send leaves the flows and the event alone.
LEMMA UdpReleasingLeft ==
  ASSUME UdpReleasing, UNCHANGED <<udpEvent, udpAlive, flows, udpPortless>>,
         udpPc' \notin {"prepare", "open", "abandon", "done"}, lost' = TRUE => lost \/ ~udpAlive,
         lost' \in BOOLEAN
  PROVE  UdpReleasing'
BY DEF UdpReleasing, Udp!ReleasedAtEnd

\* Abandon and CloseFlows close every flow the workload has, and the event.
LEMMA UdpReleasingStep ==
  ASSUME NEW r \in BOOLEAN, UdpPlace, UdpNet, UdpQueues, UdpReleasing, [Udp(r)!Next]_(Udp(r)!vars)
  PROVE  UdpReleasing'
<1>. USE DEF Udp!progress, Udp!service
<1>0. lost' \in BOOLEAN
  BY UdpPlaceStep DEF UdpPlace
<1>1. CASE Udp(r)!Service
  BY <1>1, UdpServiceLeaves DEF UdpReleasing, Udp!ReleasedAtEnd
<1>2. CASE Udp(r)!ReceiveWritable
  <2>1. UdpLeft /\ (UdpLeaves \/ (udpPc' \in {"waitWritable", "receiveWritable", "send"} /\ UNCHANGED lost))
    BY <1>2, WritableReceived
  <2>. QED
    BY <1>0, <2>1, UdpReleasingLeft DEF UdpLeft, UdpLeaves
<1>3. CASE Udp(r)!ReceiveEcho
  <2>1. UdpLeft /\ (UdpLeaves \/ Udp(r)!NextDatagram \/ udpPc' \in {"waitEcho", "receiveEcho"})
        /\ (lost' = lost \/ UdpLeaves)
    BY <1>3, EchoReceived DEF Udp!NextDatagram
  <2>2. udpPc' \in {"close", "send", "waitEcho", "receiveEcho"}
    BY ONLY <2>1 DEF UdpLeaves, Udp!NextDatagram
  <2>3. UNCHANGED <<udpEvent, udpAlive, flows, udpPortless>>
    BY <2>1 DEF UdpLeft
  <2>4. lost' = TRUE => lost \/ ~udpAlive
    BY <2>1 DEF UdpLeaves
  <2>. QED
    BY <1>0, <2>2, <2>3, <2>4, UdpReleasingLeft
<1>4. CASE Udp(r)!SendUdpDatagram
  <2>1. UNCHANGED <<udpEvent, udpAlive, flows, udpPortless>> /\ (UNCHANGED lost \/ UdpLeaves)
    BY <1>4, SendIs
  <2>2. udpPc' \in {"send", "close", "waitEcho", "waitWritable"}
    BY <1>4 DEF Udp!SendUdpDatagram, Udp!Accept, Udp!Blocked, Udp!Refused, Udp!LeaveLoop, Udp!NextDatagram
  <2>. QED
    BY <1>0, <2>1, <2>2, UdpReleasingLeft DEF UdpLeaves
<1>5. CASE Udp(r)!Prepare
  BY <1>5 DEF Udp!Prepare, UdpReleasing, Udp!ReleasedAtEnd
<1>6. CASE Udp(r)!OpenConnectedFlow
  <2>1. UNCHANGED <<lost, udpEvent, udpAlive>> /\ udpPc = "open" /\ udpPc' \in {"open", "send", "abandon"}
    BY <1>6 DEF Udp!OpenConnectedFlow
  <2>2. udpOpened \in Nat
    BY UdpFacts DEF UdpPlace
  <2>3. \/ udpPc' = "send"
        \/ udpOpened' = udpOpened + 1 /\ flows' = flows \cup {udpOpened} /\ udpPortless' = udpPortless
        \/ udpOpened' = udpOpened /\ flows' = flows \cup {udpOpened} /\ udpPortless' = udpPortless \cup {udpOpened}
        \/ UNCHANGED <<udpOpened, flows, udpPortless>>
    BY <1>6 DEF Udp!OpenConnectedFlow
  <2>4. flows \subseteq Nat
    BY UdpFacts DEF UdpNet, Udp!Flows
  <2>a. \A f \in flows : f \in Nat /\ (f < udpOpened \/ f \in udpPortless)
    BY <2>1, <2>4 DEF UdpReleasing
  <2>5. ASSUME udpPc' # "send", NEW f \in flows'
        PROVE  f < udpOpened' \/ f \in udpPortless'
    <3>1. CASE udpOpened' = udpOpened + 1 /\ flows' = flows \cup {udpOpened} /\ udpPortless' = udpPortless
      BY <2>2, <2>5, <2>a, <3>1
    <3>2. CASE udpOpened' = udpOpened /\ flows' = flows \cup {udpOpened} /\ udpPortless' = udpPortless \cup {udpOpened}
      BY <2>5, <2>a, <3>2
    <3>3. CASE UNCHANGED <<udpOpened, flows, udpPortless>>
      BY <2>5, <2>a, <3>3
    <3>. QED
      BY <2>3, <2>5, <3>1, <3>2, <3>3
  <2>. QED
    BY <2>1, <2>5 DEF UdpReleasing, Udp!ReleasedAtEnd
<1>7. CASE Udp(r)!Abandon
  <2>1. udpPc = "abandon" /\ udpPc' = "done" /\ udpEvent' = FALSE /\ UNCHANGED <<lost, udpAlive, udpPortless>>
        /\ flows' = IF udpAlive THEN flows \ {f \in Udp(r)!Flows : f < udpOpened} ELSE flows
    BY <1>7 DEF Udp!Abandon
  <2>2. flows \subseteq Udp(r)!Flows
    BY DEF UdpNet, Udp!Flows
  <2>. QED
    BY <2>1, <2>2 DEF UdpReleasing, Udp!ReleasedAtEnd
<1>8. CASE Udp(r)!CloseFlows
  <2>1. udpPc' = "done" /\ udpEvent' = FALSE /\ UNCHANGED <<lost, udpAlive, udpPortless>>
        /\ (lost \/ flows' = IF udpAlive THEN flows \ Udp(r)!Flows ELSE flows)
    BY <1>8 DEF Udp!CloseFlows, Udp!End
  <2>2. flows \subseteq Udp(r)!Flows
    BY DEF UdpNet, Udp!Flows
  <2>. QED
    BY <2>1, <2>2 DEF UdpReleasing, Udp!ReleasedAtEnd
<1>9. CASE Udp(r)!Wake("waitWritable", "receiveWritable") \/ Udp(r)!Wake("waitEcho", "receiveEcho")
  BY <1>0, <1>9, UdpReleasingLeft DEF Udp!Wake
<1>10. ASSUME NEW wait \in {"waitWritable", "waitEcho"}, Udp(r)!Tick(wait) \/ Udp(r)!TimesOut(wait)
       PROVE  UdpReleasing'
  <2>1. CASE Udp(r)!Tick(wait)
    BY <1>0, <2>1, UdpReleasingLeft DEF Udp!Tick
  <2>2. CASE Udp(r)!TimesOut(wait)
    BY <1>0, <2>2, UdpReleasingLeft DEF Udp!TimesOut, Udp!LeaveLoop
  <2>. QED
    BY <1>10, <2>1, <2>2
<1>11. CASE UNCHANGED Udp(r)!vars
  BY <1>11 DEF Udp!vars, UdpReleasing, Udp!ReleasedAtEnd
<1>. QED
  BY <1>1, <1>2, <1>3, <1>4, <1>5, <1>6, <1>7, <1>8, <1>9, <1>10, <1>11 DEF Udp!Next, Udp!Workload

\* Before a flow is asked for there is none, and before the setup is done no event.
TcpReleasing ==
  /\ tcpPc \in {"prepare", "open"} => tcpFlow = "none"
  /\ tcpPc = "prepare" => ~tcpEvent
  /\ Tcp(TRUE)!ReleasedAtEnd

\* CloseFlow and Release give back flow and event.
LEMMA TcpReleasingStep ==
  ASSUME NEW a \in BOOLEAN, TcpReleasing, [Tcp(a)!Next]_(Tcp(a)!vars)
  PROVE  TcpReleasing'
<1>. USE DEF TcpReleasing, Tcp!ReleasedAtEnd, Tcp!service
<1>0. ASSUME NEW why, Tcp(a)!GiveUp(why) PROVE TcpReleasing'
  BY <1>0 DEF Tcp!GiveUp
<1>1. CASE Tcp(a)!Service
  BY <1>1 DEF Tcp!Service, Tcp!Establish, Tcp!PeerCloses, Tcp!FlowEnds, Tcp!Shutdown, Tcp!PeerSends
<1>2. CASE Tcp(a)!Prepare
  BY <1>2 DEF Tcp!Prepare
<1>3. CASE Tcp(a)!OpenConnectedFlow
  BY <1>3 DEF Tcp!OpenConnectedFlow, Tcp!StartWait
<1>4. CASE Tcp(a)!Wake \/ Tcp(a)!Tick \/ Tcp(a)!TimesOut
  BY <1>4 DEF Tcp!Wake, Tcp!Tick, Tcp!TimesOut
<1>5. CASE Tcp(a)!ReceiveCompletions
  <2>1. \/ \E why : Tcp(a)!GiveUp(why)
        \/ tcpPc' \in {"wait", "release", "handle"}
    BY <1>5 DEF Tcp!ReceiveCompletions
  <2>. QED
    BY <1>0, <2>1
<1>6. CASE Tcp(a)!HandleCompletion
  <2>1. \/ \E why : Tcp(a)!GiveUp(why)
        \/ tcpPc = "handle" /\ tcpPc' = tcpPc
        \/ tcpPc = "handle" /\ tcpPc' = "release"
    BY <1>6 DEF Tcp!HandleCompletion
  <2>. QED
    BY <1>0, <1>6, <2>1 DEF Tcp!HandleCompletion
<1>7. CASE Tcp(a)!Evaluate
  <2>1. tcpPc' \in {"release", "receive", "check", "close"}
    BY <1>7 DEF Tcp!Evaluate
  <2>. QED
    BY <2>1
<1>8. CASE Tcp(a)!CheckOpen \/ Tcp(a)!WriteTcpStream \/ Tcp(a)!ShutdownTcpWrite
  <2>1. (\E why : Tcp(a)!GiveUp(why)) \/ tcpPc' \in {"write", "shutdown", "wait"}
    BY <1>8 DEF Tcp!CheckOpen, Tcp!WriteTcpStream, Tcp!ShutdownTcpWrite, Tcp!StartWait
  <2>. QED
    BY <1>0, <2>1
<1>9. CASE Tcp(a)!CloseFlow \/ Tcp(a)!Release
  BY <1>9 DEF Tcp!CloseFlow, Tcp!Release, Tcp!ReleaseFlow
<1>10. CASE UNCHANGED Tcp(a)!vars
  BY <1>10 DEF Tcp!vars
<1>. QED
  BY <1>1, <1>2, <1>3, <1>4, <1>5, <1>6, <1>7, <1>8, <1>9, <1>10 DEF Tcp!Next, Tcp!Exchange

\* The event is closed before the batch's flow is, and the original session is
\* gone until the clone is closed.
ContractClosing ==
  /\ pc \in {"closeBatch", "done"} => ~eventOpen
  /\ pc = "done" => ~flow
  /\ pc \in {"fill", "probe", "send", "echo", "closeClone"} => Contract(TRUE)!Primary \notin opened
\* A context is held by sessions that are open, by another client or by nobody.
ContractKept ==
  fault \notin {"leaks", "leaksAll"} =>
    \A c \in 1..Capacity : holders[c] \subseteq opened \cup {Contract(TRUE)!Other}

\* Event and flow are given back on every way to the end.
LEMMA ContractClosingStep ==
  ASSUME NEW d \in BOOLEAN, ContractPlace, ContractClosing, [Contract(d)!Next]_(Contract(d)!vars)
  PROVE  ContractClosing'
<1>. USE DEF Contract!service
<1>0. ASSUME NEW why, Contract(d)!GiveUp(why) PROVE ContractClosing'
  BY <1>0 DEF Contract!GiveUp, ContractClosing
<1>1. ASSUME NEW at, NEW s, NEW next, NEW why, Contract(d)!Call(at, s, next, why)
      PROVE  pc = at /\ pc' \in {next, "abandon"} /\ opened' = opened
  BY <1>1 DEF Contract!Call
<1>2. CASE Contract(d)!Prepare
  <2>1. (\E why : Contract(d)!GiveUp(why)) \/ pc' \in {"clone", "batch"}
    BY <1>2 DEF Contract!Prepare
  <2>. QED
    BY <1>0, <2>1 DEF ContractClosing
<1>3. CASE Contract(d)!CloneTunnelClient
  <2>1. (\E why : Contract(d)!GiveUp(why)) \/ pc' = "openFlow"
    BY <1>3 DEF Contract!CloneTunnelClient
  <2>. QED
    BY <1>0, <2>1 DEF ContractClosing
<1>4. CASE Contract(d)!OpenFlow("openFlow", "loadEvent") \/ Contract(d)!OpenFlow("batch", "sendBatch")
  <2>1. pc' \in {"loadEvent", "sendBatch", "abandon"}
    BY <1>1, <1>4 DEF Contract!OpenFlow
  <2>. QED
    BY <2>1 DEF ContractClosing
<1>5. CASE \/ Contract(d)!LoadEvent("loadEvent", Contract(d)!Clone, "closeOriginal")
           \/ Contract(d)!LoadEvent("batchEvent", Contract(d)!Primary, "batchEcho")
  <2>1. pc' \in {"closeOriginal", "batchEcho", "abandon"}
    BY <1>1, <1>5 DEF Contract!LoadEvent
  <2>. QED
    BY <2>1 DEF ContractClosing
<1>6. CASE Contract(d)!CloseOriginal
  <2>1. pc' = "fill" /\ opened' = opened \ {Contract(TRUE)!Primary}
    BY <1>6 DEF Contract!CloseOriginal, Contract!CloseSession, Contract!Primary
  <2>. QED
    BY <2>1 DEF ContractClosing
<1>7. CASE Contract(d)!Fill
  <2>1. CASE \E why : Contract(d)!GiveUp(why)
    BY <1>0, <2>1
  <2>2. CASE pc' = "probe" /\ pc = "fill" /\ opened' = opened
    BY <2>2 DEF ContractClosing
  <2>3. CASE /\ pc' = pc /\ pc = "fill" /\ extra < Capacity - 1
             /\ opened' = opened \cup {Contract(d)!Retained(extra + 1)}
    <3>1. Contract(d)!Retained(extra + 1) # Contract(TRUE)!Primary
      BY DEF Contract!Retained, Contract!Primary
    <3>. QED
      BY <2>3, <3>1 DEF ContractClosing
  <2>. QED
    BY <1>7, <2>1, <2>2, <2>3 DEF Contract!Fill, Contract!OpenTunnelClient
<1>8. CASE Contract(d)!Probe
  BY <1>8 DEF Contract!Probe, ContractClosing
<1>9. CASE Contract(d)!SendOnClone
  <2>1. pc = "send" /\ pc' \in {"echo", "abandon"} /\ opened' = opened
    BY <1>1, <1>9 DEF Contract!SendOnClone
  <2>. QED
    BY <2>1 DEF ContractClosing
<1>10. CASE \/ Contract(d)!AwaitEcho("echo", Contract(d)!Clone, "closeClone")
            \/ Contract(d)!AwaitEcho("batchEcho", Contract(d)!Primary, "closeBatch")
  BY <1>10 DEF Contract!AwaitEcho, ContractClosing
<1>11. CASE Contract(d)!CloseClone
  <2>1. pc' \in {"batch", "abandon"}
    BY <1>11 DEF Contract!CloseClone
  <2>. QED
    BY <2>1 DEF ContractClosing
<1>12. CASE Contract(d)!SendBatch
  <2>1. (\E why : Contract(d)!GiveUp(why)) \/ pc' \in {"batchEvent", "abandon"}
    BY <1>1, <1>12 DEF Contract!SendBatch
  <2>. QED
    BY <1>0, <2>1 DEF ContractClosing
<1>13. CASE Contract(d)!Finish \/ Contract(d)!Abandon
  <2>1. CASE Contract(d)!Finish
    BY <2>1 DEF Contract!Finish, ContractClosing
  <2>2. CASE Contract(d)!Abandon
    BY <2>2 DEF Contract!Abandon, ContractClosing
  <2>. QED
    BY <1>13, <2>1, <2>2
<1>14. CASE Contract(d)!CloseScoped
  BY <1>14 DEF Contract!CloseScoped, ContractClosing
<1>15. CASE Contract(d)!OtherClient \/ Contract(d)!Shutdown \/ UNCHANGED Contract(d)!vars
  <2>1. UNCHANGED <<pc, opened, flow, eventOpen>>
    <3>1. CASE Contract(d)!OtherClient
      BY <3>1 DEF Contract!OtherClient
    <3>2. CASE Contract(d)!Shutdown
      BY <3>2 DEF Contract!Shutdown
    <3>. QED
      BY <1>15, <3>1, <3>2 DEF Contract!vars
  <2>. QED
    BY <2>1 DEF ContractClosing
<1>. QED
  BY <1>2, <1>3, <1>4, <1>5, <1>6, <1>7, <1>8, <1>9, <1>10, <1>11, <1>12, <1>13, <1>14, <1>15
  DEF Contract!Next, Contract!Validation

\* Who keeps a context of a service that keeps count when sessions end.
LEMMA AfterKept ==
  ASSUME NEW d \in BOOLEAN, ContractKept, fault \notin {"leaks", "leaksAll"}, NEW ss, NEW c \in 1..Capacity
  PROVE  Contract(d)!After(ss)[c] \subseteq (opened \ ss) \cup {Contract(TRUE)!Other}
<1>1. holders[c] \subseteq opened \cup {Contract(TRUE)!Other}
  BY DEF ContractKept
<1>2. ~Contract(d)!Leaks(holders[c])
  BY DEF Contract!Leaks
<1>3. Contract(d)!After(ss)[c] \in {{}, holders[c] \ ss}
                                  \cup {h \in {holders[c]} : h \cap ss = {}}
  BY <1>2 DEF Contract!After, Contract!Contexts
<1>. QED
  BY <1>1, <1>3

\* A context is held by what is open, or by others.
LEMMA ContractKeptStep ==
  ASSUME NEW d \in BOOLEAN, ContractPlace, ContractSessions, ContractHolders, ContractClosing, ContractKept,
         [Contract(d)!Next]_(Contract(d)!vars)
  PROVE  ContractKept'
<1>. USE DEF Contract!service
<1>. SUFFICES ASSUME fault' \notin {"leaks", "leaksAll"}, NEW c \in 1..Capacity
              PROVE  holders'[c] \subseteq opened' \cup {Contract(TRUE)!Other}
  BY DEF ContractKept
<1>0. fault' = fault
  BY ContractKinds DEF Calls, Opens, Clones, Fills, Filled, Contract!CloseOriginal, Contract!Probe,
     Contract!CloseClone, Contract!CloseScoped, Contract!OtherClient, Contract!Shutdown
<1>1. holders[c] \subseteq opened \cup {Contract(TRUE)!Other}
  BY <1>0 DEF ContractKept
<1>2. ASSUME NEW s, Contract(d)!OpenTunnelClient(s)
      PROVE  holders'[c] \subseteq opened' \cup {Contract(TRUE)!Other}
  <2>1. opened' = opened \cup {s} /\ holders'[c] \in {holders[c], {s}}
    BY <1>2 DEF Contract!OpenTunnelClient, Contract!Contexts, ContractHolders
  <2>. QED
    BY <1>1, <2>1
<1>3. CASE Calls(d) \/ Filled \/ Contract(d)!Probe
  BY <1>1, <1>3 DEF Calls, Filled, Contract!Probe
<1>4. CASE Opens(d) \/ Fills(d)
  BY <1>2, <1>4 DEF Opens, Fills
<1>5. CASE Clones(d)
  <2>1. opened' = opened \cup {Contract(d)!Clone} /\ holders'[c] \subseteq holders[c] \cup {Contract(d)!Clone}
    BY <1>5 DEF Clones, Contract!Contexts
  <2>. QED
    BY <1>1, <2>1
<1>6. CASE Contract(d)!CloseOriginal \/ Contract(d)!CloseScoped
  <2>1. PICK s : holders' = Contract(d)!After({s}) /\ opened' = opened \ {s}
    BY <1>6 DEF Contract!CloseOriginal, Contract!CloseScoped, Contract!CloseSession
  <2>. QED
    BY <1>0, <2>1, AfterKept
<1>7. CASE Contract(d)!CloseClone
  <2>. DEFINE closed == {Contract(d)!Clone} \cup {Contract(d)!Retained(i) : i \in Contract(d)!Extras}
              left == Contract(d)!After(closed)
  <2>1. left[c] \subseteq (opened \ closed) \cup {Contract(TRUE)!Other}
    BY <1>0, AfterKept
  <2>2. opened \ closed = {}
    <3>1. pc = "closeClone"
      BY <1>7 DEF Contract!CloseClone
    <3>2. opened \subseteq {Contract(TRUE)!Primary} \cup closed
      BY DEF ContractSessions, Contract!Sessions, Contract!Clone, Contract!Retained, Contract!Extras
    <3>. QED
      BY <3>1, <3>2 DEF ContractClosing
  <2>3. \/ holders' = left
        \/ /\ \E k \in Contract(d)!Contexts : holders' = [left EXCEPT ![k] = {Contract(d)!Primary}]
           /\ opened' = {Contract(d)!Primary}
    BY <1>7 DEF Contract!CloseClone
  <2>4. left[c] \subseteq {Contract(TRUE)!Other}
    BY <2>1, <2>2
  <2>5. DOMAIN left = 1..Capacity
    BY DEF Contract!After, Contract!Contexts
  <2>. HIDE DEF left
  <2>. QED
    BY <2>3, <2>4, <2>5
<1>8. CASE Contract(d)!OtherClient
  <2>1. opened' = opened /\ holders'[c] \in {holders[c], {}, {Contract(TRUE)!Other}}
    BY <1>8 DEF Contract!OtherClient, Contract!Contexts, ContractHolders, Contract!Other
  <2>. QED
    BY <1>1, <2>1
<1>9. CASE Contract(d)!Shutdown
  BY <1>9 DEF Contract!Shutdown, Contract!Contexts
<1>. QED
  BY <1>3, <1>4, <1>5, <1>6, <1>7, <1>8, <1>9, ContractKinds

\* What a tunnel scenario has at each point to give back.
TunnelReleasing == UdpReleasing /\ TcpReleasing /\ ContractClosing /\ ContractKept

\* Nothing is held at the start.
LEMMA ReleasingInit == Init => TunnelReleasing
<1>. SUFFICES ASSUME Init PROVE TunnelReleasing
  OBVIOUS
<1>1. UdpReleasing
  BY DEF Init, Udp!Init, UdpReleasing, Udp!ReleasedAtEnd
<1>2. TcpReleasing
  BY DEF Init, Tcp!Init, TcpReleasing, Tcp!ReleasedAtEnd
<1>3. ContractClosing /\ ContractKept
  BY DEF Init, Contract!Init, ContractClosing, ContractKept, Contract!Contexts
<1>. QED
  BY <1>1, <1>2, <1>3 DEF TunnelReleasing

\* A step keeps account of it.
LEMMA ReleasingStep == TunnelInv /\ TunnelReleasing /\ [Next]_vars => TunnelReleasing'
<1>. SUFFICES ASSUME TunnelInv, TunnelReleasing, [Next]_vars PROVE TunnelReleasing'
  OBVIOUS
<1>0. /\ UdpPlace /\ UdpNet /\ UdpQueues
      /\ ContractPlace /\ ContractSessions /\ ContractHolders
  BY DEF TunnelInv, UdpInv, ContractInv
<1>1. UdpReleasing'
  <2>1. CASE UNCHANGED udpVars
    BY <2>1 DEF udpVars, TunnelReleasing, UdpReleasing, Udp!ReleasedAtEnd
  <2>2. ASSUME NEW r \in BOOLEAN, Udp(r)!Next PROVE UdpReleasing'
    BY <1>0, <2>2, UdpReleasingStep DEF TunnelReleasing
  <2>. QED
    BY <2>1, <2>2 DEF Next, vars, UdpStep, TcpStep, ContractStep
<1>2. TcpReleasing'
  <2>1. CASE UNCHANGED tcpVars
    BY <2>1 DEF tcpVars, TunnelReleasing, TcpReleasing, Tcp!ReleasedAtEnd
  <2>2. ASSUME NEW a \in BOOLEAN, Tcp(a)!Next PROVE TcpReleasing'
    BY <2>2, TcpReleasingStep DEF TunnelReleasing
  <2>. QED
    BY <2>1, <2>2 DEF Next, vars, UdpStep, TcpStep, ContractStep
<1>3. ContractClosing' /\ ContractKept'
  <2>1. CASE UNCHANGED contractVars
    BY <2>1 DEF contractVars, TunnelReleasing, ContractClosing, ContractKept
  <2>2. ASSUME NEW d \in BOOLEAN, Contract(d)!Next PROVE ContractClosing' /\ ContractKept'
    BY <1>0, <2>2, ContractClosingStep, ContractKeptStep DEF TunnelReleasing
  <2>. QED
    BY <2>1, <2>2 DEF Next, vars, UdpStep, TcpStep, ContractStep
<1>. QED
  BY <1>1, <1>2, <1>3 DEF TunnelReleasing

\* However a tunnel scenario ends, its event is closed and every flow it got is, unless the
\* service went, by Abandon and CloseFlows, CloseFlow and Release; and once the scopes of the
\* contract validation have ended, no context of a service that keeps count is taken by it.
THEOREM TunnelReleasesAtEnd ==
  Spec => [](Udp(TRUE)!ReleasedAtEnd /\ Tcp(TRUE)!ReleasedAtEnd /\ Contract(TRUE)!ReleasedAtEnd)
<1>1. TunnelReleasing => Udp(TRUE)!ReleasedAtEnd /\ Tcp(TRUE)!ReleasedAtEnd /\ Contract(TRUE)!ReleasedAtEnd
  BY DEF TunnelReleasing, UdpReleasing, TcpReleasing, ContractClosing, ContractKept, Contract!ReleasedAtEnd,
     Contract!Contexts
<1>. QED
  BY <1>1, ReleasingInit, ReleasingStep, TunnelCorrect, PTL DEF Spec
=============================================================================
