------------------------ MODULE ProbeObserversProofs ------------------------
(***************************************************************************)
(* Proofs about the parts of net-probe that MCProbeObservers puts side by  *)
(* side: the admission counters, the watchdog and the reading of messages. *)
(* They hold for every set of clients and services and every policy, every *)
(* size of the query trace and interval of the watchdog, and every set of  *)
(* objects, commands, results and payloads.                                *)
(***************************************************************************)
EXTENDS MCProbeObservers, SequenceTheorems, TLAPS

-----------------------------------------------------------------------------
(* The admission counters and ordinals: BsdAdmission. *)

USE DEF Idle

LEMMA InitType == Init => TypeOK
  BY BuildAssumption DEF Init, TypeOK, QueryPcs, MitmPcs

\* TypeOK is inductive as it stands: it says of which service a position is.
LEMMA NextType == TypeOK /\ [Next]_vars => TypeOK'
<1>. SUFFICES ASSUME TypeOK, [Next]_vars PROVE TypeOK'
  OBVIOUS
<1>. USE DEF TypeOK, QueryPcs, MitmPcs, build, ordinal, history
<1>1. ASSUME NEW p \in Processes, NEW s \in Services, Ask(p, s) PROVE TypeOK'
  <2>. DEFINE byOrdinal == IsForwarder(p) /\ s = "bsd:s" /\ <<s, "toolbox-forwarder">> \in Overrides
              answer == ShouldMitm(s, Program[p]) /\ (byOrdinal => AllowedOrdinal(NextOrdinal(p)))
  <2>1. answer \in BOOLEAN
    BY DEF ShouldMitm
  <2>2. NextOrdinal(p) \in Nat
    BY DEF NextOrdinal
  <2>. HIDE DEF answer
  <2>3. query' = [pc |-> IF answer /\ s = "bsd:s" THEN "note" ELSE "answer",
                  service |-> s, answer |-> answer]
    BY <1>1 DEF Ask, answer, byOrdinal
  <2>4. query' \in [pc: QueryPcs, service: Services \cup {"none"}, answer: BOOLEAN] /\ query'.service \in Services
    BY <2>1, <2>3
  <2>5. asks' \in [Processes -> Nat] /\ admitted' \in [Processes -> SUBSET Nat] /\ questions' \in Nat
    BY <1>1 DEF Ask
  <2>6. ordinalPid' \in Processes \cup {NoProcess} /\ ordinalCount' \in Nat /\ running' \in Processes \cup {NoProcess}
    BY <1>1, <2>2 DEF Ask
  <2>. QED
    BY <1>1, <2>4, <2>5, <2>6 DEF Ask
<1>2. CASE NotePending
  BY <1>2 DEF NotePending
<1>3. CASE AnswerQuery
  <2>1. waiting' \in [Services -> Nat] /\ lost' \in Nat
    BY <1>3 DEF AnswerQuery
  <2>. QED
    BY <1>3, <2>1 DEF AnswerQuery
<1>4. ASSUME NEW s \in Services, Acknowledge(s) PROVE TypeOK'
  <2>1. waiting' \in [Services -> Nat] /\ pending' \in Nat
    BY <1>4 DEF Acknowledge, Decremented
  <2>. QED
    BY <1>4, <2>1 DEF Acknowledge
<1>5. ASSUME NEW s \in Services, Destroy(s) PROVE TypeOK'
  <2>1. established' \in [Services -> Nat] /\ active' \in Nat
    BY <1>5 DEF Destroy, Decremented
  <2>. QED
    BY <1>5, <2>1 DEF Destroy
<1>6. CASE AcceptMitmImpl
  <2>1. active' \in Nat /\ acceptFailures' \in Nat
    BY <1>6 DEF AcceptMitmImpl, Decremented
  <2>. QED
    BY <1>6, <2>1 DEF AcceptMitmImpl
<1>7. CASE AcceptFailed
  BY <1>7 DEF AcceptFailed, Decremented
<1>8. CASE PromoteFromPending
  BY <1>8 DEF PromoteFromPending, Decremented
<1>9. CASE Accepted
  <2>1. established' \in [Services -> Nat] /\ active' \in Nat
    BY <1>9 DEF Accepted
  <2>. QED
    BY <1>9, <2>1 DEF Accepted
<1>10. CASE UNCHANGED vars
  BY <1>10 DEF vars
<1>. QED
  BY <1>1, <1>2, <1>3, <1>4, <1>5, <1>6, <1>7, <1>8, <1>9, <1>10 DEF Next

\* Counters, positions and the query have their types whatever clients do: a
\* failed accept or a destroyed session lowers no counter below zero.
THEOREM TypeCorrect == Spec => []TypeOK
  BY InitType, NextType, PTL DEF Spec

-----------------------------------------------------------------------------
(* The pending count.  Equal to what is undecided, it is never zero where it *)
(* is lowered, so that Decremented never saturates it.                       *)

LEMMA InitPending == Init => PendingCountsUndecided
  BY DEF Init, PendingCountsUndecided, Noted, BsdWaiting, InAccept

LEMMA NextPending ==
  TypeOK /\ PendingCountsUndecided /\ [Next]_vars => PendingCountsUndecided'
<1>. SUFFICES ASSUME TypeOK, PendingCountsUndecided, [Next]_vars PROVE PendingCountsUndecided'
  OBVIOUS
<1>. USE DEF TypeOK, QueryPcs, MitmPcs, PendingCountsUndecided, Noted, BsdWaiting, InAccept,
             build, ordinal, history
<1>1. ASSUME NEW p \in Processes, NEW s \in Services, Ask(p, s) PROVE PendingCountsUndecided'
  <2>. DEFINE answer == ShouldMitm(s, Program[p]) /\
                 (IsForwarder(p) /\ s = "bsd:s" /\ <<s, "toolbox-forwarder">> \in Overrides =>
                    AllowedOrdinal(NextOrdinal(p)))
  <2>. HIDE DEF answer
  <2>1. query' = [pc |-> IF answer /\ s = "bsd:s" THEN "note" ELSE "answer",
                  service |-> s, answer |-> answer]
    BY <1>1 DEF Ask, answer
  <2>2. Noted' = 0
    BY <2>1
  <2>3. Noted = 0
    BY <1>1 DEF Ask
  <2>. QED
    BY <1>1, <2>2, <2>3 DEF Ask
<1>2. CASE NotePending
  BY <1>2 DEF NotePending
<1>3. CASE AnswerQuery
  BY <1>3 DEF AnswerQuery
<1>4. ASSUME NEW s \in Services, Acknowledge(s) PROVE PendingCountsUndecided'
  BY <1>4 DEF Acknowledge, Decremented
<1>5. ASSUME NEW s \in Services, Destroy(s) PROVE PendingCountsUndecided'
  BY <1>5 DEF Destroy
<1>6. CASE AcceptMitmImpl
  BY <1>6 DEF AcceptMitmImpl
<1>7. CASE AcceptFailed
  BY <1>7 DEF AcceptFailed, Decremented
<1>8. CASE PromoteFromPending
  BY <1>8 DEF PromoteFromPending, Decremented
<1>9. CASE Accepted
  BY <1>9 DEF Accepted
<1>10. CASE UNCHANGED vars
  BY <1>10 DEF vars
<1>. QED
  BY <1>1, <1>2, <1>3, <1>4, <1>5, <1>6, <1>7, <1>8, <1>9, <1>10 DEF Next

\* The pending count is what has been answered for and not decided, plus what
\* sm lost, whatever fails between ShouldMitm and AcceptMitmConnection.
THEOREM PendingCorrect == Spec => []PendingCountsUndecided
<1>1. Init => TypeOK /\ PendingCountsUndecided
  BY InitType, InitPending
<1>2. TypeOK /\ PendingCountsUndecided /\ [Next]_vars => (TypeOK /\ PendingCountsUndecided)'
  BY NextType, NextPending
<1>. QED
  BY <1>1, <1>2, PTL DEF Spec

-----------------------------------------------------------------------------
(* The active count. *)

\* Only AcceptMitmConnection's thread is at an accepted bsd:s session, so a
\* service of that position tells whether the count is touched.
LEMMA NextActive ==
  TypeOK /\ ActiveCountsSessions /\ [Next]_vars => ActiveCountsSessions'
<1>. SUFFICES ASSUME TypeOK, ActiveCountsSessions, [Next]_vars PROVE ActiveCountsSessions'
  OBVIOUS
<1>. USE DEF TypeOK, QueryPcs, MitmPcs, ActiveCountsSessions, BsdEstablished, build, ordinal, history
<1>1. ASSUME NEW p \in Processes, NEW s \in Services, Ask(p, s) PROVE ActiveCountsSessions'
  BY <1>1 DEF Ask
<1>2. CASE NotePending \/ AnswerQuery
  BY <1>2 DEF NotePending, AnswerQuery
<1>3. ASSUME NEW s \in Services, Acknowledge(s) PROVE ActiveCountsSessions'
  BY <1>3 DEF Acknowledge
<1>4. ASSUME NEW s \in Services, Destroy(s) PROVE ActiveCountsSessions'
  <2>1. CASE s = "bsd:s"
    BY <1>4, <2>1 DEF Destroy, Decremented
  <2>2. CASE s # "bsd:s"
    BY <1>4, <2>2 DEF Destroy
  <2>. QED
    BY <2>1, <2>2
<1>5. CASE AcceptMitmImpl
  BY <1>5 DEF AcceptMitmImpl, Decremented
<1>6. CASE AcceptFailed \/ PromoteFromPending
  BY <1>6 DEF AcceptFailed, PromoteFromPending
<1>7. CASE Accepted
  <2>1. CASE mitm.service = "bsd:s"
    BY <1>7, <2>1 DEF Accepted
  <2>2. CASE mitm.service # "bsd:s"
    BY <1>7, <2>2 DEF Accepted
  <2>. QED
    BY <2>1, <2>2
<1>8. CASE UNCHANGED vars
  BY <1>8 DEF vars
<1>. QED
  BY <1>1, <1>2, <1>3, <1>4, <1>5, <1>6, <1>7, <1>8 DEF Next

\* The active count never exceeds the sessions there are, and is short of them
\* by at most the failed accepts, however accepts, failures and closes mix.
THEOREM ActiveCorrect == Spec => []ActiveCountsSessions
<1>1. Init => TypeOK /\ ActiveCountsSessions
  BY InitType DEF Init, ActiveCountsSessions, BsdEstablished
<1>2. TypeOK /\ ActiveCountsSessions /\ [Next]_vars => (TypeOK /\ ActiveCountsSessions)'
  BY NextType, NextActive
<1>. QED
  BY <1>1, <1>2, PTL DEF Spec

\* Both counters together, as the status logs print them.
THEOREM CountersCorrect == Spec => []CountersAgree
<1>1. PendingCountsUndecided /\ ActiveCountsSessions => CountersAgree
  BY DEF CountersAgree
<1>. QED
  BY <1>1, PendingCorrect, ActiveCorrect, PTL

-----------------------------------------------------------------------------
(* The sessions of the forwarder. *)

Counted == <<"bsd:s", "toolbox-forwarder">> \in Overrides

\* What makes ForwarderSessionsChosen inductive: the counter is that of the
\* process that asked last, and a process that asked and is not the one that
\* is counted runs no more, so it never takes an ordinal again.
ForwarderInv(p) ==
  /\ asks[p] <= questions /\ questions <= MaxAsks
  /\ ordinalPid = p => ordinalCount = asks[p]
  /\ ordinalPid # p /\ asks[p] # 0 => running # p
  /\ admitted[p] = Wanted[mode] \cap 1..asks[p]
OrdinalsFollow == \A p \in Processes : IsForwarder(p) /\ Counted => ForwarderInv(p)

\* The ordinals a build allows are those it wants, as far as questions go.
LEMMA WantedAreAllowed ==
  ASSUME mode \in AllModes, NEW n \in Nat, n >= 1, n <= MaxAsks
  PROVE  AllowedOrdinal(n) <=> n \in Wanted[mode]
<1>1. MaxAsks \in Nat
  BY BoundsAssumption
<1>2. CASE mode = "None"
  BY <1>1, <1>2 DEF AllowedOrdinal, Wanted
<1>3. CASE mode = "FirstOnly"
  BY <1>1, <1>3 DEF AllowedOrdinal, Wanted
<1>4. CASE mode = "SecondOnly"
  BY <1>1, <1>4 DEF AllowedOrdinal, Wanted
<1>5. CASE mode = "Both"
  BY <1>1, <1>5 DEF AllowedOrdinal, Wanted
<1>. QED
  BY <1>2, <1>3, <1>4, <1>5 DEF AllModes

\* The forwarder's program is one the build may intercept on bsd:s.
LEMMA ForwarderIsMitmed ==
  ASSUME NEW p \in Processes, IsForwarder(p), Counted
  PROVE  ShouldMitm("bsd:s", Program[p])
BY DEF ShouldMitm, IsForwarder, Counted, SelfPrograms

\* A question of a forwarder process about bsd:s takes the next ordinal of it.
LEMMA OwnQuestion ==
  ASSUME TypeOK, NEW p \in Processes, IsForwarder(p), Counted, ForwarderInv(p),
         "bsd:s" \in Services, Ask(p, "bsd:s")
  PROVE  ForwarderInv(p)'
<1>1. /\ asks[p] \in Nat /\ questions \in Nat /\ MaxAsks \in Nat /\ mode \in AllModes
      /\ ordinalCount \in Nat /\ admitted[p] \subseteq Nat
  BY BoundsAssumption DEF TypeOK
<1>2. running = p \/ asks[p] = 0
  BY DEF Ask
<1>3. NextOrdinal(p) = asks[p] + 1
  BY <1>1, <1>2 DEF NextOrdinal, ForwarderInv
<1>4. /\ ordinalPid' = p /\ ordinalCount' = asks[p] + 1 /\ mode' = mode
      /\ questions' = questions + 1 /\ questions < MaxAsks
      /\ asks'[p] = asks[p] + 1
  BY <1>1, <1>3 DEF Ask, Counted, build, TypeOK
<1>5. admitted'[p] = IF AllowedOrdinal(asks[p] + 1) THEN admitted[p] \cup {asks[p] + 1} ELSE admitted[p]
  BY <1>1, <1>3, ForwarderIsMitmed DEF Ask, Counted, TypeOK
<1>6. AllowedOrdinal(asks[p] + 1) <=> asks[p] + 1 \in Wanted[mode]
  BY <1>1, <1>4, WantedAreAllowed DEF ForwarderInv
<1>7. 1..asks[p] + 1 = 1..asks[p] \cup {asks[p] + 1}
  BY <1>1
<1>8. admitted'[p] = Wanted[mode'] \cap 1..asks'[p]
  BY <1>4, <1>5, <1>6, <1>7 DEF ForwarderInv
<1>. QED
  BY <1>1, <1>4, <1>8 DEF ForwarderInv

\* A question of p about another service leaves its ordinals alone, and a
\* process that has asked nothing yet may start to run with it.
LEMMA OtherQuestion ==
  ASSUME TypeOK, NEW p \in Processes, IsForwarder(p), Counted, ForwarderInv(p),
         NEW s \in Services, s # "bsd:s", Ask(p, s)
  PROVE  ForwarderInv(p)'
<1>1. /\ asks[p] \in Nat /\ questions \in Nat /\ MaxAsks \in Nat
  BY BoundsAssumption DEF TypeOK
<1>2. running = p \/ asks[p] = 0
  BY DEF Ask
<1>3. /\ ordinalPid' = ordinalPid /\ ordinalCount' = ordinalCount /\ mode' = mode
      /\ questions' = questions + 1 /\ questions < MaxAsks
      /\ asks'[p] = asks[p] /\ admitted'[p] = admitted[p]
  BY DEF Ask, build, TypeOK
<1>. QED
  BY <1>1, <1>2, <1>3 DEF ForwarderInv

\* A question of another process takes none of p's ordinals.
LEMMA ForeignQuestion ==
  ASSUME TypeOK, NEW p \in Processes, IsForwarder(p), Counted, ForwarderInv(p),
         NEW o \in Processes, o # p, NEW s \in Services, Ask(o, s)
  PROVE  ForwarderInv(p)'
<1>1. /\ asks[p] \in Nat /\ questions \in Nat /\ MaxAsks \in Nat
  BY BoundsAssumption DEF TypeOK
<1>2. /\ mode' = mode /\ questions' = questions + 1 /\ questions < MaxAsks
      /\ asks'[p] = asks[p] /\ admitted'[p] = admitted[p]
  BY DEF Ask, build, TypeOK
<1>3. CASE IsForwarder(o)
  <2>1. running' = o
    BY <1>3 DEF Ask
  <2>2. \/ ordinalPid' = o
        \/ ordinalPid' = ordinalPid /\ ordinalCount' = ordinalCount
    BY DEF Ask
  <2>. QED
    BY <1>1, <1>2, <2>1, <2>2 DEF ForwarderInv
<1>4. CASE ~IsForwarder(o)
  <2>1. running' = running /\ ordinalPid' = ordinalPid /\ ordinalCount' = ordinalCount
    BY <1>4 DEF Ask
  <2>. QED
    BY <1>1, <1>2, <2>1 DEF ForwarderInv
<1>. QED
  BY <1>3, <1>4

\* Of the sessions a forwarder process opens, exactly those are intercepted
\* that the build asks for: questions of other programs, of earlier and later
\* forwarder processes and about other services, and sessions that come and
\* go between two questions, change no ordinal (ShouldMitmBsdSystem).
THEOREM ForwarderSessionsCorrect == Spec => []ForwarderSessionsChosen
<1>1. Init => OrdinalsFollow
  <2>1. ASSUME Init, NEW p \in Processes PROVE ForwarderInv(p)
    <3>1. asks[p] = 0 /\ questions = 0 /\ admitted[p] = {} /\ ordinalPid # p /\ MaxAsks \in Nat
      BY <2>1, ClientsAssumption, BoundsAssumption DEF Init
    <3>. QED
      BY <3>1 DEF ForwarderInv
  <2>. QED
    BY <2>1 DEF OrdinalsFollow
<1>2. ASSUME TypeOK, OrdinalsFollow, [Next]_vars PROVE OrdinalsFollow'
  <2>1. ASSUME NEW p \in Processes, IsForwarder(p), Counted PROVE ForwarderInv(p)'
    <3>1. ForwarderInv(p)
      BY <1>2, <2>1 DEF OrdinalsFollow
    <3>2. ASSUME NEW o \in Processes, NEW s \in Services, Ask(o, s) PROVE ForwarderInv(p)'
      BY <1>2, <2>1, <3>1, <3>2, OwnQuestion, OtherQuestion, ForeignQuestion
    <3>3. CASE UNCHANGED <<mode, ordinal, running, history>>
      BY <3>1, <3>3 DEF ForwarderInv, ordinal, history
    <3>4. ASSUME NEW s \in Services, Acknowledge(s) \/ Destroy(s)
          PROVE  UNCHANGED <<mode, ordinal, running, history>>
      BY <3>4 DEF Acknowledge, Destroy, build
    <3>5. \/ NotePending \/ AnswerQuery \/ AcceptMitmImpl \/ AcceptFailed \/ PromoteFromPending \/ Accepted
          \/ UNCHANGED vars
          => UNCHANGED <<mode, ordinal, running, history>>
      BY DEF NotePending, AnswerQuery, AcceptMitmImpl, AcceptFailed, PromoteFromPending, Accepted,
             build, vars
    <3>. QED
      BY <1>2, <3>2, <3>3, <3>4, <3>5 DEF Next
  <2>. QED
    BY <2>1 DEF OrdinalsFollow, IsForwarder, Counted
<1>3. OrdinalsFollow => ForwarderSessionsChosen
  BY DEF OrdinalsFollow, ForwarderInv, Counted, ForwarderSessionsChosen
<1>. QED
  BY <1>1, <1>2, <1>3, TypeCorrect, PTL DEF Spec

-----------------------------------------------------------------------------
(* A behaviour of the three parts is one of each of them. *)

LEMMA PartsInit == MCInit => Init /\ Watchdog!Init /\ Decode!Init
BY DEF MCInit

LEMMA PartsStep ==
  [MCNext]_allVars =>
    [Next]_vars /\ [Watchdog!Next]_(Watchdog!vars) /\ [Decode!Next]_(Decode!vars)
<1>1. UNCHANGED watchdogVars => UNCHANGED Watchdog!vars
  BY DEF watchdogVars, Watchdog!vars, Watchdog!environment
<1>2. UNCHANGED decodeVars => UNCHANGED Decode!vars
  BY DEF decodeVars, Decode!vars
<1>3. QED
  BY <1>1, <1>2 DEF MCNext, Admits, Watches, Decodes, allVars

LEMMA AdmissionRuns == MCSpec => Spec
BY PartsInit, PartsStep, PTL DEF MCSpec, Spec

\* The counters and the forwarder's ordinals, next to the other two parts
\* (ShouldMitmBsdSystem, AcceptMitmConnection).
THEOREM AdmissionCorrect == MCSpec => [](CountersAgree /\ ForwarderSessionsChosen)
BY AdmissionRuns, CountersCorrect, ForwarderSessionsCorrect, PTL

-----------------------------------------------------------------------------
(* The watchdog. *)

\* What the drain takes is there to be taken.
LEMMA DrainFits ==
  ASSUME Watchdog!TypeOK, cursor <= written
  PROVE  /\ Watchdog!Lost \in Nat /\ Watchdog!Drained \in Nat
         /\ cursor + Watchdog!Lost + Watchdog!Drained <= written
<1>1. written \in Nat /\ cursor \in Nat /\ RingSize \in Nat \ {0} /\ BatchSize \in Nat \ {0}
  BY WatchdogParameters DEF Watchdog!TypeOK, Watchdog!Parameters
<1>2. Watchdog!Oldest \in Nat /\ Watchdog!Oldest <= written
  BY <1>1 DEF Watchdog!Oldest
<1>3. Watchdog!Lost \in Nat /\ cursor + Watchdog!Lost <= written
  BY <1>1, <1>2 DEF Watchdog!Lost
<1>4. Watchdog!Drained \in Nat /\ Watchdog!Drained <= written - (cursor + Watchdog!Lost)
  BY <1>1, <1>3 DEF Watchdog!Drained, Watchdog!Lesser
<1>5. QED
  BY <1>1, <1>3, <1>4

LEMMA WatchdogInitType == Watchdog!Init => Watchdog!TypeOK
<1>1. PostTeardown \in Nat /\ IdleInterval \in Nat
  BY WatchdogParameters DEF Watchdog!Parameters
<1>2. Watchdog!Init => shutdown \in BOOLEAN
  BY Zenon DEF Watchdog!Init
<1>3. Watchdog!Init => logged \in Seq(Nat)
  BY DEF Watchdog!Init
<1>4. QED
  BY <1>1, <1>2, <1>3 DEF Watchdog!Init, Watchdog!TypeOK

LEMMA WatchdogNextType ==
  ASSUME Watchdog!TypeOK, cursor <= written, silent = idle, idle < IdleInterval, [Watchdog!Next]_(Watchdog!vars)
  PROVE  Watchdog!TypeOK'
<1>. USE WatchdogParameters DEF Watchdog!TypeOK, Watchdog!Parameters, Watchdog!environment
<1>1. CASE Watchdog!WriteRecord
  BY <1>1 DEF Watchdog!WriteRecord
<1>2. CASE Watchdog!ChangeSessions
  BY <1>2 DEF Watchdog!ChangeSessions
<1>3. CASE Watchdog!RequestShutdown
  BY <1>3 DEF Watchdog!RequestShutdown
<1>4. CASE Watchdog!Exit
  BY <1>4 DEF Watchdog!Exit
<1>5. CASE Watchdog!Sample
  BY <1>5 DEF Watchdog!Sample
<1>6. CASE Watchdog!Drain
  <2>1. /\ Watchdog!Lost \in Nat /\ Watchdog!Drained \in Nat
    BY DrainFits
  <2>2. [i \in 1..Watchdog!Drained |-> cursor + Watchdog!Lost + i] \in Seq(Nat)
    BY <2>1, IsASeq
  <2>3. logged' \in Seq(Nat) /\ dropped' \in Nat /\ cursor' \in Nat
    BY <1>6, <2>1, <2>2 DEF Watchdog!Drain
  <2>4. QED
    BY <1>6, <2>3 DEF Watchdog!Drain
<1>7. CASE Watchdog!Snapshot
  BY <1>7 DEF Watchdog!Snapshot
<1>8. CASE UNCHANGED Watchdog!vars
  BY <1>8 DEF Watchdog!vars
<1>9. QED
  BY <1>1, <1>2, <1>3, <1>4, <1>5, <1>6, <1>7, <1>8 DEF Watchdog!Next, Watchdog!Watchdog

\* RecordsAccounted, with every pair of records instead of neighbours only.
LoggedInOrder == \A i, j \in 1..Len(logged) : i < j => logged[i] < logged[j]
RecordsInv ==
  /\ cursor <= written
  /\ Len(logged) + dropped = cursor
  /\ \A i \in 1..Len(logged) : logged[i] <= cursor
  /\ LoggedInOrder

\* What makes the rules on silence inductive: a silent sample is an idle one,
\* and as many samples of a teardown are left as were not yet watched.
SilenceInv ==
  /\ silent = idle /\ idle < IdleInterval
  /\ PostTeardown <= sinceGone + remaining
  /\ Watchdog!TeardownWatched

LEMMA RecordsStep ==
  ASSUME Watchdog!TypeOK, RecordsInv, [Watchdog!Next]_(Watchdog!vars)
  PROVE  RecordsInv'
<1>1. CASE Watchdog!WriteRecord
  BY <1>1 DEF Watchdog!WriteRecord, Watchdog!TypeOK, RecordsInv, LoggedInOrder
<1>2. CASE Watchdog!Drain
  <2>. DEFINE lost0 == Watchdog!Lost
              n == Watchdog!Drained
              new == [i \in 1..n |-> cursor + lost0 + i]
              old == logged
  <2>1. lost0 \in Nat /\ n \in Nat /\ cursor + lost0 + n <= written
    BY DrainFits DEF RecordsInv
  <2>2. /\ written \in Nat /\ cursor \in Nat /\ dropped \in Nat /\ old \in Seq(Nat)
        /\ Len(old) \in Nat /\ (\A i \in 1..Len(old) : old[i] \in Nat /\ old[i] <= cursor)
    BY DEF Watchdog!TypeOK, RecordsInv
  <2>3. new \in Seq(Nat) /\ Len(new) = n /\ \A i \in 1..n : new[i] = cursor + lost0 + i
    BY <2>1, <2>2, IsASeq
  <2>4. /\ dropped' = dropped + lost0 /\ cursor' = cursor + lost0 + n
        /\ logged' = old \o new /\ written' = written
    BY <1>2 DEF Watchdog!Drain, Watchdog!environment
  <2>. HIDE DEF new, n, lost0, old
  <2>5. /\ Len(old \o new) = Len(old) + n
        /\ \A i \in 1..Len(old) : (old \o new)[i] = old[i]
        /\ \A i \in Len(old) + 1..Len(old) + n : (old \o new)[i] = cursor + lost0 + (i - Len(old))
    <3>1. Len(old \o new) = Len(old) + n
      BY <2>2, <2>3, ConcatProperties
    <3>2. ASSUME NEW i \in 1..Len(old) + Len(new)
          PROVE  (old \o new)[i] = IF i <= Len(old) THEN old[i] ELSE new[i - Len(old)]
      BY <2>2, <2>3, ConcatProperties
    <3>3. \A i \in Len(old) + 1..Len(old) + n : i - Len(old) \in 1..n /\ i \in 1..Len(old) + n /\ ~(i <= Len(old))
      BY <2>1, <2>2
    <3>4. \A i \in 1..Len(old) : i \in 1..Len(old) + n /\ i <= Len(old)
      BY <2>1, <2>2
    <3>5. QED
      BY <2>1, <2>2, <2>3, <3>1, <3>2, <3>3, <3>4
  <2>6. \A i \in 1..Len(old) + n : i \in 1..Len(old) \/ i \in Len(old) + 1..Len(old) + n
    BY <2>1, <2>2
  <2>7. cursor' <= written' /\ Len(logged') + dropped' = cursor'
    <3>1. Len(old) + dropped = cursor
      BY DEF RecordsInv, old
    <3>2. Len(logged') = Len(old) + n
      BY <2>4, <2>5
    <3>3. QED
      BY <2>1, <2>2, <2>4, <3>1, <3>2
  <2>8. \A i \in 1..Len(logged') : logged'[i] <= cursor'
    BY <2>1, <2>2, <2>4, <2>5, <2>6
  <2>9. LoggedInOrder'
    <3>1. \A i, j \in 1..Len(old) : i < j => old[i] < old[j]
      BY DEF RecordsInv, LoggedInOrder, old
    <3>2. ASSUME NEW i \in 1..Len(old) + n, NEW j \in 1..Len(old) + n, i < j
          PROVE  (old \o new)[i] < (old \o new)[j]
      <4>1. CASE j \in 1..Len(old)
        <5>1. i \in 1..Len(old)
          BY <2>1, <2>2, <3>2, <4>1
        <5>2. QED
          BY <2>5, <3>1, <3>2, <4>1, <5>1
      <4>2. CASE j \in Len(old) + 1..Len(old) + n
        BY <2>1, <2>2, <2>5, <2>6, <3>2, <4>2
      <4>3. QED
        BY <2>6, <4>1, <4>2
    <3>3. QED
      BY <2>4, <2>5, <3>2 DEF LoggedInOrder
  <2>10. QED
    BY <2>7, <2>8, <2>9 DEF RecordsInv
<1>3. CASE UNCHANGED <<written, cursor, dropped, logged>>
  BY <1>3 DEF RecordsInv, LoggedInOrder
<1>4. Watchdog!WriteRecord \/ Watchdog!Drain \/ UNCHANGED <<written, cursor, dropped, logged>>
  BY DEF Watchdog!Next, Watchdog!Watchdog, Watchdog!ChangeSessions, Watchdog!RequestShutdown,
     Watchdog!Exit, Watchdog!Sample, Watchdog!Snapshot, Watchdog!vars, Watchdog!environment
<1>5. QED
  BY <1>1, <1>2, <1>3, <1>4

LEMMA SilenceStep ==
  ASSUME Watchdog!TypeOK, SilenceInv, [Watchdog!Next]_(Watchdog!vars)
  PROVE  SilenceInv'
<1>1. /\ PostTeardown \in Nat /\ IdleInterval \in Nat \ {0} /\ remaining \in 0..PostTeardown
      /\ idle \in Nat /\ sinceGone \in 0..PostTeardown /\ silent \in Nat
  BY WatchdogParameters DEF Watchdog!Parameters, Watchdog!TypeOK
<1>2. CASE Watchdog!Sample
  BY <1>1, <1>2 DEF Watchdog!Sample, SilenceInv, Watchdog!TeardownWatched
<1>3. CASE Watchdog!Snapshot
  BY <1>1, <1>3 DEF Watchdog!Snapshot, SilenceInv, Watchdog!TeardownWatched
<1>4. CASE UNCHANGED <<silent, idle, sinceGone, remaining>>
  BY <1>4 DEF SilenceInv, Watchdog!TeardownWatched
<1>5. Watchdog!Sample \/ Watchdog!Snapshot \/ UNCHANGED <<silent, idle, sinceGone, remaining>>
  BY DEF Watchdog!Next, Watchdog!Watchdog, Watchdog!WriteRecord, Watchdog!ChangeSessions,
     Watchdog!RequestShutdown, Watchdog!Exit, Watchdog!Drain, Watchdog!vars
<1>6. QED
  BY <1>2, <1>3, <1>4, <1>5

WatchdogInv == Watchdog!TypeOK /\ RecordsInv /\ SilenceInv

LEMMA WatchdogInvariant == MCSpec => []WatchdogInv
<1>1. MCInit => WatchdogInv
  <2>1. ASSUME Watchdog!Init PROVE RecordsInv /\ SilenceInv
    BY <2>1, WatchdogParameters
    DEF Watchdog!Init, Watchdog!Parameters, RecordsInv, LoggedInOrder, SilenceInv, Watchdog!TeardownWatched
  <2>2. QED
    BY <2>1, PartsInit, WatchdogInitType DEF WatchdogInv
<1>2. WatchdogInv /\ [MCNext]_allVars => WatchdogInv'
  <2>1. ASSUME WatchdogInv, [MCNext]_allVars PROVE WatchdogInv'
    <3>1. [Watchdog!Next]_(Watchdog!vars)
      BY <2>1, PartsStep
    <3>2. QED
      BY <2>1, <3>1, WatchdogNextType, RecordsStep, SilenceStep DEF WatchdogInv, RecordsInv, SilenceInv
  <2>2. QED
    BY <2>1
<1>3. QED
  BY <1>1, <1>2, PTL DEF MCSpec

\* The watchdog accounts for every record of the query trace, however far the
\* writers overtake it, and is silent neither for long nor during a teardown,
\* for every size of the ring and of a batch and every interval
\* (LogMitmQueryTelemetry, WatchdogThreadMain).
THEOREM WatchdogCorrect == MCSpec => []WatchdogAccounts
<1>1. WatchdogInv => WatchdogAccounts
  <2>1. ASSUME WatchdogInv PROVE Watchdog!RecordsAccounted
    <3>1. logged \in Seq(Nat) /\ Len(logged) \in Nat
      BY <2>1 DEF WatchdogInv, Watchdog!TypeOK
    <3>2. \A i \in 1..Len(logged) - 1 : i \in 1..Len(logged) /\ i + 1 \in 1..Len(logged) /\ i < i + 1
      BY <3>1
    <3>3. QED
      BY <2>1, <3>2 DEF WatchdogInv, RecordsInv, LoggedInOrder, Watchdog!RecordsAccounted
  <2>2. ASSUME WatchdogInv PROVE Watchdog!NeverSilentLong /\ Watchdog!TeardownWatched
    BY <2>2 DEF WatchdogInv, SilenceInv, Watchdog!NeverSilentLong
  <2>3. QED
    BY <2>1, <2>2 DEF WatchdogAccounts
<1>2. QED
  BY <1>1, WatchdogInvariant, PTL

-----------------------------------------------------------------------------
(* Sequences of words.  The provers replace Len, SubSeq and \o by what they     *)
(* mean; below they have names of their own, kept unexpanded.                   *)

Words == Seq(Nat)
Size(s) == Len(s)
Cut(s, m, n) == SubSeq(s, m, n)
Join(a, b) == a \o b
Three(a, b, c) == Join(Join(a, b), c)

\* Where a run of words stands in another, SubSeq cuts it out.
LEMMA PartIsCutOut ==
  ASSUME NEW s \in Seq(Nat), NEW t \in Seq(Nat), NEW m \in Nat, NEW n \in Nat,
         m >= 1, n + 1 = m + Len(t), n <= Len(s),
         \A i \in 1..Len(t) : s[m + i - 1] = t[i]
  PROVE  SubSeq(s, m, n) = t
<1>. DEFINE l == Len(t)
<1>1. l \in Nat /\ Len(s) \in Nat
  OBVIOUS
<1>2. \A i \in m..n : s[i] \in Nat
  BY <1>1
<1>3. /\ SubSeq(s, m, n) \in Seq(Nat)
      /\ Len(SubSeq(s, m, n)) = IF m <= n THEN n - m + 1 ELSE 0
      /\ \A i \in 1..n - m + 1 : SubSeq(s, m, n)[i] = s[m + i - 1]
  BY <1>2, SubSeqProperties
<1>. HIDE DEF l
<1>4. n - m + 1 = l /\ (m <= n <=> l # 0)
  BY <1>1 DEF l
<1>5. Len(SubSeq(s, m, n)) = l /\ \A i \in 1..l : SubSeq(s, m, n)[i] = s[m + i - 1]
  BY <1>3, <1>4
<1>6. QED
  BY <1>3, <1>5, SeqEqual DEF l

LEMMA SizeIsNat == ASSUME NEW s \in Words PROVE Size(s) \in Nat
BY LenProperties DEF Words, Size

LEMMA JoinWords ==
  ASSUME NEW a \in Words, NEW b \in Words
  PROVE  /\ Join(a, b) \in Words /\ Size(Join(a, b)) = Size(a) + Size(b)
         /\ \A i \in 1..Size(a) : Join(a, b)[i] = a[i]
         /\ \A i \in 1..Size(b) : Join(a, b)[Size(a) + i] = b[i]
<1>. DEFINE la == Len(a)
            lb == Len(b)
<1>1. la \in Nat /\ lb \in Nat /\ a \in Seq(Nat) /\ b \in Seq(Nat)
  BY DEF Words
<1>2. /\ a \o b \in Seq(Nat) /\ Len(a \o b) = la + lb
      /\ \A i \in 1..la + lb : (a \o b)[i] = IF i <= la THEN a[i] ELSE b[i - la]
  BY <1>1, ConcatProperties
<1>. HIDE DEF la, lb
<1>3. ASSUME NEW i \in 1..la PROVE (a \o b)[i] = a[i]
  <2>1. i \in 1..la + lb /\ i <= la
    BY <1>1
  <2>2. QED
    BY <1>2, <2>1
<1>4. ASSUME NEW i \in 1..lb PROVE (a \o b)[la + i] = b[i]
  <2>1. la + i \in 1..la + lb /\ ~(la + i <= la) /\ (la + i) - la = i
    BY <1>1
  <2>2. QED
    BY <1>2, <2>1
<1>5. /\ Join(a, b) = a \o b /\ Size(Join(a, b)) = Len(a \o b)
      /\ Size(a) = la /\ Size(b) = lb
  BY Zenon DEF Join, Size, la, lb
<1>6. Join(a, b) \in Words /\ Size(Join(a, b)) = Size(a) + Size(b)
  <2>1. Join(a, b) \in Words
    BY Zenon, <1>2, <1>5 DEF Words
  <2>2. QED
    BY Zenon, <1>2, <1>5, <2>1
<1>7. \A i \in 1..Size(a) : Join(a, b)[i] = a[i]
  BY Zenon, <1>3, <1>5
<1>8. \A i \in 1..Size(b) : Join(a, b)[Size(a) + i] = b[i]
  BY Zenon, <1>4, <1>5
<1>9. QED
  BY Zenon, <1>6, <1>7, <1>8

\* The part of s that is t, by its first and last place.
LEMMA CutIs ==
  ASSUME NEW s \in Words, NEW t \in Words, NEW k \in Nat, k + Size(t) <= Size(s),
         \A i \in 1..Size(t) : s[k + i] = t[i]
  PROVE  Cut(s, k + 1, k + Size(t)) = t
<1>1. s \in Seq(Nat) /\ t \in Seq(Nat) /\ Size(t) = Len(t) /\ Size(s) = Len(s) /\ Size(t) \in Nat
  BY SizeIsNat DEF Words, Size
<1>2. PICK m \in Nat : m = k + 1
  OBVIOUS
<1>3. PICK n \in Nat : n = k + Size(t)
  BY <1>1
<1>4. m >= 1 /\ n + 1 = m + Len(t) /\ n <= Len(s)
  BY <1>1, <1>2, <1>3
<1>5. ASSUME NEW i \in 1..Len(t) PROVE s[m + i - 1] = t[i]
  <2>1. m + i - 1 = k + i /\ i \in 1..Size(t)
    BY <1>1, <1>2
  <2>2. QED
    BY <2>1
<1>6. SubSeq(s, m, n) = t
  BY <1>1, <1>4, <1>5, PartIsCutOut
<1>7. Cut(s, m, n) = t
  BY Zenon, <1>6 DEF Cut
<1>8. QED
  BY <1>2, <1>3, <1>7

LEMMA ThreeWords ==
  ASSUME NEW a \in Words, NEW b \in Words, NEW c \in Words
  PROVE  /\ Three(a, b, c) \in Words /\ Size(Three(a, b, c)) = Size(a) + Size(b) + Size(c)
         /\ \A i \in 1..Size(a) : Three(a, b, c)[i] = a[i]
         /\ \A i \in 1..Size(b) : Three(a, b, c)[Size(a) + i] = b[i]
         /\ \A i \in 1..Size(c) : Three(a, b, c)[Size(a) + Size(b) + i] = c[i]
<1>1. Size(a) \in Nat /\ Size(b) \in Nat /\ Size(c) \in Nat
  BY SizeIsNat
<1>2. PICK d \in Words : d = Join(a, b)
  BY JoinWords
<1>3. /\ Size(d) = Size(a) + Size(b)
      /\ \A i \in 1..Size(a) : d[i] = a[i]
      /\ \A i \in 1..Size(b) : d[Size(a) + i] = b[i]
  BY <1>2, JoinWords
<1>4. PICK s \in Words : s = Join(d, c)
  BY JoinWords
<1>5. /\ Size(s) = Size(d) + Size(c)
      /\ \A i \in 1..Size(d) : s[i] = d[i]
      /\ \A i \in 1..Size(c) : s[Size(d) + i] = c[i]
  BY <1>4, JoinWords
<1>6. ASSUME NEW i \in 1..Size(a) PROVE s[i] = a[i]
  <2>1. i \in 1..Size(d)
    BY <1>1, <1>3
  <2>2. QED
    BY <1>3, <1>5, <2>1
<1>7. ASSUME NEW i \in 1..Size(b) PROVE s[Size(a) + i] = b[i]
  <2>1. Size(a) + i \in 1..Size(d)
    BY <1>1, <1>3
  <2>2. QED
    BY <1>3, <1>5, <2>1
<1>8. s = Three(a, b, c)
  BY <1>2, <1>4 DEF Three
<1>9. Size(s) = Size(a) + Size(b) + Size(c) /\ \A i \in 1..Size(c) : s[Size(a) + Size(b) + i] = c[i]
  BY <1>3, <1>5
<1>10. QED
  BY <1>6, <1>7, <1>8, <1>9

\* The second part of three, what follows the first, and the third.
LEMMA SecondPart ==
  ASSUME NEW a \in Words, NEW b \in Words, NEW c \in Words
  PROVE  Cut(Three(a, b, c), Size(a) + 1, Size(a) + Size(b)) = b
<1>1. Size(a) \in Nat /\ Size(b) \in Nat /\ Size(c) \in Nat
  BY SizeIsNat
<1>2. PICK s \in Words : s = Three(a, b, c)
  BY ThreeWords
<1>3. Size(a) + Size(b) <= Size(s) /\ \A i \in 1..Size(b) : s[Size(a) + i] = b[i]
  BY <1>1, <1>2, ThreeWords
<1>4. Cut(s, Size(a) + 1, Size(a) + Size(b)) = b
  BY <1>1, <1>3, CutIs
<1>5. QED
  BY <1>2, <1>4

LEMMA ThirdPart ==
  ASSUME NEW a \in Words, NEW b \in Words, NEW c \in Words
  PROVE  Cut(Three(a, b, c), Size(a) + Size(b) + 1, Size(a) + Size(b) + Size(c)) = c
<1>1. PICK k \in Nat : k = Size(a) + Size(b)
  BY SizeIsNat
<1>2. PICK s \in Words : s = Three(a, b, c)
  BY ThreeWords
<1>3. k + Size(c) <= Size(s) /\ \A i \in 1..Size(c) : s[k + i] = c[i]
  BY <1>1, <1>2, SizeIsNat, ThreeWords
<1>4. Cut(s, k + 1, k + Size(c)) = c
  BY <1>3, CutIs
<1>5. QED
  BY <1>1, <1>2, <1>4

LEMMA AfterFirstPart ==
  ASSUME NEW a \in Words, NEW b \in Words, NEW c \in Words
  PROVE  Cut(Three(a, b, c), Size(a) + 1, Size(a) + Size(b) + Size(c)) = Join(b, c)
<1>1. Size(a) \in Nat /\ Size(b) \in Nat /\ Size(c) \in Nat
  BY SizeIsNat
<1>2. PICK s \in Words : s = Three(a, b, c)
  BY ThreeWords
<1>3. PICK t \in Words : t = Join(b, c)
  BY JoinWords
<1>4. /\ Size(s) = Size(a) + Size(b) + Size(c)
      /\ \A i \in 1..Size(b) : s[Size(a) + i] = b[i]
      /\ \A i \in 1..Size(c) : s[Size(a) + Size(b) + i] = c[i]
  BY <1>2, ThreeWords
<1>5. /\ Size(t) = Size(b) + Size(c)
      /\ \A i \in 1..Size(b) : t[i] = b[i]
      /\ \A i \in 1..Size(c) : t[Size(b) + i] = c[i]
  BY <1>3, JoinWords
<1>6. ASSUME NEW i \in 1..Size(t) PROVE s[Size(a) + i] = t[i]
  <2>1. CASE i \in 1..Size(b)
    BY <1>4, <1>5, <2>1
  <2>2. CASE i \notin 1..Size(b)
    <3>1. PICK j \in 1..Size(c) : i = Size(b) + j
      <4>1. i - Size(b) \in 1..Size(c) /\ i = Size(b) + (i - Size(b))
        BY <1>1, <1>5, <2>2
      <4>2. QED
        BY <4>1
    <3>2. Size(a) + i = Size(a) + Size(b) + j
      BY <1>1, <3>1
    <3>3. s[Size(a) + Size(b) + j] = c[j] /\ t[Size(b) + j] = c[j]
      BY <1>4, <1>5
    <3>4. QED
      BY <3>1, <3>2, <3>3
  <2>3. QED
    BY <2>1, <2>2
<1>7. Size(a) + Size(t) <= Size(s)
  BY <1>1, <1>4, <1>5
<1>8. Cut(s, Size(a) + 1, Size(a) + Size(t)) = t
  BY <1>1, <1>6, <1>7, CutIs
<1>9. Size(a) + Size(t) = Size(a) + Size(b) + Size(c)
  BY <1>1, <1>5
<1>10. QED
  BY <1>2, <1>3, <1>8, <1>9

LEMMA SecondOfTwo ==
  ASSUME NEW a \in Words, NEW b \in Words
  PROVE  Cut(Join(a, b), Size(a) + 1, Size(a) + Size(b)) = b
<1>1. Size(a) \in Nat /\ Size(b) \in Nat
  BY SizeIsNat
<1>2. PICK s \in Words : s = Join(a, b)
  BY JoinWords
<1>3. Size(a) + Size(b) <= Size(s) /\ \A i \in 1..Size(b) : s[Size(a) + i] = b[i]
  BY <1>1, <1>2, JoinWords
<1>4. Cut(s, Size(a) + 1, Size(a) + Size(b)) = b
  BY <1>1, <1>3, CutIs
<1>5. QED
  BY <1>2, <1>4

LEMMA CutFits ==
  ASSUME NEW s \in Words, NEW m \in Nat, m >= 1
  PROVE  Cut(s, m, Size(s)) \in Words /\ Size(Cut(s, m, Size(s))) <= Size(s)
<1>1. PICK n \in Nat : n = Len(s)
  BY DEF Words
<1>2. s \in Seq(Nat) /\ \A i \in m..n : s[i] \in Nat
  BY <1>1 DEF Words
<1>3. /\ SubSeq(s, m, n) \in Seq(Nat)
      /\ Len(SubSeq(s, m, n)) = IF m <= n THEN n - m + 1 ELSE 0
  BY <1>2, SubSeqProperties
<1>4. SubSeq(s, m, n) \in Seq(Nat) /\ Len(SubSeq(s, m, n)) <= n
  BY <1>3
<1>5. Size(s) = n /\ Cut(s, m, Size(s)) = SubSeq(s, m, n) /\ Size(Cut(s, m, Size(s))) = Len(SubSeq(s, m, n))
  BY Zenon, <1>1 DEF Cut, Size
<1>6. QED
  BY Zenon, <1>4, <1>5 DEF Words

LEMMA EmptyWords == <<>> \in Words /\ Size(<<>>) = 0
BY DEF Words, Size

LEMMA NoWords == ASSUME NEW s \in Words, Size(s) = 0 PROVE s = <<>>
BY EmptySeq DEF Words, Size

LEMMA JoinNothing == ASSUME NEW s \in Words PROVE s \o <<>> = s
BY ConcatEmptySeq DEF Words

LEMMA StartsWith ==
  ASSUME NEW s \in Words, NEW x \in Nat, Size(s) >= 1, s[1] = x
  PROVE  Decode!HasPrefix(s, <<x>>)
<1>1. PICK t \in Words : t = <<x>>
  <2>1. <<x>> \in Words
    BY DEF Words
  <2>2. QED
    BY <2>1
<1>2. Size(t) = 1 /\ t[1] = x
  BY <1>1 DEF Size
<1>3. PICK k \in Nat : k = 0
  OBVIOUS
<1>4. Size(s) \in Nat
  BY SizeIsNat
<1>5. k + Size(t) <= Size(s)
  BY <1>2, <1>3, <1>4
<1>6. ASSUME NEW i \in 1..Size(t) PROVE s[k + i] = t[i]
  <2>1. i = 1 /\ k + i = 1
    BY <1>2, <1>3
  <2>2. QED
    BY <1>2, <2>1
<1>7. Cut(s, k + 1, k + Size(t)) = t
  BY <1>5, <1>6, CutIs
<1>8. k + 1 = 1 /\ k + Size(t) = Size(t) /\ Size(t) <= Size(s)
  BY <1>2, <1>3
<1>9. SubSeq(s, 1, Len(t)) = t /\ Len(t) <= Len(s)
  BY Zenon, <1>7, <1>8 DEF Cut, Size
<1>10. QED
  BY Zenon, <1>1, <1>9 DEF Decode!HasPrefix

\* A run of words starts with its first part.
LEMMA PrefixOfTwo ==
  ASSUME NEW b \in Words, NEW c \in Words
  PROVE  Decode!HasPrefix(Join(b, c), b)
<1>1. Size(b) \in Nat /\ Size(c) \in Nat
  BY SizeIsNat
<1>2. PICK t \in Words : t = Join(b, c)
  BY JoinWords
<1>3. Size(b) <= Size(t) /\ \A i \in 1..Size(b) : t[i] = b[i]
  BY <1>1, <1>2, JoinWords
<1>4. PICK k \in Nat : k = 0
  OBVIOUS
<1>5. k + Size(b) <= Size(t) /\ \A i \in 1..Size(b) : t[k + i] = b[i]
  BY <1>1, <1>3, <1>4
<1>6. Cut(t, k + 1, k + Size(b)) = b
  BY <1>5, CutIs
<1>7. Cut(t, 1, Size(b)) = b
  <2>1. k + 1 = 1 /\ k + Size(b) = Size(b)
    BY <1>1, <1>4
  <2>2. QED
    BY <1>6, <2>1
<1>8. SubSeq(t, 1, Len(b)) = b /\ Len(b) <= Len(t)
  BY Zenon, <1>3, <1>7 DEF Cut, Size
<1>9. QED
  BY Zenon, <1>2, <1>8 DEF Decode!HasPrefix

-----------------------------------------------------------------------------
(* The reading of messages. *)

\* The two headers of a domain request, and those of a domain reply.
RequestHeaders(n, z, o, v) ==
  Join(Decode!DomainIn(Decode!SendMessage, n, z, o), Decode!Header(Decode!InHeaderMagic, v))
ReplyHeaders(n, v) == Join(<<n, 0, 0, 0>>, Decode!Header(Decode!OutHeaderMagic, v))

\* The raw data of each kind of message, as its sender lays it out.
RootData(m, table) == Three(Decode!Header(Decode!InHeaderMagic, m.value), m.payload, table)
DomainData(m, ids) ==
  Three(RequestHeaders(Size(ids), 16 + 4 * Size(m.payload), m.object, m.value), m.payload, ids)
DomainCloseData(m) == Decode!DomainIn(Decode!Close, 0, 0, m.object)
RootReplyData(m) == Join(Decode!Header(Decode!OutHeaderMagic, m.value), m.payload)
DomainReplyData(m) == Three(ReplyHeaders(Size(m.objects), m.value), m.payload, m.objects)

\* A message that was sent and not yet traced is in the buffer as a whole.
InFlight ==
  \/ sent.kind = "root_close" /\ hipc.count = 0
  \/ sent.kind = "domain_close" /\ Decode!Raw = DomainCloseData(sent)
  \/ sent.kind = "root" /\ \E table \in Words : Decode!Raw = RootData(sent, table)
  \/ sent.kind = "domain" /\ \E ids \in Decode!Ids : Decode!Raw = DomainData(sent, ids)
  \/ sent.kind = "root_reply" /\ Decode!Raw = RootReplyData(sent)
  \/ sent.kind = "domain_reply" /\ Decode!Raw = DomainReplyData(sent)

\* What senders mean is made of the constants.
SentOK ==
  /\ sent.value \in Nat /\ sent.object \in Objects \cup {0}
  /\ sent.objects \in Words /\ Size(sent.objects) <= MaxReturned
  /\ sent.payload \in Words

LEMMA DecodeSizes ==
  /\ ObjectSlots \in Nat /\ ObjectSlots < 256 /\ MaxReturned \in Nat /\ MaxReturned < 256
  /\ BufferWords \in Nat /\ MaxMessages \in Nat
  /\ \A x \in Starts : x \in Nat
  /\ \A x \in Objects : x \in Nat
  /\ \A x \in Commands : x \in Nat
  /\ \A x \in Results : x \in Nat
BY DecodeParameters DEF Decode!Parameters

LEMMA PayloadsAreWords == ASSUME NEW p \in Payloads PROVE p \in Words /\ Size(p) \in Nat
<1>1. Payloads \subseteq Seq(Nat)
  BY DecodeParameters DEF Decode!Parameters
<1>2. p \in Words
  BY <1>1 DEF Words
<1>3. QED
  BY <1>2, SizeIsNat

LEMMA AlignedIsNat == ASSUME NEW n \in Nat PROVE Decode!Aligned(n) \in Nat
BY DEF Decode!Aligned

LEMMA IdsAreWords ==
  ASSUME NEW ids \in Decode!Ids
  PROVE  ids \in Words /\ Size(ids) \in Nat /\ Size(ids) <= MaxReturned
<1>1. PICK n \in 0..MaxReturned : ids \in [1..n -> Objects]
  BY DEF Decode!Ids
<1>2. n \in Nat /\ n <= MaxReturned
  BY <1>1, DecodeSizes
<1>3. ids \in Seq(Objects) /\ Len(ids) = n
  BY <1>1, <1>2
<1>4. ids \in Words /\ Size(ids) = n
  BY <1>3, SeqMonotonic, DecodeSizes DEF Words, Size
<1>5. QED
  BY <1>2, <1>4

\* What the type of the buffer says of the raw data.
LEMMA RawWords ==
  ASSUME Decode!TypeOK
  PROVE  /\ Decode!Raw \in Words /\ Size(Decode!Raw) \in Nat /\ Size(Decode!Raw) <= BufferWords
         /\ \A i \in 1..Size(Decode!Raw) : Decode!Word(i) = Decode!Raw[i]
<1>. DEFINE a == Decode!Aligned(hipc.start)
            n == hipc.count - 4
<1>1. a \in Nat /\ hipc.count \in Nat /\ BufferWords \in Nat /\ buffer \in [0..BufferWords - 1 -> Nat]
  <2>1. BufferWords \in Nat /\ \A x \in Starts : x \in Nat
    BY DecodeSizes
  <2>2. hipc.start \in Starts \cup {0} /\ hipc.count \in 0..BufferWords + 4
    BY DEF Decode!TypeOK
  <2>3. hipc.start \in Nat /\ hipc.count \in Nat
    <3>1. CASE hipc.start = 0
      BY <2>1, <2>2, <3>1
    <3>2. CASE hipc.start \in Starts
      BY <2>1, <2>2, <3>2
    <3>3. QED
      BY <2>2, <3>1, <3>2
  <2>4. buffer \in [0..BufferWords - 1 -> Nat]
    BY DEF Decode!TypeOK
  <2>5. QED
    BY <2>1, <2>3, <2>4, AlignedIsNat
<1>. HIDE DEF a
<1>2. CASE hipc.count < 4 \/ a + n > BufferWords
  <2>1. Decode!Raw = <<>>
    <3>1. hipc.count < 4 \/ a + hipc.count - 4 > BufferWords
      BY <1>1, <1>2
    <3>2. QED
      BY <3>1 DEF Decode!Raw, a
  <2>2. QED
    BY <1>1, <2>1, EmptyWords
<1>3. CASE ~(hipc.count < 4 \/ a + n > BufferWords)
  <2>1. n \in Nat /\ a + n <= BufferWords /\ ~(hipc.count < 4 \/ a + hipc.count - 4 > BufferWords)
    BY <1>1, <1>3
  <2>2. Decode!Raw = [i \in 1..n |-> buffer[a + i - 1]]
    BY <2>1 DEF Decode!Raw, a
  <2>3. \A i \in 1..n : buffer[a + i - 1] \in Nat
    BY <1>1, <2>1
  <2>4. [i \in 1..n |-> buffer[a + i - 1]] \in Seq(Nat)
    BY <2>1, <2>3, IsASeq
  <2>5. Len(Decode!Raw) = n /\ n <= BufferWords
    BY <1>1, <2>1, <2>2
  <2>6. QED
    BY <2>1, <2>2, <2>4, <2>5 DEF Decode!Word, Words, Size, a
<1>4. QED
  BY <1>2, <1>3

\* Writing a message puts its raw data into the buffer and nothing else.
LEMMA WritePuts ==
  ASSUME Decode!TypeOK, NEW start \in Starts, NEW raw \in Words, NEW m, Decode!Write(start, raw, m)
  PROVE  /\ Decode!Raw' = raw /\ sent' = m /\ phase' = "sent" /\ info' = info
         /\ buffer' \in [0..BufferWords - 1 -> Nat]
         /\ hipc'.start \in Starts /\ hipc'.count \in 0..BufferWords + 4
         /\ messages' \in 0..MaxMessages
<1>. DEFINE a == Decode!Aligned(start)
            n == Len(raw)
<1>0. raw \in Seq(Nat)
  BY DEF Words
<1>1. a \in Nat /\ n \in Nat /\ BufferWords \in Nat /\ MaxMessages \in Nat /\ messages \in 0..MaxMessages
  BY <1>0, AlignedIsNat, DecodeSizes DEF Decode!TypeOK
<1>2. /\ a + n <= BufferWords /\ messages < MaxMessages
      /\ buffer' = [i \in DOMAIN buffer |-> IF i \in a..(a + n - 1) THEN raw[i - a + 1] ELSE buffer[i]]
      /\ hipc' = [start |-> start, count |-> n + 4]
      /\ sent' = m /\ messages' = messages + 1 /\ phase' = "sent" /\ info' = info
  BY DEF Decode!Write
<1>3. buffer \in [0..BufferWords - 1 -> Nat]
  BY DEF Decode!TypeOK
<1>. HIDE DEF a, n
<1>4. hipc'.start = start /\ hipc'.count = n + 4
  BY <1>2
<1>5. buffer' \in [0..BufferWords - 1 -> Nat]
  <2>1. ASSUME NEW i \in 0..BufferWords - 1, i \in a..(a + n - 1) PROVE raw[i - a + 1] \in Nat
    <3>1. i - a + 1 \in 1..n
      BY <1>1, <2>1
    <3>2. QED
      BY <1>0, <3>1, ElementOfSeq DEF n
  <2>2. QED
    BY <1>2, <1>3, <2>1
<1>6. Decode!Raw' = raw
  <2>1. Decode!Raw' = [i \in 1..n |-> buffer'[a + i - 1]]
    <3>1. ~(hipc'.count < 4) /\ ~(a + hipc'.count - 4 > BufferWords) /\ hipc'.count - 4 = n
      BY <1>1, <1>2, <1>4
    <3>2. QED
      BY <1>4, <3>1 DEF Decode!Raw, Decode!Aligned, a
  <2>2. ASSUME NEW i \in 1..n PROVE buffer'[a + i - 1] = raw[i]
    <3>1. a + i - 1 \in a..(a + n - 1) /\ a + i - 1 \in 0..BufferWords - 1 /\ (a + i - 1) - a + 1 = i
      BY <1>1, <1>2
    <3>2. QED
      BY <1>2, <1>3, <3>1
  <2>3. Decode!Raw' = [i \in 1..n |-> raw[i]]
    BY <2>1, <2>2
  <2>4. QED
    BY <1>0, <2>3, LenProperties DEF n
<1>7. hipc'.start \in Starts /\ hipc'.count \in 0..BufferWords + 4 /\ messages' \in 0..MaxMessages
  BY <1>1, <1>2, <1>4
<1>8. QED
  BY <1>2, <1>5, <1>6, <1>7

\* What tells the first words of messages apart.
LEMMA Magics ==
  /\ Decode!InHeaderMagic \in Nat /\ Decode!OutHeaderMagic \in Nat
  /\ Decode!InHeaderMagic # 2 /\ Decode!InHeaderMagic % 256 = 83
  /\ Decode!OutHeaderMagic > 255 /\ Decode!InHeaderMagic # Decode!OutHeaderMagic
BY SMT DEF Decode!InHeaderMagic, Decode!OutHeaderMagic

LEMMA HeaderWords ==
  ASSUME NEW x \in Nat, NEW v \in Nat
  PROVE  /\ Decode!Header(x, v) \in Words /\ Size(Decode!Header(x, v)) = 4
         /\ Decode!Header(x, v)[1] = x /\ Decode!Header(x, v)[3] = v
BY DEF Decode!Header, Words, Size

LEMMA DomainInWords ==
  ASSUME NEW t \in Nat, NEW n \in Nat, NEW z \in Nat, NEW o \in Nat
  PROVE  /\ Decode!DomainIn(t, n, z, o) \in Words /\ Size(Decode!DomainIn(t, n, z, o)) = 4
         /\ Decode!DomainIn(t, n, z, o)[1] = t + 256 * n + 65536 * z
         /\ Decode!DomainIn(t, n, z, o)[2] = o
BY DEF Decode!DomainIn, Words, Size

LEMMA SentTypes ==
  ASSUME SentOK
  PROVE  /\ sent.value \in Nat /\ sent.object \in Nat
         /\ sent.objects \in Words /\ Size(sent.objects) \in Nat /\ Size(sent.objects) < 256
         /\ sent.payload \in Words /\ Size(sent.payload) \in Nat
<1>1. sent.value \in Nat /\ sent.object \in Nat
  <2>1. sent.value \in Nat /\ (sent.object = 0 \/ sent.object \in Objects)
    BY DEF SentOK
  <2>2. QED
    BY <2>1, DecodeSizes
<1>2. sent.objects \in Words /\ Size(sent.objects) <= MaxReturned /\ sent.payload \in Words
  BY DEF SentOK
<1>3. Size(sent.objects) \in Nat /\ Size(sent.payload) \in Nat
  BY <1>2, SizeIsNat
<1>4. MaxReturned \in Nat /\ MaxReturned < 256
  BY DecodeSizes
<1>5. Size(sent.objects) < 256
  BY <1>2, <1>3, <1>4
<1>6. QED
  BY <1>1, <1>2, <1>3, <1>5

\* Two headers, one after the other.
LEMMA TwoHeaders ==
  ASSUME NEW a \in Words, NEW b \in Words, Size(a) = 4, Size(b) = 4
  PROVE  /\ Join(a, b) \in Words /\ Size(Join(a, b)) = 8
         /\ Join(a, b)[1] = a[1] /\ Join(a, b)[2] = a[2] /\ Join(a, b)[5] = b[1] /\ Join(a, b)[7] = b[3]
<1>1. /\ Join(a, b) \in Words /\ Size(Join(a, b)) = Size(a) + Size(b)
      /\ \A i \in 1..Size(a) : Join(a, b)[i] = a[i]
      /\ \A i \in 1..Size(b) : Join(a, b)[Size(a) + i] = b[i]
  BY JoinWords
<1>2. 4 + 1 = 5 /\ 4 + 3 = 7 /\ 4 + 4 = 8 /\ 1 \in 1..4 /\ 2 \in 1..4 /\ 3 \in 1..4
  OBVIOUS
<1>3. QED
  BY <1>1, <1>2

\* The first word of a domain request with n ids and z bytes.
FirstWord(n, z) == 1 + 256 * n + 65536 * z

LEMMA FirstWordFields ==
  ASSUME NEW n \in Nat, NEW z \in Nat, n < 256
  PROVE  /\ FirstWord(n, z) % 256 = 1 /\ FirstWord(n, z) \div 65536 = z
         /\ FirstWord(n, z) # Decode!InHeaderMagic
<1>1. FirstWord(n, z) % 256 = 1 /\ FirstWord(n, z) \div 65536 = z
  BY SMT DEF FirstWord
<1>2. QED
  BY <1>1, Magics

LEMMA RequestHeaderWords ==
  ASSUME NEW n \in Nat, NEW z \in Nat, NEW o \in Nat, NEW v \in Nat
  PROVE  /\ RequestHeaders(n, z, o, v) \in Words /\ Size(RequestHeaders(n, z, o, v)) = 8
         /\ RequestHeaders(n, z, o, v)[1] = FirstWord(n, z)
         /\ RequestHeaders(n, z, o, v)[2] = o
         /\ RequestHeaders(n, z, o, v)[5] = Decode!InHeaderMagic
         /\ RequestHeaders(n, z, o, v)[7] = v
<1>. DEFINE a == Decode!DomainIn(Decode!SendMessage, n, z, o)
            b == Decode!Header(Decode!InHeaderMagic, v)
<1>1. a \in Words /\ Size(a) = 4
  BY DomainInWords DEF Decode!SendMessage
<1>2. a[1] = FirstWord(n, z) /\ a[2] = o
  BY SMT, DomainInWords DEF Decode!SendMessage, FirstWord
<1>3. b \in Words /\ Size(b) = 4
  BY Magics, HeaderWords
<1>4. b[1] = Decode!InHeaderMagic /\ b[3] = v
  BY Magics, HeaderWords
<1>. HIDE DEF a, b
<1>5. /\ Join(a, b) \in Words /\ Size(Join(a, b)) = 8
      /\ Join(a, b)[1] = a[1] /\ Join(a, b)[2] = a[2] /\ Join(a, b)[5] = b[1] /\ Join(a, b)[7] = b[3]
  BY <1>1, <1>3, TwoHeaders
<1>6. RequestHeaders(n, z, o, v) = Join(a, b)
  BY DEF RequestHeaders, a, b
<1>7. QED
  BY <1>2, <1>4, <1>5, <1>6

LEMMA ReplyHeaderWords ==
  ASSUME NEW n \in Nat, NEW v \in Nat
  PROVE  /\ ReplyHeaders(n, v) \in Words /\ Size(ReplyHeaders(n, v)) = 8
         /\ ReplyHeaders(n, v)[1] = n /\ ReplyHeaders(n, v)[5] = Decode!OutHeaderMagic
         /\ ReplyHeaders(n, v)[7] = v
<1>. DEFINE a == <<n, 0, 0, 0>>
            b == Decode!Header(Decode!OutHeaderMagic, v)
<1>1. a \in Words /\ Size(a) = 4 /\ a[1] = n
  BY DEF Words, Size
<1>2. b \in Words /\ Size(b) = 4 /\ b[1] = Decode!OutHeaderMagic /\ b[3] = v
  BY Magics, HeaderWords
<1>. HIDE DEF a, b
<1>3. /\ Join(a, b) \in Words /\ Size(Join(a, b)) = 8
      /\ Join(a, b)[1] = a[1] /\ Join(a, b)[5] = b[1] /\ Join(a, b)[7] = b[3]
  BY <1>1, <1>2, TwoHeaders
<1>4. ReplyHeaders(n, v) = Join(a, b)
  BY DEF ReplyHeaders, a, b
<1>5. QED
  BY <1>1, <1>2, <1>3, <1>4

\* The steps of the senders.
LEMMA SendsAreHeld ==
  ASSUME Decode!TypeOK, NEW start \in Starts, NEW payload \in Payloads, Decode!Send(start, payload)
  PROVE  /\ InFlight' /\ SentOK' /\ phase' = "sent" /\ info' = info
         /\ buffer' \in [0..BufferWords - 1 -> Nat]
         /\ hipc'.start \in Starts /\ hipc'.count \in 0..BufferWords + 4
         /\ messages' \in 0..MaxMessages
<1>. DEFINE Held ==
       /\ InFlight' /\ SentOK' /\ phase' = "sent" /\ info' = info
       /\ buffer' \in [0..BufferWords - 1 -> Nat]
       /\ hipc'.start \in Starts /\ hipc'.count \in 0..BufferWords + 4
       /\ messages' \in 0..MaxMessages
<1>0. payload \in Words /\ Size(payload) \in Nat
  BY PayloadsAreWords
<1>1. CASE Decode!RootClose(start)
  <2>1. /\ hipc' = [start |-> start, count |-> 0] /\ phase' = "sent" /\ info' = info /\ buffer' = buffer
        /\ messages' = messages + 1 /\ messages < MaxMessages
        /\ sent' = Decode!Meaning("root_close", 0, 0, <<>>, <<>>)
    BY <1>1 DEF Decode!RootClose
  <2>2. messages' \in 0..MaxMessages /\ hipc'.count \in 0..BufferWords + 4
    BY <2>1, DecodeSizes DEF Decode!TypeOK
  <2>3. SentOK' /\ sent'.kind = "root_close"
    BY <2>1, DecodeSizes, EmptyWords DEF SentOK, Decode!Meaning
  <2>4. QED
    BY <2>1, <2>2, <2>3 DEF InFlight, Decode!TypeOK
<1>2. ASSUME NEW o \in Objects, Decode!DomainClose(start, o) PROVE Held
  <2>. DEFINE m == Decode!Meaning("domain_close", 0, o, <<>>, <<>>)
  <2>1. Decode!Write(start, DomainCloseData(m), m)
    BY <1>2 DEF Decode!DomainClose, DomainCloseData, Decode!Meaning
  <2>2. DomainCloseData(m) \in Words
    BY DomainInWords, DecodeSizes DEF DomainCloseData, Decode!Meaning, Decode!Close
  <2>3. Decode!Raw' = DomainCloseData(m) /\ sent' = m
    BY <2>1, <2>2, WritePuts
  <2>4. InFlight' /\ SentOK'
    BY <2>3, DecodeSizes, EmptyWords DEF InFlight, SentOK, DomainCloseData, Decode!Meaning
  <2>5. QED
    BY <2>1, <2>2, <2>4, WritePuts
<1>3. ASSUME NEW c \in Commands, NEW table \in {<<>>, << 7 >>}, Decode!RootRequest(start, c, payload, table)
      PROVE  Held
  <2>. DEFINE m == Decode!Meaning("root", c, 0, <<>>, payload)
  <2>1. Decode!Write(start, RootData(m, table), m)
    BY <1>3 DEF Decode!RootRequest, RootData, Three, Join, Decode!Meaning
  <2>2. table \in Words /\ c \in Nat
    <3>1. <<>> \in Words /\ <<7>> \in Words
      BY DEF Words
    <3>2. QED
      BY <3>1, DecodeSizes
  <2>3. RootData(m, table) \in Words
    BY <1>0, <2>2, Magics, HeaderWords, ThreeWords DEF RootData, Decode!Meaning
  <2>4. Decode!Raw' = RootData(m, table) /\ sent' = m
    BY <2>1, <2>3, WritePuts
  <2>5. InFlight' /\ SentOK'
    <3>1. sent'.kind = "root" /\ RootData(sent', table) = RootData(m, table)
      BY <2>4 DEF Decode!Meaning
    <3>2. InFlight'
      BY <2>2, <2>4, <3>1 DEF InFlight, RootData
    <3>3. SentOK'
      BY <1>0, <2>2, <2>4, DecodeSizes, EmptyWords DEF SentOK, Decode!Meaning
    <3>4. QED
      BY <3>2, <3>3
  <2>6. QED
    BY <2>1, <2>3, <2>5, WritePuts
<1>4. ASSUME NEW c \in Commands, NEW o \in Objects, NEW ids \in Decode!Ids,
             Decode!DomainRequest(start, c, o, payload, ids)
      PROVE  Held
  <2>. DEFINE m == Decode!Meaning("domain", c, o, <<>>, payload)
  <2>1. Decode!Write(start, DomainData(m, ids), m)
    BY <1>4 DEF Decode!DomainRequest, DomainData, Three, Join, Size, RequestHeaders, Decode!Meaning
  <2>2. ids \in Words /\ Size(ids) \in Nat /\ c \in Nat /\ o \in Nat /\ 16 + 4 * Size(payload) \in Nat
    BY <1>0, DecodeSizes, IdsAreWords
  <2>3. RequestHeaders(Size(ids), 16 + 4 * Size(payload), o, c) \in Words
    BY <2>2, RequestHeaderWords
  <2>4. DomainData(m, ids) \in Words
    BY <1>0, <2>2, <2>3, ThreeWords DEF DomainData, Decode!Meaning
  <2>5. Decode!Raw' = DomainData(m, ids) /\ sent' = m
    BY <2>1, <2>4, WritePuts
  <2>6. InFlight' /\ SentOK'
    <3>1. InFlight'
      BY <2>5 DEF InFlight, DomainData, Decode!Meaning, Decode!Ids
    <3>2. SentOK'
      BY <1>0, <2>2, <2>5, DecodeSizes, EmptyWords DEF SentOK, Decode!Meaning
    <3>3. QED
      BY <3>1, <3>2
  <2>7. QED
    BY <2>1, <2>4, <2>6, WritePuts
<1>5. ASSUME NEW r \in Results, Decode!RootReply(start, r, payload) PROVE Held
  <2>. DEFINE m == Decode!Meaning("root_reply", r, 0, <<>>, payload)
  <2>1. Decode!Write(start, RootReplyData(m), m)
    BY <1>5 DEF Decode!RootReply, RootReplyData, Join, Decode!Meaning
  <2>2. r \in Nat
    BY DecodeSizes
  <2>3. RootReplyData(m) \in Words
    BY <1>0, <2>2, Magics, HeaderWords, JoinWords DEF RootReplyData, Decode!Meaning
  <2>4. Decode!Raw' = RootReplyData(m) /\ sent' = m
    BY <2>1, <2>3, WritePuts
  <2>5. InFlight' /\ SentOK'
    BY <1>0, <2>2, <2>4, DecodeSizes, EmptyWords DEF InFlight, SentOK, RootReplyData, Decode!Meaning
  <2>6. QED
    BY <2>1, <2>3, <2>5, WritePuts
<1>6. ASSUME NEW r \in Results, NEW ids \in Decode!Ids, Decode!DomainReply(start, r, payload, ids) PROVE Held
  <2>. DEFINE m == Decode!Meaning("domain_reply", r, 0, ids, payload)
  <2>1. Decode!Write(start, DomainReplyData(m), m)
    BY <1>6 DEF Decode!DomainReply, DomainReplyData, Three, Join, Size, ReplyHeaders, Decode!Meaning
  <2>2. ids \in Words /\ Size(ids) \in Nat /\ Size(ids) <= MaxReturned /\ r \in Nat
    BY DecodeSizes, IdsAreWords
  <2>3. ReplyHeaders(Size(ids), r) \in Words
    BY <2>2, ReplyHeaderWords
  <2>4. DomainReplyData(m) \in Words
    BY <1>0, <2>2, <2>3, ThreeWords DEF DomainReplyData, Decode!Meaning
  <2>5. Decode!Raw' = DomainReplyData(m) /\ sent' = m
    BY <2>1, <2>4, WritePuts
  <2>6. InFlight' /\ SentOK'
    <3>1. InFlight'
      BY <2>5 DEF InFlight, DomainReplyData, Decode!Meaning
    <3>2. SentOK'
      BY <1>0, <2>2, <2>5, DecodeSizes, EmptyWords DEF SentOK, Decode!Meaning
    <3>3. QED
      BY <3>1, <3>2
  <2>7. QED
    BY <2>1, <2>4, <2>6, WritePuts
<1>7. QED
  BY <1>1, <1>2, <1>3, <1>4, <1>5, <1>6 DEF Decode!Send

\* What the trace says of a message it recognized.
Found(domain, close, value, object, objects, returned, payload) ==
  [valid |-> TRUE, domain |-> domain, close |-> close, value |-> value, object |-> object,
   objects |-> objects, returned |-> returned, payload |-> payload]

\* The sizes in ParseRequestInfo and ParseResponseInfo, as words.
LEMMA RawTests ==
  ASSUME Decode!TypeOK
  PROVE  /\ Decode!IsRoot <=> Size(Decode!Raw) >= 4
         /\ Decode!IsDomain <=> Size(Decode!Raw) >= 8
         /\ Decode!IsRoot => Decode!Raw # <<>>
         /\ Decode!IsRoot =>
              /\ Decode!Word(1) = Decode!Raw[1] /\ Decode!Word(2) = Decode!Raw[2]
              /\ Decode!Word(3) = Decode!Raw[3]
         /\ Decode!IsDomain => Decode!Word(5) = Decode!Raw[5] /\ Decode!Word(7) = Decode!Raw[7]
<1>1. /\ Decode!Raw \in Words /\ Size(Decode!Raw) \in Nat
      /\ \A i \in 1..Size(Decode!Raw) : Decode!Word(i) = Decode!Raw[i]
  BY RawWords
<1>2. /\ Decode!IsRoot <=> Size(Decode!Raw) >= 4
      /\ Decode!IsDomain <=> Size(Decode!Raw) >= 8
  BY <1>1 DEF Decode!IsRoot, Decode!IsDomain, Decode!HeaderWords, Size
<1>3. Decode!IsRoot => 1 \in 1..Size(Decode!Raw) /\ 2 \in 1..Size(Decode!Raw) /\ 3 \in 1..Size(Decode!Raw)
  BY <1>1, <1>2
<1>4. Decode!IsDomain => 5 \in 1..Size(Decode!Raw) /\ 7 \in 1..Size(Decode!Raw)
  BY <1>1, <1>2
<1>5. Decode!IsRoot => Decode!Raw # <<>>
  BY <1>1, <1>2, EmptyWords
<1>6. QED
  BY <1>1, <1>2, <1>3, <1>4, <1>5

\* Which part of the raw data GetRequestDecodeDetails takes for the payload.
LEMMA RequestPayloads ==
  /\ (/\ Decode!DomainRequestValid /\ Decode!DataSize >= 16
      /\ 4 * Size(Decode!Raw) >= 16 + Decode!DataSize)
       => Decode!RequestPayload = Cut(Decode!Raw, 9, 4 + (Decode!DataSize \div 4))
  /\ ~Decode!DomainRequestValid /\ Decode!RootRequestValid
       => Decode!RequestPayload = Cut(Decode!Raw, 5, Size(Decode!Raw))
  /\ ~Decode!DomainRequestValid /\ ~Decode!RootRequestValid => Decode!RequestPayload = <<>>
BY Zenon DEF Decode!RequestPayload, Cut, Size

LEMMA RootTraced ==
  ASSUME Decode!TypeOK, SentOK, NEW table \in Words, Decode!Raw = RootData(sent, table)
  PROVE  \E payload \in Words :
           /\ Decode!RequestInfo = Found(FALSE, FALSE, sent.value, 0, <<>>, 0, payload)
           /\ Decode!HasPrefix(payload, sent.payload) /\ Size(payload) <= BufferWords
<1>1. PICK h \in Words : h = Decode!Header(Decode!InHeaderMagic, sent.value)
  BY HeaderWords, Magics, SentTypes
<1>2. Size(h) = 4 /\ h[1] = Decode!InHeaderMagic /\ h[3] = sent.value
  BY <1>1, HeaderWords, Magics, SentTypes
<1>3. PICK p \in Words : p = sent.payload
  BY SentTypes
<1>4. Size(p) \in Nat /\ Size(table) \in Nat
  BY SizeIsNat
<1>5. PICK R \in Words : R = Decode!Raw
  BY RawWords
<1>6. R = Three(h, p, table)
  BY <1>1, <1>3, <1>5 DEF RootData
<1>7. Size(R) = 4 + Size(p) + Size(table) /\ R[1] = Decode!InHeaderMagic /\ R[3] = sent.value
  <2>1. Size(R) = Size(h) + Size(p) + Size(table) /\ \A i \in 1..Size(h) : R[i] = h[i]
    BY <1>6, ThreeWords
  <2>2. QED
    BY <1>2, <2>1
<1>8. Cut(R, 5, Size(R)) = Join(p, table)
  <2>1. Cut(Three(h, p, table), Size(h) + 1, Size(h) + Size(p) + Size(table)) = Join(p, table)
    BY AfterFirstPart
  <2>2. Size(h) + 1 = 5 /\ Size(h) + Size(p) + Size(table) = Size(R)
    BY <1>2, <1>4, <1>7
  <2>3. QED
    BY Zenon, <1>6, <2>1, <2>2
<1>9. /\ Decode!IsRoot /\ Decode!Raw # <<>>
      /\ Decode!Word(1) = Decode!InHeaderMagic /\ Decode!Word(3) = sent.value
  BY <1>4, <1>5, <1>7, RawTests
<1>10. Decode!RootRequestValid /\ ~Decode!DomainRequestValid
  <2>1. Decode!Type # Decode!SendMessage
    BY <1>9, Magics DEF Decode!Type, Decode!SendMessage
  <2>2. QED
    BY <1>9, <2>1 DEF Decode!RootRequestValid, Decode!DomainRequestValid
<1>11. Decode!RequestPayload = Join(p, table)
  BY Zenon, <1>5, <1>8, <1>10, RequestPayloads
<1>12. Decode!RequestInfo = Found(FALSE, FALSE, sent.value, 0, <<>>, 0, Decode!RequestPayload)
  BY <1>9, <1>10 DEF Decode!RequestInfo, Decode!Nothing, Found
<1>13. Join(p, table) \in Words /\ Size(Join(p, table)) <= BufferWords
  <2>1. Size(Join(p, table)) = Size(p) + Size(table) /\ Join(p, table) \in Words
    BY JoinWords
  <2>2. Size(R) <= BufferWords /\ BufferWords \in Nat
    BY <1>5, RawWords, DecodeSizes
  <2>3. QED
    BY <1>4, <1>7, <2>1, <2>2
<1>14. Decode!HasPrefix(Join(p, table), sent.payload)
  BY Zenon, <1>3, PrefixOfTwo
<1>15. QED
  BY Zenon, <1>11, <1>12, <1>13, <1>14

LEMMA DomainTraced ==
  ASSUME Decode!TypeOK, SentOK, NEW ids \in Decode!Ids, Decode!Raw = DomainData(sent, ids)
  PROVE  /\ Decode!RequestInfo = Found(TRUE, FALSE, sent.value, sent.object, <<>>, 0, sent.payload)
         /\ Size(sent.payload) <= BufferWords
<1>1. PICK p \in Words : p = sent.payload
  BY SentTypes
<1>2. PICK l \in Nat : l = Size(p)
  BY SizeIsNat
<1>3. PICK n \in Nat : n = Size(ids)
  BY IdsAreWords
<1>4. n < 256 /\ ids \in Words
  BY <1>3, IdsAreWords, DecodeSizes
<1>5. PICK z \in Nat : z = 16 + 4 * l
  BY <1>2
<1>6. PICK v \in Nat : v = sent.value
  BY SentTypes
<1>7. PICK o \in Nat : o = sent.object
  BY SentTypes
<1>8. PICK h \in Words : h = RequestHeaders(n, z, o, v)
  BY RequestHeaderWords
<1>9. /\ Size(h) = 8 /\ h[1] = FirstWord(n, z) /\ h[2] = o
      /\ h[5] = Decode!InHeaderMagic /\ h[7] = v
  <2>1. /\ Size(RequestHeaders(n, z, o, v)) = 8 /\ RequestHeaders(n, z, o, v)[1] = FirstWord(n, z)
        /\ RequestHeaders(n, z, o, v)[2] = o /\ RequestHeaders(n, z, o, v)[5] = Decode!InHeaderMagic
        /\ RequestHeaders(n, z, o, v)[7] = v
    BY RequestHeaderWords
  <2>2. QED
    BY <1>8, <2>1
<1>10. PICK R \in Words : R = Decode!Raw
  BY RawWords
<1>11. R = Three(h, p, ids)
  BY <1>1, <1>2, <1>3, <1>5, <1>6, <1>7, <1>8, <1>10 DEF DomainData
<1>12. /\ Size(R) = 8 + l + n /\ R[1] = FirstWord(n, z) /\ R[2] = o
       /\ R[5] = Decode!InHeaderMagic /\ R[7] = v
  <2>1. Size(R) = Size(h) + Size(p) + Size(ids) /\ \A i \in 1..Size(h) : R[i] = h[i]
    BY <1>4, <1>11, ThreeWords
  <2>2. QED
    BY <1>2, <1>3, <1>9, <2>1
<1>13. Cut(R, 9, 8 + l) = p
  <2>1. Cut(Three(h, p, ids), Size(h) + 1, Size(h) + Size(p)) = p
    BY <1>4, SecondPart
  <2>2. Size(h) + 1 = 9 /\ Size(h) + Size(p) = 8 + l
    BY <1>2, <1>9
  <2>3. QED
    BY Zenon, <1>11, <2>1, <2>2
<1>14. Size(R) >= 8
  BY <1>12
<1>15. /\ Decode!IsRoot /\ Decode!IsDomain /\ Decode!Raw # <<>>
       /\ Decode!Word(1) = FirstWord(n, z) /\ Decode!Word(2) = o
       /\ Decode!Word(5) = Decode!InHeaderMagic /\ Decode!Word(7) = v
  BY <1>10, <1>12, <1>14, RawTests
<1>16. Decode!Type = 1 /\ Decode!DataSize = z /\ Decode!Word(1) # Decode!InHeaderMagic
  BY <1>4, <1>15, FirstWordFields DEF Decode!Type, Decode!DataSize
<1>17. ~Decode!RootRequestValid /\ Decode!DomainRequestValid
  BY <1>15, <1>16 DEF Decode!RootRequestValid, Decode!DomainRequestValid, Decode!SendMessage
<1>18. ~Decode!RootCloseFound
  <2>1. Size(Decode!Raw) # 4
    BY <1>10, <1>14
  <2>2. QED
    BY <2>1 DEF Decode!RootCloseFound, Decode!HeaderWords, Size
<1>19. Decode!RequestPayload = p
  <2>1. z >= 16 /\ 4 * Size(R) >= 16 + z /\ 4 + (z \div 4) = 8 + l
    BY <1>5, <1>12
  <2>2. Decode!DataSize >= 16 /\ 4 * Size(Decode!Raw) >= 16 + Decode!DataSize
    BY <1>10, <1>16, <2>1
  <2>3. Decode!RequestPayload = Cut(Decode!Raw, 9, 4 + (Decode!DataSize \div 4))
    BY Zenon, <1>17, <2>2, RequestPayloads
  <2>4. QED
    BY Zenon, <1>10, <1>13, <1>16, <2>1, <2>3
<1>20. Decode!RequestInfo = Found(TRUE, FALSE, v, o, <<>>, 0, Decode!RequestPayload)
  BY <1>15, <1>17, <1>18 DEF Decode!RequestInfo, Decode!Nothing, Found
<1>21. l <= BufferWords
  <2>1. Size(R) <= BufferWords /\ BufferWords \in Nat
    BY <1>10, RawWords, DecodeSizes
  <2>2. QED
    BY <1>12, <2>1
<1>22. QED
  BY Zenon, <1>1, <1>2, <1>6, <1>7, <1>19, <1>20, <1>21

LEMMA DomainCloseTraced ==
  ASSUME Decode!TypeOK, SentOK, Decode!Raw = DomainCloseData(sent)
  PROVE  Decode!RequestInfo = Found(FALSE, TRUE, 0, 0, <<>>, 0, <<>>)
<1>1. PICK o \in Nat, t \in Nat, n \in Nat : o = sent.object /\ t = Decode!Close /\ n = 0
  BY SentTypes DEF Decode!Close
<1>2. Size(Decode!DomainIn(t, n, n, o)) = 4 /\ Decode!DomainIn(t, n, n, o)[1] = 2
  <2>1. t + 256 * n + 65536 * n = 2
    BY <1>1 DEF Decode!Close
  <2>2. /\ Size(Decode!DomainIn(t, n, n, o)) = 4
        /\ Decode!DomainIn(t, n, n, o)[1] = t + 256 * n + 65536 * n
    BY DomainInWords
  <2>3. QED
    BY <2>1, <2>2
<1>3. Decode!Raw = Decode!DomainIn(t, n, n, o)
  BY <1>1 DEF DomainCloseData
<1>4. Size(Decode!Raw) = 4 /\ Decode!Raw[1] = 2
  BY <1>2, <1>3
<1>5. Decode!IsRoot /\ ~Decode!IsDomain /\ Decode!Raw # <<>> /\ Decode!Word(1) = 2
  BY <1>4, RawTests
<1>6. ~Decode!RootRequestValid /\ ~Decode!DomainRequestValid
  BY <1>5, Magics DEF Decode!RootRequestValid, Decode!DomainRequestValid
<1>7. Decode!RootCloseFound
  BY <1>4, <1>5 DEF Decode!RootCloseFound, Decode!Close, Decode!HeaderWords, Size
<1>8. Decode!RequestPayload = <<>>
  BY Zenon, <1>6, RequestPayloads
<1>9. QED
  BY <1>5, <1>6, <1>7, <1>8 DEF Decode!RequestInfo, Decode!Nothing, Found

LEMMA RootCloseTraced ==
  ASSUME hipc.count = 0
  PROVE  Decode!RequestInfo = Decode!Nothing
<1>1. Decode!Raw = <<>>
  <2>1. hipc.count < 4
    OBVIOUS
  <2>2. QED
    BY <2>1 DEF Decode!Raw
<1>2. QED
  BY Zenon, <1>1 DEF Decode!RequestInfo

\* Which parts of the raw data GetResponseDecodeDetails takes.
LEMMA ReplyParts ==
  /\ (/\ Decode!DomainReplyValid /\ Decode!Word(1) \in 1..ObjectSlots
      /\ Size(Decode!Raw) >= 8 + Decode!Word(1))
       => Decode!ReturnedIds = Cut(Decode!Raw, Size(Decode!Raw) - Decode!Word(1) + 1, Size(Decode!Raw))
  /\ Decode!Word(1) \notin 1..ObjectSlots => Decode!ReturnedIds = <<>>
  /\ Decode!DomainReplyValid =>
       Decode!ReplyPayload = Cut(Decode!Raw, 9, Size(Decode!Raw) - Size(Decode!ReturnedIds))
  /\ ~Decode!DomainReplyValid /\ Decode!RootReplyValid =>
       Decode!ReplyPayload = Cut(Decode!Raw, 5, Size(Decode!Raw))
<1>1. 2 * Decode!HeaderWords = 8
  BY DEF Decode!HeaderWords
<1>2. QED
  BY Zenon, <1>1 DEF Decode!ReturnedIds, Decode!ReplyPayload, Cut, Size

LEMMA RootReplyTraced ==
  ASSUME Decode!TypeOK, SentOK, Decode!Raw = RootReplyData(sent)
  PROVE  \E payload \in Words :
           /\ Decode!ResponseInfo = Found(FALSE, FALSE, sent.value, 0, <<>>, 0, payload)
           /\ ~Decode!HasPrefix(sent.payload, <<Decode!OutHeaderMagic>>) => payload = sent.payload
           /\ Size(payload) <= BufferWords
<1>1. PICK h \in Words : h = Decode!Header(Decode!OutHeaderMagic, sent.value)
  BY HeaderWords, Magics, SentTypes
<1>2. Size(h) = 4 /\ h[1] = Decode!OutHeaderMagic /\ h[3] = sent.value
  BY <1>1, HeaderWords, Magics, SentTypes
<1>3. PICK p \in Words : p = sent.payload
  BY SentTypes
<1>4. Size(p) \in Nat
  BY SizeIsNat
<1>5. PICK R \in Words : R = Decode!Raw
  BY RawWords
<1>6. R = Join(h, p)
  BY <1>1, <1>3, <1>5 DEF RootReplyData
<1>7. /\ Size(R) = 4 + Size(p) /\ R[1] = Decode!OutHeaderMagic /\ R[3] = sent.value
      /\ \A i \in 1..Size(p) : R[4 + i] = p[i]
  <2>1. /\ Size(R) = Size(h) + Size(p) /\ \A i \in 1..Size(h) : R[i] = h[i]
        /\ \A i \in 1..Size(p) : R[Size(h) + i] = p[i]
    BY <1>6, JoinWords
  <2>2. QED
    BY <1>2, <2>1
<1>8. Cut(R, 5, Size(R)) = p
  <2>1. Cut(Join(h, p), Size(h) + 1, Size(h) + Size(p)) = p
    BY SecondOfTwo
  <2>2. Size(h) + 1 = 5 /\ Size(h) + Size(p) = Size(R)
    BY <1>2, <1>4, <1>7
  <2>3. QED
    BY Zenon, <1>6, <2>1, <2>2
<1>9. /\ Decode!IsRoot /\ Decode!Raw # <<>>
      /\ Decode!Word(1) = Decode!OutHeaderMagic /\ Decode!Word(3) = sent.value
  BY <1>4, <1>5, <1>7, RawTests
<1>10. Decode!ReturnedIds = <<>>
  <2>1. Decode!Word(1) \notin 1..ObjectSlots
    BY <1>9, Magics, DecodeSizes
  <2>2. QED
    BY Zenon, <2>1, ReplyParts
<1>11. Decode!RootReplyValid
  BY <1>9 DEF Decode!RootReplyValid
<1>12. Decode!ResponseInfo = Found(FALSE, FALSE, sent.value, 0, <<>>, 0, Decode!ReplyPayload)
  BY <1>9, <1>10, <1>11 DEF Decode!ResponseInfo, Decode!Nothing, Found
<1>13. Size(R) \in Nat /\ Size(R) <= BufferWords /\ BufferWords \in Nat
  BY <1>5, RawWords, DecodeSizes
<1>14. CASE ~Decode!DomainReplyValid
  <2>1. Decode!ReplyPayload = p
    BY Zenon, <1>5, <1>8, <1>11, <1>14, ReplyParts
  <2>2. Size(p) <= BufferWords
    BY <1>4, <1>7, <1>13
  <2>3. QED
    BY Zenon, <1>3, <1>12, <2>1, <2>2
<1>15. CASE Decode!DomainReplyValid
  <2>1. Decode!HasPrefix(p, <<Decode!OutHeaderMagic>>)
    <3>1. Decode!IsDomain /\ Decode!Word(5) = Decode!OutHeaderMagic
      BY <1>15 DEF Decode!DomainReplyValid
    <3>2. Size(R) >= 8 /\ R[5] = Decode!OutHeaderMagic
      BY <1>5, <3>1, RawTests
    <3>3. Size(p) >= 1 /\ p[1] = Decode!OutHeaderMagic
      <4>1. 1 \in 1..Size(p) /\ 4 + 1 = 5
        BY <1>4, <1>7, <3>2
      <4>2. QED
        BY <1>4, <1>7, <3>2, <4>1
    <3>4. QED
      BY <3>3, StartsWith, Magics
  <2>2. Decode!ReplyPayload = Cut(R, 9, Size(R))
    <3>1. Size(R) - Size(Decode!ReturnedIds) = Size(R)
      BY <1>10, <1>13, EmptyWords
    <3>2. QED
      BY Zenon, <1>5, <1>15, <3>1, ReplyParts
  <2>3. Cut(R, 9, Size(R)) \in Words /\ Size(Cut(R, 9, Size(R))) <= BufferWords
    <3>1. Cut(R, 9, Size(R)) \in Words /\ Size(Cut(R, 9, Size(R))) <= Size(R)
      BY CutFits
    <3>2. QED
      BY <1>13, <3>1, SizeIsNat
  <2>4. QED
    BY Zenon, <1>3, <1>12, <2>1, <2>2, <2>3
<1>16. QED
  BY <1>14, <1>15

LEMMA DomainReplyTraced ==
  ASSUME Decode!TypeOK, SentOK, Decode!Raw = DomainReplyData(sent)
  PROVE  /\ Decode!ResponseInfo =
              Found(TRUE, FALSE, sent.value, 0,
                    IF Size(sent.objects) <= ObjectSlots THEN sent.objects ELSE <<>>,
                    Size(sent.objects),
                    IF Size(sent.objects) <= ObjectSlots THEN sent.payload
                    ELSE Join(sent.payload, sent.objects))
         /\ Size(sent.payload) <= BufferWords
         /\ Size(Join(sent.payload, sent.objects)) <= BufferWords
<1>1. PICK p \in Words : p = sent.payload
  BY SentTypes
<1>2. PICK ids \in Words : ids = sent.objects
  BY SentTypes
<1>3. PICK l \in Nat : l = Size(p)
  BY SizeIsNat
<1>4. PICK n \in Nat : n = Size(ids)
  BY SizeIsNat
<1>5. n < 256
  BY <1>2, <1>4, SentTypes
<1>6. PICK v \in Nat : v = sent.value
  BY SentTypes
<1>7. PICK h \in Words : h = ReplyHeaders(n, v)
  BY ReplyHeaderWords
<1>8. Size(h) = 8 /\ h[1] = n /\ h[5] = Decode!OutHeaderMagic /\ h[7] = v
  <2>1. /\ Size(ReplyHeaders(n, v)) = 8 /\ ReplyHeaders(n, v)[1] = n
        /\ ReplyHeaders(n, v)[5] = Decode!OutHeaderMagic /\ ReplyHeaders(n, v)[7] = v
    BY ReplyHeaderWords
  <2>2. QED
    BY <1>7, <2>1
<1>9. PICK R \in Words : R = Decode!Raw
  BY RawWords
<1>10. R = Three(h, p, ids)
  BY <1>1, <1>2, <1>4, <1>6, <1>7, <1>9 DEF DomainReplyData
<1>11. Size(R) = 8 + l + n /\ R[1] = n /\ R[5] = Decode!OutHeaderMagic /\ R[7] = v
  <2>1. Size(R) = Size(h) + Size(p) + Size(ids) /\ \A i \in 1..Size(h) : R[i] = h[i]
    BY <1>10, ThreeWords
  <2>2. QED
    BY <1>3, <1>4, <1>8, <2>1
<1>12. /\ Cut(R, 9, 8 + l) = p
       /\ Cut(R, 9, Size(R)) = Join(p, ids)
       /\ Cut(R, Size(R) - n + 1, Size(R)) = ids
  <2>1. /\ Cut(Three(h, p, ids), Size(h) + 1, Size(h) + Size(p)) = p
        /\ Cut(Three(h, p, ids), Size(h) + 1, Size(h) + Size(p) + Size(ids)) = Join(p, ids)
        /\ Cut(Three(h, p, ids), Size(h) + Size(p) + 1, Size(h) + Size(p) + Size(ids)) = ids
    BY SecondPart, AfterFirstPart, ThirdPart
  <2>2. /\ Size(h) + 1 = 9 /\ Size(h) + Size(p) = 8 + l
        /\ Size(h) + Size(p) + 1 = Size(R) - n + 1 /\ Size(h) + Size(p) + Size(ids) = Size(R)
    BY <1>3, <1>4, <1>8, <1>11
  <2>3. QED
    BY Zenon, <1>10, <2>1, <2>2
<1>13. /\ Decode!IsRoot /\ Decode!IsDomain /\ Decode!Raw # <<>> /\ Decode!Word(1) = n
       /\ Decode!Word(5) = Decode!OutHeaderMagic /\ Decode!Word(7) = v
  <2>1. Size(R) >= 8
    BY <1>11
  <2>2. QED
    BY <1>9, <1>11, <2>1, RawTests
<1>14. ~Decode!RootReplyValid /\ Decode!DomainReplyValid
  BY <1>5, <1>13, Magics DEF Decode!RootReplyValid, Decode!DomainReplyValid
<1>15. Decode!ReturnedIds = (IF n <= ObjectSlots THEN ids ELSE <<>>)
  <2>1. CASE n \in 1..ObjectSlots
    <3>1. Size(Decode!Raw) >= 8 + Decode!Word(1) /\ Decode!Word(1) \in 1..ObjectSlots /\ n <= ObjectSlots
      BY <1>9, <1>11, <1>13, <2>1, DecodeSizes
    <3>2. Decode!ReturnedIds = Cut(Decode!Raw, Size(Decode!Raw) - Decode!Word(1) + 1, Size(Decode!Raw))
      BY Zenon, <1>14, <3>1, ReplyParts
    <3>3. QED
      BY Zenon, <1>9, <1>12, <1>13, <3>1, <3>2
  <2>2. CASE n \notin 1..ObjectSlots
    <3>1. Decode!ReturnedIds = <<>>
      BY Zenon, <1>13, <2>2, ReplyParts
    <3>2. n = 0 \/ ~(n <= ObjectSlots)
      BY <2>2, DecodeSizes
    <3>3. CASE n = 0
      BY <1>4, <3>1, <3>3, NoWords
    <3>4. CASE ~(n <= ObjectSlots)
      BY Zenon, <3>1, <3>4
    <3>5. QED
      BY Zenon, <3>2, <3>3, <3>4
  <2>3. QED
    BY Zenon, <2>1, <2>2
<1>16. Decode!ReplyPayload = (IF n <= ObjectSlots THEN p ELSE Join(p, ids))
  <2>1. Decode!ReplyPayload = Cut(R, 9, Size(R) - Size(Decode!ReturnedIds))
    BY Zenon, <1>9, <1>14, ReplyParts
  <2>2. CASE n <= ObjectSlots
    <3>1. Size(R) - Size(Decode!ReturnedIds) = 8 + l
      BY <1>4, <1>11, <1>15, <2>2
    <3>2. QED
      BY Zenon, <1>12, <2>1, <2>2, <3>1
  <2>3. CASE ~(n <= ObjectSlots)
    <3>1. Size(R) - Size(Decode!ReturnedIds) = Size(R)
      BY <1>11, <1>15, <2>3, EmptyWords
    <3>2. QED
      BY Zenon, <1>12, <2>1, <2>3, <3>1
  <2>4. QED
    BY Zenon, <2>2, <2>3
<1>17. Decode!ResponseInfo = Found(TRUE, FALSE, v, 0, Decode!ReturnedIds, n, Decode!ReplyPayload)
  BY <1>13, <1>14 DEF Decode!ResponseInfo, Decode!Nothing, Found
<1>18. Size(p) <= BufferWords /\ Size(Join(p, ids)) <= BufferWords
  <2>1. Size(R) <= BufferWords /\ BufferWords \in Nat
    BY <1>9, RawWords, DecodeSizes
  <2>2. Size(Join(p, ids)) = l + n /\ Size(p) = l
    BY <1>3, <1>4, JoinWords
  <2>3. QED
    BY <1>11, <2>1, <2>2
<1>19. QED
  BY Zenon, <1>1, <1>2, <1>4, <1>6, <1>15, <1>16, <1>17, <1>18

-----------------------------------------------------------------------------
(* Every message is read back. *)

\* What is needed besides the property: a message on its way is in the buffer
\* as a whole, whatever other messages left there.
DecodeInv == Decode!TypeOK /\ (phase = "sent" => InFlight /\ SentOK) /\ MessagesReadBack

\* The part of TypeOK that is about the record of a message.
RecordOK(i) ==
  /\ i.object \in Objects \cup {0} /\ i.returned \in 0..MaxReturned
  /\ Len(i.objects) <= ObjectSlots /\ Len(i.payload) <= BufferWords

LEMMA NothingKept == RecordOK(Decode!Nothing)
BY DecodeSizes DEF RecordOK, Decode!Nothing

LEMMA FoundKept ==
  ASSUME NEW d, NEW c, NEW v, NEW o \in Objects \cup {0}, NEW ids, NEW n \in 0..MaxReturned, NEW p,
         Size(ids) <= ObjectSlots, Size(p) <= BufferWords
  PROVE  RecordOK(Found(d, c, v, o, ids, n, p))
BY DEF RecordOK, Found, Size

LEMMA RequestsReadBack ==
  ASSUME Decode!TypeOK, phase = "sent" => InFlight /\ SentOK, Decode!TraceRequest
  PROVE  RecordOK(info') /\ MessagesReadBack'
<1>1. /\ sent.kind \notin Decode!Replies /\ phase = "sent" /\ phase' = "traced" /\ sent' = sent
      /\ info' = Decode!RequestInfo
  BY DEF Decode!TraceRequest, Decode!Record
<1>2. InFlight /\ SentOK
  BY <1>1
<1>3. ObjectSlots \in Nat /\ BufferWords \in Nat /\ 0 \in 0..MaxReturned /\ 0 \in Objects \cup {0}
      /\ Size(<<>>) <= ObjectSlots /\ Size(<<>>) <= BufferWords
  BY DecodeSizes, EmptyWords
<1>. DEFINE Goal == RecordOK(info') /\ MessagesReadBack'
<1>4. CASE sent.kind = "root_close" /\ hipc.count = 0
  <2>1. info' = Decode!Nothing
    BY <1>1, <1>4, RootCloseTraced
  <2>2. RecordOK(info')
    BY <2>1, NothingKept
  <2>3. MessagesReadBack'
    BY <1>1, <1>4, <2>1
    DEF MessagesReadBack, Decode!RequestReadBack, Decode!CloseTracedAs, Decode!ReplyReadBack,
        Decode!ReplyPayloadReadBack, Decode!Read, Decode!SelectedKind, Decode!Nothing
  <2>4. QED
    BY <2>2, <2>3
<1>5. CASE sent.kind = "domain_close" /\ Decode!Raw = DomainCloseData(sent)
  <2>1. info' = Found(FALSE, TRUE, 0, 0, <<>>, 0, <<>>)
    BY <1>1, <1>2, <1>5, DomainCloseTraced
  <2>2. RecordOK(info')
    BY Zenon, <1>3, <2>1, FoundKept
  <2>3. MessagesReadBack'
    BY <1>1, <1>5, <2>1
    DEF MessagesReadBack, Decode!RequestReadBack, Decode!CloseTracedAs, Decode!ReplyReadBack,
        Decode!ReplyPayloadReadBack, Decode!Read, Decode!SelectedKind, Found
  <2>4. QED
    BY <2>2, <2>3
<1>6. CASE sent.kind = "root" /\ \E table \in Words : Decode!Raw = RootData(sent, table)
  <2>1. PICK payload \in Words :
           /\ info' = Found(FALSE, FALSE, sent.value, 0, <<>>, 0, payload)
           /\ Decode!HasPrefix(payload, sent.payload) /\ Size(payload) <= BufferWords
    BY <1>1, <1>2, <1>6, RootTraced
  <2>2. RecordOK(info')
    BY Zenon, <1>3, <2>1, FoundKept
  <2>3. Decode!SelectedKind' = "root" /\ info'.value = sent.value /\ info'.payload = payload
    BY <2>1 DEF Decode!SelectedKind, Found
  <2>4. MessagesReadBack'
    BY <1>1, <1>6, <2>1, <2>3
    DEF MessagesReadBack, Decode!RequestReadBack, Decode!CloseTracedAs, Decode!ReplyReadBack,
        Decode!ReplyPayloadReadBack, Decode!Read, Decode!HasPrefix
  <2>5. QED
    BY <2>2, <2>4
<1>7. CASE sent.kind = "domain" /\ \E ids \in Decode!Ids : Decode!Raw = DomainData(sent, ids)
  <2>1. /\ info' = Found(TRUE, FALSE, sent.value, sent.object, <<>>, 0, sent.payload)
        /\ Size(sent.payload) <= BufferWords
    BY <1>1, <1>2, <1>7, DomainTraced
  <2>2. RecordOK(info')
    <3>1. sent.object \in Objects \cup {0}
      BY <1>2 DEF SentOK
    <3>2. QED
      BY Zenon, <1>3, <2>1, <3>1, FoundKept
  <2>3. /\ Decode!SelectedKind' = "domain" /\ info'.value = sent.value
        /\ info'.object = sent.object /\ info'.payload = sent.payload
    BY <2>1 DEF Decode!SelectedKind, Found
  <2>4. MessagesReadBack'
    BY <1>1, <1>7, <2>3
    DEF MessagesReadBack, Decode!RequestReadBack, Decode!CloseTracedAs, Decode!ReplyReadBack,
        Decode!ReplyPayloadReadBack, Decode!Read
  <2>5. QED
    BY <2>2, <2>4
<1>8. QED
  BY <1>1, <1>2, <1>4, <1>5, <1>6, <1>7 DEF InFlight, Decode!Replies

LEMMA RepliesReadBack ==
  ASSUME Decode!TypeOK, phase = "sent" => InFlight /\ SentOK, Decode!TraceReply
  PROVE  RecordOK(info') /\ MessagesReadBack'
<1>1. /\ sent.kind \in Decode!Replies /\ phase = "sent" /\ phase' = "traced" /\ sent' = sent
      /\ info' = Decode!ResponseInfo
  BY DEF Decode!TraceReply, Decode!Record
<1>2. InFlight /\ SentOK
  BY <1>1
<1>3. ObjectSlots \in Nat /\ BufferWords \in Nat /\ 0 \in 0..MaxReturned /\ 0 \in Objects \cup {0}
      /\ Size(<<>>) <= ObjectSlots /\ Size(<<>>) <= BufferWords
  BY DecodeSizes, EmptyWords
<1>4. CASE sent.kind = "root_reply" /\ Decode!Raw = RootReplyData(sent)
  <2>1. PICK payload \in Words :
           /\ info' = Found(FALSE, FALSE, sent.value, 0, <<>>, 0, payload)
           /\ ~Decode!HasPrefix(sent.payload, <<Decode!OutHeaderMagic>>) => payload = sent.payload
           /\ Size(payload) <= BufferWords
    BY <1>1, <1>2, <1>4, RootReplyTraced
  <2>2. RecordOK(info')
    BY Zenon, <1>3, <2>1, FoundKept
  <2>3. /\ info'.valid /\ ~info'.domain /\ info'.value = sent.value /\ info'.objects = <<>>
        /\ info'.payload = payload
    BY <2>1 DEF Found
  <2>4. MessagesReadBack'
    <3>1. Decode!HasPrefix(sent.payload, <<Decode!OutHeaderMagic>>)'
            <=> Decode!HasPrefix(sent.payload, <<Decode!OutHeaderMagic>>)
      BY <1>1 DEF Decode!HasPrefix
    <3>2. QED
      BY <1>1, <1>4, <2>1, <2>3, <3>1
      DEF MessagesReadBack, Decode!RequestReadBack, Decode!CloseTracedAs, Decode!ReplyReadBack,
          Decode!ReplyPayloadReadBack, Decode!Read
  <2>5. QED
    BY <2>2, <2>4
<1>5. CASE sent.kind = "domain_reply" /\ Decode!Raw = DomainReplyData(sent)
  <2>1. PICK p \in Words, ids \in Words : p = sent.payload /\ ids = sent.objects
    BY <1>2, SentTypes
  <2>2. /\ info' = Found(TRUE, FALSE, sent.value, 0,
                         IF Size(ids) <= ObjectSlots THEN ids ELSE <<>>, Size(ids),
                         IF Size(ids) <= ObjectSlots THEN p ELSE Join(p, ids))
        /\ Size(p) <= BufferWords /\ Size(Join(p, ids)) <= BufferWords
    BY Zenon, <1>1, <1>2, <1>5, <2>1, DomainReplyTraced
  <2>3. RecordOK(info')
    <3>1. Size(ids) \in 0..MaxReturned
      BY <1>2, <2>1, SizeIsNat, DecodeSizes DEF SentOK
    <3>2. Size(IF Size(ids) <= ObjectSlots THEN ids ELSE <<>>) <= ObjectSlots
      BY <1>3, EmptyWords
    <3>3. Size(IF Size(ids) <= ObjectSlots THEN p ELSE Join(p, ids)) <= BufferWords
      BY <2>2
    <3>4. QED
      BY Zenon, <1>3, <2>2, <3>1, <3>2, <3>3, FoundKept
  <2>4. /\ info'.valid /\ info'.domain /\ info'.value = sent.value
        /\ info'.returned = Len(sent.objects)
        /\ info'.objects = (IF Len(sent.objects) <= ObjectSlots THEN sent.objects ELSE <<>>)
        /\ info'.payload = (IF Len(sent.objects) <= ObjectSlots THEN sent.payload
                            ELSE sent.payload \o sent.objects)
    BY Zenon, <2>1, <2>2 DEF Found, Size, Join
  <2>5. sent.payload \o <<>> = sent.payload
    BY <2>1, JoinNothing
  <2>6. MessagesReadBack'
    <3>1. info'.payload = sent.payload \o (IF Len(sent.objects) <= ObjectSlots THEN <<>> ELSE sent.objects)
      BY Zenon, <2>4, <2>5
    <3>2. QED
      BY Zenon, <1>1, <1>5, <2>4, <3>1
      DEF MessagesReadBack, Decode!RequestReadBack, Decode!CloseTracedAs, Decode!ReplyReadBack,
          Decode!ReplyPayloadReadBack, Decode!Read
  <2>7. QED
    BY <2>3, <2>6
<1>6. QED
  BY <1>1, <1>2, <1>4, <1>5 DEF InFlight, Decode!Replies

LEMMA DecodeInit == Decode!Init => DecodeInv
<1>1. ASSUME Decode!Init PROVE Decode!TypeOK
  <2>1. buffer \in [0..BufferWords - 1 -> Nat]
    BY <1>1 DEF Decode!Init
  <2>2. hipc.start = 0 /\ hipc.count = 0 /\ info = Decode!Nothing /\ phase = "idle" /\ messages = 0
    BY <1>1 DEF Decode!Init
  <2>3. hipc.start \in Starts \cup {0} /\ hipc.count \in 0..BufferWords + 4 /\ messages \in 0..MaxMessages
    BY <2>2, DecodeSizes
  <2>4. RecordOK(info)
    BY <2>2, NothingKept
  <2>5. QED
    BY <2>1, <2>2, <2>3, <2>4 DEF Decode!TypeOK, RecordOK
<1>2. Decode!Init => phase = "idle"
  BY DEF Decode!Init
<1>3. phase = "idle" => MessagesReadBack
  BY DEF MessagesReadBack, Decode!RequestReadBack, Decode!CloseTracedAs, Decode!ReplyReadBack,
         Decode!ReplyPayloadReadBack, Decode!Read
<1>4. QED
  BY <1>1, <1>2, <1>3 DEF DecodeInv

LEMMA DecodeStep ==
  ASSUME DecodeInv, [Decode!Next]_(Decode!vars)
  PROVE  DecodeInv'
<1>1. Decode!TypeOK /\ (phase = "sent" => InFlight /\ SentOK) /\ MessagesReadBack
  BY DEF DecodeInv
<1>2. ASSUME NEW start \in Starts, NEW payload \in Payloads, Decode!Send(start, payload)
      PROVE  DecodeInv'
  <2>1. /\ InFlight' /\ SentOK' /\ phase' = "sent" /\ info' = info
        /\ buffer' \in [0..BufferWords - 1 -> Nat]
        /\ hipc'.start \in Starts /\ hipc'.count \in 0..BufferWords + 4
        /\ messages' \in 0..MaxMessages
    BY <1>1, <1>2, SendsAreHeld
  <2>2. Decode!TypeOK'
    BY <1>1, <2>1 DEF Decode!TypeOK
  <2>3. MessagesReadBack'
    BY <2>1 DEF MessagesReadBack, Decode!RequestReadBack, Decode!CloseTracedAs, Decode!ReplyReadBack,
                Decode!ReplyPayloadReadBack, Decode!Read
  <2>4. QED
    BY <2>1, <2>2, <2>3 DEF DecodeInv
<1>3. ASSUME RecordOK(info'), MessagesReadBack', phase' = "traced",
             UNCHANGED <<buffer, hipc, sent, messages>>
      PROVE  DecodeInv'
  <2>1. Decode!TypeOK'
    BY <1>1, <1>3 DEF Decode!TypeOK, RecordOK
  <2>2. QED
    BY <1>3, <2>1 DEF DecodeInv
<1>4. CASE Decode!TraceRequest
  BY <1>1, <1>3, <1>4, RequestsReadBack DEF Decode!TraceRequest, Decode!Record
<1>5. CASE Decode!TraceReply
  BY <1>1, <1>3, <1>5, RepliesReadBack DEF Decode!TraceReply, Decode!Record
<1>6. CASE UNCHANGED Decode!vars
  <2>1. UNCHANGED <<buffer, hipc, sent, info, phase, messages>>
    BY <1>6 DEF Decode!vars
  <2>2. Decode!TypeOK'
    BY <1>1, <2>1 DEF Decode!TypeOK
  <2>3. (phase = "sent" => InFlight /\ SentOK)'
    BY <1>1, <2>1 DEF InFlight, SentOK, Decode!Raw, Decode!Aligned
  <2>4. MessagesReadBack'
    BY <1>1, <2>1
    DEF MessagesReadBack, Decode!RequestReadBack, Decode!CloseTracedAs, Decode!ReplyReadBack,
        Decode!ReplyPayloadReadBack, Decode!Read, Decode!SelectedKind
  <2>5. QED
    BY <2>2, <2>3, <2>4 DEF DecodeInv
<1>7. QED
  BY <1>2, <1>4, <1>5, <1>6 DEF Decode!Next

LEMMA DecodeInvariant == MCSpec => []DecodeInv
<1>1. MCInit => DecodeInv
  BY PartsInit, DecodeInit
<1>2. DecodeInv /\ [MCNext]_allVars => DecodeInv'
  BY PartsStep, DecodeStep
<1>3. QED
  BY <1>1, <1>2, PTL DEF MCSpec

\* A command or reply is traced as what its sender meant, whatever the buffer
\* holds besides, for every set of payloads, object ids and commands
\* (ParseRequestInfo, ParseResponseInfo).  A close is not: the statement says
\* that a session's is traced as invalid and a domain object's as a root_close
\* without the object, where docs/contracts/trace-format.md:295-303 wants a
\* domain_close with its id; and it has the limits of MessagesReadBack for
\* returned ids and for a root reply that looks like a domain one.
THEOREM DecodeCorrect == MCSpec => []MessagesReadBack
<1>1. DecodeInv => MessagesReadBack
  BY DEF DecodeInv
<1>2. QED
  BY <1>1, DecodeInvariant, PTL

\* The values of the variables of the three parts.
THEOREM PartsTypeCorrect == MCSpec => []TypesOK
<1>1. Spec => []TypeOK
  BY TypeCorrect
<1>2. WatchdogInv => Watchdog!TypeOK
  BY DEF WatchdogInv
<1>3. DecodeInv => Decode!TypeOK
  BY DEF DecodeInv
<1>4. TypeOK /\ Watchdog!TypeOK /\ Decode!TypeOK => TypesOK
  BY DEF TypesOK
<1>5. QED
  BY <1>1, <1>2, <1>3, <1>4, AdmissionRuns, WatchdogInvariant, DecodeInvariant, PTL
=============================================================================
