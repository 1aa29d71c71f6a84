---------------------------- MODULE BsdAdmission ----------------------------
(***************************************************************************)
(* Which clients net-probe intercepts, and how it counts those of bsd:s    *)
(* (net-probe/src/mitm_service.cpp).  The service manager's query path     *)
(* asks ShouldMitm* on its own thread; the MITM thread later accepts the   *)
(* session, or fails to, and destroys it at its end.  The two share the    *)
(* counters of pending and active bsd:s sessions and the ordinal of the    *)
(* toolbox forwarder, and nothing orders them.                             *)
(***************************************************************************)
EXTENDS Naturals, FiniteSets

CONSTANTS
  Processes,    \* client processes
  Program,      \* the program each process runs
  Services,     \* the services of g_mitm_target_configs that are enabled
  Overrides,    \* AllowBsdSystem*, AllowBsdAdmin*, AllowSsl*: <<service, program>>
  Modes,        \* values of ToolboxForwarderBsdMitm to consider
  NifmTargets,  \* values of NifmSystemTraceTarget to consider
  SmMayFail,    \* sm may fail after a positive answer, before the session exists
  NoProcess,    \* process id 0, which no client has
  MaxAsks       \* bound: questions asked

AllServices == {"nifm:u", "nifm:s", "bsd:u", "bsd:s", "bsd:a", "ssl", "ssl:s", "notif:s"}
SelfPrograms == {"wireguard-nx", "net-probe"}
SystemPrograms ==
  {"npns", "eupld", "olsc", "bsdsockets", "ssl", "nim", "sphaira-wrapper", "toolbox-forwarder"}
Programs == SelfPrograms \cup SystemPrograms \cup {"qlaunch", "other"}
AllModes == {"None", "FirstOnly", "SecondOnly", "Both"}
AllNifmTargets == {"None", "Nim", "Qlaunch", "All"}

\* The switches build_config.hpp declares.
Switches ==
  ({"bsd:s"} \X SystemPrograms) \cup {<<"bsd:a", "qlaunch">>}
    \cup ({"ssl", "ssl:s"} \X {"npns", "eupld", "olsc"})

ASSUME ClientsAssumption ==
  /\ Program \in [Processes -> Programs] /\ NoProcess \notin Processes
  /\ Services \subseteq AllServices
ASSUME BuildAssumption ==
  /\ Overrides \subseteq Switches
  /\ Modes \subseteq AllModes /\ NifmTargets \subseteq AllNifmTargets
ASSUME BoundsAssumption == SmMayFail \in BOOLEAN /\ MaxAsks \in Nat

VARIABLES
  mode,          \* cfg::ToolboxForwarderBsdMitm of the build
  nifmTarget,    \* cfg::NifmSystemTraceTarget of the build
  pending,       \* g_bsd_system_pending_mitm_sessions
  active,        \* g_bsd_system_active_mitm_sessions
  ordinalPid,    \* g_toolbox_forwarder_bsd_ordinal_pid
  ordinalCount,  \* g_toolbox_forwarder_bsd_ordinal_count
  query,         \* the query thread: its position and the question
  mitm,          \* the MITM thread: its position and the service it accepts for
  waiting,       \* external: sessions sm has made that wait to be accepted
  established,   \* external: service objects of accepted sessions
  running,       \* external: the forwarder process that runs
  questions,     \* history: questions asked
  asks,          \* history: bsd:s questions about each process
  admitted,      \* history: the numbers of those that were answered with true
  acceptFailures,\* history: bsd:s sessions AcceptMitmImpl failed for
  lost           \* history: bsd:s sessions that sm failed to make

build == <<mode, nifmTarget>>
ordinal == <<ordinalPid, ordinalCount>>
history == <<questions, asks, admitted>>
vars == <<build, pending, active, ordinal, query, mitm, waiting, established, running,
          history, acceptFailures, lost>>

-----------------------------------------------------------------------------
(* The policy. *)

IsForwarder(p) == Program[p] = "toolbox-forwarder"

NifmSystemTargets ==
  CASE nifmTarget = "Nim" -> {"nim"}
    [] nifmTarget = "Qlaunch" -> {"qlaunch"}
    [] nifmTarget = "All" -> Programs
    [] OTHER -> {}

\* ShouldMitm*, apart from the ordinal: programs that are never intercepted,
\* programs that need an override.
ShouldMitm(s, program) ==
  /\ program \notin SelfPrograms
  /\ s = "nifm:s" => program \in NifmSystemTargets
  /\ s = "bsd:s" => <<s, program>> \in Overrides
  /\ s = "bsd:a" /\ program = "qlaunch" => <<s, program>> \in Overrides
  /\ s \in {"ssl", "ssl:s"} /\ program \in SystemPrograms => <<s, program>> \in Overrides

AllowedOrdinal(n) ==
  CASE mode = "FirstOnly" -> n = 1
    [] mode = "SecondOnly" -> n = 2
    [] mode = "Both" -> TRUE
    [] OTHER -> FALSE

\* Faulty variant: the count goes on when another process asks.
NextOrdinalShared(p) == ordinalCount + 1

\* The ordinal of the next bsd:s session of p, which restarts with the process.
NextOrdinal(p) == IF ordinalPid = p THEN ordinalCount + 1 ELSE 1

-----------------------------------------------------------------------------
Idle == "idle"

Init ==
  /\ mode \in Modes /\ nifmTarget \in NifmTargets
  /\ pending = 0 /\ active = 0
  /\ ordinalPid = NoProcess /\ ordinalCount = 0
  /\ query = [pc |-> Idle, service |-> "none", answer |-> FALSE]
  /\ mitm = [pc |-> Idle, service |-> "none"]
  /\ waiting = [s \in Services |-> 0]
  /\ established = [s \in Services |-> 0]
  /\ running = NoProcess
  /\ questions = 0
  /\ asks = [p \in Processes |-> 0]
  /\ admitted = [p \in Processes |-> {}]
  /\ acceptFailures = 0 /\ lost = 0

\* sm asks about a session of p.  The ordinal is taken whatever the answer
\* will be, under its lock; ShouldMitmForService then decides again.  The
\* forwarder is an application: a new process starts when the last is gone.
Ask(p, s) ==
  LET byOrdinal == IsForwarder(p) /\ s = "bsd:s" /\ <<s, "toolbox-forwarder">> \in Overrides
      answer == ShouldMitm(s, Program[p]) /\ (byOrdinal => AllowedOrdinal(NextOrdinal(p)))
  IN /\ query.pc = Idle
     /\ questions < MaxAsks
     /\ questions' = questions + 1
     /\ IsForwarder(p) => (running = p \/ asks[p] = 0)
     /\ running' = IF IsForwarder(p) THEN p ELSE running
     /\ ordinalPid' = IF byOrdinal THEN p ELSE ordinalPid
     /\ ordinalCount' = IF byOrdinal THEN NextOrdinal(p) ELSE ordinalCount
     /\ query' = [pc |-> IF answer /\ s = "bsd:s" THEN "note" ELSE "answer",
                  service |-> s, answer |-> answer]
     /\ asks' = [asks EXCEPT ![p] = IF s = "bsd:s" THEN @ + 1 ELSE @]
     /\ admitted' = [admitted EXCEPT ![p] = IF s = "bsd:s" /\ answer THEN @ \cup {asks[p] + 1} ELSE @]
     /\ UNCHANGED <<build, pending, active, mitm, waiting, established, acceptFailures, lost>>

\* NoteBsdSystemMitmPending.
NotePending ==
  /\ query.pc = "note"
  /\ pending' = pending + 1
  /\ query' = [query EXCEPT !.pc = "answer"]
  /\ UNCHANGED <<build, active, ordinal, mitm, waiting, established, running, history,
                 acceptFailures, lost>>

\* The answer reaches sm, which makes the session, or fails to.
AnswerQuery ==
  /\ query.pc = "answer"
  /\ query' = [query EXCEPT !.pc = Idle]
  /\ \/ /\ waiting' = IF query.answer THEN [waiting EXCEPT ![query.service] = @ + 1] ELSE waiting
        /\ UNCHANGED lost
     \/ /\ SmMayFail /\ query.answer
        /\ lost' = IF query.service = "bsd:s" THEN lost + 1 ELSE lost
        /\ UNCHANGED waiting
  /\ UNCHANGED <<build, pending, active, ordinal, mitm, established, running, history, acceptFailures>>

-----------------------------------------------------------------------------
(* The MITM thread: AcceptMitmConnection, and the destructor of a service object. *)

\* Faulty variant: a counter that is zero is lowered too.
DecrementedAlways(n) == n - 1

\* DecrementAtomicIfPositive.
Decremented(n) == IF n = 0 THEN 0 ELSE n - 1

\* AcknowledgeMitmSession; a failure of bsd:s gives up the pending session.
Acknowledge(s) ==
  /\ mitm.pc = Idle /\ waiting[s] > 0
  /\ waiting' = [waiting EXCEPT ![s] = @ - 1]
  /\ \/ mitm' = [pc |-> "accept", service |-> s] /\ UNCHANGED pending
     \/ /\ pending' = IF s = "bsd:s" THEN Decremented(pending) ELSE pending
        /\ UNCHANGED mitm
  /\ UNCHANGED <<build, active, ordinal, query, established, running, history, acceptFailures, lost>>

\* AcceptMitmImpl.  When it fails it has destroyed the service object, whose
\* destructor lowers the active count although nothing had raised it.
AcceptMitmImpl ==
  /\ mitm.pc = "accept"
  /\ \/ /\ mitm' = [mitm EXCEPT !.pc = IF mitm.service = "bsd:s" THEN "promote" ELSE "accepted"]
        /\ UNCHANGED <<active, acceptFailures>>
     \/ /\ mitm' = [mitm EXCEPT !.pc = "failed"]
        /\ active' = IF mitm.service = "bsd:s" THEN Decremented(active) ELSE active
        /\ acceptFailures' = IF mitm.service = "bsd:s" THEN acceptFailures + 1 ELSE acceptFailures
  /\ UNCHANGED <<build, pending, ordinal, query, waiting, established, running, history, lost>>

\* DropBsdSystemMitmPending after AcceptMitmImpl failed.
AcceptFailed ==
  /\ mitm.pc = "failed"
  /\ pending' = IF mitm.service = "bsd:s" THEN Decremented(pending) ELSE pending
  /\ mitm' = [mitm EXCEPT !.pc = Idle]
  /\ UNCHANGED <<build, active, ordinal, query, waiting, established, running, history,
                 acceptFailures, lost>>

\* PromoteBsdSystemMitmPendingToActive, its first atomic operation.
PromoteFromPending ==
  /\ mitm.pc = "promote"
  /\ pending' = Decremented(pending)
  /\ mitm' = [mitm EXCEPT !.pc = "accepted"]
  /\ UNCHANGED <<build, active, ordinal, query, waiting, established, running, history,
                 acceptFailures, lost>>

\* Faulty variant: the session is not counted as active.
AcceptedUncounted ==
  /\ mitm.pc = "accepted"
  /\ established' = [established EXCEPT ![mitm.service] = @ + 1]
  /\ mitm' = [mitm EXCEPT !.pc = Idle]
  /\ UNCHANGED <<build, pending, active, ordinal, query, waiting, running, history,
                 acceptFailures, lost>>

\* Its second one, and the end of AcceptMitmConnection.
Accepted ==
  /\ mitm.pc = "accepted"
  /\ active' = IF mitm.service = "bsd:s" THEN active + 1 ELSE active
  /\ established' = [established EXCEPT ![mitm.service] = @ + 1]
  /\ mitm' = [mitm EXCEPT !.pc = Idle]
  /\ UNCHANGED <<build, pending, ordinal, query, waiting, running, history, acceptFailures, lost>>

\* A client goes: ~PassiveMitmService, DropBsdSystemMitmActive.
Destroy(s) ==
  /\ mitm.pc = Idle /\ established[s] > 0
  /\ established' = [established EXCEPT ![s] = @ - 1]
  /\ active' = IF s = "bsd:s" THEN Decremented(active) ELSE active
  /\ UNCHANGED <<build, pending, ordinal, query, mitm, waiting, running, history,
                 acceptFailures, lost>>

Next ==
  \/ \E p \in Processes, s \in Services : Ask(p, s)
  \/ NotePending \/ AnswerQuery
  \/ \E s \in Services : Acknowledge(s) \/ Destroy(s)
  \/ AcceptMitmImpl \/ AcceptFailed \/ PromoteFromPending \/ Accepted

\* A handler runs to its end, and a session that waits is accepted: the
\* server manager is signaled for it.  Clients need never go.
Fairness ==
  /\ WF_vars(NotePending) /\ WF_vars(AnswerQuery)
  /\ WF_vars(AcceptMitmImpl) /\ WF_vars(AcceptFailed)
  /\ WF_vars(PromoteFromPending) /\ WF_vars(Accepted)
  /\ \A s \in Services : SF_vars(Acknowledge(s))

Spec == Init /\ [][Next]_vars
FairSpec == Spec /\ Fairness

-----------------------------------------------------------------------------
QueryPcs == {Idle, "note", "answer"}
MitmPcs == {Idle, "accept", "promote", "accepted", "failed"}

TypeOK ==
  /\ mode \in AllModes /\ nifmTarget \in AllNifmTargets
  /\ pending \in Nat /\ active \in Nat
  /\ ordinalPid \in Processes \cup {NoProcess} /\ ordinalCount \in Nat
  /\ query \in [pc: QueryPcs, service: Services \cup {"none"}, answer: BOOLEAN]
  /\ mitm \in [pc: MitmPcs, service: Services \cup {"none"}]
  /\ query.pc # Idle => query.service \in Services
  /\ mitm.pc # Idle => mitm.service \in Services
  /\ query.pc = "note" => query.service = "bsd:s" /\ query.answer
  /\ mitm.pc = "promote" => mitm.service = "bsd:s"
  /\ waiting \in [Services -> Nat] /\ established \in [Services -> Nat]
  /\ running \in Processes \cup {NoProcess}
  /\ questions \in Nat
  /\ asks \in [Processes -> Nat] /\ admitted \in [Processes -> SUBSET Nat]
  /\ acceptFailures \in Nat /\ lost \in Nat

BsdWaiting == IF "bsd:s" \in Services THEN waiting["bsd:s"] ELSE 0
BsdEstablished == IF "bsd:s" \in Services THEN established["bsd:s"] ELSE 0
Noted == IF query.pc = "answer" /\ query.service = "bsd:s" /\ query.answer THEN 1 ELSE 0
InAccept ==
  IF mitm.service = "bsd:s" /\ mitm.pc \in {"accept", "promote", "failed"} THEN 1 ELSE 0

\* The pending count is the number of bsd:s sessions that were answered for
\* and are neither accepted nor given up, wherever the two threads are; what
\* sm failed to make stays in it for ever.
PendingCountsUndecided == pending = Noted + BsdWaiting + InAccept + lost

\* The active count never exceeds the bsd:s sessions there are, and falls
\* short of them by at most one for each failed accept, whose destructor
\* lowered the count of somebody else.
ActiveCountsSessions ==
  /\ active <= BsdEstablished
  /\ BsdEstablished <= active + acceptFailures

\* What the status logs report: sessions answered for and not decided, and
\* sessions there are.  No order of questions, accepts, failures and closes makes
\* either counter drift further than that (mitm_service.cpp's two atomics).
CountersAgree == PendingCountsUndecided /\ ActiveCountsSessions

Wanted == [None |-> {}, FirstOnly |-> {1}, SecondOnly |-> {2}, Both |-> 1..MaxAsks]

\* Of the sessions a forwarder process opens, exactly those are intercepted
\* that the build asks for, however its questions mix with others'.
ForwarderSessionsChosen ==
  \A p \in Processes :
    IsForwarder(p) /\ <<"bsd:s", "toolbox-forwarder">> \in Overrides =>
      admitted[p] = Wanted[mode] \cap 1..asks[p]

\* The pending count returns to zero unless sm lost a session: no failure on
\* the way to an active session leaves a trace in it.
PendingDrains == (pending > lost) ~> (pending = lost)
=============================================================================
