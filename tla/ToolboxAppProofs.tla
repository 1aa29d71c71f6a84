--------------------------- MODULE ToolboxAppProofs ---------------------------
(***************************************************************************)
(* The session of the toolbox, its settings and its configuration store,   *)
(* for every number of runs, lines, profiles and IDs: what the pages show  *)
(* of a run and of the log, whatever the two threads and the user do; what *)
(* any sequence of lines and edits makes of the settings, and a start of   *)
(* what was saved; what is on disk and in memory after any sequence of     *)
(* saves, restarts and power cuts.                                         *)
(***************************************************************************)
EXTENDS MCToolboxApp, SequenceTheorems, WellFoundedInduction, NaturalsInduction, TLAPS

-----------------------------------------------------------------------------
(* The session: ToolboxSession. *)

\* The type invariant, in the parts that different actions change.
Queues ==
  /\ tasks \in Seq(Session!Runnable) /\ callbacks \in Seq(Session!Runnable \cup {"refresh"})
  /\ running \in Session!Runnable
Writers == writer \in [Session!Thread -> {"none", "store", "sink"}]
Places ==
  ui \in Session!UiStep /\ worker \in {"idle", "run", "report"} /\ page \in Session!Page
Flags ==
  /\ run_active \in BOOLEAN /\ active \in BOOLEAN /\ button \in BOOLEAN /\ cleared \in BOOLEAN
  /\ sink \in BOOLEAN /\ log_open \in BOOLEAN
Counts ==
  /\ lines \in Nat /\ shown \in 0..lines /\ presses \in 0..MaxPresses /\ run_lines \in 0..MaxRunLines

\* What StartRun has looked at and done when its line is being written: the page
\* stays the one the button is on, and the run is active once it is requested.
AtRun ==
  /\ ui = "save" => page = "main" /\ ~run_active
  /\ ui = "request" => page \in Session!Runnable /\ run_active
Typed == Queues /\ Writers /\ Places /\ Flags /\ Counts /\ AtRun

LEMMA BoundsAreNat == MaxPresses \in Nat /\ MaxRunLines \in Nat
BY SessionParameters DEF Session!Parameters

LEMMA ThreadsOf == Session!Thread = {"ui", "worker"}
BY DEF Session!Thread

LEMMA TypedIsType == Session!TypeOK <=> Queues /\ Writers /\ Places /\ Flags /\ Counts
BY Zenon DEF Session!TypeOK, Queues, Writers, Places, Flags, Counts

LEMMA Appended == ASSUME NEW S, NEW s \in Seq(S), NEW x \in S PROVE Append(s, x) \in Seq(S)
BY AppendProperties

LEMMA Taken ==
  ASSUME NEW S, NEW s \in Seq(S), s # <<>>
  PROVE  Head(s) \in S /\ Tail(s) \in Seq(S)
BY HeadTailProperties

LEMMA TypedInit == Session!Init => Typed
<1>. SUFFICES ASSUME Session!Init PROVE Typed
  OBVIOUS
<1>1. Queues
  BY DEF Session!Init, Queues, Session!Runnable
<1>2. Writers
  BY DEF Session!Init, Writers
<1>3. Places /\ AtRun
  BY DEF Session!Init, Places, AtRun, Session!UiStep, Session!Page, Session!Runnable
<1>4. Flags
  BY DEF Session!Init, Flags
<1>5. Counts
  BY BoundsAreNat DEF Session!Init, Counts
<1>. QED
  BY <1>1, <1>2, <1>3, <1>4, <1>5 DEF Typed

LEMMA QueuesStep ==
  ASSUME Queues, AtRun, [Session!Next]_(Session!vars)
  PROVE  Queues'
<1>1. CASE Session!Requested
  BY <1>1, Appended DEF Session!Requested, Queues, AtRun
<1>2. CASE Session!RunCallback
  BY <1>2, Taken DEF Session!RunCallback, Queues
<1>3. CASE Session!TakeTask
  BY <1>3, Taken DEF Session!TakeTask, Queues
<1>4. CASE Session!Report
  <2>1. running \in Session!Runnable \cup {"refresh"}
    BY DEF Queues
  <2>. QED
    BY <1>4, <2>1, Appended DEF Session!Report, Session!Reported, Queues
<1>5. CASE \E t \in Session!Thread : Session!CallSink(t)
  <2>1. "refresh" \in Session!Runnable \cup {"refresh"}
    OBVIOUS
  <2>. QED
    BY <1>5, <2>1, Appended DEF Session!CallSink, Queues
<1>6. CASE UNCHANGED <<tasks, callbacks, running>>
  BY <1>6 DEF Queues
<1>7. (\E t \in Session!Thread : Session!Store(t)) => UNCHANGED <<tasks, callbacks, running>>
  BY DEF Session!Store
<1>. QED
  BY <1>1, <1>2, <1>3, <1>4, <1>5, <1>6, <1>7
  DEF Session!Next, Session!Logging, Session!UiWork, Session!User, Session!Worker, Session!vars,
      Session!Bumped, Session!RemoveSink, Session!ExitLine, Session!CloseLog, Session!Start,
      Session!StartFails, Session!SelectTab, Session!Clear, Session!RunMain, Session!RunScenarios,
      Session!BindBump, Session!Leave, Session!RunLine, Session!RunEnds, Session!Saved

LEMMA WritersStep ==
  ASSUME Writers, [Session!Next]_(Session!vars)
  PROVE  Writers'
<1>1. CASE UNCHANGED writer
  BY <1>1 DEF Writers
<1>2. CASE \E t \in Session!Thread : Session!Write(t)
  BY <1>2 DEF Session!Write, Writers
<1>3. CASE \E t \in Session!Thread : Session!Store(t)
  BY <1>3 DEF Session!Store, Writers
<1>4. CASE \E t \in Session!Thread : Session!CallSink(t)
  BY <1>4 DEF Session!CallSink, Writers
<1>. QED
  BY ThreadsOf, <1>1, <1>2, <1>3, <1>4
  DEF Session!Next, Session!Logging, Session!UiWork, Session!User, Session!Worker, Session!vars,
      Session!Requested, Session!RunCallback, Session!TakeTask, Session!Report, Session!Bumped,
      Session!RemoveSink, Session!ExitLine, Session!CloseLog, Session!Start, Session!StartFails,
      Session!SelectTab, Session!Clear, Session!RunMain, Session!RunScenarios, Session!BindBump,
      Session!Leave, Session!RunLine, Session!RunEnds, Session!Saved

LEMMA FlagsStep ==
  ASSUME Flags, [Session!Next]_(Session!vars)
  PROVE  Flags'
<1>. USE DEF Session!Next, Session!Logging, Session!UiWork, Session!User, Session!Worker,
       Session!vars, Session!Saved, Session!Requested, Session!Bumped, Session!RunCallback,
       Session!RemoveSink, Session!ExitLine, Session!CloseLog, Session!Start,
       Session!StartFails, Session!SelectTab, Session!Clear, Session!RunMain,
       Session!RunScenarios, Session!BindBump, Session!Leave, Session!TakeTask,
       Session!RunLine, Session!RunEnds, Session!Report, Session!Store, Session!CallSink,
       Session!views, Session!log, Session!bounds, Session!OpenPage, Session!ShowRun,
       Session!ButtonWhileRunning
<1>1. run_active' \in BOOLEAN /\ active' \in BOOLEAN
  BY DEF Flags
<1>2. button' \in BOOLEAN /\ cleared' \in BOOLEAN
  BY DEF Flags
<1>3. sink' \in BOOLEAN /\ log_open' \in BOOLEAN
  BY DEF Flags
<1>. QED
  BY <1>1, <1>2, <1>3 DEF Flags

LEMMA CountsStep ==
  ASSUME Counts, [Session!Next]_(Session!vars)
  PROVE  Counts'
<1>1. CASE \E t \in Session!Thread : Session!Store(t)
  BY <1>1 DEF Counts, Session!Store, Session!views, Session!bounds
<1>2. CASE Session!Saved
  BY <1>2 DEF Counts, Session!Saved, Session!ShowRun, Session!views, Session!log,
     Session!bounds
<1>3. CASE Session!RunScenarios
  BY <1>3, BoundsAreNat DEF Counts, Session!RunScenarios, Session!Press, Session!ShowRun,
     Session!log
<1>4. CASE Session!RunCallback
  BY <1>4 DEF Counts, Session!RunCallback, Session!Refreshed, Session!log, Session!bounds
<1>5. CASE Session!Bumped
  BY <1>5 DEF Counts, Session!Bumped, Session!Refreshed, Session!log, Session!bounds
<1>6. CASE Session!Start
  BY <1>6 DEF Counts, Session!Start, Session!OpenPage, Session!Filled, Session!log,
     Session!bounds
<1>7. CASE Session!SelectTab
  BY <1>7 DEF Counts, Session!SelectTab, Session!OpenPage, Session!Filled, Session!log,
     Session!bounds
<1>8. CASE Session!RunMain
  BY <1>8, BoundsAreNat DEF Counts, Session!RunMain, Session!Press, Session!views,
     Session!log
<1>9. CASE Session!BindBump
  BY <1>9, BoundsAreNat DEF Counts, Session!BindBump, Session!Press, Session!views,
     Session!log
<1>10. CASE Session!TakeTask
  BY <1>10, BoundsAreNat DEF Counts, Session!TakeTask, Session!views, Session!log
<1>11. CASE Session!RunLine
  BY <1>11, BoundsAreNat DEF Counts, Session!RunLine, Session!views, Session!log
<1>12. CASE UNCHANGED <<lines, shown, presses, run_lines>>
  BY <1>12 DEF Counts
<1>. QED
  BY <1>1, <1>2, <1>3, <1>4, <1>5, <1>6, <1>7, <1>8, <1>9, <1>10, <1>11, <1>12
  DEF Session!Next, Session!Logging, Session!UiWork, Session!User, Session!Worker, Session!vars,
      Session!Requested, Session!RemoveSink, Session!ExitLine, Session!CloseLog,
      Session!StartFails, Session!Clear, Session!Leave, Session!RunEnds, Session!Report,
      Session!CallSink, Session!views, Session!log, Session!bounds

LEMMA PlacesStep ==
  ASSUME Places, Flags, AtRun, [Session!Next]_(Session!vars)
  PROVE  Places'
<1>. USE DEF Session!Next, Session!Logging, Session!UiWork, Session!User, Session!Worker,
       Session!vars, Session!Saved, Session!Requested, Session!Bumped, Session!RunCallback,
       Session!RemoveSink, Session!ExitLine, Session!CloseLog, Session!Start,
       Session!StartFails, Session!SelectTab, Session!Clear, Session!RunMain,
       Session!RunScenarios, Session!BindBump, Session!Leave, Session!TakeTask,
       Session!RunLine, Session!RunEnds, Session!Report, Session!Store, Session!CallSink,
       Session!views, Session!log, Session!bounds
<1>1. ui' \in Session!UiStep
  BY DEF Places, Session!ShowRun, Session!UiStep, Session!InLoop
<1>2. worker' \in {"idle", "run", "report"}
  BY DEF Places
<1>3. page' \in Session!Page
  BY DEF Places, Session!OpenPage, Session!ShowRun, Session!Page, Session!Runnable
<1>. QED
  BY <1>1, <1>2, <1>3 DEF Places

LEMMA AtRunStep ==
  ASSUME AtRun, [Session!Next]_(Session!vars)
  PROVE  AtRun'
<1>. USE DEF Session!Next, Session!Logging, Session!UiWork, Session!User, Session!Worker,
       Session!vars, Session!Saved, Session!Requested, Session!Bumped, Session!RunCallback,
       Session!RemoveSink, Session!ExitLine, Session!CloseLog, Session!Start,
       Session!StartFails, Session!SelectTab, Session!Clear, Session!RunMain,
       Session!RunScenarios, Session!BindBump, Session!Leave, Session!TakeTask,
       Session!RunLine, Session!RunEnds, Session!Report, Session!Store, Session!CallSink,
       Session!views, Session!log, Session!bounds
<1>1. ui' = "save" => page' = "main" /\ ~run_active'
  BY DEF AtRun
<1>2. ui' = "request" => page' \in Session!Runnable /\ run_active'
  BY DEF AtRun, Session!ShowRun, Session!Runnable
<1>. QED
  BY <1>1, <1>2 DEF AtRun

-----------------------------------------------------------------------------
\* At most one run is under way; none is while StartRun writes that it queues one.
RunInv == Session!OneRun /\ (ui = "request" => Session!Runs = 0 /\ Session!Results = {})

LEMMA RunsIsNat == ASSUME Queues PROVE Session!Runs \in Nat
BY DEF Queues, Session!Runs

\* A refresh that is queued is no result.
LEMMA RefreshQueued ==
  ASSUME Queues, callbacks' = Append(callbacks, "refresh")
  PROVE  Session!Results' = Session!Results
BY DEF Queues, Session!Results

LEMMA ResultQueued ==
  ASSUME Queues, callbacks' = Append(callbacks, running), Session!Results = {}
  PROVE  \E n : Session!Results' = {n}
<1>1. Session!Results' = {Len(callbacks) + 1}
  BY DEF Queues, Session!Results, Session!Runnable
<1>. QED
  BY <1>1

LEMMA CallbackTaken ==
  ASSUME Queues, callbacks # <<>>, callbacks' = Tail(callbacks), NEW i \in Session!Results'
  PROVE  i + 1 \in Session!Results
BY DEF Queues, Session!Results

LEMMA ResultTaken ==
  ASSUME Queues, callbacks # <<>>, Head(callbacks) # "refresh"
  PROVE  1 \in Session!Results
BY DEF Queues, Session!Results

LEMMA ResultsAreNat ==
  ASSUME Queues, Queues'
  PROVE  Session!Results \subseteq Nat \ {0} /\ Session!Results' \subseteq Nat \ {0}
BY DEF Queues, Session!Results

LEMMA RunInit == Session!Init => RunInv
<1>. SUFFICES ASSUME Session!Init PROVE RunInv
  OBVIOUS
<1>1. Session!Results = {} /\ Session!Runs = 0
  BY DEF Session!Init, Session!Results, Session!Runs
<1>. QED
  BY <1>1 DEF Session!Init, RunInv, Session!OneRun

LEMMA RunStep ==
  ASSUME Queues, AtRun, RunInv, Queues', [Session!Next]_(Session!vars)
  PROVE  RunInv'
<1>. USE RunsIsNat DEF RunInv, Session!OneRun
<1>1. UNCHANGED <<tasks, worker>> => Session!Runs' = Session!Runs
  BY DEF Session!Runs
<1>2. UNCHANGED callbacks => Session!Results' = Session!Results
  BY DEF Session!Results
<1>3. CASE Session!Saved
  BY <1>1, <1>2, <1>3 DEF Session!Saved, Session!ShowRun, Session!views, AtRun
<1>4. CASE Session!RunScenarios
  BY <1>1, <1>2, <1>4 DEF Session!RunScenarios, Session!ShowRun
<1>5. CASE Session!Requested
  <2>1. Session!Runs' = Session!Runs + 1
    BY <1>5 DEF Session!Requested, Session!Runs, Queues
  <2>. QED
    BY <1>2, <1>5, <2>1 DEF Session!Requested, Session!views, AtRun
<1>6. CASE Session!RunCallback
  <2>1. \A i, j \in Session!Results' : i = j
    BY <1>6, CallbackTaken, ResultsAreNat DEF Session!RunCallback
  <2>2. Session!Results = {} => Session!Results' = {}
    BY <1>6, CallbackTaken DEF Session!RunCallback
  <2>3. CASE Head(callbacks) # "refresh"
    <3>1. Session!Results' = {}
      BY <1>6, <2>3, CallbackTaken, ResultTaken, ResultsAreNat DEF Session!RunCallback
    <3>2. Session!Runs = 0
      BY <1>6, <2>3, ResultTaken DEF Session!RunCallback
    <3>. QED
      BY <1>1, <1>6, <3>1, <3>2 DEF Session!RunCallback
  <2>4. CASE Head(callbacks) = "refresh"
    <3>1. UNCHANGED <<tasks, worker, run_active, ui>> /\ ui # "request"
      BY <1>6, <2>4 DEF Session!RunCallback, Session!Runnable
    <3>. QED
      BY <1>1, <2>1, <2>2, <3>1
  <2>. QED
    BY <2>3, <2>4
<1>7. CASE Session!TakeTask
  <2>1. Session!Runs' = Session!Runs
    BY <1>7 DEF Session!TakeTask, Session!Runs, Queues
  <2>. QED
    BY <1>2, <1>7, <2>1 DEF Session!TakeTask
<1>8. CASE Session!RunEnds
  <2>1. Session!Runs' = Session!Runs
    BY <1>8 DEF Session!RunEnds, Session!Runs
  <2>. QED
    BY <1>2, <1>8, <2>1 DEF Session!RunEnds
<1>9. CASE Session!Report
  <2>1. Session!Runs' = Session!Runs - 1 /\ Session!Runs >= 1
    BY <1>9 DEF Session!Report, Session!Runs, Queues
  <2>2. Session!Results = {} /\ run_active /\ Session!Runs = 1
    BY <2>1
  <2>3. PICK n : Session!Results' = {n}
    BY <1>9, <2>2, ResultQueued DEF Session!Report, Session!Reported
  <2>. QED
    BY <1>9, <2>1, <2>2, <2>3 DEF Session!Report
<1>10. CASE \E t \in Session!Thread : Session!CallSink(t)
  BY <1>1, <1>10, RefreshQueued DEF Session!CallSink
<1>11. CASE UNCHANGED <<tasks, worker, callbacks, run_active>> /\ (ui' = "request" => ui = "request")
  BY <1>1, <1>2, <1>11
<1>. QED
  BY <1>3, <1>4, <1>5, <1>6, <1>7, <1>8, <1>9, <1>10, <1>11
  DEF Session!Next, Session!Logging, Session!UiWork, Session!User, Session!Worker, Session!vars,
      Session!Store, Session!Bumped, Session!RemoveSink, Session!ExitLine, Session!CloseLog,
      Session!Start, Session!StartFails, Session!SelectTab, Session!Clear, Session!RunMain,
      Session!BindBump, Session!Leave, Session!RunLine, Session!views

-----------------------------------------------------------------------------
\* No line is half written by the UI thread while its loop waits: were it, the
\* next line would take the place of a refresh that is still to be queued.
UiFree == ui \in {"init", "loop"} => Session!Free("ui")

LEMMA UiFreeStep ==
  ASSUME Writers, UiFree, [Session!Next]_(Session!vars)
  PROVE  UiFree'
<1>. USE ThreadsOf DEF UiFree, Session!Free
<1>1. CASE UNCHANGED writer /\ (ui' \in {"init", "loop"} => ui' = ui \/ Session!Free("ui"))
  BY <1>1
<1>2. CASE ui' \notin {"init", "loop"}
  BY <1>2
<1>3. CASE UNCHANGED ui /\ Session!Write("worker")
  BY <1>3 DEF Session!Write, Writers
<1>4. CASE \E t \in Session!Thread : Session!Store(t)
  BY <1>4 DEF Session!Store, Writers
<1>5. CASE \E t \in Session!Thread : Session!CallSink(t)
  BY <1>5 DEF Session!CallSink, Writers
<1>. QED
  BY <1>1, <1>2, <1>3, <1>4, <1>5
  DEF Session!Next, Session!UiWork, Session!User, Session!Worker, Session!Logging, Session!vars,
      Session!Saved, Session!Requested, Session!Bumped, Session!RunCallback, Session!RemoveSink,
      Session!ExitLine, Session!CloseLog, Session!Start, Session!StartFails, Session!SelectTab,
      Session!Clear, Session!RunMain, Session!RunScenarios, Session!BindBump, Session!Leave,
      Session!TakeTask, Session!RunLine, Session!RunEnds, Session!Report

\* While the loop runs the model is alive and the sink set.
PagesInv ==
  /\ Session!NoIdleButtonWhileRunning /\ Session!NothingUnseen
  /\ ui \in Session!InLoop \cup {"init"} => active /\ sink

LEMMA PagesInit == Session!Init => PagesInv
BY DEF Session!Init, PagesInv, Session!NoIdleButtonWhileRunning, Session!NothingUnseen, Session!InLoop

LEMMA ButtonStep ==
  ASSUME Session!NoIdleButtonWhileRunning, [Session!Next]_(Session!vars)
  PROVE  Session!NoIdleButtonWhileRunning'
<1>. USE DEF Session!NoIdleButtonWhileRunning, Session!InLoop
<1>1. CASE Session!Start
  BY <1>1 DEF Session!Start, Session!OpenPage
<1>2. CASE Session!SelectTab
  BY <1>2 DEF Session!SelectTab, Session!OpenPage
<1>3. CASE Session!Saved
  BY <1>3 DEF Session!Saved, Session!ShowRun, Session!ButtonWhileRunning, Session!views
<1>4. CASE Session!RunScenarios
  BY <1>4 DEF Session!RunScenarios, Session!ShowRun, Session!ButtonWhileRunning
<1>5. CASE Session!RunCallback
  BY <1>5 DEF Session!RunCallback
<1>6. CASE UNCHANGED <<button, run_active>> /\ (ui' \in Session!InLoop => ui \in Session!InLoop)
  BY <1>6
<1>. QED
  BY <1>1, <1>2, <1>3, <1>4, <1>5, <1>6
  DEF Session!Next, Session!Logging, Session!UiWork, Session!User, Session!Worker, Session!vars,
      Session!Store, Session!CallSink, Session!Requested, Session!Bumped, Session!RemoveSink,
      Session!ExitLine, Session!CloseLog, Session!StartFails, Session!Clear, Session!RunMain,
      Session!BindBump, Session!Leave, Session!TakeTask, Session!RunLine, Session!RunEnds,
      Session!Report, Session!views

LEMMA SinkStep ==
  ASSUME ui \in Session!InLoop \cup {"init"} => active /\ sink, [Session!Next]_(Session!vars)
  PROVE  (ui \in Session!InLoop \cup {"init"} => active /\ sink)'
<1>. USE DEF Session!InLoop
<1>1. CASE UNCHANGED <<active, sink>> /\ (ui' \in Session!InLoop => ui \in Session!InLoop \cup {"init"}) /\ ui' # "init"
  BY <1>1
<1>2. CASE ui' \notin Session!InLoop \cup {"init"}
  BY <1>2
<1>3. CASE UNCHANGED <<active, sink, ui>>
  BY <1>3
<1>. QED
  BY <1>1, <1>2, <1>3
  DEF Session!Next, Session!Logging, Session!UiWork, Session!User, Session!Worker, Session!vars,
      Session!Store, Session!CallSink, Session!Saved, Session!Requested, Session!Bumped,
      Session!RunCallback, Session!RemoveSink, Session!ExitLine, Session!CloseLog, Session!Start,
      Session!StartFails, Session!SelectTab, Session!Clear, Session!RunMain, Session!RunScenarios,
      Session!BindBump, Session!Leave, Session!TakeTask, Session!RunLine, Session!RunEnds,
      Session!Report, Session!views, Session!log

LEMMA UnseenStep ==
  ASSUME Queues, Writers, UiFree, PagesInv, [Session!Next]_(Session!vars)
  PROVE  Session!NothingUnseen'
<1>. USE DEF Session!NothingUnseen, Session!HasPanel, PagesInv
<1>1. CASE \E t \in Session!Thread : Session!Store(t)
  BY <1>1, SinkStep DEF Session!Store, Writers
<1>2. CASE \E t \in Session!Thread : Session!CallSink(t)
  <2>1. callbacks' # <<>>
    BY <1>2 DEF Session!CallSink, Queues
  <2>. QED
    BY <2>1
<1>3. CASE Session!Report
  <2>1. callbacks' # <<>>
    BY <1>3 DEF Session!Report, Session!Reported, Queues
  <2>. QED
    BY <2>1
<1>4. CASE Session!Start \/ Session!SelectTab
  BY <1>4 DEF Session!Start, Session!SelectTab, Session!OpenPage, Session!Filled, Session!log
<1>5. CASE Session!Clear
  BY <1>5 DEF Session!Clear
<1>6. CASE shown' = lines /\ lines' = lines
  BY <1>6
<1>7. CASE Session!Bumped \/ Session!RunCallback
  BY <1>7 DEF Session!Bumped, Session!RunCallback, Session!Refreshed, Session!log, Session!InLoop
<1>8. CASE ui' \notin Session!InLoop
  BY <1>8
<1>9. CASE /\ UNCHANGED <<page, shown, cleared, lines, callbacks>> /\ (ui' \in Session!InLoop => ui \in Session!InLoop)
           /\ \A t \in Session!Thread : writer[t] = "sink" => writer'[t] = "sink"
  BY <1>9
<1>10. \A t \in Session!Thread : Session!Write(t) /\ Session!Free(t) =>
         \A u \in Session!Thread : writer[u] = "sink" => writer'[u] = "sink"
  BY DEF Session!Write, Session!Free, Writers
<1>11. Session!RunMain \/ Session!BindBump \/ Session!RunScenarios => Session!Free("ui")
  BY DEF UiFree, Session!RunMain, Session!BindBump, Session!RunScenarios
<1>12. CASE Session!RunMain \/ Session!BindBump
  BY <1>9, <1>10, <1>11, <1>12, ThreadsOf DEF Session!RunMain, Session!BindBump, Session!views, Session!log, Session!InLoop
<1>13. CASE Session!RunLine \/ Session!RunEnds
  BY <1>9, <1>10, <1>13, ThreadsOf DEF Session!RunLine, Session!RunEnds, Session!views, Session!log
<1>14. CASE Session!TakeTask \/ Session!Requested \/ UNCHANGED Session!vars
  BY <1>9, <1>14 DEF Session!TakeTask, Session!Requested, Session!views, Session!log, Session!vars, Session!InLoop
<1>15. CASE Session!Saved \/ Session!RunScenarios
  BY <1>6, <1>9, <1>15 DEF Session!Saved, Session!RunScenarios, Session!ShowRun, Session!views, Session!log, Session!InLoop
<1>16. CASE Session!Leave \/ Session!StartFails \/ Session!RemoveSink \/ Session!ExitLine \/ Session!CloseLog
  BY <1>8, <1>16 DEF Session!Leave, Session!StartFails, Session!RemoveSink, Session!ExitLine, Session!CloseLog, Session!InLoop
<1>. QED
  BY <1>1, <1>2, <1>3, <1>4, <1>5, <1>7, <1>12, <1>13, <1>14, <1>15, <1>16
  DEF Session!Next, Session!Logging, Session!UiWork, Session!User, Session!Worker

SessionInv == Typed /\ UiFree /\ RunInv /\ PagesInv

LEMMA SessionInit == Session!Init => SessionInv
<1>. SUFFICES ASSUME Session!Init PROVE SessionInv
  OBVIOUS
<1>1. UiFree
  BY ThreadsOf DEF Session!Init, UiFree, Session!Free
<1>. QED
  BY <1>1, TypedInit, RunInit, PagesInit DEF SessionInv

LEMMA SessionStep == SessionInv /\ [Session!Next]_(Session!vars) => SessionInv'
<1>. SUFFICES ASSUME SessionInv, [Session!Next]_(Session!vars) PROVE SessionInv'
  OBVIOUS
<1>1. Typed'
  BY QueuesStep, WritersStep, FlagsStep, CountsStep, PlacesStep, AtRunStep DEF SessionInv, Typed
<1>2. UiFree' /\ RunInv'
  BY <1>1, UiFreeStep, RunStep DEF SessionInv, Typed
<1>3. PagesInv'
  BY ButtonStep, SinkStep, UnseenStep DEF SessionInv, Typed, PagesInv
<1>. QED
  BY <1>1, <1>2, <1>3 DEF SessionInv

-----------------------------------------------------------------------------
(* A behaviour of the parts is one of each of them. *)

LEMMA AppInit == MCInit => Init /\ Settings!Init /\ Session!Init
BY DEF MCInit

LEMMA AppStep ==
  [MCNext]_allVars => [Next]_vars /\ [Settings!Next]_(Settings!vars) /\ [Session!Next]_(Session!vars)
<1>1. UNCHANGED sessionVars => UNCHANGED Session!vars
  BY DEF sessionVars, Session!vars, Session!views, Session!log, Session!bounds
<1>2. UNCHANGED settingsVars => UNCHANGED Settings!vars
  BY DEF settingsVars, Settings!vars
<1>. QED
  BY <1>1, <1>2 DEF MCNext, Stores, Sets, Runs, allVars

LEMMA SessionInvariant == MCSpec => []SessionInv
<1>1. SessionInv /\ [MCNext]_allVars => SessionInv'
  BY AppStep, SessionStep
<1>. QED
  BY <1>1, AppInit, SessionInit, PTL DEF MCSpec

\* One run at a time, no button to start another meanwhile, and no line left
\* unseen when nothing is queued, however long the user presses buttons, changes
\* tabs and clears panels (UiModel::run_active, SetUiSink, brls::sync).
THEOREM SessionCorrect == MCSpec => []SessionShown
<1>1. SessionInv => SessionShown
  BY DEF SessionInv, RunInv, PagesInv, SessionShown
<1>. QED
  BY <1>1, SessionInvariant, PTL

THEOREM SessionTypeCorrect == MCSpec => []Session!TypeOK
<1>1. SessionInv => Session!TypeOK
  BY TypedIsType DEF SessionInv, Typed
<1>. QED
  BY <1>1, SessionInvariant, PTL

\* Once the main loop is left no late line and no late result touches the model
\* or the pages (~UiModel, the callbacks' look at active).
THEOREM LoopIsOver == MCSpec => [][Session!NothingAfterLoop]_allVars
<1>1. [Session!Next]_(Session!vars) => Session!NothingAfterLoop
  BY DEF Session!NothingAfterLoop, Session!InLoop,
         Session!Next, Session!Logging, Session!UiWork, Session!User, Session!Worker,
         Session!vars, Session!Saved, Session!Requested, Session!Bumped, Session!RunCallback,
         Session!RemoveSink, Session!ExitLine, Session!CloseLog, Session!Start,
         Session!StartFails, Session!SelectTab, Session!Clear, Session!RunMain,
         Session!RunScenarios, Session!BindBump, Session!Leave, Session!TakeTask,
         Session!RunLine, Session!RunEnds, Session!Report, Session!Store, Session!CallSink,
         Session!views, Session!log, Session!bounds
<1>. QED
  BY <1>1, AppStep, PTL DEF MCSpec

-----------------------------------------------------------------------------
(* The settings: the configurations there are. *)

\* Lists of profiles within the limit.
Profiles == {p \in Seq(Settings!Profile) : Len(p) \in 1..MaximumProfiles}

\* The configurations a file or a page can make, valid or not.
Configs ==
  [ scenario : Settings!Scenario, active : 0..MaximumProfiles, profiles : Profiles,
    unsigned : [Unsigned -> Settings!Value], flags : [Settings!Flag -> BOOLEAN],
    outcome : Settings!Outcome ]

\* What a file and the pages keep of the settings: only what Validate accepts is
\* saved, and once the pages are there the active profile is.
SettingsTyped ==
  /\ reading \in {"reading", "running"} /\ steps \in 0..MaxSteps /\ config \in Configs
  /\ file = <<>> \/ \E c \in Configs : file = <<c>> /\ Settings!ValidateRuntimeConfig(c)
  /\ reading = "running" => Settings!HasActive(config)

\* The parameters of the settings.
LEMMA SettingsBounds ==
  /\ Most \in Nat /\ Most > 0 /\ MaximumProfiles \in Nat /\ MaximumProfiles > 0 /\ MaxSteps \in Nat
  /\ "udp.datagram_count" \in Unsigned /\ "udp.concurrent_flows" \in Unsigned
BY SettingsParameters DEF Settings!Parameters

\* A profile with one field replaced.
LEMMA ProfileWith ==
  ASSUME NEW p \in Settings!Profile
  PROVE  /\ \A n \in Settings!Name : [p EXCEPT !.name = n] \in Settings!Profile
         /\ \A a \in Settings!Address \cup {"text"} : /\ [p EXCEPT !.tunnel = a] \in Settings!Profile
                                                     /\ [p EXCEPT !.bsd = a] \in Settings!Profile
         /\ \A n \in Settings!Port : /\ [p EXCEPT !.udp_port = n] \in Settings!Profile
                                     /\ [p EXCEPT !.tcp_port = n] \in Settings!Profile
BY DEF Settings!Profile

\* The parts of a configuration.
LEMMA ConfigIs ==
  ASSUME NEW c \in Configs
  PROVE  /\ c.scenario \in Settings!Scenario /\ c.active \in 0..MaximumProfiles /\ c.profiles \in Profiles
         /\ c.unsigned \in [Unsigned -> Settings!Value] /\ c.flags \in [Settings!Flag -> BOOLEAN]
         /\ c.outcome \in Settings!Outcome
         /\ Settings!Count(c) \in 1..MaximumProfiles /\ Settings!Count(c) = Len(c.profiles)
         /\ c.profiles \in Seq(Settings!Profile)
         /\ \A i \in 1..Settings!Count(c) : c.profiles[i] \in Settings!Profile
<1>1. c.profiles \in Profiles
  BY DEF Configs
<1>2. c.profiles \in Seq(Settings!Profile) /\ Len(c.profiles) \in 1..MaximumProfiles
  BY <1>1 DEF Profiles
<1>3. \A i \in 1..Len(c.profiles) : c.profiles[i] \in Settings!Profile
  BY <1>2
<1>. QED
  BY <1>1, <1>2, <1>3 DEF Configs, Settings!Count

\* A configuration with one part replaced.
LEMMA ConfigWith ==
  ASSUME NEW c \in Configs
  PROVE  /\ \A s \in Settings!Scenario : [c EXCEPT !.scenario = s] \in Configs
         /\ \A n \in 0..MaximumProfiles : [c EXCEPT !.active = n] \in Configs
         /\ \A p \in Profiles : [c EXCEPT !.profiles = p] \in Configs
         /\ \A p \in Profiles : \A n \in 0..MaximumProfiles :
              [c EXCEPT !.profiles = p, !.active = n] \in Configs
         /\ \A u \in [Unsigned -> Settings!Value] : [c EXCEPT !.unsigned = u] \in Configs
         /\ \A f \in [Settings!Flag -> BOOLEAN] : [c EXCEPT !.flags = f] \in Configs
         /\ \A o \in Settings!Outcome : [c EXCEPT !.outcome = o] \in Configs
BY DEF Configs

\* A list of profiles with one of them replaced.
LEMMA ProfilesWith ==
  ASSUME NEW q \in Profiles, NEW i \in 1..Len(q), NEW p \in Settings!Profile
  PROVE  /\ [q EXCEPT ![i] = p] \in Profiles /\ Len([q EXCEPT ![i] = p]) = Len(q)
<1>1. q \in Seq(Settings!Profile) /\ Len(q) \in 1..MaximumProfiles
  BY DEF Profiles
<1>2. [q EXCEPT ![i] = p] \in Seq(Settings!Profile) /\ Len([q EXCEPT ![i] = p]) = Len(q)
  BY <1>1, ExceptSeq
<1>. QED
  BY <1>1, <1>2 DEF Profiles

\* The compiled defaults (CompiledRuntimeDefaults) are a configuration with an
\* active profile.
LEMMA DefaultsAre ==
  /\ Settings!CompiledRuntimeDefaults \in Configs
  /\ Settings!HasActive(Settings!CompiledRuntimeDefaults)
  /\ Settings!DefaultProfile \in Settings!Profile
  /\ <<Settings!DefaultProfile>> \in Profiles
<1>. DEFINE d == Settings!DefaultProfile
<1>1. d \in Settings!Profile
  BY DEF Settings!DefaultProfile, Settings!Profile, Settings!Name, Settings!Address, Settings!Port
<1>2. <<d>> \in Profiles /\ Len(<<d>>) = 1
  BY <1>1, SettingsBounds DEF Profiles
<1>. HIDE DEF d
<1>3. [key \in Unsigned |-> 1] \in [Unsigned -> Settings!Value]
  BY SettingsBounds DEF Settings!Value
<1>4. [flag \in Settings!Flag |-> flag \notin {"reject", "writable"}] \in [Settings!Flag -> BOOLEAN]
  OBVIOUS
<1>5. "udp" \in Settings!Scenario /\ "echo" \in Settings!Outcome /\ 0 \in 0..MaximumProfiles
  BY SettingsBounds DEF Settings!Scenario, Settings!Outcome
<1>6. Settings!CompiledRuntimeDefaults \in Configs
  BY <1>2, <1>3, <1>4, <1>5 DEF Settings!CompiledRuntimeDefaults, Configs, d
<1>7. Settings!HasActive(Settings!CompiledRuntimeDefaults)
  BY <1>2 DEF Settings!HasActive, Settings!Count, Settings!CompiledRuntimeDefaults, d
<1>. QED
  BY <1>1, <1>2, <1>6, <1>7 DEF d

-----------------------------------------------------------------------------
(* The settings: what a line and an edit make of a configuration. *)

\* A configuration with one profile replaced.
LEMMA ProfileSet ==
  ASSUME NEW c \in Configs, NEW i \in 1..Settings!Count(c), NEW p \in Settings!Profile
  PROVE  [c EXCEPT !.profiles[i] = p] \in Configs
<1>. DEFINE q == [c.profiles EXCEPT ![i] = p]
<1>1. q \in Profiles
  BY ConfigIs, ProfilesWith
<1>2. [c EXCEPT !.profiles[i] = p] = [c EXCEPT !.profiles = q]
  OBVIOUS
<1>. HIDE DEF q
<1>. QED
  BY <1>1, <1>2, ConfigWith

\* A field of a profile is written by a line of the file, or on the pages.
LEMMA FieldSet ==
  ASSUME NEW c \in Configs, NEW i \in 1..Settings!Count(c), NEW f, NEW v,
         \/ f = "name" /\ v \in Settings!Name
         \/ f \in {"tunnel", "bsd"} /\ v \in Settings!Address \cup {"text"}
         \/ f \in {"udp_port", "tcp_port"} /\ v \in Settings!Port
  PROVE  [c EXCEPT !.profiles[i][f] = v] \in Configs
<1>. DEFINE p == c.profiles[i]
            r == [p EXCEPT ![f] = v]
<1>1. p \in Settings!Profile
  BY ConfigIs
<1>2. [c EXCEPT !.profiles[i][f] = v] = [c EXCEPT !.profiles[i] = r]
  OBVIOUS
<1>3. r \in Settings!Profile
  <2>. HIDE DEF p
  <2>1. CASE f = "name" /\ v \in Settings!Name
    BY <1>1, <2>1, ProfileWith
  <2>2. CASE f = "tunnel" /\ v \in Settings!Address \cup {"text"}
    BY <1>1, <2>2, ProfileWith
  <2>3. CASE f = "bsd" /\ v \in Settings!Address \cup {"text"}
    BY <1>1, <2>3, ProfileWith
  <2>4. CASE f = "udp_port" /\ v \in Settings!Port
    BY <1>1, <2>4, ProfileWith
  <2>5. CASE f = "tcp_port" /\ v \in Settings!Port
    BY <1>1, <2>5, ProfileWith
  <2>. QED
    BY <2>1, <2>2, <2>3, <2>4, <2>5
<1>. HIDE DEF r
<1>. QED
  BY <1>2, <1>3, ProfileSet

\* profile.<i>.<field>.
LEMMA SetProfileIs ==
  ASSUME NEW c \in Configs, NEW i \in Nat, NEW f, NEW v,
         \/ f = "name" /\ v \in Settings!Name
         \/ f \in {"tunnel", "bsd"} /\ v \in Settings!Address \cup {"text"}
         \/ f \in {"udp_port", "tcp_port"} /\ v \in Settings!Port
  PROVE  Settings!SetProfile(c, i, f, v) \in Configs
<1>1. CASE i < Settings!Count(c)
  <2>1. i + 1 \in 1..Settings!Count(c)
    BY <1>1, ConfigIs
  <2>2. [c EXCEPT !.profiles[i + 1][f] = v] \in Configs
    BY <2>1, FieldSet
  <2>. QED
    BY <1>1, <2>2 DEF Settings!SetProfile
<1>2. CASE ~(i < Settings!Count(c))
  BY <1>2 DEF Settings!SetProfile
<1>. QED
  BY <1>1, <1>2

\* What a line of the file makes of a name is never blank.
LEMMA NamesTrimmed ==
  ASSUME NEW n \in Settings!Name
  PROVE  /\ Settings!Trimmed(n) \in Settings!Name /\ Settings!AsWritten(n) \in Settings!Name \ {""}
         /\ Settings!AsWritten(n) = IF Settings!Trimmed(n) = "" THEN "Default" ELSE Settings!Trimmed(n)
BY DEF Settings!Trimmed, Settings!Name, Settings!AsWritten, Settings!DefaultProfile

\* profiles.count.
LEMMA SetCountIs ==
  ASSUME NEW c \in Configs, NEW n \in Nat
  PROVE  /\ Settings!SetCount(c, n) \in Configs
         /\ n \in 1..MaximumProfiles =>
              Settings!SetCount(c, n)
                = [c EXCEPT !.profiles = [i \in 1..n |-> IF i <= Settings!Count(c) THEN c.profiles[i]
                                                         ELSE c.profiles[1]]]
<1>1. CASE n \notin 1..MaximumProfiles
  BY <1>1 DEF Settings!SetCount
<1>2. CASE n \in 1..MaximumProfiles
  <2>. DEFINE q == [i \in 1..n |-> IF i <= Settings!Count(c) THEN c.profiles[i] ELSE c.profiles[1]]
  <2>1. \A i \in 1..n : q[i] \in Settings!Profile
    BY ConfigIs
  <2>2. q \in Seq(Settings!Profile) /\ Len(q) = n
    BY <2>1
  <2>3. q \in Profiles
    BY <1>2, <2>2 DEF Profiles
  <2>4. Settings!SetCount(c, n) = [c EXCEPT !.profiles = q]
    BY <1>2 DEF Settings!SetCount, Settings!Count
  <2>. HIDE DEF q
  <2>5. [c EXCEPT !.profiles = q] \in Configs
    BY <2>3, ConfigWith
  <2>. QED
    BY <1>2, <2>4, <2>5 DEF q
<1>. QED
  BY <1>1, <1>2

\* A setting that a line and an edit make alike.
LEMMA SettingIs ==
  ASSUME NEW c \in Configs, NEW values \in [Unsigned -> SUBSET Settings!Value],
         Settings!Setting(c, values)
  PROVE  config' \in Configs /\ config'.profiles = c.profiles /\ config'.active = c.active
<1>1. CASE \E key \in Unsigned : config' \in {[c EXCEPT !.unsigned[key] = v] : v \in values[key]}
  <2>0. PICK key \in Unsigned : config' \in {[c EXCEPT !.unsigned[key] = v] : v \in values[key]}
    BY <1>1
  <2>1. PICK v \in values[key] : config' = [c EXCEPT !.unsigned[key] = v]
    BY <2>0
  <2>. DEFINE u == [c.unsigned EXCEPT ![key] = v]
  <2>2. u \in [Unsigned -> Settings!Value]
    BY ConfigIs
  <2>3. config' = [c EXCEPT !.unsigned = u]
    BY <2>1
  <2>. HIDE DEF u
  <2>. QED
    BY <2>2, <2>3, ConfigWith DEF Configs
<1>2. CASE \E flag \in Settings!Flag : config' = [c EXCEPT !.flags[flag] = ~@]
  <2>1. PICK flag \in Settings!Flag : config' = [c EXCEPT !.flags[flag] = ~@]
    BY <1>2
  <2>. DEFINE g == [c.flags EXCEPT ![flag] = ~@]
  <2>2. g \in [Settings!Flag -> BOOLEAN]
    BY ConfigIs
  <2>3. config' = [c EXCEPT !.flags = g]
    BY <2>1
  <2>. HIDE DEF g
  <2>. QED
    BY <2>2, <2>3, ConfigWith DEF Configs
<1>3. CASE config' \in {[c EXCEPT !.outcome = o] : o \in Settings!Outcome}
  <2>1. PICK o \in Settings!Outcome : config' = [c EXCEPT !.outcome = o]
    BY <1>3
  <2>2. config' \in Configs
    BY <2>1, ConfigWith
  <2>. QED
    BY <2>1, <2>2 DEF Configs
<1>4. CASE config' \in {[c EXCEPT !.scenario = s] : s \in Settings!Scenario}
  <2>1. PICK s \in Settings!Scenario : config' = [c EXCEPT !.scenario = s]
    BY <1>4
  <2>2. config' \in Configs
    BY <2>1, ConfigWith
  <2>. QED
    BY <2>1, <2>2 DEF Configs
<1>. QED
  BY <1>1, <1>2, <1>3, <1>4 DEF Settings!Setting

\* A line of the file.
LEMMA LineIs ==
  ASSUME NEW c \in Configs, Settings!Line(c)
  PROVE  config' \in Configs
<1>1. CASE Settings!Setting(c, [key \in Unsigned |-> Settings!Value])
  <2>. DEFINE values == [key \in Unsigned |-> Settings!Value]
  <2>1. values \in [Unsigned -> SUBSET Settings!Value]
    OBVIOUS
  <2>. HIDE DEF values
  <2>. QED
    BY <1>1, <2>1, SettingIs DEF values
<1>2. CASE config' \in {[c EXCEPT !.active = n] : n \in 0..MaximumProfiles}
  BY <1>2, ConfigWith
<1>3. CASE config' \in {Settings!SetCount(c, n) : n \in 0..MaximumProfiles + 1}
  <2>1. PICK n \in 0..MaximumProfiles + 1 : config' = Settings!SetCount(c, n)
    BY <1>3
  <2>2. n \in Nat
    BY SettingsBounds
  <2>. QED
    BY <2>1, <2>2, SetCountIs
<1>4. CASE Settings!ProfileLine(c)
  <2>1. PICK i \in 0..MaximumProfiles :
          \/ config' \in {Settings!SetName(c, i, name) : name \in Settings!Name}
          \/ \E f \in {"tunnel", "bsd"} :
               config' \in {Settings!SetProfile(c, i, f, a) : a \in Settings!Address}
          \/ \E f \in {"udp_port", "tcp_port"} :
               config' \in {Settings!SetProfile(c, i, f, p) : p \in Settings!Port}
    BY <1>4 DEF Settings!ProfileLine
  <2>2. i \in Nat
    BY SettingsBounds
  <2>3. CASE config' \in {Settings!SetName(c, i, n) : n \in Settings!Name}
    <3>1. PICK n \in Settings!Name : config' = Settings!SetName(c, i, n)
      BY <2>3
    <3>2. Settings!SetProfile(c, i, "name", Settings!Trimmed(n)) \in Configs
      BY <2>2, NamesTrimmed, SetProfileIs
    <3>. QED
      BY <3>1, <3>2 DEF Settings!SetName
  <2>4. CASE \E f \in {"tunnel", "bsd"} :
               config' \in {Settings!SetProfile(c, i, f, a) : a \in Settings!Address}
    <3>1. PICK f \in {"tunnel", "bsd"}, a \in Settings!Address : config' = Settings!SetProfile(c, i, f, a)
      BY <2>4
    <3>. QED
      BY <2>2, <3>1, SetProfileIs
  <2>5. CASE \E f \in {"udp_port", "tcp_port"} :
               config' \in {Settings!SetProfile(c, i, f, p) : p \in Settings!Port}
    <3>1. PICK f \in {"udp_port", "tcp_port"}, p \in Settings!Port : config' = Settings!SetProfile(c, i, f, p)
      BY <2>5
    <3>. QED
      BY <2>2, <3>1, SetProfileIs
  <2>. QED
    BY <2>1, <2>3, <2>4, <2>5
<1>5. CASE Settings!LegacyLine(c)
  <2>. DEFINE k == Settings!Active(c)
  <2>0. Settings!HasActive(c)
    BY <1>5 DEF Settings!LegacyLine
  <2>1. k \in 1..Settings!Count(c)
    <3>1. c.active \in Nat /\ Settings!Count(c) \in Nat
      BY ConfigIs
    <3>2. c.active < Settings!Count(c)
      BY <2>0 DEF Settings!HasActive
    <3>. QED
      BY <3>1, <3>2 DEF Settings!Active
  <2>2. CASE config' \in {[c EXCEPT !.scenario = s] : s \in {"udp", "bsd udp", "contract"}}
    BY <2>2, ConfigWith DEF Settings!Scenario
  <2>3. CASE config' \in {[c EXCEPT !.profiles[k].tunnel = a, !.profiles[k].bsd = a] : a \in Settings!Address}
    <3>1. PICK a \in Settings!Address : config' = [c EXCEPT !.profiles[k].tunnel = a, !.profiles[k].bsd = a]
      BY <2>3
    <3>. DEFINE p == c.profiles[k]
                q == [p EXCEPT !.tunnel = a]
                r == [q EXCEPT !.bsd = a]
    <3>2. p \in Settings!Profile
      BY <2>1, ConfigIs
    <3>3. q \in Settings!Profile
      <4>. HIDE DEF p
      <4>. QED
        BY <3>2, ProfileWith
    <3>4. r \in Settings!Profile
      <4>. HIDE DEF q
      <4>. QED
        BY <3>3, ProfileWith
    <3>5. k \in DOMAIN c.profiles
      <4>1. c.profiles \in Seq(Settings!Profile) /\ Settings!Count(c) = Len(c.profiles)
        BY ConfigIs
      <4>. HIDE DEF k
      <4>. QED
        BY <2>1, <4>1
    <3>6. config' = [c EXCEPT !.profiles[k] = r]
      <4>. HIDE DEF k
      <4>. QED
        BY <3>1, <3>5
    <3>. HIDE DEF r, k
    <3>. QED
      BY <2>1, <3>4, <3>6, ProfileSet
  <2>4. CASE config' \in {[c EXCEPT !.profiles[k].udp_port = p] : p \in Settings!Port}
    <3>1. PICK p \in Settings!Port : config' = [c EXCEPT !.profiles[k].udp_port = p]
      BY <2>4
    <3>2. [c EXCEPT !.profiles[k]["udp_port"] = p] \in Configs
      <4>. HIDE DEF k
      <4>. QED
        BY <2>1, FieldSet
    <3>. QED
      BY <3>1, <3>2
  <2>. QED
    BY <1>5, <2>2, <2>3, <2>4 DEF Settings!LegacyLine
<1>. QED
  BY <1>1, <1>2, <1>3, <1>4, <1>5 DEF Settings!Line

-----------------------------------------------------------------------------
(* The settings: what a start reads of the profiles, one after the other. *)

\* A profile as it is stored, and a configuration of which the first k profiles are read.
StoredProfile(c, i) == Settings!AsStored(c.profiles[i])
ReadUpTo(c, k) ==
  [Settings!Header(c) EXCEPT
     !.profiles = [i \in 1..Settings!Count(c) |-> IF i <= k THEN StoredProfile(c, i)
                                                  ELSE Settings!DefaultProfile]]

\* A configuration as it is stored is one.
LEMMA StoredIs ==
  ASSUME NEW c \in Configs
  PROVE  /\ \A i \in 1..Settings!Count(c) : StoredProfile(c, i) \in Settings!Profile
         /\ Settings!Stored(c) = [c EXCEPT !.profiles = [i \in 1..Settings!Count(c) |-> StoredProfile(c, i)]]
         /\ Settings!Stored(c) \in Configs
<1>1. ASSUME NEW i \in 1..Settings!Count(c) PROVE StoredProfile(c, i) \in Settings!Profile
  <2>. DEFINE p == c.profiles[i]
  <2>1. p \in Settings!Profile
    BY ConfigIs
  <2>. HIDE DEF p
  <2>2. p.name \in Settings!Name
    BY <2>1 DEF Settings!Profile
  <2>3. Settings!AsWritten(p.name) \in Settings!Name
    BY <2>2, NamesTrimmed
  <2>4. [p EXCEPT !.name = Settings!AsWritten(p.name)] \in Settings!Profile
    BY <2>1, <2>3, ProfileWith
  <2>. QED
    BY <2>4 DEF StoredProfile, Settings!AsStored, p
<1>2. Settings!Stored(c) = [c EXCEPT !.profiles = [i \in 1..Settings!Count(c) |-> StoredProfile(c, i)]]
  BY DEF Settings!Stored, StoredProfile
<1>. DEFINE q == [i \in 1..Settings!Count(c) |-> StoredProfile(c, i)]
<1>3. q \in Seq(Settings!Profile) /\ Len(q) = Settings!Count(c)
  BY <1>1, ConfigIs
<1>4. q \in Profiles
  BY <1>3, ConfigIs DEF Profiles
<1>. HIDE DEF q
<1>5. [c EXCEPT !.profiles = q] \in Configs
  BY <1>4, ConfigWith
<1>. QED
  BY <1>1, <1>2, <1>5 DEF q

\* The lines before the profiles leave one profile, the default one.
LEMMA HeaderIs ==
  ASSUME NEW c \in Configs
  PROVE  /\ Settings!Header(c) \in Configs
         /\ Settings!Header(c).scenario = c.scenario /\ Settings!Header(c).active = c.active
         /\ Settings!Count(Settings!Header(c)) = 1
         /\ Settings!Header(c).profiles[1] = Settings!DefaultProfile
<1>1. Settings!CompiledRuntimeDefaults \in Configs
  BY DefaultsAre
<1>2. Settings!CompiledRuntimeDefaults.profiles = <<Settings!DefaultProfile>>
  BY DEF Settings!CompiledRuntimeDefaults
<1>3. c.scenario \in Settings!Scenario /\ c.active \in 0..MaximumProfiles
  BY ConfigIs
<1>. DEFINE d == Settings!CompiledRuntimeDefaults
            h == [d EXCEPT !.scenario = c.scenario, !.active = c.active]
<1>4. Settings!Header(c) = h
  BY DEF Settings!Header
<1>. HIDE DEF d
<1>5. d \in Configs
  BY <1>1 DEF d
<1>6. h \in Configs /\ h.scenario = c.scenario /\ h.active = c.active /\ h.profiles = d.profiles
  BY <1>3, <1>5 DEF Configs
<1>7. h.profiles = <<Settings!DefaultProfile>>
  BY <1>2, <1>6 DEF d
<1>8. Settings!Count(h) = 1 /\ h.profiles[1] = Settings!DefaultProfile
  BY <1>7 DEF Settings!Count
<1>. HIDE DEF h
<1>. QED
  BY <1>4, <1>6, <1>8

\* profiles.count makes room for all of them.
LEMMA ReadFromCount ==
  ASSUME NEW c \in Configs
  PROVE  Settings!SetCount(Settings!Header(c), Settings!Count(c)) = ReadUpTo(c, 0)
<1>. DEFINE h == Settings!Header(c)
            n == Settings!Count(c)
<1>1. h \in Configs /\ Settings!Count(h) = 1 /\ h.profiles[1] = Settings!DefaultProfile
  BY HeaderIs
<1>2. n \in 1..MaximumProfiles /\ n \in Nat
  BY ConfigIs
<1>. HIDE DEF h, n
<1>3. Settings!SetCount(h, n)
        = [h EXCEPT !.profiles = [i \in 1..n |-> IF i <= Settings!Count(h) THEN h.profiles[i]
                                                 ELSE h.profiles[1]]]
  BY <1>1, <1>2, SetCountIs
<1>4. \A i \in 1..n : (IF i <= Settings!Count(h) THEN h.profiles[i] ELSE h.profiles[1])
                        = IF i <= 0 THEN StoredProfile(c, i) ELSE Settings!DefaultProfile
  BY <1>1, <1>2
<1>5. [i \in 1..n |-> IF i <= Settings!Count(h) THEN h.profiles[i] ELSE h.profiles[1]]
        = [i \in 1..n |-> IF i <= 0 THEN StoredProfile(c, i) ELSE Settings!DefaultProfile]
  BY <1>4
<1>. QED
  BY <1>3, <1>5 DEF ReadUpTo, h, n

\* A field of one profile is assigned.
LEMMA FieldOf ==
  ASSUME NEW h \in Configs, NEW Z, NEW j \in DOMAIN Z, NEW f, NEW v, NEW y, y = [h EXCEPT !.profiles = Z]
  PROVE  [y EXCEPT !.profiles[j][f] = v]
           = [h EXCEPT !.profiles = [Z EXCEPT ![j] = [Z[j] EXCEPT ![f] = v]]]
<1>1. y.profiles = Z
  BY DEF Configs
<1>2. [y EXCEPT !.profiles[j][f] = v] = [y EXCEPT !.profiles = [y.profiles EXCEPT ![j] = [y.profiles[j] EXCEPT ![f] = v]]]
  OBVIOUS
<1>. DEFINE W == [Z EXCEPT ![j] = [Z[j] EXCEPT ![f] = v]]
<1>3. [y EXCEPT !.profiles[j][f] = v] = [y EXCEPT !.profiles = W]
  BY <1>1, <1>2
<1>. HIDE DEF W
<1>4. [y EXCEPT !.profiles = W] = [h EXCEPT !.profiles = W]
  BY DEF Configs
<1>. QED
  BY <1>3, <1>4 DEF W

\* The lines of the next profile make it what was stored, whatever its name was.
LEMMA ReadNext ==
  ASSUME NEW c \in Configs, NEW k \in Nat, k < Settings!Count(c)
  PROVE  Settings!ReadProfile(ReadUpTo(c, k), k, c.profiles[k + 1]) = ReadUpTo(c, k + 1)
<1>. DEFINE n == Settings!Count(c)
            h == Settings!Header(c)
            S(i) == StoredProfile(c, i)
            D == Settings!DefaultProfile
            P == [i \in 1..n |-> IF i <= k THEN S(i) ELSE D]
            Q == [i \in 1..n |-> IF i <= k + 1 THEN S(i) ELSE D]
            x == ReadUpTo(c, k)
            p == c.profiles[k + 1]
            E == [D EXCEPT !.name = Settings!AsWritten(p.name)]
            y == Settings!SetName(x, k, p.name)
<1>1. n \in Nat /\ k + 1 \in 1..n
  BY ConfigIs
<1>2. p \in Settings!Profile /\ D \in Settings!Profile
  BY <1>1, ConfigIs, DefaultsAre
<1>3. p.name \in Settings!Name /\ D.name = "Default"
  BY <1>2 DEF Settings!Profile, Settings!DefaultProfile
<1>4. h \in Configs
  BY HeaderIs
<1>5. x = [h EXCEPT !.profiles = P] /\ ReadUpTo(c, k + 1) = [h EXCEPT !.profiles = Q]
  BY DEF ReadUpTo
<1>6. x.profiles = P /\ Len(P) = n /\ P[k + 1] = D /\ DOMAIN P = 1..n
  BY <1>1, <1>4, <1>5 DEF Configs
<1>7. k < Settings!Count(x)
  BY <1>6 DEF Settings!Count
<1>8. y = [x EXCEPT !.profiles = [P EXCEPT ![k + 1] = E]]
  <2>. DEFINE t == Settings!Trimmed(p.name)
  <2>1. Settings!AsWritten(p.name) = IF t = "" THEN D.name ELSE t
    BY <1>3, NamesTrimmed
  <2>2. CASE t = ""
    <3>1. y = x
      BY <2>2 DEF Settings!SetName
    <3>2. E = D
      <4>1. Settings!AsWritten(p.name) = D.name
        BY <2>1, <2>2
      <4>. HIDE DEF t
      <4>. QED
        BY <1>2, <4>1 DEF Settings!Profile
    <3>3. [P EXCEPT ![k + 1] = E] = P
      <4>. HIDE DEF E, S, D, n
      <4>. QED
        BY <1>6, <3>2
    <3>4. [x EXCEPT !.profiles = P] = x
      <4>. HIDE DEF P
      <4>. QED
        BY <1>4, <1>5 DEF Configs
    <3>. QED
      BY <3>1, <3>3, <3>4
  <2>3. CASE t # ""
    <3>1. y = [x EXCEPT !.profiles[k + 1]["name"] = t]
      BY <1>7, <2>3 DEF Settings!SetName, Settings!SetProfile
    <3>2. E = [D EXCEPT !.name = t]
      BY <2>1, <2>3
    <3>3. [x EXCEPT !.profiles[k + 1]["name"] = t]
            = [x EXCEPT !.profiles = [x.profiles EXCEPT ![k + 1] = [x.profiles[k + 1] EXCEPT !.name = t]]]
      <4>. HIDE DEF x, t
      <4>. QED
        OBVIOUS
    <3>. HIDE DEF x, P, E, D, t
    <3>. QED
      BY <1>6, <3>1, <3>2, <3>3
  <2>. QED
    BY <2>2, <2>3
<1>9. [E EXCEPT !.tunnel = p.tunnel, !.bsd = p.bsd, !.udp_port = p.udp_port, !.tcp_port = p.tcp_port] = S(k + 1)
  <2>1. S(k + 1) = [p EXCEPT !.name = Settings!AsWritten(p.name)]
    BY DEF StoredProfile, Settings!AsStored
  <2>. HIDE DEF p, D, S
  <2>. QED
    BY <1>2, <2>1 DEF Settings!Profile
<1>10. Settings!ReadProfile(x, k, p)
         = [y EXCEPT !.profiles[k + 1].tunnel = p.tunnel, !.profiles[k + 1].bsd = p.bsd,
                     !.profiles[k + 1].udp_port = p.udp_port, !.profiles[k + 1].tcp_port = p.tcp_port]
  BY <1>7 DEF Settings!ReadProfile
<1>. DEFINE Z == [P EXCEPT ![k + 1] = E]
<1>11. y = [h EXCEPT !.profiles = Z] /\ Z[k + 1] = E /\ DOMAIN Z = 1..n
  <2>. HIDE DEF y, E, P
  <2>. QED
    BY <1>1, <1>4, <1>5, <1>6, <1>8 DEF Configs
<1>. DEFINE E1 == [E EXCEPT !.tunnel = p.tunnel]
            E2 == [E1 EXCEPT !.bsd = p.bsd]
            E3 == [E2 EXCEPT !.udp_port = p.udp_port]
            E4 == [E3 EXCEPT !.tcp_port = p.tcp_port]
            With(e) == [Z EXCEPT ![k + 1] = e]
            y1 == [y EXCEPT !.profiles[k + 1].tunnel = p.tunnel]
            y2 == [y1 EXCEPT !.profiles[k + 1].bsd = p.bsd]
            y3 == [y2 EXCEPT !.profiles[k + 1].udp_port = p.udp_port]
            y4 == [y3 EXCEPT !.profiles[k + 1].tcp_port = p.tcp_port]
<1>12. ASSUME NEW e PROVE k + 1 \in DOMAIN With(e) /\ With(e)[k + 1] = e
                          /\ \A g : [With(e) EXCEPT ![k + 1] = g] = With(g)
  <2>. HIDE DEF Z, E, n
  <2>. QED
    BY <1>1, <1>11
<1>13. y1 = [h EXCEPT !.profiles = With(E1)]
  <2>. HIDE DEF y, E, P, Z, p, n, h
  <2>. QED
    BY <1>1, <1>4, <1>11, FieldOf
<1>14. y2 = [h EXCEPT !.profiles = With(E2)]
  <2>1. k + 1 \in DOMAIN With(E1) /\ With(E1)[k + 1] = E1
    BY <1>12
  <2>2. [With(E1) EXCEPT ![k + 1] = E2] = With(E2)
    BY <1>12
  <2>. HIDE DEF y1, E1, n, h, With
  <2>3. [y1 EXCEPT !.profiles[k + 1]["bsd"] = p.bsd]
          = [h EXCEPT !.profiles = [With(E1) EXCEPT ![k + 1] = [With(E1)[k + 1] EXCEPT !["bsd"] = p.bsd]]]
    BY ONLY <1>4, <1>13, <2>1, FieldOf
  <2>. QED
    BY <2>1, <2>2, <2>3
<1>15. y3 = [h EXCEPT !.profiles = With(E3)]
  <2>1. k + 1 \in DOMAIN With(E2) /\ With(E2)[k + 1] = E2
    BY <1>12
  <2>2. [With(E2) EXCEPT ![k + 1] = E3] = With(E3)
    BY <1>12
  <2>. HIDE DEF y2, E2, n, h, With
  <2>3. [y2 EXCEPT !.profiles[k + 1]["udp_port"] = p.udp_port]
          = [h EXCEPT !.profiles = [With(E2) EXCEPT ![k + 1] = [With(E2)[k + 1] EXCEPT !["udp_port"] = p.udp_port]]]
    BY ONLY <1>4, <1>14, <2>1, FieldOf
  <2>. QED
    BY <2>1, <2>2, <2>3
<1>16. y4 = [h EXCEPT !.profiles = With(E4)]
  <2>1. k + 1 \in DOMAIN With(E3) /\ With(E3)[k + 1] = E3
    BY <1>12
  <2>2. [With(E3) EXCEPT ![k + 1] = E4] = With(E4)
    BY <1>12
  <2>. HIDE DEF y3, E3, n, h, With
  <2>3. [y3 EXCEPT !.profiles[k + 1]["tcp_port"] = p.tcp_port]
          = [h EXCEPT !.profiles = [With(E3) EXCEPT ![k + 1] = [With(E3)[k + 1] EXCEPT !["tcp_port"] = p.tcp_port]]]
    BY ONLY <1>4, <1>15, <2>1, FieldOf
  <2>. QED
    BY <2>1, <2>2, <2>3
<1>17. With(S(k + 1)) = Q
  <2>1. With(S(k + 1)) = [P EXCEPT ![k + 1] = S(k + 1)]
    <3>. HIDE DEF E, S, P
    <3>. QED
      OBVIOUS
  <2>2. \A i \in 1..n : [P EXCEPT ![k + 1] = S(k + 1)][i] = Q[i]
    <3>. SUFFICES ASSUME NEW i \in 1..n PROVE [P EXCEPT ![k + 1] = S(k + 1)][i] = Q[i]
      OBVIOUS
    <3>. HIDE DEF S, D, n
    <3>1. CASE i = k + 1
      BY <1>1, <3>1
    <3>2. CASE i # k + 1
      <4>1. i <= k <=> i <= k + 1
        BY <1>1, <3>2
      <4>. QED
        BY <3>2, <4>1
    <3>. QED
      BY <3>1, <3>2
  <2>3. [P EXCEPT ![k + 1] = S(k + 1)] = Q
    <3>. HIDE DEF S, D, n
    <3>. QED
      BY <2>2
  <2>. QED
    BY <2>1, <2>3
<1>18. E4 = S(k + 1)
  BY <1>9
<1>19. Settings!ReadProfile(x, k, p) = y4
  BY <1>10
<1>. HIDE DEF y4, E4, With, p, S, n, Q, h, x
<1>20. Settings!ReadProfile(x, k, p) = ReadUpTo(c, k + 1)
  BY <1>5, <1>16, <1>17, <1>18, <1>19
<1>. QED
  BY <1>20 DEF x, p

-----------------------------------------------------------------------------
(* The settings: what is read back is what was saved. *)

\* A set of numbers that is not empty has a least one.
LEMMA LeastNumber ==
  ASSUME NEW T, T \subseteq Nat, T # {}
  PROVE  \E n \in T : \A m \in T : n <= m
<1>1. IsWellFoundedOn(OpToRel(<, Nat), Nat)
  BY NatLessThanWellFounded
<1>2. PICK n \in T : \A m \in T : ~(<<m, n>> \in OpToRel(<, Nat))
  BY ONLY <1>1, WFMin, T \subseteq Nat, T # {}
<1>3. ASSUME NEW m \in T PROVE n <= m
  <2>1. m \in Nat /\ n \in Nat
    OBVIOUS
  <2>2. m < n => <<m, n>> \in OpToRel(<, Nat)
    BY <2>1 DEF OpToRel
  <2>3. ~(m < n)
    BY <1>2, <2>2, Zenon
  <2>. QED
    BY <2>1, <2>3
<1>. QED
  BY <1>3

\* The recursive function that reads one profile after the other.
LEMMA ReadFrom ==
  ASSUME NEW c \in Configs, NEW b, b = ReadUpTo(c, 0), NEW F,
         F = CHOOSE f : f = [i \in 0..Settings!Count(c) |->
                               IF i = 0 THEN b
                               ELSE Settings!ReadProfile(f[i - 1], i - 1, c.profiles[i])]
  PROVE  F[Settings!Count(c)] = ReadUpTo(c, Settings!Count(c))
<1>. DEFINE n == Settings!Count(c)
            Following(v, i) == IF i = 0 THEN b ELSE Settings!ReadProfile(v, i - 1, c.profiles[i])
            Is(f) == f = [i \in 0..n |-> Following(f[i - 1], i)]
            W == [i \in 0..n |-> ReadUpTo(c, i)]
<1>0. n \in Nat /\ n > 0
  BY ConfigIs
<1>1. ASSUME NEW i \in 0..n, i # 0 PROVE Settings!ReadProfile(ReadUpTo(c, i - 1), i - 1, c.profiles[i]) = ReadUpTo(c, i)
  <2>1. i - 1 \in Nat /\ i - 1 < n /\ (i - 1) + 1 = i
    BY <1>0, <1>1
  <2>2. Settings!ReadProfile(ReadUpTo(c, i - 1), i - 1, c.profiles[(i - 1) + 1]) = ReadUpTo(c, (i - 1) + 1)
    BY <2>1, ReadNext
  <2>. QED
    BY <2>1, <2>2
<1>2. Is(W)
  <2>1. ASSUME NEW i \in 0..n PROVE W[i] = Following(W[i - 1], i)
    <3>1. CASE i = 0
      BY <3>1
    <3>2. CASE i # 0
      <4>1. i - 1 \in 0..n
        BY <1>0, <3>2
      <4>2. W[i - 1] = ReadUpTo(c, i - 1) /\ W[i] = ReadUpTo(c, i)
        BY <4>1
      <4>. HIDE DEF W, n
      <4>. QED
        BY <1>1, <3>2, <4>2
    <3>. QED
      BY <3>1, <3>2
  <2>. HIDE DEF Following, n
  <2>. QED
    BY <2>1
<1>3. F = CHOOSE f : Is(f)
  OBVIOUS
<1>. HIDE DEF Is
<1>4. Is(F)
  BY <1>2, <1>3
<1>5. \A i \in 0..n : F[i] = Following(F[i - 1], i)
  <2>. HIDE DEF Following, n
  <2>. QED
    BY <1>4 DEF Is
<1>6. ASSUME NEW o \in 0..n, F[o] # ReadUpTo(c, o) PROVE FALSE
  <2>. DEFINE Bad == {i \in 0..n : F[i] # ReadUpTo(c, i)}
  <2>1. PICK i \in Bad : \A m \in Bad : i <= m
    <3>1. Bad \subseteq Nat /\ o \in Bad
      BY <1>0, <1>6
    <3>. HIDE DEF Bad
    <3>. QED
      BY <3>1, LeastNumber
  <2>2. i \in 0..n /\ F[i] # ReadUpTo(c, i)
    OBVIOUS
  <2>3. i # 0
    <3>1. ASSUME i = 0 PROVE FALSE
      <4>1. F[i] = Following(F[i - 1], i)
        BY <1>5, <2>2
      <4>. QED
        BY <2>2, <3>1, <4>1
    <3>. QED
      BY <3>1
  <2>4. i - 1 \in 0..n /\ i - 1 < i
    BY <1>0, <2>2, <2>3
  <2>5. i - 1 \notin Bad
    <3>. HIDE DEF Bad
    <3>. QED
      BY <1>0, <2>1, <2>2, <2>4
  <2>6. F[i - 1] = ReadUpTo(c, i - 1)
    BY <2>4, <2>5
  <2>7. F[i] = Settings!ReadProfile(F[i - 1], i - 1, c.profiles[i])
    <3>1. F[i] = Following(F[i - 1], i)
      BY <1>5, <2>2
    <3>. QED
      BY <2>3, <3>1
  <2>. QED
    BY <1>1, <2>2, <2>3, <2>6, <2>7
<1>. QED
  BY <1>0, <1>6

\* A start reads every setting back, the names as they are written.
LEMMA ReadBackIs ==
  ASSUME NEW c \in Configs
  PROVE  Settings!ReadBack(c) = Settings!Stored(c)
<1>. DEFINE n == Settings!Count(c)
            h == Settings!Header(c)
            q == [i \in 1..n |-> StoredProfile(c, i)]
            r == Settings!ReadProfiles(Settings!SetCount(h, n), c)
<1>1. r = ReadUpTo(c, n)
  <2>. DEFINE b == Settings!SetCount(h, n)
              F == CHOOSE f : f = [i \in 0..n |-> IF i = 0 THEN b
                                                  ELSE Settings!ReadProfile(f[i - 1], i - 1, c.profiles[i])]
  <2>1. r = F[n]
    BY DEF Settings!ReadProfiles
  <2>2. b = ReadUpTo(c, 0)
    BY ReadFromCount
  <2>3. F = CHOOSE f : f = [i \in 0..n |-> IF i = 0 THEN b
                                           ELSE Settings!ReadProfile(f[i - 1], i - 1, c.profiles[i])]
    OBVIOUS
  <2>. HIDE DEF b, F, r
  <2>4. F[n] = ReadUpTo(c, n)
    BY ONLY <2>2, <2>3, ReadFrom, c \in Configs
  <2>. QED
    BY <2>1, <2>4
<1>2. ReadUpTo(c, n) = [h EXCEPT !.profiles = q]
  <2>. DEFINE q2 == [i \in 1..n |-> IF i <= n THEN StoredProfile(c, i) ELSE Settings!DefaultProfile]
  <2>1. q2 = q
    <3>1. \A i \in 1..n : i <= n
      BY ConfigIs
    <3>. QED
      BY <3>1
  <2>2. ReadUpTo(c, n) = [h EXCEPT !.profiles = q2]
    BY DEF ReadUpTo
  <2>. HIDE DEF q, q2, h, n
  <2>. QED
    BY <2>1, <2>2
<1>3. Settings!ReadBack(c) = [r EXCEPT !.unsigned = c.unsigned, !.flags = c.flags, !.outcome = c.outcome]
  BY DEF Settings!ReadBack, Settings!ReadRest
<1>4. Settings!Stored(c) = [c EXCEPT !.profiles = q]
  BY StoredIs
<1>5. h \in Configs /\ h.scenario = c.scenario /\ h.active = c.active
  BY HeaderIs
<1>. HIDE DEF q, h, r, n
<1>6. r = [h EXCEPT !.profiles = q]
  BY <1>1, <1>2
<1>7. [r EXCEPT !.unsigned = c.unsigned, !.flags = c.flags, !.outcome = c.outcome] = [c EXCEPT !.profiles = q]
  BY <1>5, <1>6 DEF Configs
<1>. QED
  BY <1>3, <1>4, <1>7

\* What was valid is valid as it is stored.
LEMMA StoredIsValid ==
  ASSUME NEW c \in Configs, Settings!ValidateRuntimeConfig(c)
  PROVE  Settings!ValidateRuntimeConfig(Settings!Stored(c)) /\ Settings!HasActive(Settings!Stored(c))
<1>. DEFINE d == Settings!Stored(c)
            n == Settings!Count(c)
            q == [i \in 1..n |-> StoredProfile(c, i)]
<1>0. n \in Nat
  BY ConfigIs
<1>1. d = [c EXCEPT !.profiles = q]
  BY StoredIs
<1>2. Len(q) = n
  BY <1>0
<1>. HIDE DEF q
<1>3. /\ d.profiles = q /\ d.scenario = c.scenario /\ d.active = c.active /\ d.unsigned = c.unsigned
      /\ d.flags = c.flags /\ d.outcome = c.outcome
  BY <1>1 DEF Configs
<1>. HIDE DEF d
<1>4. Settings!Count(d) = n
  BY <1>2, <1>3 DEF Settings!Count
<1>5. Settings!HasActive(c)
  BY DEF Settings!ValidateRuntimeConfig
<1>6. Settings!HasActive(d)
  BY <1>3, <1>4, <1>5 DEF Settings!HasActive
<1>7. ASSUME NEW i \in 1..n PROVE Settings!ValidProfile(d.profiles[i])
  <2>. DEFINE p == c.profiles[i]
  <2>1. Settings!ValidProfile(p)
    BY DEF Settings!ValidateRuntimeConfig
  <2>2. p \in Settings!Profile
    BY ConfigIs
  <2>3. d.profiles[i] = [p EXCEPT !.name = Settings!AsWritten(p.name)]
    BY <1>3 DEF q, StoredProfile, Settings!AsStored
  <2>. HIDE DEF p
  <2>4. Settings!AsWritten(p.name) # ""
    <3>1. p.name \in Settings!Name
      BY <2>2 DEF Settings!Profile
    <3>. QED
      BY <3>1, NamesTrimmed
  <2>. DEFINE e == d.profiles[i]
  <2>5. /\ e.name = Settings!AsWritten(p.name) /\ e.tunnel = p.tunnel /\ e.bsd = p.bsd
        /\ e.udp_port = p.udp_port /\ e.tcp_port = p.tcp_port
    BY <2>2, <2>3 DEF Settings!Profile
  <2>. QED
    BY <2>1, <2>4, <2>5 DEF Settings!ValidProfile
<1>8. Settings!ValidOutcome(d)
  <2>1. Settings!ValidOutcome(c)
    BY DEF Settings!ValidateRuntimeConfig
  <2>. QED
    BY <1>3, <2>1 DEF Settings!ValidOutcome, Settings!OneDatagram
<1>9. /\ n \in 1..MaximumProfiles /\ \A key \in Unsigned : Settings!Valid(key, c.unsigned[key])
      /\ c.scenario = "contract" => c.flags["clone"] \/ c.flags["mixed"]
  BY DEF Settings!ValidateRuntimeConfig
<1>10. Settings!ValidateRuntimeConfig(d)
  <2>. HIDE DEF n
  <2>. QED
    BY <1>3, <1>4, <1>6, <1>7, <1>8, <1>9 DEF Settings!ValidateRuntimeConfig
<1>. QED
  BY <1>6, <1>10 DEF d

\* What a start runs with has an active profile, whatever the file held.
LEMMA AcceptedIs ==
  ASSUME NEW c \in Configs
  PROVE  Settings!Accepted(c) \in Configs /\ Settings!HasActive(Settings!Accepted(c))
<1>1. CASE Settings!ValidateRuntimeConfig(c)
  BY <1>1 DEF Settings!Accepted, Settings!ValidateRuntimeConfig
<1>2. CASE ~Settings!ValidateRuntimeConfig(c)
  BY <1>2, DefaultsAre DEF Settings!Accepted
<1>. QED
  BY <1>1, <1>2

\* So a start after a save runs with what was stored, and never with the defaults.
LEMMA RestartReads ==
  ASSUME SettingsTyped, Settings!Restart
  PROVE  config' = Settings!Stored(file[1]) /\ config' \in Configs /\ Settings!HasActive(config')
<1>1. file # <<>> /\ config' = Settings!Accepted(Settings!ReadBack(file[1]))
  BY DEF Settings!Restart
<1>2. PICK c \in Configs : file = <<c>> /\ Settings!ValidateRuntimeConfig(c)
  BY <1>1 DEF SettingsTyped
<1>3. file[1] = c
  BY <1>2
<1>4. Settings!ReadBack(c) = Settings!Stored(c) /\ Settings!Stored(c) \in Configs
  BY ReadBackIs, StoredIs
<1>5. Settings!ValidateRuntimeConfig(Settings!Stored(c)) /\ Settings!HasActive(Settings!Stored(c))
  BY <1>2, StoredIsValid
<1>6. Settings!Accepted(Settings!Stored(c)) = Settings!Stored(c)
  BY <1>5 DEF Settings!Accepted
<1>. QED
  BY <1>1, <1>3, <1>4, <1>5, <1>6

-----------------------------------------------------------------------------
(* The settings: every step of the file and of the pages. *)

\* The invariant holds at the start.
LEMMA SettingsInit == Settings!Init => SettingsTyped
<1>. SUFFICES ASSUME Settings!Init PROVE SettingsTyped
  OBVIOUS
<1>1. reading = "reading" /\ config = Settings!CompiledRuntimeDefaults /\ file = <<>> /\ steps = 0
  BY DEF Settings!Init
<1>. QED
  BY <1>1, DefaultsAre, SettingsBounds DEF SettingsTyped

\* A read line leaves a configuration; an edit leaves one with an active profile.
LEMMA LineStep ==
  ASSUME SettingsTyped, Settings!ReadLine
  PROVE  config' \in Configs
<1>1. config \in Configs /\ Settings!Line(config)
  BY DEF SettingsTyped, Settings!ReadLine
<1>. QED
  BY <1>1, LineIs

LEMMA EditStep ==
  ASSUME SettingsTyped, Settings!Edit
  PROVE  config' \in Configs /\ Settings!HasActive(config')
<1>. DEFINE c == config
            n == Settings!Count(c)
            k == Settings!Active(c)
<1>1. c \in Configs /\ reading = "running" /\ Settings!HasActive(c)
  BY DEF SettingsTyped, Settings!Edit, Settings!EditSetting, Settings!SelectProfile,
         Settings!EditProfile, Settings!AddProfile, Settings!ResetToDefaults
<1>2. n \in 1..MaximumProfiles /\ n \in Nat /\ c.active \in Nat /\ c.active < n
  BY <1>1, ConfigIs, SettingsBounds DEF Settings!HasActive
<1>3. k \in 1..n
  BY <1>2 DEF Settings!Active
<1>4. c.profiles \in Profiles /\ c.profiles \in Seq(Settings!Profile) /\ Len(c.profiles) = n
  BY <1>1, ConfigIs
<1>5. CASE Settings!EditSetting
  <2>. DEFINE values == [key \in Unsigned |-> IF key \in Settings!Free THEN Settings!Value ELSE 0..Most]
  <2>1. values \in [Unsigned -> SUBSET Settings!Value]
    BY SettingsBounds DEF Settings!Value
  <2>2. Settings!Setting(c, values)
    BY <1>5 DEF Settings!EditSetting
  <2>. HIDE DEF values, c
  <2>3. config' \in Configs /\ config'.profiles = c.profiles /\ config'.active = c.active
    BY <1>1, <2>1, <2>2, SettingIs
  <2>. QED
    BY <1>1, <2>3 DEF Settings!HasActive, Settings!Count
<1>6. CASE Settings!SelectProfile
  <2>1. PICK i \in 0..n - 1 : config' = [c EXCEPT !.active = i]
    BY <1>6 DEF Settings!SelectProfile
  <2>. HIDE DEF c, n
  <2>2. i \in 0..MaximumProfiles /\ i < n
    BY <1>2, SettingsBounds
  <2>3. config' \in Configs
    BY <1>1, <2>1, <2>2, ConfigWith
  <2>4. config'.active = i /\ config'.profiles = c.profiles
    BY <1>1, <2>1 DEF Configs
  <2>. QED
    BY <2>2, <2>3, <2>4 DEF Settings!HasActive, Settings!Count, n
<1>7. CASE Settings!EditProfile
  <2>1. PICK f, v : /\ config' = [c EXCEPT !.profiles[k][f] = v]
                    /\ \/ f = "name" /\ v \in Settings!Name
                       \/ f \in {"tunnel", "bsd"} /\ v \in Settings!Address \cup {"text"}
                       \/ f \in {"udp_port", "tcp_port"} /\ v \in Settings!Port
    <3>. HIDE DEF k
    <3>1. CASE config' \in {[c EXCEPT !.profiles[k].name = name] : name \in Settings!Name}
      BY <3>1
    <3>2. CASE \E f \in {"tunnel", "bsd"} :
                 config' \in {[c EXCEPT !.profiles[k][f] = a] : a \in Settings!Address \cup {"text"}}
      BY <3>2
    <3>3. CASE \E f \in {"udp_port", "tcp_port"} :
                 config' \in {[c EXCEPT !.profiles[k][f] = p] : p \in Settings!Port}
      BY <3>3
    <3>. QED
      BY <1>7, <3>1, <3>2, <3>3 DEF Settings!EditProfile, k
  <2>. DEFINE q == [c.profiles EXCEPT ![k] = [c.profiles[k] EXCEPT ![f] = v]]
  <2>2. config' = [c EXCEPT !.profiles = q]
    BY <2>1
  <2>. HIDE DEF c, n, k
  <2>3. config' \in Configs
    BY <1>1, <1>3, <2>1, FieldSet DEF n
  <2>4. Len(q) = n
    BY <1>4
  <2>. HIDE DEF q
  <2>5. config'.active = c.active /\ config'.profiles = q
    BY <1>1, <2>2 DEF Configs
  <2>. QED
    BY <1>2, <2>3, <2>4, <2>5 DEF Settings!HasActive, Settings!Count
<1>8. CASE Settings!AddProfile
  <2>. DEFINE p == [c.profiles[k] EXCEPT !.name = "Lab"]
              q == Append(c.profiles, p)
  <2>1. n # MaximumProfiles /\ config' = [c EXCEPT !.profiles = q, !.active = n]
    BY <1>8 DEF Settings!AddProfile
  <2>. HIDE DEF c, n, k
  <2>2. p \in Settings!Profile
    <3>1. c.profiles[k] \in Settings!Profile
      BY <1>3, <1>4
    <3>. QED
      BY <3>1, ProfileWith DEF Settings!Name
  <2>. HIDE DEF p
  <2>3. q \in Seq(Settings!Profile) /\ Len(q) = n + 1
    BY <1>4, <2>2
  <2>. HIDE DEF q
  <2>4. n + 1 \in 1..MaximumProfiles /\ n \in 0..MaximumProfiles
    BY <1>2, <2>1, SettingsBounds
  <2>5. q \in Profiles
    BY <2>3, <2>4 DEF Profiles
  <2>6. config' \in Configs
    BY <1>1, <2>1, <2>4, <2>5, ConfigWith
  <2>7. config'.active = n /\ config'.profiles = q
    BY <1>1, <2>1 DEF Configs
  <2>8. n < n + 1
    BY <1>2
  <2>. QED
    BY <2>3, <2>6, <2>7, <2>8 DEF Settings!HasActive, Settings!Count
<1>9. CASE Settings!ResetToDefaults
  BY <1>9, DefaultsAre DEF Settings!ResetToDefaults
<1>. QED
  BY <1>5, <1>6, <1>7, <1>8, <1>9 DEF Settings!Edit

\* Every step keeps the invariant.
LEMMA SettingsNext == SettingsTyped /\ [Settings!Next]_(Settings!vars) => SettingsTyped'
<1>. SUFFICES ASSUME SettingsTyped, [Settings!Next]_(Settings!vars) PROVE SettingsTyped'
  OBVIOUS
<1>1. /\ steps' \in 0..MaxSteps
      /\ reading' \in {"reading", "running"}
  <2>1. steps \in 0..MaxSteps /\ reading \in {"reading", "running"}
    BY DEF SettingsTyped
  <2>. QED
    BY <2>1, SettingsBounds DEF Settings!Next, Settings!Step, Settings!vars, Settings!ReadLine,
       Settings!EndOfFile, Settings!Edit, Settings!EditSetting, Settings!SelectProfile,
       Settings!EditProfile, Settings!AddProfile, Settings!ResetToDefaults, Settings!Save, Settings!Restart
<1>2. CASE Settings!ReadLine
  <2>1. reading' = "reading" /\ file' = file
    BY <1>2 DEF Settings!ReadLine
  <2>2. config' \in Configs
    BY <1>2, LineStep
  <2>. QED
    BY <1>1, <2>1, <2>2 DEF SettingsTyped
<1>3. CASE Settings!EndOfFile
  <2>1. file' = file /\ config' = Settings!Accepted(config)
    BY <1>3 DEF Settings!EndOfFile
  <2>2. config' \in Configs /\ Settings!HasActive(config')
    BY <2>1, AcceptedIs DEF SettingsTyped
  <2>. QED
    BY <1>1, <2>1, <2>2 DEF SettingsTyped
<1>4. CASE Settings!Edit
  <2>1. file' = file
    BY <1>4 DEF Settings!Edit, Settings!EditSetting, Settings!SelectProfile,
       Settings!EditProfile, Settings!AddProfile, Settings!ResetToDefaults
  <2>2. config' \in Configs /\ Settings!HasActive(config')
    BY <1>4, EditStep
  <2>. QED
    BY <1>1, <2>1, <2>2 DEF SettingsTyped
<1>5. CASE Settings!Save
  <2>1. /\ reading = "running" /\ reading' = reading /\ config' = config
        /\ file' = <<config>> /\ Settings!ValidateRuntimeConfig(config)
    BY <1>5 DEF Settings!Save
  <2>. QED
    BY <1>1, <2>1 DEF SettingsTyped
<1>6. CASE Settings!Restart
  <2>1. file' = file
    BY <1>6 DEF Settings!Restart
  <2>2. config' \in Configs /\ Settings!HasActive(config')
    BY <1>6, RestartReads
  <2>. QED
    BY <1>1, <2>1, <2>2 DEF SettingsTyped
<1>7. CASE UNCHANGED Settings!vars
  BY <1>7 DEF SettingsTyped, Settings!vars
<1>. QED
  BY <1>2, <1>3, <1>4, <1>5, <1>6, <1>7 DEF Settings!Next

\* Configurations have the types of the model.
LEMMA ConfigTyped == \A c \in Configs : Settings!Config(c)
<1>. SUFFICES ASSUME NEW c \in Configs PROVE Settings!Config(c)
  OBVIOUS
<1>. QED
  BY ConfigIs DEF Settings!Config

\* The invariant says what the run checks.
LEMMA SettingsShown == SettingsTyped => Settings!TypeOK /\ Settings!ActiveExists
<1>. SUFFICES ASSUME SettingsTyped PROVE Settings!TypeOK /\ Settings!ActiveExists
  OBVIOUS
<1>1. Settings!Config(config)
  BY ConfigTyped DEF SettingsTyped
<1>2. file # <<>> => Settings!Config(file[1])
  <2>. SUFFICES ASSUME file # <<>> PROVE Settings!Config(file[1])
    OBVIOUS
  <2>1. PICK c \in Configs : file = <<c>>
    BY DEF SettingsTyped
  <2>. QED
    BY <2>1, ConfigTyped
<1>. QED
  BY <1>1, <1>2 DEF SettingsTyped, Settings!TypeOK, Settings!ActiveExists

\* The settings hold in the toolbox as a whole.
LEMMA SettingsInvariant == MCSpec => []SettingsTyped
<1>1. SettingsTyped /\ [MCNext]_allVars => SettingsTyped'
  BY AppStep, SettingsNext
<1>. QED
  BY <1>1, AppInit, SettingsInit, PTL DEF MCSpec

-----------------------------------------------------------------------------
(* The files and the IDs: ConfigStore. *)

\* The assumptions on the constants, one by one.
LEMMA IdFacts ==
  /\ MaxId \in Nat /\ MaxId > 1 /\ DefaultId \in Id /\ Id \subseteq Nat
  /\ None # Torn /\ None \notin Nat /\ Torn \notin Nat
<1>1. MaxId \in Nat /\ MaxId > 1
  <2>1. MaxId \in Nat /\ MaxId # 0 /\ MaxId # 1
    BY IdAssumption
  <2>. QED
    BY <2>1
<1>2. None # Torn /\ None \notin Nat /\ Torn \notin Nat
  BY IdAssumption
<1>. QED
  BY <1>1, <1>2 DEF DefaultId, Id

LEMMA NoFileIsNoId == None \notin Id /\ Torn \notin Id
  BY IdFacts

USE IdFacts, NoFileIsNoId

LEMMA InitType == Init => TypeOK
  BY DEF Init, TypeOK, Steps, Contents

LEMMA NextType == TypeOK /\ [Next]_vars => TypeOK'
<1>. SUFFICES ASSUME TypeOK, [Next]_vars PROVE TypeOK'
  OBVIOUS
<1>. USE DEF TypeOK, Steps, Contents, files
<1>1. CASE Load
  BY <1>1 DEF Load
<1>2. CASE ChooseId
  BY <1>2 DEF ChooseId
<1>3. CASE SaveSettings
  BY <1>3 DEF SaveSettings, Begin
<1>4. CASE StartRun
  <2>1. next_id + 1 \in Id
    BY <1>4 DEF StartRun, Exhausted, Id, TypeOK
  <2>. QED
    BY <1>4, <2>1 DEF StartRun, Reserved, Begin
<1>5. CASE Save
  <2>1. GivenBack \in Id
    BY DEF GivenBack
  <2>2. CASE Open
    BY <2>1, <2>2 DEF Open, Fail
  <2>3. CASE Write
    BY <2>1, <2>3 DEF Write, AfterWriteFailed, RemoveTemporary, Fail
  <2>4. CASE ClearBackup
    BY <2>1, <2>4 DEF ClearBackup, RemoveTemporary, Fail
  <2>5. CASE BackUp
    BY <2>1, <2>5 DEF BackUp, Kept, RemoveTemporary, Fail
  <2>6. CASE Replace
    BY <2>6 DEF Replace
  <2>7. CASE Restore
    BY <2>1, <2>7 DEF Restore, Restored, RemoveTemporary, Fail
  <2>8. CASE Finish
    BY <2>8 DEF Finish
  <2>. QED
    BY <1>5, <2>2, <2>3, <2>4, <2>5, <2>6, <2>7, <2>8 DEF Save
<1>6. CASE Leave
  BY <1>6 DEF Leave
<1>7. CASE PowerCut
  BY <1>7 DEF PowerCut
<1>8. CASE UNCHANGED vars
  <2>1. /\ pc' = pc /\ purpose' = purpose /\ next_id' = next_id /\ previous' = previous /\ moved' = moved
        /\ path' = path /\ tmp' = tmp /\ bak' = bak
        /\ started' = started /\ lost' = lost /\ before' = before /\ saved' = saved /\ unnoticed' = unnoticed
    BY <1>8 DEF vars
  <2>. HIDE DEF Steps, Contents
  <2>. QED
    BY <2>1
<1>. QED
  BY <1>1, <1>2, <1>3, <1>4, <1>5, <1>6, <1>7, <1>8 DEF Next

\* Files, IDs and positions have their types: in particular an ID that is
\* reserved or given back is one that a configuration may hold.
THEOREM TypeCorrect == Spec => []TypeOK
  BY InitType, NextType, PTL DEF Spec

-----------------------------------------------------------------------------
(* Where the previous file is at each step of a save.                        *)

\* Until the backup is made the file is where it was; then it is in the backup,
\* if there was one.
PreviousKept ==
  /\ pc \in {"open", "write", "clear backup", "back up"} => path = before
  /\ pc \in {"write", "clear backup", "back up"} => ~moved
  /\ pc \in {"replace", "restore", "remove backup"} => (moved <=> before # None)
  /\ pc \in {"replace", "restore"} => path = None /\ (moved => bak = before)
  /\ pc \in Steps /\ purpose = "run" => next_id = previous + 1

LEMMA InitKept == Init => PreviousKept
  BY DEF Init, PreviousKept, Steps

LEMMA NextKept == TypeOK /\ PreviousKept /\ [Next]_vars => PreviousKept'
<1>. SUFFICES ASSUME TypeOK, PreviousKept, [Next]_vars PROVE PreviousKept'
  OBVIOUS
<1>. USE DEF TypeOK, PreviousKept, Steps, Contents, files
<1>1. CASE Load \/ ChooseId \/ Leave \/ PowerCut
  BY <1>1 DEF Load, ChooseId, Leave, PowerCut
<1>2. CASE SaveSettings \/ StartRun
  BY <1>2 DEF SaveSettings, StartRun, Reserved, Begin
<1>3. CASE Open
  BY <1>3 DEF Open, Fail
<1>4. CASE Write
  BY <1>4 DEF Write, AfterWriteFailed, RemoveTemporary, Fail
<1>5. CASE ClearBackup
  BY <1>5 DEF ClearBackup, RemoveTemporary, Fail
<1>6. CASE BackUp
  <2>1. CASE path # None /\ bak' = path /\ path' = None /\ moved' = TRUE /\ pc' = "replace"
    BY <1>6, <2>1 DEF BackUp
  <2>2. CASE path = None /\ pc' = "replace" /\ UNCHANGED <<files, moved, next_id>>
    BY <1>6, <2>2 DEF BackUp
  <2>3. CASE pc' = "idle"
    BY <1>6, <2>3 DEF BackUp
  <2>. QED
    BY <1>6, <2>1, <2>2, <2>3 DEF BackUp, Kept, Fail
<1>7. CASE Replace
  BY <1>7 DEF Replace
<1>8. CASE Restore
  BY <1>8 DEF Restore, Fail
<1>9. CASE Finish
  BY <1>9 DEF Finish
<1>10. CASE UNCHANGED vars
  BY <1>10 DEF vars
<1>. QED
  BY <1>1, <1>2, <1>3, <1>4, <1>5, <1>6, <1>7, <1>8, <1>9, <1>10 DEF Next, Save

LEMMA KeptAlways == Spec => [](TypeOK /\ PreviousKept)
  BY InitType, NextType, InitKept, NextKept, PTL DEF Spec

\* A run that is refused, at whichever step of its save, leaves its ID available
\* and the previous file in place or in the backup; with every fault.
THEOREM FailureKeeps == Spec => FailureKeepsId
<1>1. TypeOK /\ PreviousKept /\ [Next]_vars => [FailureKept]_vars
  <2>. SUFFICES ASSUME TypeOK, PreviousKept, Next, RunRefused PROVE next_id' = previous /\ FileKept
    BY DEF FailureKept
  <2>. USE DEF TypeOK, PreviousKept, Steps, Contents, RunRefused, FileKept, Fail, GivenBack, files
  <2>1. CASE Load \/ ChooseId \/ SaveSettings \/ StartRun \/ Leave \/ PowerCut
    BY <2>1 DEF Load, ChooseId, SaveSettings, StartRun, Begin, Leave, PowerCut
  <2>2. CASE Open \/ Write
    BY <2>2 DEF Open, Write, AfterWriteFailed
  <2>3. CASE ClearBackup \/ BackUp
    BY <2>3 DEF ClearBackup, BackUp
  <2>4. CASE Replace \/ Finish
    BY <2>4 DEF Replace, Finish
  <2>5. CASE Restore
    BY <2>5 DEF Restore, Restored
  <2>. QED
    BY <2>1, <2>2, <2>3, <2>4, <2>5 DEF Next, Save
<1>. QED
  BY <1>1, KeptAlways, PTL DEF Spec, FailureKeepsId

-----------------------------------------------------------------------------
(* What is written, whole unless an early write failed unnoticed.            *)

\* From the end of the write to the replacement the new file is there, and after
\* it is in place.
NewWhole ==
  /\ pc = "write" => tmp = Torn
  /\ pc \in {"clear backup", "back up", "replace", "restore"} => tmp \in {next_id, Torn}
  /\ pc = "remove backup" => path \in {next_id, Torn}
  /\ ~unnoticed =>
       /\ path # Torn /\ bak # Torn
       /\ pc \in {"clear backup", "back up", "replace", "restore"} => tmp # Torn

LEMMA InitWhole == Init => NewWhole
  BY DEF Init, NewWhole

LEMMA NextWhole == TypeOK /\ PreviousKept /\ NewWhole /\ [Next]_vars => NewWhole'
<1>. SUFFICES ASSUME TypeOK, PreviousKept, NewWhole, [Next]_vars PROVE NewWhole'
  OBVIOUS
<1>. USE DEF TypeOK, PreviousKept, NewWhole, Steps, Contents, Id, files
<1>1. CASE Load \/ ChooseId \/ SaveSettings \/ StartRun \/ Leave \/ PowerCut
  BY <1>1 DEF Load, ChooseId, SaveSettings, StartRun, Begin, Leave, PowerCut
<1>2. CASE Open
  BY <1>2 DEF Open, Fail
<1>3. CASE Write
  BY <1>3 DEF Write, AfterWriteFailed, Fail
<1>4. CASE ClearBackup
  BY <1>4 DEF ClearBackup, Fail
<1>5. CASE BackUp
  BY <1>5 DEF BackUp, Kept, Fail
<1>6. CASE Replace
  BY <1>6 DEF Replace
<1>7. CASE Restore
  BY <1>7 DEF Restore, Restored, Fail
<1>8. CASE Finish
  BY <1>8 DEF Finish
<1>9. CASE UNCHANGED vars
  BY <1>9 DEF vars
<1>. QED
  BY <1>1, <1>2, <1>3, <1>4, <1>5, <1>6, <1>7, <1>8, <1>9 DEF Next, Save

LEMMA WholeAlways == Spec => [](TypeOK /\ PreviousKept /\ NewWhole)
  BY InitWhole, NextWhole, NextType, KeptAlways, PTL DEF Spec

-----------------------------------------------------------------------------
(* The copy that survives.                                                   *)

WholeCopy == ~unnoticed => CopySurvives

LEMMA NextCopy == TypeOK /\ PreviousKept /\ NewWhole /\ WholeCopy /\ [Next]_vars => WholeCopy'
<1>. SUFFICES ASSUME TypeOK, PreviousKept, NewWhole, WholeCopy, [Next]_vars, ~unnoticed', before' \in Id
              PROVE  path' \in Id \/ bak' \in Id \/ tmp' \in Id
  BY DEF WholeCopy, CopySurvives
<1>1. path \in Id \/ bak \in Id \/ tmp \in Id \/ before \notin Id \/ unnoticed
  BY DEF WholeCopy, CopySurvives
<1>. USE DEF TypeOK, PreviousKept, NewWhole, Steps, Contents, files
<1>2. CASE Load \/ ChooseId \/ Leave \/ PowerCut
  BY <1>1, <1>2 DEF Load, ChooseId, Leave, PowerCut
<1>3. CASE SaveSettings \/ StartRun
  BY <1>3 DEF SaveSettings, StartRun, Begin
<1>4. CASE Open \/ Write
  BY <1>4 DEF Open, Write, AfterWriteFailed
<1>5. CASE ClearBackup
  BY <1>5 DEF ClearBackup
<1>6. CASE BackUp
  BY <1>6 DEF BackUp, Kept, Id
<1>7. CASE Replace
  BY <1>7 DEF Replace
<1>8. CASE Restore
  BY <1>8 DEF Restore, Restored, Id
<1>9. CASE Finish
  BY <1>9 DEF Finish
<1>10. CASE UNCHANGED vars
  BY <1>1, <1>10 DEF vars
<1>. QED
  BY <1>2, <1>3, <1>4, <1>5, <1>6, <1>7, <1>8, <1>9, <1>10 DEF Next, Save

-----------------------------------------------------------------------------
(* IDs.                                                                      *)

\* IDs of runs lie below what the file, its backup during a save, and the
\* session hold, unless a start did not find the file.
Below(x) == \A id \in started : id < x
RunsBelow ==
  /\ ~saved => started = {}
  /\ ~lost =>
       /\ path \in Id => Below(path)
       /\ pc \in {"replace", "restore"} /\ moved /\ bak \in Id => Below(bak)
       /\ pc = "idle" => Below(next_id)
       /\ pc \in Steps => Below(next_id)
       /\ pc \in Steps /\ purpose = "run" => Below(previous)

\* One more ID below the next one.
LEMMA Successor ==
  ASSUME NEW S \in SUBSET Nat, NEW n \in Nat, \A id \in S : id < n
  PROVE  (\A id \in S : id < n + 1) /\ (\A id \in S \cup {n} : id < n + 1)
<1>1. \A id \in S : id \in Nat /\ id < n
  OBVIOUS
<1>2. \A id \in S \cup {n} : id \in S \/ id = n
  OBVIOUS
<1>. QED
  BY <1>1, <1>2

LEMMA InitBelow == Init => RunsBelow
  BY DEF Init, RunsBelow, Below, Id

LEMMA NextBelow == TypeOK /\ PreviousKept /\ NewWhole /\ RunsBelow /\ [Next]_vars => RunsBelow'
<1>. SUFFICES ASSUME TypeOK, PreviousKept, NewWhole, RunsBelow, [Next]_vars PROVE RunsBelow'
  OBVIOUS
<1>. USE DEF TypeOK, PreviousKept, NewWhole, RunsBelow, Below, Steps, Contents, Id, files
<1>1. CASE Load
  BY <1>1 DEF Load, DefaultId
<1>2. CASE ChooseId
  BY <1>2 DEF ChooseId
<1>3. CASE Leave \/ PowerCut
  BY <1>3 DEF Leave, PowerCut
<1>4. CASE SaveSettings
  BY <1>4 DEF SaveSettings, Begin
<1>5. CASE StartRun
  <2>1. /\ next_id' = next_id + 1 /\ previous' = next_id /\ pc = "idle" /\ pc' = "open"
        /\ UNCHANGED <<files, started, lost, saved>>
    BY <1>5 DEF StartRun, Reserved, Begin
  <2>2. started \in SUBSET Nat /\ next_id \in Nat
    OBVIOUS
  <2>3. ~lost => \A id \in started : id < next_id
    BY <2>1
  <2>4. ~lost => \A id \in started : id < next_id + 1
    BY <2>2, <2>3, Successor
  <2>. QED
    BY <2>1, <2>3, <2>4
<1>6. CASE Open \/ Write
  BY <1>6 DEF Open, Write, AfterWriteFailed, Fail, GivenBack
<1>7. CASE ClearBackup
  BY <1>7 DEF ClearBackup, Fail, GivenBack
<1>8. CASE BackUp
  <2>1. CASE path # None /\ bak' = path /\ path' = None /\ moved' = TRUE /\ pc' = "replace" /\ next_id' = next_id
    BY <1>8, <2>1 DEF BackUp
  <2>2. CASE path = None /\ pc' = "replace" /\ UNCHANGED <<files, moved, next_id>>
    BY <1>8, <2>2 DEF BackUp
  <2>3. CASE Fail /\ UNCHANGED <<path, bak, moved>>
    BY <1>8, <2>3 DEF BackUp, Fail, GivenBack
  <2>. QED
    BY <1>8, <2>1, <2>2, <2>3 DEF BackUp, Kept
<1>9. CASE Replace
  BY <1>9 DEF Replace
<1>10. CASE Restore
  BY <1>10 DEF Restore, Restored, Fail, GivenBack
<1>11. CASE Finish
  <2>1. /\ pc = "remove backup" /\ pc' = "idle" /\ saved' = TRUE /\ UNCHANGED <<next_id, path, lost>>
        /\ started' = IF purpose = "run" THEN started \cup {previous} ELSE started
    BY <1>11 DEF Finish
  <2>2. ~lost => \A id \in started' : id < next_id
    <3>1. CASE purpose = "run"
      <4>1. next_id = previous + 1 /\ started' = started \cup {previous}
        BY <2>1, <3>1
      <4>2. started \in SUBSET Nat /\ previous \in Nat
        OBVIOUS
      <4>3. ~lost => \A id \in started : id < previous
        BY <2>1, <3>1
      <4>. QED
        BY <4>1, <4>2, <4>3, Successor
    <3>2. CASE purpose # "run"
      BY <2>1, <3>2
    <3>. QED
      BY <3>1, <3>2
  <2>. QED
    BY <2>1, <2>2
<1>12. CASE UNCHANGED vars
  BY <1>12 DEF vars
<1>. QED
  BY <1>1, <1>2, <1>3, <1>4, <1>5, <1>6, <1>7, <1>8, <1>9, <1>10, <1>11, <1>12 DEF Next, Save

\* A start never finds an ID that a run was started with, as long as every start
\* found the file; and with every fault but the unnoticed write the previous or
\* the new configuration is on disk in whole, wherever a save failed or was cut.
THEOREM FilesAlwaysSurvive == Spec => []FilesSurvive
<1>1. Init => WholeCopy /\ RunsBelow
  BY InitBelow DEF Init, WholeCopy, CopySurvives, Id
<1>2. NewWhole /\ WholeCopy /\ RunsBelow => FilesSurvive
  BY DEF NewWhole, WholeCopy, RunsBelow, Below, FilesSurvive, ReservedOnDisk, NeverTorn
<1>. QED
  BY <1>1, <1>2, NextCopy, NextBelow, WholeAlways, PTL DEF Spec

-----------------------------------------------------------------------------
(* The three parts in the toolbox. *)

LEMMA StoreRuns == MCSpec => Spec
BY AppInit, AppStep, PTL DEF MCSpec, Spec

\* No ID is used twice and no configuration is lost in the toolbox as a whole.
THEOREM AppFilesSurvive == MCSpec => []FilesSurvive
BY StoreRuns, FilesAlwaysSurvive, PTL

\* The state of the three parts has its types, and the pages always have an
\* active profile to edit and to copy: AddProfile (app_ui.cpp:604) does not look.
THEOREM TypesAreCorrect == MCSpec => []TypesOK
<1>1. TypeOK /\ SettingsTyped /\ SessionInv => TypesOK
  BY TypedIsType, SettingsShown DEF TypesOK, SessionInv, Typed
<1>. QED
  BY <1>1, StoreRuns, TypeCorrect, SettingsInvariant, SessionInvariant, PTL

\* A run that could not be saved leaves its ID and the previous file, a start
\* after a save reads back what was written, and once the main loop is left no
\* late log line or result touches model or pages (StartRun, SaveRuntimeConfig
\* and LoadRuntimeConfig, ~UiModel and its callbacks).
THEOREM StepsAreAlwaysAllowed == MCSpec => StepsAreAllowed
<1>1. SettingsTyped => Settings!RestartKeeps
  BY RestartReads DEF Settings!RestartKeeps
<1>2. [FailureKept]_vars => FailureKept
  BY DEF FailureKept, RunRefused, Steps, vars
<1>. QED
  BY <1>1, <1>2, StoreRuns, FailureKeeps, SettingsInvariant, LoopIsOver, PTL
  DEF StepsAreAllowed, FailureKeepsId
=============================================================================
