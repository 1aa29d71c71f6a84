--------------------------- MODULE ToolboxSession ---------------------------
(***************************************************************************)
(* The toolbox while it is open: the UI thread, the worker that runs the   *)
(* scenarios, and the log they share (toolbox/src/app_ui.cpp, logger.cpp). *)
(*                                                                         *)
(* A log line is stored under the log's lock and then handed to the sink,  *)
(* which queues a refresh for the UI thread (brls::sync).  A run is a task *)
(* of the one worker (brls::async); its end is queued for the UI thread    *)
(* too.  Only the UI thread touches the model and the pages.               *)
(*                                                                         *)
(* Borealis is external: a FIFO of tasks with one worker, a FIFO of        *)
(* callbacks that its main loop runs, a tab that builds its page anew when *)
(* it is selected.  A run is its log lines.  A view is what it shows:      *)
(* a log panel the number of lines, a button whether it can be pressed.    *)
(***************************************************************************)
EXTENDS Naturals, Sequences

CONSTANTS
  MaxPresses,   \* bound: runs and bind bumps the user asks for
  MaxRunLines   \* bound: lines a scenario logs

\* What a module that instantiates this one assumes.
Parameters == {MaxPresses, MaxRunLines} \subseteq Nat

Thread == {"ui", "worker"}
Runnable == {"main", "scenarios"}           \* pages with a run button
Page == Runnable \cup {"logs", "other"}

VARIABLES
  ui,          \* what the UI thread is at, see UiStep
  worker,      \* "idle", "run" or "report"
  writer,      \* per thread: "none", "store" or "sink", where WriteFormatted is
  tasks,       \* external: runs queued for the worker, the page each is from
  callbacks,   \* external: callbacks queued for the UI thread
  running,     \* the page whose run the worker is at
  page,        \* the page shown
  run_active, active,  \* of the UiModel
  button,      \* whether the run button of the page shown can be pressed
  shown,       \* lines the log panel of the page shown goes up to
  cleared,     \* cleared_ of that panel
  lines,       \* g_recent_lines.size()
  sink,        \* g_ui_sink is set
  log_open,    \* log_file is open
  presses, run_lines   \* bounds

views == <<page, button, shown, cleared>>
log == <<lines, sink, log_open>>
bounds == <<presses, run_lines>>
vars == <<ui, worker, writer, tasks, callbacks, running, run_active, active, views, log, bounds>>

InLoop == {"loop", "save", "request", "bump"}
UiStep == InLoop \cup {"init", "failed", "left", "unsink", "exit line", "close", "exited"}

Init ==
  /\ ui = "init" /\ worker = "idle" /\ writer = [t \in Thread |-> "none"]
  /\ tasks = <<>> /\ callbacks = <<>> /\ running = "main"
  /\ page = "other" /\ run_active = FALSE /\ active = TRUE
  /\ button = FALSE /\ shown = 0 /\ cleared = FALSE
  /\ lines = 0 /\ sink = TRUE /\ log_open = TRUE /\ presses = 0 /\ run_lines = 0

-----------------------------------------------------------------------------
(* WriteFormatted, on either thread. *)

HasPanel == page # "other"
Refreshed == IF active /\ HasPanel /\ ~cleared THEN lines ELSE shown   \* RefreshLogViews

Free(t) == writer[t] = "none"
Write(t) == writer' = [writer EXCEPT ![t] = "store"]

\* Under the lock: the line is kept and written, the sink copied.
Store(t) ==
  /\ ui # "exited" /\ writer[t] = "store"
  /\ lines' = lines + 1
  /\ writer' = [writer EXCEPT ![t] = IF sink THEN "sink" ELSE "none"]
  /\ UNCHANGED <<ui, worker, tasks, callbacks, running, run_active, active, views, sink, log_open, bounds>>

\* The copy is called after the lock, also when SetUiSink has removed the sink.
CallSink(t) ==
  /\ ui # "exited" /\ writer[t] = "sink"
  /\ writer' = [writer EXCEPT ![t] = "none"]
  /\ callbacks' = Append(callbacks, "refresh")
  /\ UNCHANGED <<ui, worker, tasks, running, run_active, active, views, log, bounds>>

-----------------------------------------------------------------------------
(* The UI thread. *)

Filled == lines

OpenPage(p) ==
  /\ page' = p /\ cleared' = FALSE
  /\ button' = (p \in Runnable /\ ~run_active)
  /\ shown' = IF p = "other" THEN 0 ELSE Filled

Start ==
  /\ ui = "init" /\ ui' = "loop" /\ OpenPage("main")
  /\ UNCHANGED <<worker, writer, tasks, callbacks, running, run_active, active, log, bounds>>
StartFails ==
  /\ ui = "init" /\ ui' = "failed" /\ Write("ui")
  /\ UNCHANGED <<worker, tasks, callbacks, running, run_active, active, views, log, bounds>>

SelectTab ==
  /\ ui = "loop" /\ \E p \in Page \ {page} : OpenPage(p)
  /\ UNCHANGED <<ui, worker, writer, tasks, callbacks, running, run_active, active, log, bounds>>

Clear ==
  /\ ui = "loop" /\ page \in Runnable /\ cleared' = TRUE
  /\ UNCHANGED <<ui, worker, writer, tasks, callbacks, running, run_active, active, page, button, shown, log, bounds>>

Press == presses < MaxPresses /\ presses' = presses + 1 /\ UNCHANGED run_lines

ButtonWhileRunning == FALSE

\* ShowRecent and the refresh of the page the button is on.
ShowRun ==
  /\ run_active' = TRUE /\ button' = ButtonWhileRunning
  /\ cleared' = FALSE /\ shown' = lines /\ UNCHANGED page

\* MainPage::StartRun: the configuration is saved first, which logs.
RunMain ==
  /\ ui = "loop" /\ page = "main" /\ ~run_active /\ Press
  /\ ui' = "save" /\ Write("ui")
  /\ UNCHANGED <<worker, tasks, callbacks, running, run_active, active, views, log>>
Saved ==
  /\ ui = "save" /\ Free("ui")
  /\ \/ ui' = "loop" /\ UNCHANGED <<writer, run_active, views>>
     \/ ui' = "request" /\ Write("ui") /\ ShowRun
  /\ UNCHANGED <<worker, tasks, callbacks, running, active, log, bounds>>

\* ScenariosPage::StartRun.
RunScenarios ==
  /\ ui = "loop" /\ page = "scenarios" /\ ~run_active /\ Press
  /\ ui' = "request" /\ Write("ui") /\ ShowRun
  /\ UNCHANGED <<worker, tasks, callbacks, running, active, log>>

Requested ==
  /\ ui = "request" /\ Free("ui")
  /\ tasks' = Append(tasks, page) /\ ui' = "loop"
  /\ UNCHANGED <<worker, writer, callbacks, running, run_active, active, views, log, bounds>>

\* RequestUdpBindBump, from any page; the other lines it may log are alike.
BindBump ==
  /\ ui = "loop" /\ Press /\ ui' = "bump" /\ Write("ui")
  /\ UNCHANGED <<worker, tasks, callbacks, running, run_active, active, views, log>>
Bumped ==
  /\ ui = "bump" /\ Free("ui") /\ ui' = "loop" /\ shown' = Refreshed
  /\ UNCHANGED <<worker, writer, tasks, callbacks, running, run_active, active, page, button, cleared, log, bounds>>

\* The pages whose run button a result refreshes: a run from MainPage leaves the
\* button of ScenariosPage alone.
ButtonsOf(from) == IF from = "main" THEN {"main"} ELSE Runnable

RunCallback ==
  /\ ui = "loop" /\ callbacks # <<>> /\ callbacks' = Tail(callbacks)
  /\ shown' = Refreshed
  /\ \/ Head(callbacks) = "refresh" /\ UNCHANGED <<run_active, button>>
     \/ /\ Head(callbacks) \in Runnable /\ active
        /\ run_active' = FALSE
        /\ button' = (button \/ page \in ButtonsOf(Head(callbacks)))
  /\ UNCHANGED <<ui, worker, writer, tasks, running, active, page, cleared, log, bounds>>

\* The end of the main loop destroys the pages and the activity, whose destructor
\* clears active; then RunAppUi removes the sink and main logs and closes the log.
Leave ==
  /\ ui = "loop" /\ ui' = "left"
  /\ active' = FALSE /\ page' = "other"
  /\ UNCHANGED <<worker, writer, tasks, callbacks, running, run_active, button, shown, cleared, log, bounds>>
RemoveSink ==
  /\ ui \in {"left", "failed"} /\ Free("ui") /\ sink' = FALSE
  /\ ui' = "exit line"
  /\ UNCHANGED <<worker, writer, tasks, callbacks, running, run_active, active, views, lines, log_open, bounds>>
ExitLine ==
  /\ ui = "exit line" /\ ui' = "close" /\ Write("ui")
  /\ UNCHANGED <<worker, tasks, callbacks, running, run_active, active, views, log, bounds>>
CloseLog ==
  /\ ui = "close" /\ Free("ui") /\ log_open' = FALSE /\ ui' = "exited"
  /\ UNCHANGED <<worker, writer, tasks, callbacks, running, run_active, active, views, lines, sink, bounds>>

-----------------------------------------------------------------------------
(* The worker.  It may still be at a run while main returns. *)

TakeTask ==
  /\ ui # "exited" /\ worker = "idle" /\ tasks # <<>>
  /\ tasks' = Tail(tasks) /\ running' = Head(tasks)
  /\ worker' = "run" /\ run_lines' = 0
  /\ UNCHANGED <<ui, writer, callbacks, run_active, active, views, log, presses>>

RunLine ==
  /\ ui # "exited" /\ worker = "run" /\ Free("worker") /\ run_lines < MaxRunLines
  /\ Write("worker") /\ run_lines' = run_lines + 1
  /\ UNCHANGED <<ui, worker, tasks, callbacks, running, run_active, active, views, log, presses>>

\* Faulty variant: the worker clears run_active itself.
RunEndsClears ==
  /\ ui # "exited" /\ worker = "run" /\ Free("worker")
  /\ Write("worker") /\ worker' = "report" /\ run_active' = FALSE
  /\ UNCHANGED <<ui, tasks, callbacks, running, active, views, log, bounds>>

RunEnds ==
  /\ ui # "exited" /\ worker = "run" /\ Free("worker")
  /\ Write("worker") /\ worker' = "report"
  /\ UNCHANGED <<ui, tasks, callbacks, running, run_active, active, views, log, bounds>>

\* Faulty variant: the result is queued only if the page of the run is shown.
ReportedIfShown == IF page = running THEN Append(callbacks, running) ELSE callbacks
Reported == Append(callbacks, running)

Report ==
  /\ ui # "exited" /\ worker = "report" /\ Free("worker")
  /\ callbacks' = Reported /\ worker' = "idle"
  /\ UNCHANGED <<ui, writer, tasks, running, run_active, active, views, log, bounds>>

-----------------------------------------------------------------------------
Logging == \E t \in Thread : Store(t) \/ CallSink(t)
UiWork == Saved \/ Requested \/ Bumped \/ RunCallback \/ RemoveSink \/ ExitLine \/ CloseLog
User == Start \/ StartFails \/ SelectTab \/ Clear \/ RunMain \/ RunScenarios \/ BindBump \/ Leave
Worker == TakeTask \/ RunLine \/ RunEnds \/ Report

Next == Logging \/ UiWork \/ User \/ Worker

Spec == Init /\ [][Next]_vars

\* Both threads are scheduled; the user need do nothing.
FairSpec ==
  /\ Spec /\ WF_vars(UiWork) /\ WF_vars(Worker)
  /\ \A t \in Thread : WF_vars(Store(t)) /\ WF_vars(CallSink(t))

-----------------------------------------------------------------------------
TypeOK ==
  /\ ui \in UiStep /\ worker \in {"idle", "run", "report"}
  /\ writer \in [Thread -> {"none", "store", "sink"}]
  /\ tasks \in Seq(Runnable) /\ callbacks \in Seq(Runnable \cup {"refresh"})
  /\ running \in Runnable /\ page \in Page
  /\ run_active \in BOOLEAN /\ active \in BOOLEAN /\ button \in BOOLEAN /\ cleared \in BOOLEAN
  /\ sink \in BOOLEAN /\ log_open \in BOOLEAN
  /\ lines \in Nat /\ shown \in 0..lines /\ presses \in 0..MaxPresses /\ run_lines \in 0..MaxRunLines

\* At most one run is queued, running or waiting to be shown as ended, and only
\* while run_active says so.
Results == {i \in 1..Len(callbacks) : callbacks[i] # "refresh"}
Runs == Len(tasks) + (IF worker = "idle" THEN 0 ELSE 1)
OneRun ==
  /\ Runs + (IF Results = {} THEN 0 ELSE 1) <= 1 /\ \A i, j \in Results : i = j
  /\ run_active \/ (Runs = 0 /\ Results = {})

\* A run button that can be pressed means that no run is active, on whichever
\* page, however the tabs were changed.
NoIdleButtonWhileRunning == button /\ ui \in InLoop => ~run_active

\* When no refresh is queued and none about to be, the panel shows every line:
\* the sink is called after the line was stored.
NothingUnseen ==
  ui \in InLoop /\ HasPanel /\ ~cleared /\ callbacks = <<>> /\ (\A t \in Thread : writer[t] # "sink")
    => shown = lines

\* Once the loop has been left nothing of the model or the pages changes, though
\* a copy of the sink may still be called and callbacks be queued.
NothingAfterLoop ==
  ui \notin InLoop \cup {"init"} => UNCHANGED <<run_active, shown, button>>

\* A run that was started ends for the UI too, and the main page can start the next.
RunIsOver == ~run_active /\ (page = "main" => button)
RunShownOver == run_active ~> RunIsOver \/ ui \notin InLoop
=============================================================================
