---------------------------- MODULE MCToolboxApp ----------------------------
(***************************************************************************)
(* Three parts of the toolbox outside its scenarios, on small instances:   *)
(* the configuration file and its IDs, the settings in it and the pages    *)
(* that edit them, and the session of UI thread, worker and log.  Each     *)
(* leaves to the others what it abstracts from them (a save's steps, a     *)
(* setting's value, a run's start), so a behaviour runs one of them and    *)
(* the other two stay in their initial states.                             *)
(***************************************************************************)
EXTENDS ConfigStore, Sequences

CONSTANTS
  Unsigned, Most, MaximumProfiles, MaxSteps, MaxPresses, MaxRunLines

VARIABLES
  part,    \* the part that runs
  reading, config, file, steps,
  ui, worker, writer, tasks, callbacks, running, page, run_active, active, button, shown,
  cleared, lines, sink, log_open, presses, run_lines

Settings == INSTANCE RuntimeConfigFile WITH pc <- reading
Session == INSTANCE ToolboxSession

ASSUME SettingsParameters == Settings!Parameters
ASSUME SessionParameters == Session!Parameters

MCUnsigned == {"udp.datagram_count", "udp.concurrent_flows", "udp.pacing_ms", "udp.payload_seed"}

settingsVars == <<reading, config, file, steps>>
sessionVars == <<ui, worker, writer, tasks, callbacks, running, page, run_active, active,
                 button, shown, cleared, lines, sink, log_open, presses, run_lines>>
allVars == <<part, vars, settingsVars, sessionVars>>

\* A step of one part.
Stores(A) == part = "store" /\ A /\ UNCHANGED <<part, settingsVars, sessionVars>>
Sets(A) == part = "settings" /\ A /\ UNCHANGED <<part, vars, sessionVars>>
Runs(A) == part = "session" /\ A /\ UNCHANGED <<part, vars, settingsVars>>

MCInit ==
  /\ part \in {"store", "settings", "session"}
  /\ Init /\ Settings!Init /\ Session!Init

MCNext == Stores(Next) \/ Sets(Settings!Next) \/ Runs(Session!Next)

\* The fairness of ToolboxSession's FairSpec.
MCFairness ==
  /\ WF_allVars(Runs(Session!UiWork)) /\ WF_allVars(Runs(Session!Worker))
  /\ \A t \in {"ui", "worker"} :
       WF_allVars(Runs(Session!Store(t))) /\ WF_allVars(Runs(Session!CallSink(t)))

MCSpec == MCInit /\ [][MCNext]_allVars /\ MCFairness

-----------------------------------------------------------------------------
\* The type invariants; the pages always have an active profile to edit and to
\* copy, whatever the file held (AddProfile, app_ui.cpp:604, does not look).
TypesOK == TypeOK /\ Settings!TypeOK /\ Settings!ActiveExists /\ Session!TypeOK

\* A run that could not be saved leaves its ID and the previous file; a start
\* after a save reads back what was written; and once the main loop is left, no
\* late log line or result touches the model or the pages (StartRun,
\* SaveRuntimeConfig and LoadRuntimeConfig, ~UiModel and its callbacks).
StepsAreAllowed ==
  [][FailureKept /\ Settings!RestartKeeps /\ Session!NothingAfterLoop]_allVars

\* What the pages show of runs and log is what worker and logger did: one run at
\* a time, no button to start another meanwhile, and no line left unseen when
\* nothing is queued (UiModel::run_active, SetUiSink, brls::sync).
SessionShown == Session!OneRun /\ Session!NoIdleButtonWhileRunning /\ Session!NothingUnseen

\* A run that was started ends for the UI too, and the main page can start the
\* next, unless the toolbox is left.
RunShownOver == Session!RunShownOver
=============================================================================
