--------------------------- MODULE ProbeLifecycle ---------------------------
(***************************************************************************)
(* Starting and stopping net-probe (net-probe/src/main.cpp and the end of  *)
(* net-probe/src/mitm_service.cpp): the main thread, the thread of the     *)
(* wgp:ctl control server, the thread of the MITM server, and the two      *)
(* observers, the boot watch and the watchdog.                             *)
(*                                                                         *)
(* StartServers and StopServers run with g_mitm_start_lock held from their *)
(* first line to their last, on the main thread; a Shutdown call of a      *)
(* client runs RequestShutdown on the control thread and needs that lock.  *)
(***************************************************************************)
EXTENDS Naturals, FiniteSets

CONSTANTS
  Targets,      \* g_mitm_target_configs
  Failures,     \* which calls may fail: see Fails
  MaxRequests   \* bound: Shutdown calls of clients of wgp:ctl

Servers == {"control", "mitm"}                       \* server managers
Observers == {"bootWatch", "watchdog"}
Threads == Servers \cup Observers

\* "start": a call whose failure fails StartServers; "observer": creating an
\* observer thread, or waiting for it; "sm": HasMitm or UninstallMitm.
ASSUME FailuresAssumption == Failures \subseteq {"start", "observer", "sm"}
ASSUME RequestsAssumption == MaxRequests \in Nat

VARIABLES
  mainPc,            \* where Main is, see MainPcs
  locked,            \* g_mitm_start_lock is held by main
  enabled,           \* g_mitm_target_enabled
  toRegister,        \* targets StartServers has still to register
  failed,            \* targets whose registration failed
  owned,             \* g_mitm_target_registration_owned
  toUninstall,       \* targets UninstallOwnedMitmRegistrations has still to visit
  installed,         \* external: registrations sm holds for this process
  managers,          \* g_control_server_manager, g_mitm_server_manager not null
  stopping,          \* servers asked to stop with RequestStopProcessing
  thread,            \* state of each thread
  started,           \* g_*_thread_started
  ready,             \* g_*_thread_ready_event is signaled
  serversStarted,    \* g_servers_started
  shutdownRequested, \* g_shutdown_requested
  shutdownEvent,     \* g_shutdown_requested_event is signaled
  calling,           \* the control thread is inside RequestShutdown
  requests           \* history: Shutdown calls so far

registry == <<enabled, toRegister, failed, owned, toUninstall, installed>>
threads == <<managers, stopping, thread, started, ready>>
request == <<shutdownRequested, shutdownEvent, calling, requests>>
vars == <<mainPc, locked, registry, threads, serversStarted, request>>

MainPcs ==
  {"boot", "createControl", "readyControl", "register", "createMitm", "readyMitm",
   "createBootWatch", "readyBootWatch", "createWatchdog", "readyWatchdog",
   "waitRequest", "stop", "joinBootWatch", "joinWatchdog", "stopMitm", "joinMitm",
   "uninstall", "stopControl", "joinControl", "finish", "exited"}

\* A call of that kind may fail.
Fails(kind) == kind \in Failures

Alive(t) == thread[t] \in {"created", "running"}

Init ==
  /\ mainPc = "boot"
  /\ locked = FALSE
  /\ enabled = {} /\ toRegister = {} /\ failed = {} /\ owned = {}
  /\ toUninstall = {} /\ installed = {}
  /\ managers = {} /\ stopping = {} /\ started = {} /\ ready = {}
  /\ thread = [t \in Threads |-> "none"]
  /\ serversStarted = FALSE
  /\ shutdownRequested = FALSE /\ shutdownEvent = FALSE
  /\ calling = FALSE
  /\ requests = 0

-----------------------------------------------------------------------------
(* StartServers, on the main thread. *)

\* The lock, the events, the settings, and wgp:ctl with its server manager.
StartServers ==
  /\ mainPc = "boot"
  /\ ~locked
  /\ shutdownRequested' = FALSE /\ shutdownEvent' = FALSE
  /\ ready' = {}
  /\ enabled' \in SUBSET Targets
  /\ toRegister' = enabled'
  /\ \/ /\ managers' = {"control"}
        /\ locked' = TRUE
        /\ mainPc' = "createControl"
     \/ /\ Fails("start")                    \* RegisterObjectForServer
        /\ mainPc' = "exited"
        /\ UNCHANGED <<managers, locked>>
  /\ UNCHANGED <<failed, owned, toUninstall, installed, stopping, thread, started,
                 serversStarted, calling, requests>>

\* CreateThread and StartThread.
Create(t) ==
  /\ thread' = [thread EXCEPT ![t] = "created"]
  /\ started' = started \cup {t}

CreateControlThread ==
  /\ mainPc = "createControl"
  /\ \/ /\ Create("control")
        /\ mainPc' = "readyControl"
        /\ UNCHANGED <<managers, locked>>
     \/ /\ Fails("start")
        /\ managers' = managers \ {"control"}
        /\ locked' = FALSE
        /\ mainPc' = "exited"
        /\ UNCHANGED <<thread, started>>
  /\ UNCHANGED <<registry, stopping, ready, serversStarted, request>>

\* WaitForThreadReady: the event, or ThreadReadyTimeout.
ControlReady ==
  /\ mainPc = "readyControl"
  /\ \/ /\ "control" \in ready
        /\ managers' = managers \cup {"mitm"}
        /\ mainPc' = "register"
     \/ /\ Fails("start") /\ "control" \notin ready
        /\ mainPc' = "stopControl"
        /\ UNCHANGED managers
  /\ UNCHANGED <<locked, registry, stopping, thread, started, ready, serversStarted, request>>

\* One turn of the registration loop; a failure does not end the loop.
RegisterTarget(t) ==
  /\ mainPc = "register"
  /\ t \in toRegister
  /\ toRegister' = toRegister \ {t}
  /\ \/ /\ owned' = owned \cup {t}
        /\ installed' = installed \cup {t}
        /\ UNCHANGED failed
     \/ /\ Fails("start")
        /\ failed' = failed \cup {t}
        /\ UNCHANGED <<owned, installed>>
  /\ UNCHANGED <<mainPc, locked, enabled, toUninstall, threads, serversStarted, request>>

\* Faulty variants: a failed registration is tolerated; it is reported, but
\* what was registered stays.
RegisteredWhatWeCould ==
  /\ mainPc = "register" /\ toRegister = {}
  /\ mainPc' = IF owned = {} THEN "waitRequest" ELSE "createMitm"
  /\ serversStarted' = (owned = {})
  /\ locked' = (owned # {})
  /\ UNCHANGED <<registry, threads, request>>
RegisteredWithoutRollback ==
  /\ mainPc = "register" /\ toRegister = {}
  /\ mainPc' = IF failed # {} THEN "stopControl" ELSE IF owned = {} THEN "waitRequest" ELSE "createMitm"
  /\ serversStarted' = (owned = {} /\ failed = {})
  /\ locked' = ~serversStarted'
  /\ UNCHANGED <<registry, threads, request>>

\* After the loop: all targets or none; without any target there is nothing to serve.
Registered ==
  /\ mainPc = "register"
  /\ toRegister = {}
  /\ \/ /\ failed # {}
        /\ mainPc' = "stopMitm"
        /\ UNCHANGED <<locked, serversStarted>>
     \/ /\ failed = {} /\ owned = {}
        /\ mainPc' = "waitRequest"
        /\ serversStarted' = TRUE
        /\ locked' = FALSE
     \/ /\ failed = {} /\ owned # {}
        /\ mainPc' = "createMitm"
        /\ UNCHANGED <<locked, serversStarted>>
  /\ UNCHANGED <<registry, threads, request>>

CreateMitmThread ==
  /\ mainPc = "createMitm"
  /\ \/ Create("mitm") /\ mainPc' = "readyMitm"
     \/ Fails("start") /\ mainPc' = "stopMitm" /\ UNCHANGED <<thread, started>>
  /\ UNCHANGED <<locked, registry, managers, stopping, ready, serversStarted, request>>

MitmReady ==
  /\ mainPc = "readyMitm"
  /\ \/ /\ "mitm" \in ready
        /\ serversStarted' = TRUE
        /\ mainPc' = "createBootWatch"
     \/ /\ Fails("start") /\ "mitm" \notin ready
        /\ mainPc' = "stopMitm"
        /\ UNCHANGED serversStarted
  /\ UNCHANGED <<locked, registry, threads, request>>

\* Faulty variant: the thread is taken for started though it could not be created.
CreateBootWatchUnchecked ==
  /\ mainPc = "createBootWatch"
  /\ \/ Create("bootWatch") /\ mainPc' = "readyBootWatch"
     \/ /\ Fails("observer")
        /\ mainPc' = "createWatchdog"
        /\ started' = started \cup {"bootWatch"}
        /\ UNCHANGED thread
  /\ UNCHANGED <<locked, registry, managers, stopping, ready, serversStarted, request>>

\* The listener works without its observers.
CreateBootWatchThread ==
  /\ mainPc = "createBootWatch"
  /\ \/ Create("bootWatch") /\ mainPc' = "readyBootWatch"
     \/ Fails("observer") /\ mainPc' = "createWatchdog" /\ UNCHANGED <<thread, started>>
  /\ UNCHANGED <<locked, registry, managers, stopping, ready, serversStarted, request>>

BootWatchReady ==
  /\ mainPc = "readyBootWatch"
  /\ "bootWatch" \in ready \/ Fails("observer")
  /\ mainPc' = "createWatchdog"
  /\ UNCHANGED <<locked, registry, threads, serversStarted, request>>

CreateWatchdogThread ==
  /\ mainPc = "createWatchdog"
  /\ \/ Create("watchdog") /\ mainPc' = "readyWatchdog" /\ UNCHANGED locked
     \/ /\ Fails("observer")
        /\ mainPc' = "waitRequest"
        /\ locked' = FALSE
        /\ UNCHANGED <<thread, started>>
  /\ UNCHANGED <<registry, managers, stopping, ready, serversStarted, request>>

WatchdogReady ==
  /\ mainPc = "readyWatchdog"
  /\ "watchdog" \in ready \/ Fails("observer")
  /\ mainPc' = "waitRequest"
  /\ locked' = FALSE
  /\ UNCHANGED <<registry, threads, serversStarted, request>>

-----------------------------------------------------------------------------
(* Main waits, then StopServers; a failed StartServers joins in at stopMitm *)
(* or stopControl, with serversStarted still FALSE.                         *)

WaitForShutdownRequest ==
  /\ mainPc = "waitRequest"
  /\ shutdownEvent
  /\ mainPc' = "stop"
  /\ UNCHANGED <<locked, registry, threads, serversStarted, request>>

StopServers ==
  /\ mainPc = "stop"
  /\ ~locked
  /\ locked' = TRUE
  /\ mainPc' = "joinBootWatch"
  /\ UNCHANGED <<registry, threads, serversStarted, request>>

\* WaitThread and DestroyThread, for a thread that was started.
Joined(t) ==
  /\ t \in started => thread[t] = "exited"
  /\ started' = started \ {t}

StopBootWatchThread ==
  /\ mainPc = "joinBootWatch"
  /\ Joined("bootWatch")
  /\ mainPc' = "joinWatchdog"
  /\ UNCHANGED <<locked, registry, managers, stopping, thread, ready, serversStarted, request>>

\* Faulty variant: the watchdog is left to end on its own.
StopWatchdogThreadLater ==
  /\ mainPc = "joinWatchdog"
  /\ mainPc' = "stopMitm"
  /\ started' = started \ {"watchdog"}
  /\ UNCHANGED <<locked, registry, managers, stopping, thread, ready, serversStarted, request>>

StopWatchdogThread ==
  /\ mainPc = "joinWatchdog"
  /\ Joined("watchdog")
  /\ mainPc' = "stopMitm"
  /\ UNCHANGED <<locked, registry, managers, stopping, thread, ready, serversStarted, request>>

\* StopAndRetainMitmServerManager: RequestStopProcessing ...
RequestMitmStop ==
  /\ mainPc = "stopMitm"
  /\ stopping' = stopping \cup {"mitm"}
  /\ mainPc' = "joinMitm"
  /\ UNCHANGED <<locked, registry, managers, thread, started, ready, serversStarted, request>>

\* Faulty variant: the registrations go while the MITM thread may still serve.
JoinMitmThreadLater ==
  /\ mainPc = "joinMitm"
  /\ started' = started \ {"mitm"}
  /\ toUninstall' = Targets
  /\ mainPc' = "uninstall"
  /\ UNCHANGED <<locked, enabled, toRegister, failed, owned, installed,
                 managers, stopping, thread, ready, serversStarted, request>>

\* ... WaitThread ...
JoinMitmThread ==
  /\ mainPc = "joinMitm"
  /\ Joined("mitm")
  /\ toUninstall' = Targets
  /\ mainPc' = "uninstall"
  /\ UNCHANGED <<locked, enabled, toRegister, failed, owned, installed,
                 managers, stopping, thread, ready, serversStarted, request>>

\* ... UninstallOwnedMitmRegistration of every target: sm may refuse to say
\* or to do, and ownership is given up all the same ...
UninstallTarget(t) ==
  /\ mainPc = "uninstall"
  /\ t \in toUninstall
  /\ toUninstall' = toUninstall \ {t}
  /\ owned' = owned \ {t}
  /\ \/ t \in owned /\ installed' = installed \ {t}
     \/ (t \notin owned \/ Fails("sm")) /\ UNCHANGED installed
  /\ UNCHANGED <<mainPc, locked, enabled, toRegister, failed, threads, serversStarted, request>>

\* ... and the manager is retained.
RetainMitmServerManager ==
  /\ mainPc = "uninstall"
  /\ toUninstall = {}
  /\ managers' = managers \ {"mitm"}
  /\ mainPc' = "stopControl"
  /\ UNCHANGED <<locked, registry, stopping, thread, started, ready, serversStarted, request>>

\* StopAndRetainControlServerManager.
RequestControlStop ==
  /\ mainPc = "stopControl"
  /\ stopping' = stopping \cup {"control"}
  /\ mainPc' = "joinControl"
  /\ UNCHANGED <<locked, registry, managers, thread, started, ready, serversStarted, request>>

JoinControlThread ==
  /\ mainPc = "joinControl"
  /\ Joined("control")
  /\ managers' = managers \ {"control"}
  /\ mainPc' = "finish"
  /\ UNCHANGED <<locked, registry, stopping, thread, ready, serversStarted, request>>

\* StartServers returns false, or StopServers resets what it used; the lock
\* is released, the logger shuts down (ProbeLogger) and Main returns.
Finish ==
  /\ mainPc = "finish"
  /\ IF serversStarted
     THEN shutdownEvent' = FALSE /\ ready' = {} /\ shutdownRequested' = FALSE
     ELSE UNCHANGED <<shutdownEvent, ready, shutdownRequested>>
  /\ serversStarted' = FALSE
  /\ locked' = FALSE
  /\ mainPc' = "exited"
  /\ UNCHANGED <<registry, managers, stopping, thread, started, calling, requests>>

-----------------------------------------------------------------------------
(* The other threads. *)

\* Every thread function begins with SignalEvent of its ready event.
ThreadStarts(t) ==
  /\ thread[t] = "created"
  /\ thread' = [thread EXCEPT ![t] = "running"]
  /\ ready' = ready \cup {t}
  /\ UNCHANGED <<mainPc, locked, registry, managers, stopping, started, serversStarted, request>>

\* LoopProcess dispatches a Shutdown call of a client, stop requested or not.
ReceiveShutdown ==
  /\ thread["control"] = "running"
  /\ ~calling
  /\ requests < MaxRequests
  /\ requests' = requests + 1
  /\ calling' = TRUE
  /\ UNCHANGED <<mainPc, locked, registry, threads, serversStarted, shutdownRequested, shutdownEvent>>

\* Faulty variant: a request is remembered but main is not woken.
RequestShutdownUnsignaled ==
  /\ calling /\ ~locked
  /\ shutdownRequested' = TRUE
  /\ calling' = FALSE
  /\ UNCHANGED <<mainPc, locked, registry, threads, serversStarted, shutdownEvent, requests>>

\* RequestShutdown: the whole body is under the lock.
RequestShutdown ==
  /\ calling
  /\ ~locked
  /\ shutdownRequested' = TRUE
  /\ shutdownEvent' = (shutdownEvent \/ ~shutdownRequested)
  /\ calling' = FALSE
  /\ UNCHANGED <<mainPc, locked, registry, threads, serversStarted, requests>>

Exits(t) ==
  /\ thread[t] = "running"
  /\ thread' = [thread EXCEPT ![t] = "exited"]
  /\ UNCHANGED <<mainPc, locked, registry, managers, stopping, started, ready, serversStarted, request>>

\* LoopProcess returns between two requests once it was asked to.
ControlLoopEnds == "control" \in stopping /\ ~calling /\ Exits("control")
MitmLoopEnds == "mitm" \in stopping /\ Exits("mitm")

\* The boot watch ends after its samples, or early on the event.
BootWatchEnds == Exits("bootWatch")

\* The watchdog ends on the event alone.
WatchdogEnds == shutdownEvent /\ Exits("watchdog")

-----------------------------------------------------------------------------
Main ==
  \/ StartServers \/ CreateControlThread \/ ControlReady
  \/ (\E t \in Targets : RegisterTarget(t)) \/ Registered
  \/ CreateMitmThread \/ MitmReady
  \/ CreateBootWatchThread \/ BootWatchReady \/ CreateWatchdogThread \/ WatchdogReady
  \/ WaitForShutdownRequest \/ StopServers \/ StopBootWatchThread \/ StopWatchdogThread
  \/ RequestMitmStop \/ JoinMitmThread \/ (\E t \in Targets : UninstallTarget(t))
  \/ RetainMitmServerManager \/ RequestControlStop \/ JoinControlThread \/ Finish

\* What the threads do without a client.
ThreadStep(t) ==
  \/ ThreadStarts(t)
  \/ t = "control" /\ (RequestShutdown \/ ControlLoopEnds)
  \/ t = "mitm" /\ MitmLoopEnds
  \/ t = "bootWatch" /\ BootWatchEnds
  \/ t = "watchdog" /\ WatchdogEnds

Next == Main \/ ReceiveShutdown \/ \E t \in Threads : ThreadStep(t)

Spec == Init /\ [][Next]_vars

\* The kernel schedules runnable threads, every wait of StartServers has a
\* timeout, and every call a server forwards returns.  Clients need not call.
FairSpec == Spec /\ WF_vars(Main) /\ \A t \in Threads : WF_vars(ThreadStep(t))

-----------------------------------------------------------------------------
\* Only a thread that was created is waited for and destroyed.
TypeOK ==
  /\ mainPc \in MainPcs
  /\ locked \in BOOLEAN /\ serversStarted \in BOOLEAN
  /\ shutdownRequested \in BOOLEAN /\ shutdownEvent \in BOOLEAN /\ calling \in BOOLEAN
  /\ enabled \subseteq Targets /\ toRegister \subseteq Targets /\ failed \subseteq Targets
  /\ owned \subseteq Targets /\ toUninstall \subseteq Targets /\ installed \subseteq Targets
  /\ managers \subseteq Servers /\ stopping \subseteq Servers
  /\ thread \in [Threads -> {"none", "created", "running", "exited"}]
  /\ started \subseteq {t \in Threads : thread[t] # "none"} /\ ready \subseteq Threads
  /\ requests \in 0..MaxRequests

\* No thread is left with a pointer to a server manager that is gone: the
\* server threads run LoopProcess of theirs, and the watchdog reads the MITM
\* manager's state without the lock (LogMitmServerManagerResourceState), so
\* only the order of the joins in StopServers protects it.
ManagersOutliveThreads ==
  /\ Alive("control") => "control" \in managers
  /\ Alive("mitm") \/ Alive("watchdog") => "mitm" \in managers

\* The listener serves clients only with the complete configured set of
\* targets, each registered with sm ("Do not silently omit a requested
\* target", docs/services/listener-lifecycle.md).
CompleteSetServed ==
  /\ Alive("mitm") => owned = enabled /\ enabled \subseteq installed
  /\ mainPc = "waitRequest" => owned = enabled /\ (enabled # {} => Alive("mitm"))

\* Whichever way Main ends, it leaves no thread, no manager, no lock and no
\* registration it could have removed; the logger is then shut down with
\* nobody left to log.
NothingLeftBehind ==
  mainPc = "exited" =>
    /\ \A t \in Threads : ~Alive(t)
    /\ managers = {} /\ started = {} /\ owned = {} /\ ~locked /\ ~calling
    /\ ~Fails("sm") => installed = {}

\* A registration is taken from sm only when the MITM thread serves nobody.
UninstalledAfterServing ==
  [][installed' # installed /\ installed' \subseteq installed => ~Alive("mitm")]_vars

\* A Shutdown call that was carried out ends in Main's return.
ShutdownCompletes == shutdownRequested ~> mainPc = "exited"

\* Main's end.  A single Shutdown call that was carried out ends in Main's
\* return, and so does a StartServers that failed to register a target and that
\* no call disturbed.  Teardown, once begun, can hang in one way only: main waits
\* for the control thread with the lock that a Shutdown call on it needs.
MainEnds ==
  /\ shutdownRequested ~> (mainPc = "exited" \/ requests > 1)
  /\ failed # {} ~> (mainPc = "exited" \/ requests > 0)
  /\ mainPc \in {"stop", "stopMitm", "stopControl"} ~>
       (mainPc = "exited" \/ [](mainPc = "joinControl" /\ locked /\ calling))
=============================================================================
