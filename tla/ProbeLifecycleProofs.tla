------------------------- MODULE ProbeLifecycleProofs -------------------------
(***************************************************************************)
(* Proofs about ProbeLifecycle, for every set of targets, every choice of  *)
(* calls that may fail and every number of Shutdown calls.  What holds at  *)
(* each of main's positions is a table; the properties are read off it.    *)
(***************************************************************************)
EXTENDS ProbeLifecycle, TLAPS

-----------------------------------------------------------------------------
(* Stretches of main's way. *)

\* Up to the registration of targets.
BeforeMitm == {"boot", "createControl", "readyControl"}

\* The MITM thread serves, or there was nothing to register.
Serving == {"waitRequest", "stop", "joinBootWatch", "joinWatchdog"}
ServingTargets ==
  {"readyMitm", "createBootWatch", "readyBootWatch", "createWatchdog", "readyWatchdog"}

\* A started thread has not been joined yet.
MayRun(t) ==
  IF t = "control" THEN MainPcs \ {"boot", "createControl", "finish", "exited"}
  ELSE IF t = "mitm" THEN ServingTargets \cup Serving \cup {"stopMitm", "joinMitm"}
  ELSE IF t = "bootWatch"
  THEN {"readyBootWatch", "createWatchdog", "readyWatchdog", "waitRequest", "stop", "joinBootWatch"}
  ELSE {"readyWatchdog", "waitRequest", "stop", "joinBootWatch", "joinWatchdog"}

\* After StopAndRetainMitmServerManager.
AfterMitm == {"stopControl", "joinControl", "finish", "exited"}

-----------------------------------------------------------------------------
(* The table. *)

LockHeld == locked <=> mainPc \notin {"boot", "waitRequest", "stop", "exited"}

ManagersThere ==
  /\ "control" \in managers <=> mainPc \notin {"boot", "finish", "exited"}
  /\ "mitm" \in managers <=> mainPc \notin BeforeMitm \cup AfterMitm

\* What runs is known to main, which joins it in its place.
ThreadsKnown ==
  /\ \A t \in Threads : Alive(t) => t \in started
  /\ \A t \in started : mainPc \in MayRun(t)
  /\ calling => Alive("control")

\* The MITM thread is asked to stop at one place only.
MitmServes ==
  /\ "mitm" \in stopping => mainPc \in AfterMitm \cup {"joinMitm", "uninstall"}
  /\ mainPc \in ServingTargets => Alive("mitm")
  /\ mainPc \in Serving => Alive("mitm") \/ enabled = {}

\* Ownership grows in the registration loop and is given up in one place.
OwnershipFollows ==
  /\ owned \subseteq installed
  /\ ~Fails("sm") => installed = owned
  /\ mainPc = "boot" => failed = {}
  /\ mainPc \in BeforeMitm \cup AfterMitm => owned = {}
  /\ mainPc \in {"createControl", "readyControl"} => toRegister = enabled /\ failed = {}
  /\ mainPc = "register" => enabled = owned \cup failed \cup toRegister /\ started \subseteq {"control"}
  /\ mainPc \in ServingTargets \cup Serving \cup {"createMitm"} => owned = enabled
  /\ mainPc \in {"stopMitm", "joinMitm"} /\ "mitm" \in started => owned = enabled
  /\ mainPc = "uninstall" => owned \subseteq toUninstall

Table == LockHeld /\ ManagersThere /\ ThreadsKnown /\ MitmServes /\ OwnershipFollows
IInv == TypeOK /\ Table

-----------------------------------------------------------------------------
(* Every step keeps the table. *)

\* A server thread leaves its loop when asked to, between two requests.
MayExit(t) ==
  /\ t = "control" => "control" \in stopping /\ ~calling
  /\ t = "mitm" => "mitm" \in stopping

\* What a step can be.
LEMMA StepKinds ==
  ASSUME [Next]_vars
  PROVE  \/ Main \/ ReceiveShutdown \/ RequestShutdown \/ UNCHANGED vars
         \/ \E t \in Threads : ThreadStarts(t) \/ (Exits(t) /\ MayExit(t))
<1>1. ASSUME NEW t \in Threads, ThreadStep(t)
      PROVE  RequestShutdown \/ ThreadStarts(t) \/ (Exits(t) /\ MayExit(t))
  BY <1>1 DEF ThreadStep, ControlLoopEnds, MitmLoopEnds, BootWatchEnds, WatchdogEnds, MayExit
<1>2. QED
  BY <1>1 DEF Next

\* Types. A thread that is created becomes one that was started; no other is.
LEMMA TypeStep ==
  ASSUME TypeOK, [Next]_vars
  PROVE  TypeOK'
<1>. USE DEF TypeOK, MainPcs, Threads, Servers, Observers, Fails
<1>1. CASE StartServers \/ CreateControlThread \/ ControlReady \/
           (\E t \in Targets : RegisterTarget(t)) \/ Registered
  BY <1>1 DEF StartServers, CreateControlThread, ControlReady, RegisterTarget,
              Registered, registry, threads, request, Create
<1>2. CASE CreateMitmThread \/ MitmReady \/ CreateBootWatchThread \/
           BootWatchReady \/ CreateWatchdogThread \/ WatchdogReady
  BY <1>2 DEF CreateMitmThread, MitmReady, CreateBootWatchThread, BootWatchReady,
              CreateWatchdogThread, WatchdogReady, registry, threads, request,
              Create
<1>3. CASE WaitForShutdownRequest \/ StopServers \/ StopBootWatchThread \/
           StopWatchdogThread \/ RequestMitmStop \/ JoinMitmThread \/
           (\E t \in Targets : UninstallTarget(t)) \/ RetainMitmServerManager \/
           RequestControlStop \/ JoinControlThread \/ Finish
  BY <1>3 DEF WaitForShutdownRequest, StopServers, StopBootWatchThread,
              StopWatchdogThread, RequestMitmStop, JoinMitmThread, UninstallTarget,
              RetainMitmServerManager, RequestControlStop, JoinControlThread,
              Finish, registry, threads, request, Joined
<1>4. CASE ReceiveShutdown
  <2>1. requests' \in 0..MaxRequests
    BY <1>4, RequestsAssumption DEF ReceiveShutdown
  <2>2. QED
    BY <1>4, <2>1 DEF ReceiveShutdown, registry, threads
<1>5. CASE RequestShutdown
  BY <1>5 DEF RequestShutdown, registry, threads
<1>6. ASSUME NEW t \in Threads, ThreadStarts(t) PROVE TypeOK'
  BY <1>6 DEF ThreadStarts, registry, request
<1>7. ASSUME NEW t \in Threads, Exits(t), MayExit(t) PROVE TypeOK'
  BY <1>7 DEF Exits, MayExit, registry, request
<1>8. CASE UNCHANGED vars
  BY <1>8 DEF vars, registry, threads, request
<1>9. QED
  BY <1>1, <1>2, <1>3, <1>4, <1>5, <1>6, <1>7, <1>8, StepKinds DEF Main

\* Main takes the lock when it leaves boot or stop, and gives it back in finish.
LEMMA LockStep ==
  ASSUME IInv, [Next]_vars
  PROVE  LockHeld'
<1>. USE DEF IInv, Table, LockHeld
<1>1. CASE StartServers \/ CreateControlThread \/ ControlReady \/
           (\E t \in Targets : RegisterTarget(t)) \/ Registered \/
           CreateMitmThread \/ MitmReady \/ CreateBootWatchThread \/
           BootWatchReady \/ CreateWatchdogThread \/ WatchdogReady
  BY <1>1 DEF StartServers, CreateControlThread, ControlReady, RegisterTarget,
              Registered, CreateMitmThread, MitmReady, CreateBootWatchThread,
              BootWatchReady, CreateWatchdogThread, WatchdogReady, registry,
              threads, request, Create
<1>2. CASE WaitForShutdownRequest \/ StopServers \/ StopBootWatchThread \/
           StopWatchdogThread \/ RequestMitmStop \/ JoinMitmThread \/
           (\E t \in Targets : UninstallTarget(t)) \/ RetainMitmServerManager \/
           RequestControlStop \/ JoinControlThread \/ Finish
  BY <1>2 DEF WaitForShutdownRequest, StopServers, StopBootWatchThread,
              StopWatchdogThread, RequestMitmStop, JoinMitmThread, UninstallTarget,
              RetainMitmServerManager, RequestControlStop, JoinControlThread,
              Finish, registry, threads, request, Joined
<1>3. CASE ReceiveShutdown \/ RequestShutdown
  BY <1>3 DEF ReceiveShutdown, RequestShutdown, registry, threads
<1>4. ASSUME NEW t \in Threads, ThreadStarts(t) PROVE LockHeld'
  BY <1>4 DEF ThreadStarts, registry, request
<1>5. ASSUME NEW t \in Threads, Exits(t), MayExit(t) PROVE LockHeld'
  BY <1>5 DEF Exits, MayExit, registry, request
<1>6. CASE UNCHANGED vars
  BY <1>6 DEF vars, registry, threads, request
<1>7. QED
  BY <1>1, <1>2, <1>3, <1>4, <1>5, <1>6, StepKinds DEF Main

\* The managers appear before, and go after, the threads that use them.
LEMMA ManagersStep ==
  ASSUME IInv, [Next]_vars
  PROVE  ManagersThere'
<1>. USE DEF IInv, Table, ManagersThere, BeforeMitm, AfterMitm
<1>1. CASE StartServers \/ CreateControlThread \/ ControlReady \/
           (\E t \in Targets : RegisterTarget(t)) \/ Registered \/
           CreateMitmThread \/ MitmReady \/ CreateBootWatchThread \/
           BootWatchReady \/ CreateWatchdogThread \/ WatchdogReady
  BY <1>1 DEF StartServers, CreateControlThread, ControlReady, RegisterTarget,
              Registered, CreateMitmThread, MitmReady, CreateBootWatchThread,
              BootWatchReady, CreateWatchdogThread, WatchdogReady, registry,
              threads, request, Create
<1>2. CASE WaitForShutdownRequest \/ StopServers \/ StopBootWatchThread \/
           StopWatchdogThread \/ RequestMitmStop \/ JoinMitmThread \/
           (\E t \in Targets : UninstallTarget(t)) \/ RetainMitmServerManager \/
           RequestControlStop \/ JoinControlThread \/ Finish
  BY <1>2 DEF WaitForShutdownRequest, StopServers, StopBootWatchThread,
              StopWatchdogThread, RequestMitmStop, JoinMitmThread, UninstallTarget,
              RetainMitmServerManager, RequestControlStop, JoinControlThread,
              Finish, registry, threads, request, Joined
<1>3. CASE ReceiveShutdown \/ RequestShutdown
  BY <1>3 DEF ReceiveShutdown, RequestShutdown, registry, threads
<1>4. ASSUME NEW t \in Threads, ThreadStarts(t) PROVE ManagersThere'
  BY <1>4 DEF ThreadStarts, registry, request
<1>5. ASSUME NEW t \in Threads, Exits(t), MayExit(t) PROVE ManagersThere'
  BY <1>5 DEF Exits, MayExit, registry, request
<1>6. CASE UNCHANGED vars
  BY <1>6 DEF vars, registry, threads, request
<1>7. QED
  BY <1>1, <1>2, <1>3, <1>4, <1>5, <1>6, StepKinds DEF Main

\* A thread is started by the step that makes main pass into MayRun, and joined
\* by the step that leaves it.
LEMMA ThreadsStep ==
  ASSUME IInv, [Next]_vars
  PROVE  ThreadsKnown'
<1>. USE DEF IInv, Table, ThreadsKnown, BeforeMitm, AfterMitm, Serving,
             ServingTargets, MayRun, MainPcs, TypeOK, Threads, Servers, Observers,
             Alive
<1>1. CASE CreateControlThread
  BY <1>1 DEF CreateControlThread, registry, threads, request, Create
<1>2. CASE CreateMitmThread
  BY <1>2 DEF CreateMitmThread, registry, threads, request, Create
<1>3. CASE CreateBootWatchThread
  BY <1>3 DEF CreateBootWatchThread, registry, threads, request, Create
<1>4. CASE CreateWatchdogThread
  BY <1>4 DEF CreateWatchdogThread, registry, threads, request, Create
<1>5. CASE StopBootWatchThread
  BY <1>5 DEF StopBootWatchThread, registry, threads, request, Joined
<1>6. CASE StopWatchdogThread
  BY <1>6 DEF StopWatchdogThread, registry, threads, request, Joined
<1>7. CASE JoinMitmThread
  BY <1>7 DEF JoinMitmThread, registry, threads, request, Joined
<1>8. CASE JoinControlThread
  BY <1>8 DEF JoinControlThread, registry, threads, request, Joined
<1>9. CASE StartServers \/ ControlReady \/ (\E t \in Targets : RegisterTarget(t)) \/
           Registered \/ MitmReady \/ BootWatchReady \/ WatchdogReady
  <2>1. UNCHANGED <<thread, started, calling>>
    BY <1>9 DEF StartServers, ControlReady, RegisterTarget, Registered, MitmReady,
                BootWatchReady, WatchdogReady, registry, threads, request
  <2>2. ASSUME NEW t \in Threads, mainPc \in MayRun(t) PROVE mainPc' \in MayRun(t)
    BY <1>9, <2>2 DEF StartServers, ControlReady, RegisterTarget, Registered,
                      MitmReady, BootWatchReady, WatchdogReady
  <2>3. QED
    BY <2>1, <2>2
<1>10. CASE WaitForShutdownRequest \/ StopServers \/ RequestMitmStop \/
            (\E t \in Targets : UninstallTarget(t)) \/ RetainMitmServerManager \/
            RequestControlStop \/ Finish
  <2>1. UNCHANGED <<thread, started, calling>>
    BY <1>10 DEF WaitForShutdownRequest, StopServers, RequestMitmStop,
                 UninstallTarget, RetainMitmServerManager, RequestControlStop,
                 Finish, registry, threads, request
  <2>2. ASSUME NEW t \in Threads, mainPc \in MayRun(t) PROVE mainPc' \in MayRun(t)
    BY <1>10, <2>2 DEF WaitForShutdownRequest, StopServers, RequestMitmStop,
                       UninstallTarget, RetainMitmServerManager, RequestControlStop,
                       Finish
  <2>3. QED
    BY <2>1, <2>2
<1>11. CASE ReceiveShutdown \/ RequestShutdown
  BY <1>11 DEF ReceiveShutdown, RequestShutdown, registry, threads
<1>12. ASSUME NEW t \in Threads, ThreadStarts(t) PROVE ThreadsKnown'
  BY <1>12 DEF ThreadStarts, registry, request
<1>13. ASSUME NEW t \in Threads, Exits(t), MayExit(t) PROVE ThreadsKnown'
  BY <1>13 DEF Exits, MayExit, registry, request
<1>14. CASE UNCHANGED vars
  BY <1>14 DEF vars, registry, threads, request
<1>15. QED
  BY <1>1, <1>2, <1>3, <1>4, <1>5, <1>6, <1>7, <1>8, <1>9, <1>10, <1>11, <1>12,
     <1>13, <1>14, StepKinds DEF Main

\* The MITM thread runs from its creation until RequestMitmStop.
LEMMA MitmStep ==
  ASSUME IInv, [Next]_vars
  PROVE  MitmServes'
<1>. USE DEF IInv, Table, MitmServes, ThreadsKnown, OwnershipFollows, BeforeMitm,
             AfterMitm, Serving, ServingTargets, MayRun, MainPcs, TypeOK, Threads,
             Servers, Observers, Alive
<1>1. CASE StartServers
  BY <1>1 DEF StartServers, registry, threads, request
<1>2. CASE CreateMitmThread
  BY <1>2 DEF CreateMitmThread, registry, threads, request, Create
<1>3. CASE Registered
  BY <1>3 DEF Registered, registry, threads, request
<1>4. CASE RequestMitmStop
  BY <1>4 DEF RequestMitmStop, registry, threads, request
<1>5. CASE CreateControlThread \/ ControlReady \/
           (\E t \in Targets : RegisterTarget(t)) \/ MitmReady \/
           CreateBootWatchThread \/ BootWatchReady \/ CreateWatchdogThread \/
           WatchdogReady \/ WaitForShutdownRequest \/ StopServers \/
           StopBootWatchThread \/ StopWatchdogThread \/ JoinMitmThread \/
           (\E t \in Targets : UninstallTarget(t)) \/ RetainMitmServerManager \/
           RequestControlStop \/ JoinControlThread \/ Finish
  BY <1>5 DEF CreateControlThread, ControlReady, RegisterTarget, MitmReady,
              CreateBootWatchThread, BootWatchReady, CreateWatchdogThread,
              WatchdogReady, WaitForShutdownRequest, StopServers,
              StopBootWatchThread, StopWatchdogThread, JoinMitmThread,
              UninstallTarget, RetainMitmServerManager, RequestControlStop,
              JoinControlThread, Finish, registry, threads, request, Create, Joined
<1>6. CASE ReceiveShutdown \/ RequestShutdown
  BY <1>6 DEF ReceiveShutdown, RequestShutdown, registry, threads
<1>7. ASSUME NEW t \in Threads, ThreadStarts(t) PROVE MitmServes'
  BY <1>7 DEF ThreadStarts, registry, request
<1>8. ASSUME NEW t \in Threads, Exits(t), MayExit(t) PROVE MitmServes'
  BY <1>8 DEF Exits, MayExit, registry, request
<1>9. CASE UNCHANGED vars
  BY <1>9 DEF vars, registry, threads, request
<1>10. QED
  BY <1>1, <1>2, <1>3, <1>4, <1>5, <1>6, <1>7, <1>8, <1>9, StepKinds DEF Main

\* All or nothing: only a loop without a failure leads to serving.
LEMMA OwnershipStep ==
  ASSUME IInv, [Next]_vars
  PROVE  OwnershipFollows'
<1>. USE DEF IInv, Table, OwnershipFollows, ThreadsKnown, BeforeMitm, AfterMitm,
             Serving, ServingTargets, MayRun, MainPcs, TypeOK, Threads, Servers,
             Observers, Alive
<1>1. CASE StartServers
  BY <1>1 DEF StartServers, registry, threads, request
<1>2. CASE (\E t \in Targets : RegisterTarget(t))
  BY <1>2 DEF RegisterTarget, registry, threads, request
<1>3. CASE Registered
  BY <1>3 DEF Registered, registry, threads, request
<1>4. CASE JoinMitmThread
  BY <1>4 DEF JoinMitmThread, registry, threads, request, Joined
<1>5. CASE (\E t \in Targets : UninstallTarget(t))
  BY <1>5 DEF UninstallTarget, registry, threads, request
<1>6. CASE CreateControlThread \/ ControlReady \/ CreateMitmThread \/ MitmReady \/
           CreateBootWatchThread \/ BootWatchReady \/ CreateWatchdogThread \/
           WatchdogReady \/ WaitForShutdownRequest \/ StopServers \/
           StopBootWatchThread \/ StopWatchdogThread \/ RequestMitmStop \/
           RetainMitmServerManager \/ RequestControlStop \/ JoinControlThread \/
           Finish
  BY <1>6 DEF CreateControlThread, ControlReady, CreateMitmThread, MitmReady,
              CreateBootWatchThread, BootWatchReady, CreateWatchdogThread,
              WatchdogReady, WaitForShutdownRequest, StopServers,
              StopBootWatchThread, StopWatchdogThread, RequestMitmStop,
              RetainMitmServerManager, RequestControlStop, JoinControlThread,
              Finish, registry, threads, request, Create, Joined
<1>7. CASE ReceiveShutdown \/ RequestShutdown
  BY <1>7 DEF ReceiveShutdown, RequestShutdown, registry, threads
<1>8. ASSUME NEW t \in Threads, ThreadStarts(t) PROVE OwnershipFollows'
  BY <1>8 DEF ThreadStarts, registry, request
<1>9. ASSUME NEW t \in Threads, Exits(t), MayExit(t) PROVE OwnershipFollows'
  BY <1>9 DEF Exits, MayExit, registry, request
<1>10. CASE UNCHANGED vars
  BY <1>10 DEF vars, registry, threads, request
<1>11. QED
  BY <1>1, <1>2, <1>3, <1>4, <1>5, <1>6, <1>7, <1>8, <1>9, <1>10, StepKinds DEF Main

-----------------------------------------------------------------------------
(* The theorems. *)

\* Nothing runs and nothing is owned before main starts.
LEMMA InitTable == Init => IInv
<1>. SUFFICES ASSUME Init PROVE IInv
  OBVIOUS
<1>1. TypeOK
  <2>1. requests \in 0..MaxRequests
    BY RequestsAssumption DEF Init
  <2>2. QED
    BY <2>1 DEF Init, TypeOK, MainPcs, Threads, Servers, Observers
<1>2. LockHeld /\ ManagersThere
  BY DEF Init, LockHeld, ManagersThere, BeforeMitm
<1>3. ThreadsKnown
  BY DEF Init, ThreadsKnown, Alive, Threads
<1>4. MitmServes /\ OwnershipFollows
  BY DEF Init, MitmServes, OwnershipFollows, Serving, ServingTargets
<1>5. QED
  BY <1>1, <1>2, <1>3, <1>4 DEF IInv, Table

\* The table holds always.
LEMMA TableHolds == Spec => []IInv
<1>1. IInv /\ [Next]_vars => IInv'
  BY TypeStep, LockStep, ManagersStep, ThreadsStep, MitmStep, OwnershipStep DEF IInv, Table
<1>2. QED
  BY InitTable, <1>1, PTL DEF Spec

\* Only threads that were created are ever waited for and destroyed, in
\* every order of startup, failure and teardown (StartServers, StopServers).
THEOREM TypeCorrect == Spec => []TypeOK
<1>1. IInv => TypeOK
  BY DEF IInv
<1>2. QED
  BY <1>1, TableHolds, PTL

\* A thread that runs is one main has still to join, and main drops a
\* manager only after the joins of its users: no thread ever sees a server
\* manager that is gone.
THEOREM ManagersSafe == Spec => []ManagersOutliveThreads
<1>1. ASSUME IInv PROVE ManagersOutliveThreads
  <2>1. ASSUME NEW t \in Threads, Alive(t) PROVE mainPc \in MayRun(t)
    BY <1>1, <2>1 DEF IInv, Table, ThreadsKnown
  <2>2. Alive("control") => "control" \in managers
    BY <1>1, <2>1 DEF IInv, Table, ManagersThere, MayRun, MainPcs, Threads, Servers
  <2>3. Alive("mitm") \/ Alive("watchdog") => "mitm" \in managers
    BY <1>1, <2>1 DEF IInv, Table, ManagersThere, MayRun, ServingTargets, Serving,
                      BeforeMitm, AfterMitm, Threads, Servers, Observers
  <2>4. QED
    BY <2>2, <2>3 DEF ManagersOutliveThreads
<1>2. QED
  BY <1>1, TableHolds, PTL

\* Clients are served with every enabled target registered, or not at all,
\* whatever fails during startup.
THEOREM CompleteOrNothing == Spec => []CompleteSetServed
<1>1. ASSUME IInv PROVE CompleteSetServed
  <2>1. ASSUME Alive("mitm") PROVE owned = enabled /\ enabled \subseteq installed
    <3>1. "mitm" \in started /\ mainPc \in MayRun("mitm")
      BY <1>1, <2>1 DEF IInv, Table, ThreadsKnown, Threads, Servers
    <3>2. QED
      BY <1>1, <3>1 DEF IInv, Table, OwnershipFollows, MayRun
  <2>2. mainPc = "waitRequest" => owned = enabled /\ (enabled # {} => Alive("mitm"))
    BY <1>1 DEF IInv, Table, OwnershipFollows, MitmServes, Serving
  <2>3. QED
    BY <2>1, <2>2 DEF CompleteSetServed
<1>2. QED
  BY <1>1, TableHolds, PTL

\* Wherever startup failed, and after every shutdown, Main returns with no
\* thread, manager, lock or owned registration left.
THEOREM MainLeavesNothing == Spec => []NothingLeftBehind
<1>1. ASSUME IInv PROVE NothingLeftBehind
  <2>. SUFFICES ASSUME mainPc = "exited"
       PROVE  /\ \A t \in Threads : ~Alive(t)
              /\ managers = {} /\ started = {} /\ owned = {} /\ ~locked /\ ~calling
              /\ ~Fails("sm") => installed = {}
    BY DEF NothingLeftBehind
  <2>1. started = {}
    BY <1>1 DEF IInv, TypeOK, Table, ThreadsKnown, MayRun, MainPcs, ServingTargets, Serving
  <2>2. (\A t \in Threads : ~Alive(t)) /\ ~calling
    BY <1>1, <2>1 DEF IInv, Table, ThreadsKnown, Threads, Servers
  <2>3. managers = {}
    BY <1>1 DEF IInv, TypeOK, Table, ManagersThere, AfterMitm, Servers
  <2>4. ~locked /\ owned = {} /\ (~Fails("sm") => installed = {})
    BY <1>1 DEF IInv, TypeOK, Table, LockHeld, OwnershipFollows, AfterMitm
  <2>5. QED
    BY <2>1, <2>2, <2>3, <2>4
<1>2. QED
  BY <1>1, TableHolds, PTL

\* sm loses a registration of this process only in UninstallTarget, and main
\* gets there after it has joined the MITM thread.
THEOREM UninstalledLast == Spec => UninstalledAfterServing
<1>1. ASSUME IInv, [Next]_vars
      PROVE  [installed' # installed /\ installed' \subseteq installed => ~Alive("mitm")]_vars
  <2>1. ASSUME NEW t \in Targets, UninstallTarget(t) PROVE ~Alive("mitm")
    BY <1>1, <2>1 DEF UninstallTarget, IInv, Table, ThreadsKnown, MayRun, ServingTargets,
                      Serving, Threads, Servers
  <2>2. ASSUME NEW t \in Targets, RegisterTarget(t)
        PROVE  ~(installed' # installed /\ installed' \subseteq installed)
    BY <2>2 DEF RegisterTarget
  <2>3. Main => \/ installed' = installed
                \/ \E t \in Targets : RegisterTarget(t) \/ UninstallTarget(t)
    BY DEF Main, StartServers, CreateControlThread, ControlReady, Registered,
           CreateMitmThread, MitmReady, CreateBootWatchThread, BootWatchReady,
           CreateWatchdogThread, WatchdogReady, WaitForShutdownRequest, StopServers,
           StopBootWatchThread, StopWatchdogThread, RequestMitmStop, JoinMitmThread,
           RetainMitmServerManager, RequestControlStop, JoinControlThread, Finish, registry
  <2>4. ~Main => installed' = installed
    BY <1>1, StepKinds DEF ReceiveShutdown, RequestShutdown, ThreadStarts, Exits, vars, registry
  <2>5. QED
    BY <2>1, <2>2, <2>3, <2>4
<1>2. QED
  BY <1>1, TableHolds, PTL DEF Spec, UninstalledAfterServing
===============================================================================
