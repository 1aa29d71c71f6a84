-------------------------- MODULE MCProbeObservers --------------------------
(***************************************************************************)
(* Three parts of net-probe that share no state, on small instances: the   *)
(* admission of clients, the watchdog, and the reading of messages.  What  *)
(* one does neither enables nor disturbs another, so a behaviour runs one  *)
(* of them and the other two stay in their initial states.                 *)
(***************************************************************************)
EXTENDS BsdAdmission, Sequences

CONSTANTS
  RingSize, BatchSize, PostTeardown, IdleInterval, MaxRecords, MaxSessions, MaxChanges
CONSTANTS
  Objects, Commands, Results, Payloads, Starts, ObjectSlots, MaxReturned, BufferWords, MaxMessages

VARIABLES
  part,      \* the part that runs
  written, tracked, shutdown, pc, cursor, dropped, previous, remaining, idle, sampled,
  logged, silent, sinceGone, connects,
  buffer, hipc, sent, info, phase, messages

Watchdog == INSTANCE ProbeWatchdog
Decode == INSTANCE MessageDecode

ASSUME WatchdogParameters == Watchdog!Parameters
ASSUME DecodeParameters == Decode!Parameters

\* The toolbox forwarder runs twice, one process after the other.
MCProcesses == {"toolbox1", "toolbox2", "home"}
MCProgram ==
  [p \in MCProcesses |-> IF p = "home" THEN "qlaunch" ELSE "toolbox-forwarder"]
MCOverrides == {<<"bsd:s", "toolbox-forwarder">>, <<"bsd:a", "qlaunch">>}

\* Payloads of none and five words and two that start like a CMIF header
\* (InHeaderMagic, OutHeaderMagic); HIPC headers that end on and off a 16-byte
\* boundary.
MCStarts == {2, 4}
MCPayloads == {<<>>, <<1, 2, 3, 4, 5>>, <<1229145683, 3, 4, 5>>, <<1329809491, 3, 4, 5>>}

watchdogVars == <<written, tracked, shutdown, pc, cursor, dropped, previous, remaining, idle,
                  sampled, logged, silent, sinceGone, connects>>
decodeVars == <<buffer, hipc, sent, info, phase, messages>>
allVars == <<part, vars, watchdogVars, decodeVars>>

\* An action of one part.
Admits(A) == part = "admission" /\ A /\ UNCHANGED <<part, watchdogVars, decodeVars>>
Watches(A) == part = "watchdog" /\ A /\ UNCHANGED <<part, vars, decodeVars>>
Decodes(A) == part = "decode" /\ A /\ UNCHANGED <<part, vars, watchdogVars>>

MCInit ==
  /\ part \in {"admission", "watchdog", "decode"}
  /\ Init /\ (part # "admission" => mode = "Both")
  /\ Watchdog!Init /\ Decode!Init

MCNext == Admits(Next) \/ Watches(Watchdog!Next) \/ Decodes(Decode!Next)

\* The fairness of BsdAdmission's FairSpec and of ProbeWatchdog's.
MCFairness ==
  /\ WF_allVars(Admits(NotePending)) /\ WF_allVars(Admits(AnswerQuery))
  /\ WF_allVars(Admits(AcceptMitmImpl)) /\ WF_allVars(Admits(AcceptFailed))
  /\ WF_allVars(Admits(PromoteFromPending)) /\ WF_allVars(Admits(Accepted))
  /\ \A s \in Services : SF_allVars(Admits(Acknowledge(s)))
  /\ WF_allVars(Watches(Watchdog!Watchdog))

MCSpec == MCInit /\ [][MCNext]_allVars /\ MCFairness

-----------------------------------------------------------------------------
\* The type invariants of the three parts.
TypesOK == TypeOK /\ Watchdog!TypeOK /\ Decode!TypeOK

\* Every record of the query trace that the watchdog's cursor has passed was
\* logged, once and in order, or is counted as dropped, although the ring is
\* overwritten while it is drained (LogMitmQueryTelemetry); and the log is never
\* silent for as long as the idle interval, nor while the watchdog watches a
\* teardown (WatchdogThreadMain).
WatchdogAccounts ==
  Watchdog!RecordsAccounted /\ Watchdog!NeverSilentLong /\ Watchdog!TeardownWatched

\* A command or reply is traced as what its sender meant, also over what
\* earlier messages left in the buffer (ParseRequestInfo, ParseResponseInfo).
\* What is excepted, and stated as it is traced instead: a session's close is
\* invalid; a domain object's close is a root_close without the object, though
\* docs/contracts/trace-format.md lists domain_close; returned ids that do not
\* fit in ObjectSlots are none, and stand behind the payload; the payload of a
\* root command has its pointer sizes behind it.  Of a root reply whose payload
\* starts like a header nothing is claimed but its result.
MessagesReadBack ==
  /\ Decode!RequestReadBack /\ Decode!CloseTracedAs
  /\ Decode!ReplyReadBack /\ Decode!ReplyPayloadReadBack

\* No failure on the way to an active session leaves a trace in the pending
\* count; every record is drained or counted, and a shutdown ends the watchdog.
ObserversProgress ==
  PendingDrains /\ Watchdog!RecordsAreDrained /\ Watchdog!ShutdownEndsWatchdog
=============================================================================
