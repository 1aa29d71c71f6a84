--------------------------- MODULE TunnelContract ---------------------------
(***************************************************************************)
(* The contract validation of the toolbox over wgnx:tun                    *)
(* (toolbox/src/wgnx_tunnel_scenario.cpp,                                  *)
(* RunWgnxTunnelContractValidation): it judges the service, so what        *)
(* matters is whether its verdict is right.  A clone of a client session   *)
(* must keep the client's context after the original is closed, and its    *)
(* own close must give the context back; a mixed batch must be answered    *)
(* entry by entry.                                                         *)
(*                                                                         *)
(* The service is external.  It has Capacity client contexts, each kept    *)
(* alive by the sessions that refer to it, and one fault, which the        *)
(* validation is there to find.  It may close at any point.  Disturbed     *)
(* adds other clients of the service and calls that fail for no reason.    *)
(***************************************************************************)
EXTENDS Naturals, FiniteSets

CONSTANTS
  VerifyClone,   \* config.verify_cloned_session_lifetime
  VerifyBatch,   \* config.verify_mixed_batch
  Capacity,      \* MaximumClientContexts
  Faults,        \* faults of the service to consider
  Disturbed      \* other clients, and calls that fail on their own

\* What may be wrong: the context goes with the original, for every call or
\* for the count alone; it stays after the last close, of every client or of
\* one that was cloned; a batch is answered wrongly.
AllFaults == {"none", "frees", "uncounted", "leaksAll", "leaks", "dispositions"}
\* What a module that instantiates this one assumes.
Parameters ==
  /\ VerifyClone \in BOOLEAN /\ VerifyBatch \in BOOLEAN /\ (VerifyClone \/ VerifyBatch)
  /\ Capacity \in Nat \ {0} /\ Faults \subseteq AllFaults /\ Disturbed \in BOOLEAN

Contexts == 1..Capacity
Extras == 1..Capacity - 1                      \* retained
Primary == <<"primary", 0>>
Clone == <<"clone", 0>>
Retained(i) == <<"retained", i>>
Sessions == {Primary, Clone} \cup {Retained(i) : i \in Extras}
Lost == <<"lost", 0>>                          \* external: nobody, but not free either
Other == <<"other", 0>>                        \* external: another client

VARIABLES
  pc,         \* where the validation is, see Pcs
  opened,     \* the sessions the validation has open
  extra,      \* sessions of retained it has opened so far
  flow,       \* cloned_flow or batch_flow is open
  eventOpen,  \* completion_event is open
  verdict,    \* why it ended
  fault,      \* external: what is wrong with the service
  alive,      \* external: the service runs
  holders,    \* external: who keeps each context; sessions, Lost or Other
  works,      \* external: sessions the service still serves
  failedAt    \* history: the calls that failed because the service was gone

service == <<fault, alive, holders, works>>
vars == <<pc, opened, extra, flow, eventOpen, verdict, service, failedAt>>

Pcs == {"prepare", "clone", "openFlow", "loadEvent", "closeOriginal", "fill", "probe", "send",
        "echo", "closeClone", "batch", "sendBatch", "batchEvent", "batchEcho", "closeBatch", "abandon",
        "done"}

Init ==
  /\ pc = "prepare" /\ opened = {} /\ extra = 0 /\ flow = FALSE /\ eventOpen = FALSE
  /\ verdict = "none"
  /\ fault \in Faults /\ alive = TRUE /\ holders = [c \in Contexts |-> {}] /\ works = {}
  /\ failedAt = {}

-----------------------------------------------------------------------------
(* The service. *)

Free == {c \in Contexts : holders[c] = {}}

Leaks(h) == fault = "leaksAll" \/ (fault = "leaks" /\ Clone \in h)

\* Sessions end: who keeps the contexts then.
After(ss) ==
  [c \in Contexts |->
     IF holders[c] \cap ss = {} THEN holders[c]
     ELSE IF holders[c] \subseteq ss THEN (IF Leaks(holders[c]) THEN {Lost} ELSE {})
     ELSE IF fault \in {"frees", "uncounted"} /\ Primary \in ss THEN {}
     ELSE holders[c] \ ss]

\* Faulty services forget the clone, or its context, with the original.
Served(s) ==
  works \ (IF s = Primary /\ fault = "frees" THEN {s, Clone} ELSE {s})

OpenTunnelClient(s) ==
  /\ alive /\ Free # {}
  /\ \E c \in Free : holders' = [holders EXCEPT ![c] = {s}]
  /\ works' = works \cup {s} /\ opened' = opened \cup {s}

\* Closing a session that the service has lost already does nothing.
CloseSession(s) ==
  /\ opened' = opened \ {s}
  /\ holders' = After({s}) /\ works' = Served(s)

\* Another client takes or returns a context.
OtherClient ==
  /\ Disturbed /\ alive
  /\ \E c \in Contexts :
       \/ holders[c] = {} /\ holders' = [holders EXCEPT ![c] = {Other}]
       \/ holders[c] = {Other} /\ holders' = [holders EXCEPT ![c] = {}]
  /\ UNCHANGED <<pc, opened, extra, flow, eventOpen, verdict, fault, alive, works, failedAt>>

Shutdown ==
  /\ alive /\ alive' = FALSE /\ works' = {} /\ holders' = [c \in Contexts |-> {}]
  /\ UNCHANGED <<pc, opened, extra, flow, eventOpen, verdict, fault, failedAt>>

-----------------------------------------------------------------------------
(* Steps of the validation.  Each is a call that succeeds or gives up.       *)

MayFail == Disturbed \/ ~alive
NoteFailure == failedAt' = IF alive THEN failedAt ELSE failedAt \cup {pc}

\* Give up; what is open is closed by the step Abandon.
GiveUp(why) ==
  /\ verdict' = why /\ pc' = "abandon" /\ NoteFailure
  /\ UNCHANGED <<opened, extra, flow, eventOpen, service>>

\* A call on a session that the service serves, and what it is for.
Call(at, s, next, why) ==
  /\ pc = at
  /\ \/ s \in works /\ pc' = next /\ UNCHANGED <<verdict, failedAt, opened, extra, service>>
     \/ /\ MayFail \/ s \notin works
        /\ verdict' = why /\ pc' = "abandon" /\ NoteFailure
        /\ UNCHANGED <<opened, extra, service>>

\* Availability, destination, root, capabilities, primary.
Prepare ==
  /\ pc = "prepare"
  /\ \/ /\ OpenTunnelClient(Primary)
        /\ pc' = IF VerifyClone THEN "clone" ELSE "batch"
        /\ UNCHANGED <<extra, flow, eventOpen, verdict, fault, alive, failedAt>>
     \/ MayFail /\ GiveUp("setup")

\* CloneTunnelClient and GetCapabilities: the clone shares the context.
CloneTunnelClient ==
  /\ pc = "clone"
  /\ \/ /\ Primary \in works
        /\ holders' = [c \in Contexts |->
             IF Primary \in holders[c] THEN holders[c] \cup {Clone} ELSE holders[c]]
        /\ works' = works \cup {Clone} /\ opened' = opened \cup {Clone}
        /\ pc' = "openFlow"
        /\ UNCHANGED <<extra, flow, eventOpen, verdict, fault, alive, failedAt>>
     \/ MayFail /\ GiveUp("clone")

\* A flow of the original session; a refused one is left to the session's end.
OpenFlow(at, next) ==
  Call(at, Primary, next, "flow") /\ flow' = (pc' = next) /\ UNCHANGED eventOpen
LoadEvent(at, s, next) ==
  Call(at, s, next, "event") /\ eventOpen' = (pc' = next) /\ UNCHANGED flow

CloseOriginal ==
  /\ pc = "closeOriginal" /\ CloseSession(Primary) /\ pc' = "fill"
  /\ UNCHANGED <<extra, flow, eventOpen, verdict, fault, alive, failedAt>>

\* The other contexts are taken, one after the other.
Fill ==
  /\ pc = "fill"
  /\ \/ /\ extra < Capacity - 1 /\ OpenTunnelClient(Retained(extra + 1))
        /\ extra' = extra + 1
        /\ UNCHANGED <<pc, flow, eventOpen, verdict, fault, alive, failedAt>>
     \/ /\ extra < Capacity - 1 /\ (MayFail \/ Free = {})
        /\ GiveUp("capacity")
     \/ /\ extra = Capacity - 1 /\ pc' = "probe"
        /\ UNCHANGED <<opened, extra, flow, eventOpen, verdict, service, failedAt>>

\* No further client can be opened while the clone holds its context.  Any
\* failure is taken for that, the end of the service included.
Probe ==
  /\ pc = "probe"
  /\ \/ /\ alive /\ Free # {}
        /\ verdict' = "not_retained" /\ pc' = "abandon"
        /\ UNCHANGED <<opened, extra, flow, eventOpen, service, failedAt>>
     \/ /\ MayFail \/ Free = {}
        /\ pc' = "send" /\ NoteFailure
        /\ UNCHANGED <<opened, extra, flow, eventOpen, verdict, service>>

SendOnClone == Call("send", Clone, "echo", "send") /\ UNCHANGED <<flow, eventOpen>>

\* WaitForEcho, see TunnelUdpWorkload: an echo, none in time, or the service
\* is gone.  The event is closed in any case.
AwaitEcho(at, s, next) ==
  /\ pc = at /\ eventOpen' = FALSE
  /\ \/ s \in works /\ pc' = next /\ UNCHANGED <<verdict, failedAt>>
     \/ alive /\ pc' = "abandon" /\ verdict' = "echo" /\ UNCHANGED failedAt
     \/ ~alive /\ pc' = "abandon" /\ verdict' = "lost" /\ NoteFailure
  /\ UNCHANGED <<opened, extra, flow, service>>

\* The clone and the sessions that filled the service are closed, and a client
\* is opened again.
CloseClone ==
  /\ pc = "closeClone" /\ flow' = FALSE
  /\ LET closed == {Clone} \cup {Retained(i) : i \in Extras}
         left == After(closed)
     IN \/ /\ alive
           /\ \E c \in {d \in Contexts : left[d] = {}} : holders' = [left EXCEPT ![c] = {Primary}]
           /\ opened' = {Primary} /\ works' = (works \ closed) \cup {Primary}
           /\ pc' = IF VerifyBatch THEN "batch" ELSE "done"
           /\ verdict' = IF VerifyBatch THEN verdict ELSE "success"
           /\ UNCHANGED failedAt
        \/ /\ MayFail \/ {d \in Contexts : left[d] = {}} = {}
           /\ holders' = left /\ opened' = {} /\ works' = works \ closed
           /\ pc' = "abandon" /\ verdict' = "not_released" /\ NoteFailure
  /\ UNCHANGED <<extra, eventOpen, fault, alive>>

\* One batch with four entries, each with a status of its own.
SendBatch ==
  IF fault = "dispositions" /\ Primary \in works
  THEN pc = "sendBatch" /\ GiveUp("dispositions")
  ELSE Call("sendBatch", Primary, "batchEvent", "send") /\ UNCHANGED <<flow, eventOpen>>

\* The echo of the batch has come: the flow is closed and the validation over.
Finish ==
  /\ pc = "closeBatch" /\ flow' = FALSE /\ pc' = "done" /\ verdict' = "success" /\ NoteFailure
  /\ UNCHANGED <<opened, extra, eventOpen, service>>

\* Faulty variant: the event is forgotten.
AbandonEvent ==
  /\ pc = "abandon"
  /\ failedAt' = IF flow /\ verdict # "lost" /\ ~alive THEN failedAt \cup {pc} ELSE failedAt
  /\ flow' = FALSE /\ pc' = "done"
  /\ UNCHANGED <<opened, extra, eventOpen, verdict, service>>

\* The exit of every failure: event and flow are closed, the flow not if the
\* service is known to be gone.
Abandon ==
  /\ pc = "abandon"
  /\ failedAt' = IF flow /\ verdict # "lost" /\ ~alive THEN failedAt \cup {pc} ELSE failedAt
  /\ flow' = FALSE /\ eventOpen' = FALSE /\ pc' = "done"
  /\ UNCHANGED <<opened, extra, verdict, service>>

\* The scopes of the sessions end.
CloseScoped ==
  /\ pc = "done"
  /\ \E s \in opened : CloseSession(s)
  /\ UNCHANGED <<pc, extra, flow, eventOpen, verdict, fault, alive, failedAt>>

Validation ==
  \/ Prepare \/ CloneTunnelClient \/ OpenFlow("openFlow", "loadEvent")
  \/ LoadEvent("loadEvent", Clone, "closeOriginal")
  \/ CloseOriginal \/ Fill \/ Probe \/ SendOnClone
  \/ AwaitEcho("echo", Clone, "closeClone") \/ CloseClone
  \/ OpenFlow("batch", "sendBatch") \/ SendBatch
  \/ LoadEvent("batchEvent", Primary, "batchEcho")
  \/ AwaitEcho("batchEcho", Primary, "closeBatch") \/ Finish
  \/ Abandon \/ CloseScoped

Next == Validation \/ OtherClient \/ Shutdown
Spec == Init /\ [][Next]_vars

-----------------------------------------------------------------------------
TypeOK ==
  /\ pc \in Pcs /\ opened \subseteq Sessions /\ extra \in 0..Capacity - 1
  /\ flow \in BOOLEAN /\ eventOpen \in BOOLEAN
  /\ verdict \in {"none", "setup", "clone", "flow", "event", "capacity", "not_retained", "send",
                  "echo", "lost", "not_released", "dispositions", "success"}
  /\ fault \in Faults /\ alive \in BOOLEAN
  /\ holders \in [Contexts -> SUBSET (Sessions \cup {Lost, Other})] /\ works \subseteq Sessions
  /\ failedAt \subseteq Pcs

\* A service that loses the clone's context with the original, or answers a
\* batch wrongly, is never passed ("verifies that a further client cannot be
\* opened while the clone is the final reference", toolbox/README.md).
FaultsFound ==
  verdict = "success" =>
    /\ VerifyClone => fault \notin {"frees", "uncounted", "leaksAll"}
    /\ VerifyBatch => fault # "dispositions"

\* A service that keeps the contract is never accused of breaking it.
NoFalseAlarm ==
  verdict \in {"not_retained", "not_released", "capacity", "dispositions"} /\ alive =>
    fault # "none"

\* Event and flow are released on every path, and at the end no context of a
\* service that keeps count is taken by the validation.
ReleasedAtEnd ==
  pc = "done" =>
    /\ ~eventOpen /\ ~flow
    /\ opened = {} /\ fault \notin {"leaks", "leaksAll"} => \A c \in Contexts : holders[c] \subseteq {Other}

\* After a failed wait for an echo the closed service is not called again, as
\* toolbox/README.md:144 says.  After any other failed call it is called once
\* more, for CloseFlow; and a probe that failed because the service is gone is
\* taken for the refusal it asks for, so the datagram is still sent
\* (wgnx_tunnel_scenario.cpp:1005).  CloseFlow's own result is ignored: in the
\* step closeClone it may be the first to fail, before OpenTunnelClient does.
RetriesOnlyCloseFlow ==
  /\ failedAt \cap {"echo", "batchEcho"} # {} => \E at \in Pcs : failedAt = {at}
  /\ \/ failedAt \subseteq {"probe", "send", "abandon"}
     \/ \E at \in Pcs : failedAt \subseteq {at, "abandon"}
=============================================================================
