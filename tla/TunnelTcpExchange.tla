------------------------- MODULE TunnelTcpExchange -------------------------
(***************************************************************************)
(* The TCP exchange of the toolbox over wgnx:tun                           *)
(* (toolbox/src/wgnx_tunnel_scenario.cpp, RunWgnxTunnelTcpExchange with    *)
(* WaitForTcpProgress): open a flow, wait until it is open, write a        *)
(* request, close the write side, and collect the reply until the peer     *)
(* closes its side.  Stream data comes in the order of the completion      *)
(* queue, but the flags of a flow are read from its current state.         *)
(*                                                                         *)
(* The reply is a number of units, each right or wrong.  The service and   *)
(* the peer are external: the peer answers after the request, in pieces,   *)
(* and then closes; the flow or the service may go at any point.           *)
(***************************************************************************)
EXTENDS Naturals, Sequences

CONSTANTS
  ReplySize,       \* sizeof(TcpExpectedReply) - 1, in units
  BatchSize,       \* MaximumBatchEntries
  Deadline,        \* config.receive_deadline_ms, in ticks
  AnnouncesWrite,  \* external: the end of the own write side is announced too
  MaxSent          \* bound: units the peer sends

\* What a module that instantiates this one assumes.
Parameters ==
  /\ ReplySize \in Nat \ {0} /\ BatchSize \in Nat \ {0} /\ Deadline \in Nat \ {0}
  /\ AnnouncesWrite \in BOOLEAN /\ MaxSent \in Nat

VARIABLES
  pc,            \* where the exchange is, see Pcs
  phase,         \* the WaitForTcpProgress it is in: "connect" or "reply"
  clock,         \* ticks of the current wait
  batch,         \* completions taken and not handled yet
  progress,      \* CompletionWaitResult and the reply collected in this wait
  verdict,       \* why it ended
  eventOpen,     \* completion_event is open
  alive,         \* external: the service runs
  flow,          \* external: "none", "connecting", "open", "closed", "released"
  portless,      \* external: the flow was opened without a local endpoint
  remoteOpen,    \* external: FlowStreamFlagRemoteWriteOpen
  completions,   \* external: the completion queue
  requested,     \* external: the peer has the request
  sent,          \* external: units the peer sent
  wrong,         \* external: one of them was wrong
  failedAt       \* history: the calls that failed because the service was gone

service == <<alive, flow, portless, remoteOpen, completions, requested, sent, wrong>>
vars == <<pc, phase, clock, batch, progress, verdict, eventOpen, service, failedAt>>

Pcs == {"prepare", "open", "wait", "receive", "handle", "check", "write",
        "shutdown", "close", "release", "done"}
NoProgress == [open |-> FALSE, remoteClosed |-> FALSE, malformed |-> FALSE, size |-> 0, right |-> TRUE]
State(s) == [type |-> "FlowStateChanged", state |-> s]
Data(n, right) == [type |-> "InboundTcpStream", size |-> n, right |-> right]

Init ==
  /\ pc = "prepare" /\ phase = "connect" /\ clock = 0 /\ batch = <<>> /\ progress = NoProgress
  /\ verdict = "none" /\ eventOpen = FALSE
  /\ alive = TRUE /\ flow = "none" /\ portless = FALSE /\ remoteOpen = FALSE
  /\ completions = <<>> /\ requested = FALSE /\ sent = 0 /\ wrong = FALSE
  /\ failedAt = {}

-----------------------------------------------------------------------------
(* The service and the peer. *)

Establish ==
  /\ alive /\ flow = "connecting" /\ flow' = "open" /\ remoteOpen' = TRUE
  /\ completions' = Append(completions, State("Open"))
  /\ UNCHANGED <<alive, portless, requested, sent, wrong>>

PeerSends(n, right) ==
  /\ alive /\ flow = "open" /\ requested /\ remoteOpen /\ sent + n <= MaxSent
  /\ sent' = sent + n /\ wrong' = (wrong \/ ~right)
  /\ completions' = Append(completions, Data(n, right))
  /\ UNCHANGED <<alive, flow, portless, remoteOpen, requested>>

PeerCloses ==
  /\ alive /\ flow = "open" /\ requested /\ remoteOpen
  /\ remoteOpen' = FALSE
  /\ completions' = Append(completions, State("Open"))
  /\ UNCHANGED <<alive, flow, portless, requested, sent, wrong>>

\* Refused, timed out, reset, or ended by the service.
FlowEnds ==
  /\ alive /\ flow \in {"connecting", "open"} /\ flow' = "closed" /\ remoteOpen' = FALSE
  /\ completions' = Append(completions, State("Closed"))
  /\ UNCHANGED <<alive, portless, requested, sent, wrong>>

Shutdown ==
  /\ alive /\ alive' = FALSE
  /\ UNCHANGED <<flow, portless, remoteOpen, completions, requested, sent, wrong>>

Service ==
  /\ \/ Establish \/ PeerCloses \/ FlowEnds \/ Shutdown
     \/ \E n \in 1..MaxSent, right \in BOOLEAN : PeerSends(n, right)
  /\ UNCHANGED <<pc, phase, clock, batch, progress, verdict, eventOpen, failedAt>>

-----------------------------------------------------------------------------
(* The exchange.  A call fails when the service is gone, and may fail or     *)
(* return another status otherwise.                                          *)

NoteFailure == failedAt' = IF alive THEN failedAt ELSE failedAt \cup {pc}

GiveUp(why) ==
  /\ verdict' = why /\ pc' = "release" /\ NoteFailure
  /\ UNCHANGED <<phase, clock, batch, progress, eventOpen, service>>

\* A new call of WaitForTcpProgress.
StartWait(which) ==
  /\ phase' = which /\ pc' = "wait" /\ clock' = 0 /\ batch' = <<>> /\ progress' = NoProgress

\* Availability, root, capabilities, destination, client, event.
Prepare ==
  /\ pc = "prepare"
  /\ \/ alive /\ pc' = "open" /\ eventOpen' = TRUE /\ UNCHANGED verdict
     \/ pc' = "done" /\ verdict' = "setup" /\ UNCHANGED eventOpen
  /\ NoteFailure
  /\ UNCHANGED <<phase, clock, batch, progress, service>>

OpenConnectedFlow ==
  /\ pc = "open"
  /\ \/ /\ alive /\ flow' = "connecting" /\ StartWait("connect")
        /\ UNCHANGED <<verdict, eventOpen, portless>>
     \/ /\ \/ alive /\ flow' = "connecting" /\ portless' = TRUE
           \/ UNCHANGED <<flow, portless>>
        /\ eventOpen' = FALSE /\ verdict' = "setup" /\ pc' = "done"
        /\ UNCHANGED <<phase, clock, batch, progress>>
  /\ NoteFailure
  /\ UNCHANGED <<alive, remoteOpen, completions, requested, sent, wrong>>

\* eventWait
Wake ==
  /\ pc = "wait" /\ (completions # <<>> \/ ~alive)
  /\ pc' = "receive"
  /\ UNCHANGED <<phase, clock, batch, progress, verdict, eventOpen, service, failedAt>>

Tick ==
  /\ pc = "wait" /\ clock < Deadline /\ clock' = clock + 1
  /\ UNCHANGED <<pc, phase, batch, progress, verdict, eventOpen, service, failedAt>>

TimesOut ==
  /\ pc = "wait" /\ clock = Deadline
  /\ verdict' = "deadline" /\ pc' = "release"
  /\ UNCHANGED <<phase, clock, batch, progress, eventOpen, service, failedAt>>

ReceiveCompletions ==
  /\ pc = "receive"
  /\ \/ GiveUp(IF alive THEN "status" ELSE "lost")
     \/ /\ alive /\ completions = <<>>
        /\ IF clock < Deadline
           THEN pc' = "wait" /\ UNCHANGED verdict
           ELSE pc' = "release" /\ verdict' = "deadline"
        /\ UNCHANGED <<phase, clock, batch, progress, eventOpen, service, failedAt>>
     \/ /\ alive /\ completions # <<>>
        /\ LET n == IF Len(completions) < BatchSize THEN Len(completions) ELSE BatchSize
           IN /\ batch' = SubSeq(completions, 1, n)
              /\ completions' = SubSeq(completions, n + 1, Len(completions))
        /\ pc' = "handle"
        /\ UNCHANGED <<phase, clock, progress, verdict, eventOpen, alive, flow, portless,
                       remoteOpen, requested, sent, wrong, failedAt>>

\* Faulty variant: a reply that ends with the piece does not fit.
CollectShort(piece) ==
  IF progress.size + piece.size >= ReplySize
  THEN [progress EXCEPT !.malformed = TRUE]
  ELSE [progress EXCEPT !.size = @ + piece.size, !.right = @ /\ piece.right]

\* A piece that does not fit makes the reply malformed and is left out.
Collect(piece) ==
  IF progress.size + piece.size > ReplySize
  THEN [progress EXCEPT !.malformed = TRUE]
  ELSE [progress EXCEPT !.size = @ + piece.size, !.right = @ /\ piece.right]

\* One completion of the batch: the end of the flow ends the wait; another
\* state is followed by a query of the current one; data is collected.
HandleCompletion ==
  /\ pc = "handle" /\ batch # <<>>
  /\ LET c == Head(batch)
     IN \/ /\ c = State("Closed") /\ verdict' = "terminal" /\ pc' = "release"
           /\ UNCHANGED <<phase, clock, batch, progress, eventOpen, service, failedAt>>
        \/ c.type = "FlowStateChanged" /\ (~alive \/ flow = "closed") /\ GiveUp("state")
        \/ /\ c = State("Open") /\ alive
           /\ progress' = [progress EXCEPT !.open = TRUE, !.remoteClosed = ~remoteOpen]
           /\ batch' = Tail(batch)
           /\ UNCHANGED <<pc, phase, clock, verdict, eventOpen, service, failedAt>>
        \/ /\ c.type = "InboundTcpStream"
           /\ progress' = Collect(c)
           /\ batch' = Tail(batch)
           /\ UNCHANGED <<pc, phase, clock, verdict, eventOpen, service, failedAt>>

ReplyValid == progress.size = ReplySize /\ progress.right
Malformed == progress.malformed \/ (phase = "reply" /\ progress.size = ReplySize /\ ~ReplyValid)

Complete ==
  IF phase = "connect" THEN progress.open ELSE ReplyValid /\ progress.remoteClosed

\* The batch is handled: judge what was collected so far.
Evaluate ==
  /\ pc = "handle" /\ batch = <<>>
  /\ progress' = [progress EXCEPT !.malformed = Malformed]
  /\ IF Malformed
     THEN pc' = "release" /\ verdict' = "malformed"
     ELSE IF phase = "reply" /\ progress.remoteClosed /\ ~ReplyValid
     THEN pc' = "release" /\ verdict' = "premature_eof"
     ELSE /\ pc' = IF ~Complete THEN "receive" ELSE IF phase = "connect" THEN "check" ELSE "close"
          /\ UNCHANGED verdict
  /\ UNCHANGED <<phase, clock, batch, eventOpen, service, failedAt>>

\* GetFlowState must show an open flow.
CheckOpen ==
  /\ pc = "check"
  /\ \/ GiveUp("state")
     \/ /\ alive /\ flow = "open" /\ pc' = "write"
        /\ UNCHANGED <<phase, clock, batch, progress, verdict, eventOpen, service, failedAt>>

\* The request is written as a whole, or the exchange fails.
WriteTcpStream ==
  /\ pc = "write"
  /\ \/ GiveUp("write")
     \/ /\ alive /\ flow = "open" /\ requested' = TRUE /\ pc' = "shutdown"
        /\ UNCHANGED <<phase, clock, batch, progress, verdict, eventOpen, alive, flow, portless,
                       remoteOpen, completions, sent, wrong, failedAt>>

ShutdownTcpWrite ==
  /\ pc = "shutdown"
  /\ \/ GiveUp("write")
     \/ /\ alive /\ flow = "open" /\ StartWait("reply")
        /\ completions' =
             IF AnnouncesWrite THEN Append(completions, State("Open")) ELSE completions
        /\ UNCHANGED <<verdict, eventOpen, alive, flow, portless, remoteOpen, requested, sent,
                       wrong, failedAt>>

ReleaseFlow == flow' = IF alive THEN "released" ELSE flow

\* Success needs the close to succeed.
CloseFlow ==
  /\ pc = "close"
  /\ \/ alive /\ ReleaseFlow /\ verdict' = "success"
     \/ verdict' = "close" /\ ReleaseFlow
  /\ eventOpen' = FALSE /\ pc' = "done" /\ NoteFailure
  /\ UNCHANGED <<phase, clock, batch, progress, alive, portless, remoteOpen, completions,
                 requested, sent, wrong>>

\* close_flow and eventClose of every failure, whatever it was.
Release ==
  /\ pc = "release"
  /\ ReleaseFlow /\ eventOpen' = FALSE /\ pc' = "done" /\ NoteFailure
  /\ UNCHANGED <<phase, clock, batch, progress, verdict, alive, portless, remoteOpen,
                 completions, requested, sent, wrong>>

Exchange ==
  \/ Prepare \/ OpenConnectedFlow \/ Wake \/ Tick \/ TimesOut \/ ReceiveCompletions
  \/ HandleCompletion \/ Evaluate \/ CheckOpen \/ WriteTcpStream \/ ShutdownTcpWrite
  \/ CloseFlow \/ Release

Next == Exchange \/ Service
Spec == Init /\ [][Next]_vars

\* The worker thread is scheduled and time passes; nothing is asked of others.
FairSpec == Spec /\ WF_vars(Exchange)

-----------------------------------------------------------------------------
TypeOK ==
  /\ pc \in Pcs /\ phase \in {"connect", "reply"} /\ clock \in 0..Deadline
  /\ progress \in [open: BOOLEAN, remoteClosed: BOOLEAN, malformed: BOOLEAN,
                   size: 0..ReplySize, right: BOOLEAN]
  /\ verdict \in {"none", "setup", "deadline", "status", "lost", "terminal", "state",
                  "malformed", "premature_eof", "write", "close", "success"}
  /\ eventOpen \in BOOLEAN /\ alive \in BOOLEAN /\ portless \in BOOLEAN /\ remoteOpen \in BOOLEAN
  /\ flow \in {"none", "connecting", "open", "closed", "released"}
  /\ requested \in BOOLEAN /\ sent \in 0..MaxSent /\ wrong \in BOOLEAN
  /\ failedAt \subseteq Pcs

\* "reply=validated eof=observed": the whole reply, nothing else, and the
\* peer's close, across any cut into pieces and batches.
ReplyValidatedOnSuccess ==
  verdict = "success" => requested /\ sent = ReplySize /\ ~wrong /\ ~remoteOpen

\* A premature end of the stream is reported only when the peer did end it
\* early, not when its data is still to be read.
NoFalseEof == verdict = "premature_eof" => ~remoteOpen /\ sent < ReplySize

\* Where the own close is announced as well, the flags may be ahead of data in
\* the queue, so the verdict may come before the last pieces: what remains true
\* is that no end of the stream is reported that the peer has not sent.
EofIsReal == verdict \in {"success", "premature_eof"} => requested /\ ~remoteOpen

\* A reply is called malformed only when the peer sent one.
NoFalseMalformed == verdict = "malformed" => wrong \/ sent > ReplySize

\* Event and flow are released on every path.
ReleasedAtEnd ==
  pc = "done" => ~eventOpen /\ (alive => flow \in {"none", "released"} \/ portless)

\* Once any call has failed because the service closed, only close_flow calls
\* it again.  That one is made after a failed ReceiveCompletions too
\* (wgnx_tunnel_scenario.cpp:522 and 577), where toolbox/README.md:144 says the
\* workload stops "without retrying the closed service".
RetriesOnlyCloseFlow == \E at \in Pcs : failedAt \subseteq {at, "release"}
=============================================================================
