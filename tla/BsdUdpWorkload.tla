--------------------------- MODULE BsdUdpWorkload ---------------------------
(***************************************************************************)
(* The UDP workload of the toolbox over bsd:s sockets                      *)
(* (toolbox/src/bsd_system_udp_scenario.cpp and                            *)
(* bsd_system_udp_outcome.cpp).  It has three modes: the workload proper,  *)
(* one datagram that must stay unanswered, and one whose flow must be      *)
(* closed from outside after its echo.  What it reports is concluded from  *)
(* poll results, so what matters is whether its success is earned.         *)
(*                                                                         *)
(* The sockets are external: each has room for some datagrams, an inbox    *)
(* and may hang up; echoes may be lost, late or duplicated.                *)
(***************************************************************************)
EXTENDS Naturals, Sequences

CONSTANTS
  Modes,             \* values of bsd_config.expected_outcome to consider
  FlowCount,         \* config.concurrent_flows
  Datagrams,         \* config.datagram_count
  EchoReplies,       \* config.echo_replies
  RequireRecovery,   \* bsd_config.require_writable_recovery
  VerifyRejection,   \* bsd_config.verify_post_route_rejection
  MaxRetries,        \* MaximumQueueFullRetriesPerDatagram
  Deadline,          \* config.receive_deadline_ms, in ticks
  Room,              \* external: datagrams a socket holds
  MaxInbox           \* bound: datagrams in an inbox

AllModes == {"EchoReply", "NoReplyTimeout", "TerminalClosure"}
\* What a module that instantiates this one assumes.
Parameters ==
  /\ Modes \subseteq AllModes /\ FlowCount \in Nat \ {0} /\ Datagrams \in Nat
  /\ EchoReplies \in BOOLEAN /\ RequireRecovery \in BOOLEAN /\ VerifyRejection \in BOOLEAN
  /\ MaxRetries \in Nat /\ Deadline \in Nat \ {0} /\ Room \in Nat \ {0} /\ MaxInbox \in Nat

Flows == 0..FlowCount - 1
Numbers == 0..Datagrams

VARIABLES
  mode,         \* bsd_config.expected_outcome
  pc,           \* where it is, see Pcs
  descriptors,  \* descriptors, those that are not -1
  exited,       \* BsdSocketScope: socketExit was called, or there was nothing to exit
  sequence,     \* the datagram it is at
  retries,      \* BsdSendResult::queue_full_retries of this datagram
  pressed,      \* queue_full_retries # 0
  recovery,     \* writable_recovery
  echoed,       \* datagrams whose echo was received
  clock,        \* ticks of the current poll
  outcome,      \* "none", "success" or "failed"
  tunneled,     \* external: setsockopt is refused after the route was taken
  open,         \* external: open sockets
  hungUp,       \* external: sockets whose flow was closed from outside
  queued,       \* external: datagrams each socket holds
  network,      \* external: datagrams whose echo may come
  inbox,        \* external: echoes each socket has received
  answered,     \* external: datagrams that were echoed
  regained,     \* history: a datagram refused for room was taken after POLLOUT
  aborted       \* history: a send on a closed flow was refused

progress == <<sequence, retries, pressed, recovery, echoed, clock>>
sockets == <<tunneled, open, hungUp, queued, network, inbox, answered>>
vars == <<mode, pc, descriptors, exited, progress, outcome, sockets, regained, aborted>>

Pcs == {"init", "open", "reject", "send", "writable", "echo", "recv", "noReply", "terminal",
        "postSend", "close", "done"}

Flow == IF mode = "EchoReply" THEN sequence % FlowCount ELSE 0
Count == IF mode = "EchoReply" THEN Datagrams ELSE 1
Echoes == IF mode = "EchoReply" THEN EchoReplies ELSE mode = "TerminalClosure"

Init ==
  /\ mode \in Modes /\ pc = "init" /\ descriptors = {} /\ exited = TRUE
  /\ sequence = 0 /\ retries = 0 /\ pressed = FALSE /\ recovery = FALSE /\ echoed = 0 /\ clock = 0
  /\ outcome = "none"
  /\ tunneled \in BOOLEAN /\ open = {} /\ hungUp = {} /\ queued = [f \in Flows |-> <<>>]
  /\ network = {} /\ inbox = [f \in Flows |-> <<>>] /\ answered = {}
  /\ regained = FALSE /\ aborted = FALSE

-----------------------------------------------------------------------------
(* The sockets and the network. *)

Transmit(f) ==
  /\ f \in open \ hungUp /\ queued[f] # <<>>
  /\ queued' = [queued EXCEPT ![f] = Tail(@)]
  /\ network' = network \cup {Head(queued[f])}
  /\ UNCHANGED <<tunneled, open, hungUp, inbox, answered>>

EchoArrives(n) ==
  LET f == IF mode = "EchoReply" THEN n % FlowCount ELSE 0
  IN /\ n \in network /\ f \in open \ hungUp /\ Len(inbox[f]) < MaxInbox
     /\ inbox' = [inbox EXCEPT ![f] = Append(@, n)]
     /\ answered' = answered \cup {n}
     /\ network' \in {network, network \ {n}}
     /\ UNCHANGED <<tunneled, open, hungUp, queued>>

HangUp(f) ==
  /\ f \in open \ hungUp /\ hungUp' = hungUp \cup {f}
  /\ UNCHANGED <<tunneled, open, queued, network, inbox, answered>>

Environment ==
  /\ \E f \in Flows : Transmit(f) \/ HangUp(f) \/ \E n \in Numbers : EchoArrives(n)
  /\ UNCHANGED <<mode, pc, descriptors, exited, progress, outcome, regained, aborted>>

-----------------------------------------------------------------------------
(* poll *)

\* What a poll for the given event may return now: an error, the events that
\* are there, or nothing once the deadline has passed.
PollResults(f, event, ready) ==
  LET revents == {e \in {event} : ready} \cup {e \in {"POLLHUP"} : f \in hungUp}
  IN {[result |-> "error", revents |-> {}]}
       \cup {[result |-> "ready", revents |-> r] : r \in {revents} \ {{}}}
       \cup {[result |-> "timeout", revents |-> {}] : c \in {d \in {Deadline} : clock = d /\ revents = {}}}

Waits == {"writable", "echo", "noReply", "terminal"}
Tick ==
  /\ pc \in Waits /\ clock < Deadline /\ clock' = clock + 1
  /\ UNCHANGED <<mode, pc, descriptors, exited, sequence, retries, pressed, recovery, echoed,
                 outcome, sockets, regained, aborted>>

ClassifyBsdPollObservation(p) ==
  CASE p.result = "error" -> "Error"
    [] p.result = "timeout" -> "Timeout"
    [] p.result = "ready" /\ "POLLHUP" \in p.revents -> "Closed"
    [] p.result = "ready" /\ "POLLIN" \in p.revents -> "Readable"
    [] OTHER -> "Unexpected"

IsExpectedBsdPollObservation(expected, o) ==
  <<expected, o>> \in {<<"EchoReply", "Readable">>, <<"NoReplyTimeout", "Timeout">>,
                       <<"TerminalClosure", "Closed">>}

HasWritableRecovery == pressed /\ recovery

-----------------------------------------------------------------------------
(* Setting up. *)

Initialize ==
  /\ pc = "init"
  /\ \/ pc' = "open" /\ exited' = FALSE /\ UNCHANGED outcome
     \/ pc' = "done" /\ outcome' = "failed" /\ UNCHANGED exited
  /\ UNCHANGED <<mode, descriptors, progress, sockets, regained, aborted>>

\* The end of every path: the descriptors are closed, then the service is left.
Fail == pc' = "close" /\ outcome' = "failed"

\* socket, connect, getsockname and fcntl of the next flow; the descriptor is
\* noted before the calls that may fail on it.
OpenSocket ==
  LET f == CHOOSE g \in Flows : g \notin descriptors /\ \A h \in Flows \ descriptors : g <= h
  IN /\ pc = "open" /\ descriptors # Flows
     /\ \/ /\ descriptors' = descriptors \cup {f} /\ open' = open \cup {f}
           /\ \/ UNCHANGED <<pc, outcome>>
              \/ Fail
        \/ Fail /\ UNCHANGED <<descriptors, open>>
     /\ UNCHANGED <<mode, exited, progress, tunneled, hungUp, queued, network, inbox, answered,
                    regained, aborted>>

\* All are open; a tunneled socket must refuse setsockopt.
VerifyPostRouteRejection ==
  /\ pc = "open" /\ descriptors = Flows
  /\ \/ ~VerifyRejection /\ pc' = "send" /\ UNCHANGED outcome
     \/ VerifyRejection /\ tunneled /\ pc' = "send" /\ UNCHANGED outcome
     \/ VerifyRejection /\ Fail
  /\ UNCHANGED <<mode, descriptors, exited, progress, sockets, regained, aborted>>

-----------------------------------------------------------------------------
(* SendWithWritableRetry *)

NextDatagram == sequence' = sequence + 1

\* After a datagram was taken: wait for its echo, for the silence, or go on.
AfterSend ==
  /\ clock' = 0
  /\ IF mode = "NoReplyTimeout" THEN pc' = "noReply" /\ UNCHANGED <<sequence, retries>>
     ELSE IF Echoes THEN pc' = "echo" /\ UNCHANGED <<sequence, retries>>
     ELSE pc' = "send" /\ NextDatagram /\ retries' = 0

RetriesLeft == retries < MaxRetries

Send ==
  /\ pc = "send" /\ sequence < Count
  /\ \/ /\ Flow \notin hungUp /\ Len(queued[Flow]) < Room
        /\ queued' = [queued EXCEPT ![Flow] = Append(@, sequence)]
        /\ regained' = (regained \/ retries > 0)
        /\ AfterSend
        /\ UNCHANGED <<pressed, outcome>>
     \/ \* EAGAIN with retries left
        /\ Flow \notin hungUp /\ RetriesLeft /\ retries' = retries + 1
        /\ pressed' = TRUE /\ clock' = 0 /\ pc' = "writable"
        /\ UNCHANGED <<sequence, outcome, queued, regained>>
     \/ \* another error, a short send, or no retries left
        /\ Fail
        /\ pressed' = (pressed \/ retries > 0)
        /\ UNCHANGED <<sequence, retries, clock, queued, regained>>
  /\ UNCHANGED <<mode, descriptors, exited, recovery, echoed, tunneled, open, hungUp, network, inbox,
                 answered, aborted>>

\* POLLOUT, and nothing else, leads to another try.
AwaitWritable ==
  /\ pc = "writable"
  /\ \E p \in PollResults(Flow, "POLLOUT", Len(queued[Flow]) < Room) :
       IF p.revents = {"POLLOUT"}
       THEN pc' = "send" /\ recovery' = TRUE /\ UNCHANGED outcome
       ELSE Fail /\ UNCHANGED recovery
  /\ UNCHANGED <<mode, descriptors, exited, sequence, retries, pressed, echoed, clock, sockets,
                 regained, aborted>>

-----------------------------------------------------------------------------
(* The three outcomes. *)

AwaitEcho ==
  /\ pc = "echo"
  /\ \E p \in PollResults(Flow, "POLLIN", inbox[Flow] # <<>>) :
       IF IsExpectedBsdPollObservation("EchoReply", ClassifyBsdPollObservation(p))
       THEN pc' = "recv" /\ UNCHANGED outcome
       ELSE Fail
  /\ UNCHANGED <<mode, descriptors, exited, progress, sockets, regained, aborted>>

\* Faulty variant: any datagram will do.
IsExpectedReplyAny(n) == TRUE
IsExpectedReply(n) == n = sequence

\* recvfrom; a datagram that is not the expected one, or comes from elsewhere,
\* fails the workload.
ReceiveEcho ==
  /\ pc = "recv"
  /\ \/ /\ inbox[Flow] # <<>> /\ IsExpectedReply(Head(inbox[Flow]))
        /\ inbox' = [inbox EXCEPT ![Flow] = Tail(@)]
        /\ echoed' = echoed + 1 /\ retries' = 0
        /\ IF mode = "TerminalClosure"
           THEN pc' = "terminal" /\ clock' = 0 /\ UNCHANGED sequence
           ELSE pc' = "send" /\ NextDatagram /\ UNCHANGED clock
        /\ UNCHANGED outcome
     \/ Fail /\ UNCHANGED <<sequence, retries, echoed, clock, inbox>>
  /\ UNCHANGED <<mode, descriptors, exited, pressed, recovery, tunneled, open, hungUp, queued,
                 network, answered, regained, aborted>>

AwaitNoReply ==
  /\ pc = "noReply"
  /\ \E p \in PollResults(0, "POLLIN", inbox[0] # <<>>) :
       outcome' = IF IsExpectedBsdPollObservation(mode, ClassifyBsdPollObservation(p))
                  THEN "success" ELSE "failed"
  /\ pc' = "close"
  /\ UNCHANGED <<mode, descriptors, exited, progress, sockets, regained, aborted>>

AwaitTerminal ==
  /\ pc = "terminal"
  /\ \E p \in PollResults(0, "POLLIN", inbox[0] # <<>>) :
       IF IsExpectedBsdPollObservation(mode, ClassifyBsdPollObservation(p))
       THEN pc' = "postSend" /\ UNCHANGED outcome
       ELSE Fail
  /\ UNCHANGED <<mode, descriptors, exited, progress, sockets, regained, aborted>>

\* What the send after the closure may return.
SendResults == {"sent", "other error"} \cup {e \in {"ECONNABORTED"} : 0 \in hungUp}

ProvesClosure(e) == e = "ECONNABORTED"

\* VerifyTerminalSend: a send must be refused with ECONNABORTED, and the close
\* of the descriptor must succeed; one that fails is tried again at the end.
VerifyTerminalSend ==
  /\ pc = "postSend"
  /\ \E e \in SendResults :
       /\ aborted' = (e = "ECONNABORTED")
       /\ \/ /\ ProvesClosure(e)
             /\ open' = open \ {0} /\ descriptors' = descriptors \ {0}
             /\ pc' = "close" /\ outcome' = "success"
          \/ Fail /\ UNCHANGED <<open, descriptors>>
  /\ UNCHANGED <<mode, exited, progress, tunneled, hungUp, queued, network, inbox, answered, regained>>

CloseDescriptors(ds) == ds

\* The end of the workload proper: the descriptors are closed, the result is
\* judged.
Finish ==
  /\ \/ /\ pc = "send" /\ sequence = Count
        /\ outcome' = IF /\ RequireRecovery => HasWritableRecovery
                         /\ Echoes => echoed = Count
                      THEN "success" ELSE "failed"
     \/ pc = "close" /\ UNCHANGED outcome
  /\ open' = open \ CloseDescriptors(descriptors) /\ descriptors' = {}
  /\ exited' = TRUE /\ pc' = "done"
  /\ UNCHANGED <<mode, progress, tunneled, hungUp, queued, network, inbox, answered, regained, aborted>>

Workload ==
  \/ Initialize \/ OpenSocket \/ VerifyPostRouteRejection \/ Send \/ AwaitWritable \/ AwaitEcho
  \/ ReceiveEcho \/ AwaitNoReply \/ AwaitTerminal \/ VerifyTerminalSend \/ Finish \/ Tick

Next == Workload \/ Environment
Spec == Init /\ [][Next]_vars

\* The worker runs and time passes; the poll is not asked to report anything.
FairSpec == Spec /\ WF_vars(Workload)

-----------------------------------------------------------------------------
TypeOK ==
  /\ mode \in Modes /\ pc \in Pcs /\ descriptors \subseteq Flows /\ exited \in BOOLEAN
  /\ sequence \in 0..Count /\ retries \in 0..MaxRetries /\ pressed \in BOOLEAN
  /\ recovery \in BOOLEAN /\ echoed \in 0..Count /\ clock \in 0..Deadline
  /\ outcome \in {"none", "success", "failed"} /\ tunneled \in BOOLEAN
  /\ open \subseteq Flows /\ hungUp \subseteq Flows /\ queued \in [Flows -> Seq(Numbers)]
  /\ network \subseteq Numbers /\ inbox \in [Flows -> Seq(Numbers)] /\ answered \subseteq Numbers
  /\ regained \in BOOLEAN /\ aborted \in BOOLEAN

\* A success of the workload proper: every datagram was answered by its own
\* echo, though others may be late or come twice; room was lost and regained
\* if that was asked for ("turns a burst with no observed EAGAIN followed by
\* POLLOUT into an inconclusive failure"); the refusal was seen if asked for.
SuccessEarned ==
  outcome = "success" =>
    /\ mode = "EchoReply" =>
         /\ EchoReplies => 0..Datagrams - 1 \subseteq answered
         /\ RequireRecovery => regained
    /\ VerifyRejection => tunneled

\* The terminal mode "succeeds only after POLLHUP, a later zero-flag send
\* returns ECONNABORTED, and close succeeds" (toolbox/README.md), and the echo
\* came before that.
TerminalEarned ==
  mode = "TerminalClosure" /\ outcome = "success" =>
    0 \in hungUp /\ aborted /\ 0 \in answered /\ 0 \notin open

\* The timeout mode "succeeds only when poll(POLLIN) expires without a reply":
\* in a step to success none is there to be read, and the flow was not closed
\* instead.
TimeoutEarned ==
  mode = "NoReplyTimeout" /\ outcome' = "success" /\ outcome # "success" =>
    inbox[0] = <<>> /\ 0 \notin hungUp /\ clock = Deadline

\* No descriptor and no service session is left, whatever failed.
SocketsReleased == pc = "done" => open = {} /\ descriptors = {} /\ exited
=============================================================================
