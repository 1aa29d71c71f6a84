------------------------- MODULE TunnelUdpWorkload -------------------------
(***************************************************************************)
(* The UDP workload of the toolbox over wgnx:tun                           *)
(* (toolbox/src/wgnx_tunnel_scenario.cpp, RunWgnxTunnelUdpWorkload with    *)
(* WaitForWritable and WaitForEcho).  Datagrams go round the flows; a full *)
(* queue is waited for and the datagram retried; with echo replies each    *)
(* datagram waits for its own echo.  Completions of all flows come in one  *)
(* queue, are taken in batches, and the rest of a batch is dropped when a  *)
(* wait returns from the middle of it.                                     *)
(*                                                                         *)
(* The service is external, known from how the workload uses it: a send    *)
(* queue per flow, one Writable for a flow that was refused, echoes that   *)
(* may be lost or duplicated, flows it ends, its own shutdown, which wakes *)
(* the client without a completion.                                        *)
(***************************************************************************)
EXTENDS Naturals, Sequences, FiniteSets

CONSTANTS
  FlowCount,     \* config.concurrent_flows
  Datagrams,     \* config.datagram_count
  EchoReplies,   \* config.echo_replies
  MaxRetries,    \* MaximumQueueFullRetriesPerDatagram
  BatchSize,     \* MaximumBatchEntries
  Deadline,      \* config.receive_deadline_ms, in ticks
  QueueSize,     \* external: datagrams a flow's send queue holds
  MaxQueued      \* bound: completions queued

\* What a module that instantiates this one assumes.
Parameters ==
  /\ FlowCount \in Nat \ {0} /\ Datagrams \in Nat /\ EchoReplies \in BOOLEAN
  /\ MaxRetries \in Nat /\ BatchSize \in Nat \ {0} /\ Deadline \in Nat \ {0}
  /\ QueueSize \in Nat \ {0} /\ MaxQueued \in Nat

Flows == 0..FlowCount - 1
Sequences == 0..Datagrams - 1     \* sequence numbers of datagrams

VARIABLES
  pc,           \* where the workload is, see Pcs
  opened,       \* opened_flows
  sequence,     \* the datagram it is at
  retries,      \* queue_full_retries_for_datagram
  accepted,     \* datagrams the service accepted
  echoed,       \* datagrams whose echo was matched
  lost,         \* tunnel_service_lost
  outcome,      \* "none", "success" or "failed"
  eventOpen,    \* completion_event is open
  clock,        \* ticks of the current wait
  waited,       \* history: ticks waited for the queue of this datagram
  failedAt,     \* history: the phases a call failed in because the service was gone
  alive,        \* external: the service runs
  flows,        \* external: flows open at the service
  portless,     \* external: those that were opened without a local endpoint
  ended,        \* external: flows the service ended
  sendQueue,    \* external: datagrams in each send queue
  blocked,      \* external: flows that were full and owe a Writable
  network,      \* external: datagrams whose echo may come
  answered,     \* external: datagrams that were echoed at least once
  completions   \* external: the completion queue

progress == <<sequence, retries, accepted, echoed>>
service == <<alive, flows, portless, ended, sendQueue, blocked, network, answered, completions>>
vars == <<pc, opened, progress, lost, outcome, eventOpen, clock, waited, failedAt, service>>

Pcs == {"prepare", "open", "abandon", "send", "waitWritable", "receiveWritable",
        "waitEcho", "receiveEcho", "close", "done"}

Flow == sequence % FlowCount      \* flow_index
Completion(type, f, n) == [type |-> type, flow |-> f, sequence |-> n]

Init ==
  /\ pc = "prepare" /\ opened = 0
  /\ sequence = 0 /\ retries = 0 /\ accepted = 0 /\ echoed = 0
  /\ lost = FALSE /\ outcome = "none" /\ eventOpen = FALSE /\ clock = 0 /\ waited = 0 /\ failedAt = {}
  /\ alive = TRUE /\ flows = {} /\ portless = {} /\ ended = {}
  /\ sendQueue = [f \in Flows |-> <<>>]
  /\ blocked = {} /\ network = {} /\ answered = {} /\ completions = <<>>

-----------------------------------------------------------------------------
(* The service. *)

ServiceSends(f) ==
  /\ alive /\ sendQueue[f] # <<>>
  /\ sendQueue' = [sendQueue EXCEPT ![f] = Tail(@)]
  /\ network' = network \cup {Head(sendQueue[f])}
  /\ UNCHANGED <<pc, opened, progress, lost, outcome, eventOpen, clock, waited, failedAt, alive, flows,
                 portless, ended, blocked, answered, completions>>

\* There is room again for a flow that was refused.
AnnounceWritable(f) ==
  /\ alive /\ f \in blocked /\ Len(sendQueue[f]) < QueueSize
  /\ Len(completions) < MaxQueued
  /\ blocked' = blocked \ {f}
  /\ completions' = Append(completions, Completion("Writable", f, 0))
  /\ UNCHANGED <<pc, opened, progress, lost, outcome, eventOpen, clock, waited, failedAt, alive, flows,
                 portless, ended, sendQueue, network, answered>>

\* An echo arrives, and may arrive again.
EchoArrives(n) ==
  /\ alive /\ n \in network /\ n % FlowCount \in flows \ ended
  /\ Len(completions) < MaxQueued
  /\ answered' = answered \cup {n}
  /\ network' \in {network, network \ {n}}
  /\ completions' = Append(completions, Completion("Inbound", n % FlowCount, n))
  /\ UNCHANGED <<pc, opened, progress, lost, outcome, eventOpen, clock, waited, failedAt, alive, flows,
                 portless, ended, sendQueue, blocked>>

EndFlow(f) ==
  /\ alive /\ f \in flows \ ended
  /\ Len(completions) < MaxQueued
  /\ ended' = ended \cup {f}
  /\ sendQueue' = [sendQueue EXCEPT ![f] = <<>>]
  /\ blocked' = blocked \ {f}
  /\ completions' = Append(completions, Completion("FlowStateChanged", f, 0))
  /\ UNCHANGED <<pc, opened, progress, lost, outcome, eventOpen, clock, waited, failedAt, alive, flows,
                 portless, network, answered>>

\* Shutdown closes the sessions; flows and queues go with it.
Shutdown ==
  /\ alive /\ alive' = FALSE
  /\ UNCHANGED <<pc, opened, progress, lost, outcome, eventOpen, clock, waited, failedAt, flows, portless,
                 ended, sendQueue, blocked, network, answered, completions>>

-----------------------------------------------------------------------------
(* Setting up. *)

NoteFailure == failedAt' = IF alive THEN failedAt ELSE failedAt \cup {pc}

\* Availability, root, capabilities, client, policy and the completion event:
\* any of them may fail, and what was opened is scoped.
Prepare ==
  /\ pc = "prepare"
  /\ \/ alive /\ pc' = "open" /\ eventOpen' = TRUE /\ UNCHANGED outcome
     \/ pc' = "done" /\ outcome' = "failed" /\ UNCHANGED eventOpen
  /\ NoteFailure
  /\ UNCHANGED <<opened, progress, lost, clock, waited, service>>

\* One iteration of the loop that opens flows.  A flow without a local
\* endpoint is refused, though the service has it open.
OpenConnectedFlow ==
  /\ pc = "open"
  /\ \/ /\ opened = FlowCount
        /\ pc' = "send"
        /\ UNCHANGED <<opened, flows, portless, failedAt>>
     \/ /\ opened < FlowCount /\ alive
        /\ opened' = opened + 1 /\ flows' = flows \cup {opened}
        /\ UNCHANGED <<pc, portless, failedAt>>
     \/ /\ opened < FlowCount /\ alive
        /\ flows' = flows \cup {opened} /\ portless' = portless \cup {opened}
        /\ pc' = "abandon" /\ UNCHANGED <<opened, failedAt>>
     \/ /\ opened < FlowCount
        /\ pc' = "abandon" /\ NoteFailure /\ UNCHANGED <<opened, flows, portless>>
  /\ UNCHANGED <<progress, lost, outcome, eventOpen, clock, waited, alive, ended, sendQueue,
                 blocked, network, answered, completions>>

\* Not all flows could be opened: close those that were, though the service may
\* be what is gone.
Abandon ==
  /\ pc = "abandon"
  /\ flows' = IF alive THEN flows \ {f \in Flows : f < opened} ELSE flows
  /\ IF opened > 0 THEN NoteFailure ELSE UNCHANGED failedAt
  /\ eventOpen' = FALSE /\ outcome' = "failed" /\ pc' = "done"
  /\ UNCHANGED <<opened, progress, lost, clock, waited, alive, portless, ended, sendQueue,
                 blocked, network, answered, completions>>

-----------------------------------------------------------------------------
(* Sending. *)

\* The datagram is done: on to the next one.
NextDatagram ==
  /\ sequence' = sequence + 1 /\ retries' = 0 /\ waited' = 0
  /\ pc' = IF sequence + 1 = Datagrams THEN "close" ELSE "send"

\* The loop over datagrams ends; result.detail is set unless all were sent.
LeaveLoop(isLost) ==
  /\ pc' = "close" /\ lost' = isLost
  /\ failedAt' = IF isLost THEN failedAt \cup {pc} ELSE failedAt

\* SendUdpDatagram succeeded.
Accept ==
  /\ alive /\ Flow \notin ended /\ Len(sendQueue[Flow]) < QueueSize
  /\ sendQueue' = [sendQueue EXCEPT ![Flow] = Append(@, sequence)]
  /\ accepted' = accepted + 1
  /\ IF EchoReplies
     THEN pc' = "waitEcho" /\ clock' = 0 /\ UNCHANGED <<sequence, retries, waited>>
     ELSE NextDatagram /\ UNCHANGED clock
  /\ UNCHANGED <<lost, failedAt, blocked>>

\* Faulty variant: retries are not bounded.
BlockedWithoutEnd ==
  /\ alive /\ Flow \notin ended
  /\ retries' = retries + 1 /\ clock' = 0
  /\ blocked' = blocked \cup {Flow}
  /\ pc' = "waitWritable"
  /\ UNCHANGED <<sequence, accepted, lost, waited, failedAt, sendQueue>>

\* QueueFull, of the flow's queue or one it shares, with retries left: wait for
\* the flow's Writable.
Blocked ==
  /\ alive /\ Flow \notin ended
  /\ retries < MaxRetries
  /\ retries' = retries + 1 /\ clock' = 0
  /\ blocked' = blocked \cup {Flow}
  /\ pc' = "waitWritable"
  /\ UNCHANGED <<sequence, accepted, lost, waited, failedAt, sendQueue>>

\* QueueFull once too often, another status, or a failed call.
Refused ==
  /\ \/ alive /\ LeaveLoop(FALSE)
     \/ ~alive /\ LeaveLoop(TRUE)
  /\ UNCHANGED <<sequence, retries, accepted, clock, waited, sendQueue, blocked>>

SendUdpDatagram ==
  /\ pc = "send"
  /\ \/ /\ sequence < Datagrams
        /\ Accept \/ Blocked \/ Refused
     \/ /\ sequence = Datagrams /\ pc' = "close"
        /\ UNCHANGED <<sequence, retries, accepted, lost, clock, waited, failedAt, sendQueue, blocked>>
  /\ UNCHANGED <<opened, echoed, outcome, eventOpen, alive, flows, portless, ended, network,
                 answered, completions>>

-----------------------------------------------------------------------------
(* WaitForWritable and WaitForEcho. *)

\* eventWait: the event is signaled, or the wait times out, which ends it.
Wake(wait, receive) ==
  /\ pc = wait
  /\ completions # <<>> \/ ~alive
  /\ pc' = receive
  /\ UNCHANGED <<opened, progress, lost, outcome, eventOpen, clock, waited, failedAt, service>>

Tick(wait) ==
  /\ pc = wait /\ clock < Deadline
  /\ clock' = clock + 1
  /\ waited' = IF wait = "waitWritable" THEN waited + 1 ELSE waited
  /\ UNCHANGED <<pc, opened, progress, lost, outcome, eventOpen, failedAt, service>>

TimesOut(wait) ==
  /\ pc = wait /\ clock = Deadline
  /\ LeaveLoop(FALSE)
  /\ UNCHANGED <<opened, progress, outcome, eventOpen, clock, waited, service>>

Batch == SubSeq(completions, 1, IF Len(completions) < BatchSize THEN Len(completions) ELSE BatchSize)
Rest == SubSeq(completions, Len(Batch) + 1, Len(completions))

\* The first of the completions of the batch that end the wait, or 0.
FirstMatch(matching) ==
  IF matching = {} THEN 0 ELSE CHOOSE i \in matching : \A j \in matching : i <= j

EndsWritableWait(c) == c.flow = Flow /\ c.type \in {"FlowStateChanged", "Writable"}

\* Faulty variant: any datagram of the flow is taken for the echo.
EndsEchoWaitAny(c) == c.flow = Flow /\ c.type \in {"FlowStateChanged", "Inbound"}

\* IsMatchingPayload compares the sequence number.
EndsEchoWait(c) ==
  /\ c.flow = Flow
  /\ \/ c.type = "FlowStateChanged"
     \/ c.type = "Inbound" /\ c.sequence = sequence

\* ReceiveCompletions: it fails when the service is gone, or returns another
\* status; an empty queue goes back to the event or, after the deadline, ends
\* the wait; else one batch.
Receive(wait, receive, matching, Succeed) ==
  /\ pc = receive
  /\ \/ /\ ~alive /\ LeaveLoop(TRUE)
        /\ UNCHANGED <<sequence, retries, echoed, waited, completions>>
     \/ /\ alive /\ LeaveLoop(FALSE)
        /\ UNCHANGED <<sequence, retries, echoed, waited, completions>>
     \/ /\ alive /\ completions = <<>> /\ clock < Deadline
        /\ pc' = wait
        /\ UNCHANGED <<sequence, retries, echoed, lost, waited, failedAt, completions>>
     \/ /\ alive /\ completions = <<>> /\ clock = Deadline /\ LeaveLoop(FALSE)
        /\ UNCHANGED <<sequence, retries, echoed, waited, completions>>
     \/ /\ alive /\ completions # <<>>
        /\ completions' = Rest
        /\ LET i == FirstMatch(matching)
           IN IF i = 0
              THEN UNCHANGED <<pc, sequence, retries, echoed, lost, waited, failedAt>>
              ELSE IF Batch[i].type = "FlowStateChanged"
                   THEN LeaveLoop(FALSE) /\ UNCHANGED <<sequence, retries, echoed, waited>>
                   ELSE Succeed
  /\ UNCHANGED <<opened, accepted, outcome, eventOpen, clock, alive, flows, portless, ended,
                 sendQueue, blocked, network, answered>>

\* The blocked datagram is sent again.
RetrySend == pc' = "send" /\ UNCHANGED <<sequence, retries, echoed, lost, waited, failedAt>>
EchoMatched == echoed' = echoed + 1 /\ NextDatagram /\ UNCHANGED <<lost, failedAt>>

ReceiveWritable ==
  Receive("waitWritable", "receiveWritable",
          {i \in DOMAIN Batch : EndsWritableWait(Batch[i])}, RetrySend)
ReceiveEcho ==
  Receive("waitEcho", "receiveEcho", {i \in DOMAIN Batch : EndsEchoWait(Batch[i])}, EchoMatched)

-----------------------------------------------------------------------------
\* The condition of result.success.
Verdict == accepted = Datagrams /\ (EchoReplies => echoed = accepted)

End(closed, failed) ==
  /\ pc = "close"
  /\ flows' = IF alive THEN flows \ closed ELSE flows
  /\ failedAt' = IF failed THEN failedAt \cup {pc} ELSE failedAt
  /\ eventOpen' = FALSE
  /\ outcome' = IF Verdict THEN "success" ELSE "failed"
  /\ pc' = "done"
  /\ UNCHANGED <<opened, progress, lost, clock, waited, alive, portless, ended, sendQueue,
                 blocked, network, answered, completions>>

\* Every flow is closed unless the service is known to be gone; the verdict.
CloseFlows == IF lost THEN End({}, FALSE) ELSE End(Flows, ~alive)

Workload ==
  \/ Prepare \/ OpenConnectedFlow \/ Abandon \/ SendUdpDatagram \/ CloseFlows
  \/ ReceiveWritable \/ ReceiveEcho
  \/ Wake("waitWritable", "receiveWritable") \/ Wake("waitEcho", "receiveEcho")
  \/ \E wait \in {"waitWritable", "waitEcho"} : Tick(wait) \/ TimesOut(wait)

Service ==
  \/ \E f \in Flows : ServiceSends(f) \/ AnnounceWritable(f) \/ EndFlow(f)
  \/ \E n \in Sequences : EchoArrives(n)
  \/ Shutdown

Next == Workload \/ Service
Spec == Init /\ [][Next]_vars

\* The worker thread is scheduled, and time passes while it waits.  Nothing is
\* asked of the service.
FairSpec == Spec /\ WF_vars(Workload)

-----------------------------------------------------------------------------
Completions ==
  [type: {"Writable", "Inbound", "FlowStateChanged"}, flow: Flows, sequence: Sequences \cup {0}]

TypeOK ==
  /\ pc \in Pcs /\ opened \in 0..FlowCount
  /\ sequence \in 0..Datagrams /\ retries \in 0..MaxRetries
  /\ accepted \in 0..Datagrams /\ echoed \in 0..Datagrams
  /\ lost \in BOOLEAN /\ outcome \in {"none", "success", "failed"}
  /\ eventOpen \in BOOLEAN /\ clock \in 0..Deadline /\ waited \in Nat /\ failedAt \subseteq Pcs
  /\ alive \in BOOLEAN /\ flows \subseteq Flows /\ portless \subseteq Flows /\ ended \subseteq Flows
  /\ sendQueue \in [Flows -> Seq(Sequences)]
  /\ blocked \subseteq Flows /\ network \subseteq Sequences /\ answered \subseteq Sequences
  /\ completions \in Seq(Completions)

\* A success means what it says: the service took every datagram, and with
\* echo replies each one was answered, whatever stale or duplicate echoes and
\* completions of other flows came in between.
SuccessMeansAnswered ==
  outcome = "success" =>
    /\ accepted = Datagrams
    /\ EchoReplies => answered = Sequences

\* However the workload ends, its event is closed, and every flow it got is
\* closed unless the service went: only a flow refused for its endpoint stays
\* until the session goes ("releases its local event, flow, and CMIF session
\* state", toolbox/README.md).
ReleasedAtEnd ==
  pc = "done" => ~eventOpen /\ (alive => flows \subseteq portless)

\* What a wait needs to end before its deadline is never thrown away with the
\* rest of a batch: while it waits for room, the flow's Writable is owed or
\* queued, or its end is queued.
WakeupNotDropped ==
  pc \in {"waitWritable", "receiveWritable"} /\ alive =>
    \/ Flow \in blocked
    \/ \E i \in 1..Len(completions) :
         completions[i].flow = Flow /\ completions[i].type \in {"Writable", "FlowStateChanged"}

\* Once a send or a ReceiveCompletions has failed because the service closed,
\* the workload calls it no more ("without retrying the closed service",
\* toolbox/README.md:144).  After a failed OpenConnectedFlow it does: CloseFlow
\* for the flows that were opened (wgnx_tunnel_scenario.cpp:706), and then only
\* that.
RetriesOnlyCloseFlow ==
  failedAt = {"open", "abandon"} \/ \E at \in Pcs : failedAt \subseteq {at}
=============================================================================
