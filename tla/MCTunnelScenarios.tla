-------------------------- MODULE MCTunnelScenarios --------------------------
(***************************************************************************)
(* The workloads that use wgnx:tun directly, on small instances.  The      *)
(* toolbox runs one scenario at a time (runtime_scenario.cpp) and they     *)
(* share nothing but the service, so a behaviour runs one of them, in one  *)
(* configuration, and the others stay in their initial states.             *)
(***************************************************************************)
EXTENDS Naturals, Sequences, FiniteSets

CONSTANTS
  FlowCount, Datagrams, MaxRetries, BatchSize, Deadline, QueueSize, MaxQueued,
  ReplySize, MaxSent, Capacity

VARIABLES
  scenario,     \* the scenario that runs, see Scenarios
  udpPc, udpOpened, sequence, retries, accepted, echoed, lost, outcome, udpEvent, udpClock,
  waited, udpFailedAt, udpAlive, flows, udpPortless, ended, sendQueue, blocked, network,
  answered, udpCompletions,
  tcpPc, phase, tcpClock, batch, progress, tcpVerdict, tcpEvent, tcpAlive, tcpFlow,
  tcpPortless, remoteOpen, tcpCompletions, requested, sent, wrong, tcpFailedAt,
  pc, opened, extra, flow, eventOpen, verdict, fault, alive, holders, works, failedAt

udpVars == <<udpPc, udpOpened, sequence, retries, accepted, echoed, lost, outcome, udpEvent,
             udpClock, waited, udpFailedAt, udpAlive, flows, udpPortless, ended, sendQueue,
             blocked, network, answered, udpCompletions>>
tcpVars == <<tcpPc, phase, tcpClock, batch, progress, tcpVerdict, tcpEvent, tcpAlive, tcpFlow,
             tcpPortless, remoteOpen, tcpCompletions, requested, sent, wrong, tcpFailedAt>>
contractVars == <<pc, opened, extra, flow, eventOpen, verdict, fault, alive, holders, works,
                  failedAt>>
vars == <<scenario, udpVars, tcpVars, contractVars>>

Udp(EchoReplies) == INSTANCE TunnelUdpWorkload WITH
  pc <- udpPc, opened <- udpOpened, eventOpen <- udpEvent, clock <- udpClock,
  failedAt <- udpFailedAt, alive <- udpAlive, portless <- udpPortless,
  completions <- udpCompletions
Tcp(AnnouncesWrite) == INSTANCE TunnelTcpExchange WITH
  pc <- tcpPc, clock <- tcpClock, verdict <- tcpVerdict, eventOpen <- tcpEvent,
  alive <- tcpAlive, flow <- tcpFlow, portless <- tcpPortless,
  completions <- tcpCompletions, failedAt <- tcpFailedAt
Contract(Disturbed) == INSTANCE TunnelContract WITH
  VerifyClone <- TRUE, VerifyBatch <- TRUE,
  Faults <- {"none", "frees", "uncounted", "leaksAll", "leaks", "dispositions"}

ASSUME UdpParameters == \A r \in BOOLEAN : Udp(r)!Parameters
ASSUME TcpParameters == \A a \in BOOLEAN : Tcp(a)!Parameters
ASSUME ContractParameters == \A d \in BOOLEAN : Contract(d)!Parameters

\* A UDP workload without and with echoes; a TCP exchange at a service that
\* announces the end of the own write side and at one that does not; the
\* contract checks alone and among other clients of the service.
Scenarios == {"burst", "echo", "tcp", "tcp announced", "contract", "contract disturbed"}
IsUdp == scenario \in {"burst", "echo"}
IsContract == scenario \in {"contract", "contract disturbed"}

Init ==
  /\ scenario \in Scenarios
  /\ Udp(TRUE)!Init /\ Tcp(TRUE)!Init
  /\ Contract(TRUE)!Init /\ (~IsContract => fault = "none")

\* A step of the scenario that runs, and of its service and peers.
UdpStep(A) == A /\ UNCHANGED <<scenario, tcpVars, contractVars>>
TcpStep(A) == A /\ UNCHANGED <<scenario, udpVars, contractVars>>
ContractStep(A) == A /\ UNCHANGED <<scenario, udpVars, tcpVars>>

Next ==
  \/ scenario = "burst" /\ UdpStep(Udp(FALSE)!Next)
  \/ scenario = "echo" /\ UdpStep(Udp(TRUE)!Next)
  \/ scenario = "tcp" /\ TcpStep(Tcp(FALSE)!Next)
  \/ scenario = "tcp announced" /\ TcpStep(Tcp(TRUE)!Next)
  \/ scenario = "contract" /\ ContractStep(Contract(FALSE)!Next)
  \/ scenario = "contract disturbed" /\ ContractStep(Contract(TRUE)!Next)

\* The toolbox's worker thread is scheduled, and time passes while it waits.
Spec ==
  /\ Init /\ [][Next]_vars
  /\ \A r \in BOOLEAN : WF_vars(scenario = (IF r THEN "echo" ELSE "burst") /\ UdpStep(Udp(r)!Workload))
  /\ \A a \in BOOLEAN :
       WF_vars(scenario = (IF a THEN "tcp announced" ELSE "tcp") /\ TcpStep(Tcp(a)!Exchange))
  /\ \A d \in BOOLEAN :
       WF_vars(scenario = (IF d THEN "contract disturbed" ELSE "contract")
               /\ ContractStep(Contract(d)!Validation))

-----------------------------------------------------------------------------
\* The type invariants of the workloads.
TypesOK == Udp(TRUE)!TypeOK /\ Tcp(TRUE)!TypeOK /\ Contract(TRUE)!TypeOK

\* A scenario that reports success has done what it was to do: every datagram
\* was taken and every echo matched; the reply was the expected one and the
\* stream at its end; no fault it is to find was there.
SuccessEarned ==
  /\ scenario = "burst" => Udp(FALSE)!SuccessMeansAnswered
  /\ scenario = "echo" => Udp(TRUE)!SuccessMeansAnswered
  /\ scenario = "tcp" => Tcp(FALSE)!ReplyValidatedOnSuccess
  /\ Tcp(TRUE)!EofIsReal
  /\ scenario = "contract" => Contract(FALSE)!FaultsFound

\* A scenario fails for what did happen: no end of the stream, malformed reply
\* or broken contract is reported that was not there, and a wait does not run to
\* its deadline because the completion it needs was thrown away.  A call that
\* failed because the service closed ends the scenario's work: what is called
\* after it is CloseFlow alone, and not even that after a failed send or wait of
\* the UDP workload and a failed wait of the contract checks.  The TCP exchange
\* does call CloseFlow after a failed ReceiveCompletions, against
\* toolbox/README.md:144 ("without retrying the closed service"), and the
\* contract checks go on after a probe or a CloseFlow of the clone's flow that
\* failed for this reason, to one more call.
FailureJustified ==
  /\ Udp(TRUE)!WakeupNotDropped /\ Udp(TRUE)!RetriesOnlyCloseFlow
  /\ Tcp(TRUE)!RetriesOnlyCloseFlow /\ Contract(TRUE)!RetriesOnlyCloseFlow
  /\ scenario = "tcp" => Tcp(FALSE)!NoFalseEof
  /\ Tcp(TRUE)!NoFalseMalformed
  /\ scenario = "contract" => Contract(FALSE)!NoFalseAlarm

UdpEchoes == \E n \in 0..Datagrams - 1 : Udp(TRUE)!EchoArrives(n)

\* Every scenario ends, whatever the service and the peer do or leave undone,
\* and its event and its flows are released then.
EndsReleased ==
  \/ IsUdp /\ ~<>[][~UdpEchoes]_udpVars
  \/ <>[](/\ udpPc = "done" \/ tcpPc = "done" \/ pc = "done"
         /\ Udp(TRUE)!ReleasedAtEnd /\ Tcp(TRUE)!ReleasedAtEnd /\ Contract(TRUE)!ReleasedAtEnd)
=============================================================================
