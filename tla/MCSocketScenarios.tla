-------------------------- MODULE MCSocketScenarios --------------------------
(***************************************************************************)
(* The scenarios of the toolbox that use the socket services, the packet   *)
(* echo of wctl, and the figures of a workload, on small instances.  The   *)
(* toolbox runs one scenario at a time and each opens what it uses, so a   *)
(* behaviour runs one of them, in one configuration, and the others stay   *)
(* in their initial states.                                                *)
(***************************************************************************)
EXTENDS BsdTcpExchange

CONSTANTS
  s1, s2, s3,                                     \* sockets of the one-shot scenarios
  EchoFlows, BurstFlows, EchoRetries, BurstRetries, Datagrams, PollDeadline, SocketRoom, MaxInbox,
  DownloadBytes, UploadBytes, HttpRequestSize, BufferBytes, HeaderLimit, SizeLimit,
  HeaderSizes, BodySizes,
  EchoDigit, EchoTokens, MalformedDigit, MalformedTokens, PacketTimeout, MaxPackets,
  Width, Second, Frequency, MaxTick, MaxEchoes, MaxSubmissions

VARIABLES
  scenario,               \* the scenario that runs, see Scenarios
  mode, udpPc, descriptors, exited, sequence, retries, pressed, recovery, echoed, clock,
  udpOutcome, tunneled, open, hungUp, queued, network, inbox, answered, regained, aborted,
  httpPc, httpService, httpSocket, remaining, httpSent, size, header, received_header,
  body_bytes, success, cause, answer, got, uploaded, before,
  name, at, held, queue, oneShotOutcome, replies, failed, phases,
  packetPc, token, outgoing, left, packets, packetsSent,
  now, submitted, first_tick, last_tick, echoes, rtt_min, rtt_max, rtt_total, histogram, trips

udpVars == <<mode, udpPc, descriptors, exited, sequence, retries, pressed, recovery, echoed,
             clock, udpOutcome, tunneled, open, hungUp, queued, network, inbox, answered,
             regained, aborted>>
httpVars == <<httpPc, httpService, httpSocket, remaining, httpSent, size, header,
              received_header, body_bytes, success, cause, answer, got, uploaded, before>>
oneShotVars == <<name, at, held, queue, oneShotOutcome, replies, failed, phases>>
packetVars == <<packetPc, token, outgoing, left, packets, packetsSent>>
metricVars == <<now, submitted, first_tick, last_tick, echoes, rtt_min, rtt_max, rtt_total,
                histogram, trips>>
all == <<scenario, vars, udpVars, httpVars, oneShotVars, packetVars, metricVars>>

\* Of the two workloads one expects echoes and the refusal of socket options,
\* the other sends a burst and wants to see a full socket recover.
Udp(burst) == INSTANCE BsdUdpWorkload WITH
  Modes <- {"EchoReply", "NoReplyTimeout", "TerminalClosure"},
  FlowCount <- IF burst THEN BurstFlows ELSE EchoFlows,
  EchoReplies <- ~burst, RequireRecovery <- burst, VerifyRejection <- ~burst,
  MaxRetries <- IF burst THEN BurstRetries ELSE EchoRetries,
  Deadline <- PollDeadline, Room <- SocketRoom,
  pc <- udpPc, outcome <- udpOutcome

Http(Upload) == INSTANCE HttpTransfer WITH
  BodyBytes <- IF Upload THEN UploadBytes ELSE DownloadBytes,
  RequestSize <- HttpRequestSize, Word <- SizeLimit,
  pc <- httpPc, service <- httpService, socket <- httpSocket, sent <- httpSent

OneShot == INSTANCE OneShotScenarios WITH
  Sockets <- <<s1, s2, s3>>, UdpTarget <- TRUE, UdpSendToOnlyTimeouts <- FALSE,
  UdpEchoSocketTimeouts <- FALSE, UdpEchoPoll <- TRUE, outcome <- oneShotOutcome

Packets(Malformed) == INSTANCE PacketEcho WITH
  Digit <- IF Malformed THEN MalformedDigit ELSE EchoDigit,
  Token <- IF Malformed THEN MalformedTokens ELSE EchoTokens,
  Timeout <- PacketTimeout, MaxQueue <- MaxPackets,
  pc <- packetPc, queue <- packets, sent <- packetsSent

Metrics == INSTANCE UdpWorkloadMetrics WITH
  echoed <- echoes

ASSUME ScenarioParameters ==
  /\ \A b \in BOOLEAN : Udp(b)!Parameters /\ Http(b)!Parameters /\ Packets(b)!Parameters
  /\ OneShot!Parameters /\ Metrics!Parameters

-----------------------------------------------------------------------------
Scenarios ==
  {"bsd tcp", "bsd udp", "bsd udp burst", "download", "upload", "one shot",
   "packet", "malformed packet", "metrics"}

IsUdp == scenario \in {"bsd udp", "bsd udp burst"}
IsHttp == scenario \in {"download", "upload"}

MCInit ==
  /\ scenario \in Scenarios
  /\ Init /\ Http(FALSE)!Init /\ OneShot!Init /\ Metrics!Init
  /\ IF scenario = "bsd udp" THEN Udp(FALSE)!Init ELSE Udp(TRUE)!Init /\ mode = "EchoReply"
  /\ IF scenario = "malformed packet" THEN Packets(TRUE)!Init ELSE Packets(FALSE)!Init
  /\ ~IsUdp => ~tunneled
  /\ ~IsHttp => answer = CHOOSE a \in Http(FALSE)!Answers : TRUE
  /\ scenario # "one shot" => phases = {}

\* A step of the scenario that runs, and of its peers.
TcpStep(A) ==
  scenario = "bsd tcp" /\ A
    /\ UNCHANGED <<scenario, udpVars, httpVars, oneShotVars, packetVars, metricVars>>
UdpStep(A) ==
  A /\ UNCHANGED <<scenario, vars, httpVars, oneShotVars, packetVars, metricVars>>
HttpStep(A) ==
  A /\ UNCHANGED <<scenario, vars, udpVars, oneShotVars, packetVars, metricVars>>
OneShotStep(A) ==
  scenario = "one shot" /\ A
    /\ UNCHANGED <<scenario, vars, udpVars, httpVars, packetVars, metricVars>>
PacketStep(A) ==
  A /\ UNCHANGED <<scenario, vars, udpVars, httpVars, oneShotVars, metricVars>>
MetricStep(A) ==
  scenario = "metrics" /\ A
    /\ UNCHANGED <<scenario, vars, udpVars, httpVars, oneShotVars, packetVars>>

MCNext ==
  \/ TcpStep(Next)
  \/ scenario = "bsd udp" /\ UdpStep(Udp(FALSE)!Next)
  \/ scenario = "bsd udp burst" /\ UdpStep(Udp(TRUE)!Next)
  \/ scenario = "download" /\ HttpStep(Http(FALSE)!Next)
  \/ scenario = "upload" /\ HttpStep(Http(TRUE)!Next)
  \/ OneShotStep(OneShot!Next)
  \/ scenario = "packet" /\ PacketStep(Packets(FALSE)!Next)
  \/ scenario = "malformed packet" /\ PacketStep(Packets(TRUE)!Next)
  \/ MetricStep(Metrics!Next)

\* What the toolbox's worker thread does in the scenario that runs.
Worker ==
  \/ TcpStep(Exchange)
  \/ scenario = "bsd udp" /\ UdpStep(Udp(FALSE)!Workload)
  \/ scenario = "bsd udp burst" /\ UdpStep(Udp(TRUE)!Workload)
  \/ scenario = "download" /\ HttpStep(Http(FALSE)!Next)
  \/ scenario = "upload" /\ HttpStep(Http(TRUE)!Next)
  \/ OneShotStep(OneShot!Next)
  \/ scenario = "packet" /\ PacketStep(Packets(FALSE)!Submit)

\* It is scheduled, and each of its calls returns, by its deadline at the
\* latest; packets do not keep it from looking at the clock, which goes on.
MCSpec ==
  /\ MCInit /\ [][MCNext]_all
  /\ WF_all(Worker)
  /\ WF_all(scenario = "packet" /\ PacketStep(Packets(FALSE)!Poll))
  /\ WF_all(scenario = "packet" /\ PacketStep(Packets(FALSE)!TimedOut))
  /\ WF_all(scenario = "packet" /\ PacketStep(Packets(FALSE)!Tick))

-----------------------------------------------------------------------------
\* The type invariants of the scenarios.
TypesOK ==
  /\ TypeOK
  /\ scenario = "bsd udp" => Udp(FALSE)!TypeOK
  /\ scenario = "bsd udp burst" => Udp(TRUE)!TypeOK
  /\ scenario = "download" => Http(FALSE)!TypeOK
  /\ scenario = "upload" => Http(TRUE)!TypeOK
  /\ scenario = "packet" => Packets(FALSE)!TypeOK
  /\ OneShot!TypeOK /\ Metrics!TypeOK

\* A scenario that reports success has done what it was to do, over every cut
\* of the streams, every failure and every late or repeated echo, but for two:
\* a download or upload whose header came in several pieces succeeds when the
\* body is larger than expected by the earlier pieces (scenarios.cpp:946, and
\* the run http_split_header), and tcp_multi_connect succeeds without any reply,
\* though scenarios.cpp:1579 says that it exchanges one payload on each socket.
SuccessIsEarned ==
  /\ SuccessEarned
  /\ scenario = "bsd udp" => Udp(FALSE)!SuccessEarned /\ Udp(FALSE)!TerminalEarned
  /\ scenario = "bsd udp burst" => Udp(TRUE)!SuccessEarned
  /\ scenario = "download" => Http(FALSE)!SuccessEarned /\ Http(FALSE)!UploadComplete
  /\ scenario = "upload" => Http(TRUE)!SuccessEarned /\ Http(TRUE)!UploadComplete
  /\ OneShot!SuccessEarned

\* A failure has its cause, a mismatch is real, a byte count is off by the
\* earlier pieces of the header alone, the figures of a workload are exact or
\* conservative, and a malformed packet is one.
ReportsAreReal ==
  /\ MismatchIsReal /\ FailureHasCause
  /\ scenario = "download" => Http(FALSE)!FailureHasCause /\ Http(FALSE)!CountShortByEarlierPieces
  /\ scenario = "upload" => Http(TRUE)!FailureHasCause /\ Http(TRUE)!CountShortByEarlierPieces
  /\ Metrics!FiguresExact /\ Metrics!PercentilesConservative
  /\ scenario = "packet" => Packets(FALSE)!SubmittedAsMeant
  /\ scenario = "malformed packet" => Packets(TRUE)!SubmittedAsMeant

\* What a single step may never do: end a wait for silence with something to
\* read or on a closed flow, take anything but the echo for the echo or turn
\* the echo away, release what is not held or what something held still works on.
StepsAreAllowed ==
  [][/\ Udp(FALSE)!TimeoutEarned
     /\ scenario = "packet" => Packets(FALSE)!AnsweredByEcho /\ Packets(FALSE)!EchoAccepted
     /\ OneShot!ReleasesAreHeld /\ OneShot!ReleasedUsersFirst]_all

Ended ==
  /\ scenario = "bsd tcp" => pc = "done" /\ ReleasedOnce
  /\ IsUdp => udpPc = "done" /\ Udp(TRUE)!SocketsReleased
  /\ IsHttp => httpPc = "done" /\ Http(TRUE)!ReleasedAtEnd
  /\ scenario = "one shot" => at = 0 /\ OneShot!NothingCarriedOver
  /\ scenario = "packet" => packetPc \notin {"submit", "poll"}

\* Every scenario ends, whatever its peers do or leave undone, and has released
\* its sockets, sessions and services by then; those that can run again end
\* every time.
EndsReleased == []<>Ended

\* Claimed by scenarios.cpp:1467, "Fetches 30MiB ... and reports end-to-end
\* throughput": the count the throughput is reported from is the body that arrived.
CountIsBody == scenario = "download" => Http(FALSE)!CountIsBody
=============================================================================
