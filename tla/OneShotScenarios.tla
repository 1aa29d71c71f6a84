-------------------------- MODULE OneShotScenarios --------------------------
(***************************************************************************)
(* The compiled one-shot scenarios of the toolbox                          *)
(* (toolbox/src/scenarios.cpp and manual_bsd_lifecycle.cpp): sequences of  *)
(* calls of which each may fail, where every return gives back by hand     *)
(* what the calls before it have acquired.                                 *)
(*                                                                         *)
(* A scenario is its sequence of steps.  A step is one call with the       *)
(* resources it acquires, those it hands to somebody else or releases when *)
(* it succeeded, and the releases written on its failure path, in their    *)
(* order.  Sockets, ssl and sm are external: a call may fail, a receive    *)
(* may bring anything.                                                     *)
(***************************************************************************)
EXTENDS Naturals, SequencesExt

CONSTANTS
  Sockets,                \* the descriptors, as many as config::ConcurrentSocketCount
  UdpTarget,              \* whether config::UdpHost and UdpPort are set
  UdpSendToOnlyTimeouts,  \* config::EnableUdpSendToOnlyTimeouts
  UdpEchoSocketTimeouts,  \* config::EnableUdpEchoSocketTimeouts
  UdpEchoPoll             \* config::EnableUdpEchoPoll

\* What a scenario holds besides descriptors.
Resources == {"addrinfo", "service", "ssl", "context", "connection", "descriptor",
              "root", "monitor", "tmem", "clone"}

\* What a module that instantiates this one assumes.
Parameters ==
  /\ Len(Sockets) > 0 /\ IsInjective(Sockets) /\ Range(Sockets) \cap Resources = {}
  /\ {UdpTarget, UdpSendToOnlyTimeouts, UdpEchoSocketTimeouts, UdpEchoPoll} \subseteq BOOLEAN

\* The i-th socket of tcp_multi_connect; every other scenario has one.
Socket(i) == Sockets[i]
s == Socket(1)

\* The phases of manual_bsd_lifecycle that a build may select (its static_asserts).
ManualPhases ==
  {p \in SUBSET {"monitor", "tmem", "register", "start", "clone"} :
     /\ "register" \in p => "tmem" \in p
     /\ "start" \in p => {"register", "monitor"} \subseteq p
     /\ "clone" \in p => "register" \in p}

-----------------------------------------------------------------------------
(* Steps. *)

Try(call, gets, undo) ==
  [call |-> call, gets |-> gets, moves |-> {}, after |-> <<>>, undo |-> undo, fails |-> TRUE]
Do(call, undo) == Try(call, {}, undo)

\* ResolveIpv4 frees the address list on the way out with and without a result.
Resolve(undo) ==
  << Try("getaddrinfo", {"addrinfo"}, undo),
     [Do("first AF_INET", <<"addrinfo">> \o undo) EXCEPT !.after = <<"addrinfo">>] >>

SetSocketTimeouts(undo) == <<Do("SO_RCVTIMEO", undo), Do("SO_SNDTIMEO", undo)>>

OpenSocket(k, undo) == Try("socket", {k}, undo)

\* ConnectResolvedTcp closes its own socket k before the caller closes its others.
ConnectResolvedTcp(k, others) ==
  Resolve(others) \o <<OpenSocket(k, others)>> \o SetSocketTimeouts(<<k>> \o others)
    \o <<Do("connect", <<k>> \o others)>>

-----------------------------------------------------------------------------
(* Scenarios: their steps, the releases at their end in order, and which     *)
(* reply makes a success.                                                    *)

Scenario(steps, release, wants) == [steps |-> steps, release |-> release, wants |-> wants]

\* wants: "nothing", a reply that is not "empty", or the "right" one.
DnsResolve ==
  Scenario(<< Try("getaddrinfo", {"addrinfo"}, <<>>),
              [Do("collect", <<>>) EXCEPT !.after = <<"addrinfo">>, !.fails = FALSE] >>, <<>>, "some")

PlainTcpConnect ==
  Scenario(ConnectResolvedTcp(s, <<>>) \o <<Do("send", <<s>>), Do("recv", <<s>>)>>, <<s>>, "some")

IdleTcpHold == Scenario(ConnectResolvedTcp(s, <<>>), <<s>>, "nothing")

HttpGet ==
  Scenario(ConnectResolvedTcp(s, <<>>)
             \o <<Do("format", <<s>>), Do("send", <<s>>), Do("recv", <<s>>)>>, <<s>>, "some")

\* The releases of every return once ssl has the socket; owned_sockfd is what
\* socketSslConnectionSetSocketDescriptor gave back, if it did.
SslReleases == <<"connection", "descriptor", "context">>

\* The socket goes to the ssl session; a failure other than ENOENT leaves it here.
Transfer ==
  [Try("set descriptor", {"descriptor"}, <<"connection", "context", s>>) EXCEPT !.moves = {s}]

VerifiedHttpsGet(wants) ==
  Scenario(<<Try("socketInitialize", {"service"}, <<>>), Try("sslInitialize", {"ssl"}, <<>>)>>
             \o Resolve(<<>>) \o <<OpenSocket(s, <<>>)>> \o SetSocketTimeouts(<<s>>)
             \o << Do("connect", <<s>>),
                   Try("sslCreateContext", {"context"}, <<s>>),
                   Try("sslContextCreateConnection", {"connection"}, <<"context", s>>),
                   Transfer,
                   Do("host name", SslReleases), Do("verify option", SslReleases),
                   Do("io mode", SslReleases), Do("handshake", SslReleases),
                   Do("format", SslReleases), Do("write", SslReleases), Do("recv", SslReleases) >>,
           SslReleases, wants)

UdpSocket(steps) == Scenario(<<OpenSocket(s, <<>>)>> \o steps, <<s>>, "nothing")

\* PrepareUdpTarget.
UdpExchange(steps, wants) == Scenario(Resolve(<<>>) \o <<OpenSocket(s, <<>>)>> \o steps, <<s>>, wants)
Timeouts(enabled) == IF enabled THEN SetSocketTimeouts(<<s>>) ELSE <<>>

UdpSendToOnly == UdpExchange(Timeouts(UdpSendToOnlyTimeouts) \o <<Do("sendto", <<s>>)>>, "nothing")

UdpConnectSendOnly ==
  UdpExchange(Timeouts(TRUE) \o <<Do("connect", <<s>>), Do("send", <<s>>)>>, "nothing")

UdpEcho ==
  UdpExchange(Timeouts(UdpEchoSocketTimeouts) \o <<Do("sendto", <<s>>)>>
                \o (IF UdpEchoPoll THEN <<Do("poll", <<s>>)>> ELSE <<>>)
                \o <<Do("recv", <<s>>)>>, "right")

\* The vector of open sockets, closed front to back.
Opened(n) == SubSeq(Sockets, 1, n)

ExchangeUndo == Opened(Len(Sockets))

ConcurrentTcpBurst ==
  LET Connect(i) == ConnectResolvedTcp(Socket(i), Opened(i - 1))
      Exchange(i) == <<Do("format", ExchangeUndo), Do("send", ExchangeUndo), Do("recv", ExchangeUndo)>>
      all == DOMAIN Sockets
  IN Scenario(FlattenSeq([i \in all |-> Connect(i)] \o [i \in all |-> Exchange(i)]),
              Opened(Len(Sockets)), "nothing")

\* ManualBsdState::Cleanup, on every return; each is skipped when it is not there.
\* Faulty variant: the transfer memory goes before the session that uses it.
CleanupMemoryFirst == <<"clone", "monitor", "tmem", "root">>
Cleanup == <<"clone", "monitor", "root", "tmem">>

ManualBsdLifecycle(phases) ==
  LET Phase(name, step) == IF name \in phases THEN <<step>> ELSE <<>>
  IN Scenario(<<Try("open root", {"root"}, Cleanup)>>
                \o Phase("monitor", Try("open monitor", {"monitor"}, Cleanup))
                \o Phase("tmem", Try("create tmem", {"tmem"}, Cleanup))
                \o Phase("register", Do("RegisterClient", Cleanup))
                \o Phase("start", Do("StartMonitoring", Cleanup))
                \o Phase("clone", Try("clone root", {"clone"}, Cleanup)), Cleanup, "nothing")

\* ScenarioSteps.  The two of curl and environment_snapshot need what the
\* toolbox never initializes; the UDP exchanges need a target.
Scenarios ==
  {"dns_resolve", "plain_tcp_connect", "tcp_idle_hold", "http_get", "https_get",
   "connection_test_global_ip", "curl", "environment_snapshot", "udp_socket_only",
   "udp_socket_setsockopt", "udp_setsockopt_one", "udp_sendto_only", "udp_connect_send_only",
   "udp_echo", "tcp_multi_connect", "manual_bsd_lifecycle"}

Skipped(name) ==
  \/ name \in {"curl", "environment_snapshot", "unknown"}
  \/ name \in {"udp_sendto_only", "udp_connect_send_only", "udp_echo"} /\ ~UdpTarget

Steps(name, phases) ==
  CASE name = "dns_resolve" -> DnsResolve
    [] name = "plain_tcp_connect" -> PlainTcpConnect
    [] name = "tcp_idle_hold" -> IdleTcpHold
    [] name = "http_get" -> HttpGet
    [] name = "https_get" -> VerifiedHttpsGet("some")
    [] name = "connection_test_global_ip" -> VerifiedHttpsGet("right")
    [] name = "udp_socket_only" -> UdpSocket(<<>>)
    [] name = "udp_socket_setsockopt" -> UdpSocket(SetSocketTimeouts(<<s>>))
    [] name = "udp_setsockopt_one" -> UdpSocket(<<Do("setsockopt", <<s>>)>>)
    [] name = "udp_sendto_only" -> UdpSendToOnly
    [] name = "udp_connect_send_only" -> UdpConnectSendOnly
    [] name = "udp_echo" -> UdpEcho
    [] name = "tcp_multi_connect" -> ConcurrentTcpBurst
    [] name = "manual_bsd_lifecycle" -> ManualBsdLifecycle(phases)

-----------------------------------------------------------------------------
VARIABLES
  name,     \* the scenario running or run last, "none" at first
  at,       \* index of its next step, 0 when none runs
  held,     \* external: the resources the process holds
  queue,    \* releases to be done before anything else
  outcome,  \* "none" while it runs, "success", "failed" or "skipped"
  replies,  \* external: what its receives have brought
  failed,   \* history: a call of this run failed
  phases    \* the build's phases of manual_bsd_lifecycle

vars == <<name, at, held, queue, outcome, replies, failed, phases>>

Init ==
  /\ name = "none" /\ at = 0 /\ held = {} /\ queue = <<>> /\ outcome = "success"
  /\ replies = {} /\ failed = FALSE /\ phases \in ManualPhases

\* A scenario that cannot run returns at once.
Start(n) == IF Skipped(n) THEN 0 ELSE 1

\* RunScenario looks the name up and calls it, whether or not it is enabled.
RunScenario ==
  /\ at = 0
  /\ \E n \in Scenarios \cup {"unknown"} :
       /\ name' = n
       /\ outcome' = (IF Skipped(n) THEN "skipped" ELSE "none")
       /\ at' = Start(n)
  /\ replies' = {} /\ failed' = FALSE
  /\ UNCHANGED <<held, queue, phases>>

Running == at > 0 /\ queue = <<>> /\ outcome = "none"
Current == Steps(name, phases)

\* Releases behind an ownership test are left out when there is nothing to release.
Tested == {"descriptor", "clone", "monitor", "root", "tmem"}
When(there, r) == IF there THEN <<r>> ELSE <<>>
Owned(q) == FlattenSeq([i \in DOMAIN q |-> When(q[i] \in Tested => q[i] \in held, q[i])])

\* The scope objects on the stack, last constructed first.
Scopes == When("ssl" \in held, "ssl") \o When("service" \in held, "service")

CallSucceeds ==
  /\ Running /\ at <= Len(Current.steps)
  /\ LET step == Current.steps[at] IN
       /\ \E got \in {step.gets} \cup {g \in {{}} : "descriptor" \in step.gets} :
            held' = (held \ step.moves) \cup got
       /\ queue' = step.after
       /\ replies' \in IF step.call \in {"recv", "collect"}
                       THEN {replies \cup {r} : r \in {"empty", "other", "right"}} ELSE {replies}
  /\ at' = at + 1
  /\ UNCHANGED <<name, outcome, failed, phases>>

CallFails ==
  /\ Running /\ at <= Len(Current.steps)
  /\ LET step == Current.steps[at] IN step.fails /\ queue' = Owned(step.undo) \o Scopes
  /\ outcome' = "failed" /\ failed' = TRUE
  /\ UNCHANGED <<name, at, held, replies, phases>>

Judged ==
  CASE Current.wants = "nothing" -> TRUE
    [] Current.wants = "some" -> "empty" \notin replies
    [] OTHER -> replies = {"right"}

Complete ==
  /\ Running /\ at > Len(Current.steps)
  /\ queue' = Owned(Current.release) \o Scopes
  /\ outcome' = IF Judged THEN "success" ELSE "failed"
  /\ UNCHANGED <<name, at, held, replies, failed, phases>>

\* The result of tmemClose is the only one that counts, and only at the end.
Release ==
  /\ queue # <<>>
  /\ held' = held \ {Head(queue)} /\ queue' = Tail(queue)
  /\ \/ UNCHANGED <<outcome, failed>>
     \/ Head(queue) = "tmem" /\ outcome' = "failed" /\ failed' = TRUE
  /\ UNCHANGED <<name, at, replies, phases>>

Return ==
  /\ at > 0 /\ queue = <<>> /\ outcome # "none" /\ at' = 0
  /\ UNCHANGED <<name, held, queue, outcome, replies, failed, phases>>

Next == RunScenario \/ CallSucceeds \/ CallFails \/ Complete \/ Release \/ Return

Spec == Init /\ [][Next]_vars

-----------------------------------------------------------------------------
TypeOK ==
  /\ name \in Scenarios \cup {"none", "unknown"} /\ at \in Nat
  /\ outcome \in {"none", "success", "failed", "skipped"}
  /\ replies \subseteq {"empty", "other", "right"} /\ failed \in BOOLEAN /\ phases \in ManualPhases
  /\ outcome = "skipped" => at = 0
  /\ at > 0 => at <= Len(Current.steps) + 1

\* Nothing is released that is not held: no socket, context or handle is closed
\* twice on any of the return paths, nor closed before it was opened.
ReleasesAreHeld == queue # <<>> => Head(queue) \in held

\* A scenario gives back all it acquired, so the next one starts from nothing:
\* "It closes every service and transfer-memory handle before returning"
\* (scenarios.cpp:1484) and its like for every scenario.
NothingCarriedOver == at = 0 => held = {}

\* What uses what: the user is released first.
Uses(user, used) ==
  \/ <<user, used>> \in {<<"connection", "context">>, <<"context", "ssl">>, <<"descriptor", "service">>,
                         <<"root", "tmem">>}
  \/ used = "service" /\ user \in Range(Sockets)

\* In every step: nothing is released while something that is still held works on
\* it: an ssl context under its connection, a service under a socket, the transfer
\* memory of bsd:s under its session.
ReleasedUsersFirst ==
  \A used \in held \ held' : \A user \in held' : ~Uses(user, used)

\* Success is reported only when no call failed.  It means the right reply where
\* one is validated ("validates an identical reply", scenarios.cpp:1574, and the
\* address that connection_test_global_ip parses), and something received where
\* something is fetched.  tcp_multi_connect is excepted: it "exchanges one payload
\* on each" (scenarios.cpp:1579), yet succeeds when every receive brought nothing.
\* The other scenarios receive nothing.
SuccessEarned ==
  outcome = "success" /\ at > 0 =>
    /\ ~failed
    /\ name \in {"udp_echo", "connection_test_global_ip"} => replies = {"right"}
    /\ name \in {"dns_resolve", "plain_tcp_connect", "http_get", "https_get"} =>
         replies # {} /\ "empty" \notin replies
=============================================================================
