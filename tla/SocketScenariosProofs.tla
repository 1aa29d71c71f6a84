----------------------- MODULE SocketScenariosProofs -----------------------
(***************************************************************************)
(* Proofs about the scenarios that use the socket services, the packet     *)
(* echo and the figures of a workload: first BsdTcpExchange by itself,     *)
(* then all of them as MCSocketScenarios runs them.  They hold for every   *)
(* size, limit, deadline and number of flows, packets and echoes, for      *)
(* every cut of a stream into pieces, and for words of two digits of any   *)
(* even base.                                                              *)
(*                                                                         *)
(* Each scenario has an invariant of its own, parameterised where two of   *)
(* them share a module; a step of one leaves the others alone, so          *)
(* SocketsHold, their conjunction, is inductive.                           *)
(***************************************************************************)
EXTENDS MCSocketScenarios, SequenceTheorems, FiniteSetTheorems, WellFoundedInduction,
        NaturalsInduction, TLAPS

-----------------------------------------------------------------------------
(* The TCP exchange: its numbers and types.                                *)

\* A piece of the stream after the bytes that were collected.
LEMMA Piece ==
  ASSUME NEW S, NEW r \in Seq(S), NEW s \in Seq(S), NEW n \in Len(r) + 1..Len(s),
         NEW c, c = r \o SubSeq(s, Len(r) + 1, n)
  PROVE  /\ c \in Seq(S) /\ Len(c) = n
         /\ \A i \in 1..Len(r) : c[i] = r[i]
         /\ \A i \in Len(r) + 1..n : c[i] = s[i]
<1>. DEFINE p == SubSeq(s, Len(r) + 1, n)
<1>1. Len(r) \in Nat /\ Len(s) \in Nat /\ n \in Int
  BY LenProperties
<1>2. \A i \in Len(r) + 1..n : s[i] \in S
  BY <1>1, ElementOfSeq
<1>3. p \in Seq(S) /\ Len(p) = n - Len(r) /\ \A i \in 1..n - Len(r) : p[i] = s[Len(r) + i]
  <2>1. Len(r) + 1 \in Int /\ Len(r) + 1 <= n
    BY <1>1
  <2>2. /\ p \in Seq(S) /\ Len(p) = n - (Len(r) + 1) + 1
        /\ \A i \in 1..n - (Len(r) + 1) + 1 : p[i] = s[(Len(r) + 1) + i - 1]
    BY <1>1, <1>2, <2>1, SubSeqProperties
  <2>. HIDE DEF p
  <2>3. n - (Len(r) + 1) + 1 = n - Len(r)
    BY <1>1
  <2>4. \A i \in 1..n - Len(r) : (Len(r) + 1) + i - 1 = Len(r) + i
    BY <1>1
  <2>. QED
    BY ONLY <2>2, <2>3, <2>4
<1>. HIDE DEF p
<1>4. /\ r \o p \in Seq(S) /\ Len(r \o p) = n
      /\ \A i \in 1..n : (r \o p)[i] = IF i <= Len(r) THEN r[i] ELSE p[i - Len(r)]
  BY <1>1, <1>3, ConcatProperties
<1>5. \A i \in Len(r) + 1..n : (r \o p)[i] = s[i]
  <2>. SUFFICES ASSUME NEW i \in Len(r) + 1..n PROVE (r \o p)[i] = s[i]
    OBVIOUS
  <2>1. i - Len(r) \in 1..n - Len(r) /\ ~(i <= Len(r)) /\ i \in 1..n
    BY <1>1
  <2>2. p[i - Len(r)] = s[Len(r) + (i - Len(r))]
    BY <1>3, <2>1
  <2>. QED
    BY <1>1, <1>4, <2>1, <2>2
<1>6. \A i \in 1..Len(r) : (r \o p)[i] = r[i]
  BY <1>1, <1>4
<1>. QED
  BY <1>4, <1>5, <1>6 DEF p

\* The sizes are positive numbers.
LEMMA SizeFacts ==
  RequestSize \in Nat /\ ReplySize \in Nat /\ 0 < RequestSize /\ 0 < ReplySize
<1>1. RequestSize \in Nat /\ RequestSize # 0 /\ ReplySize \in Nat /\ ReplySize # 0
  BY SizeAssumption
<1>. QED
  BY <1>1

USE SizeFacts

\* Zero is a byte.
LEMMA ZeroIsByte == 0 \in Byte
  BY DEF Byte

\* The types hold at the start.
LEMMA InitType == Init => TypeOK
<1>1. <<>> \in Seq(Byte) /\ Len(<<>>) = 0
  BY EmptySeq
<1>2. Init => sent \in 0..RequestSize /\ closes \in Nat /\ pc \in Pcs
  BY DEF Init, Pcs
<1>3. Init => reply \in Seq(Byte) /\ Len(reply) <= ReplySize /\ stream \in Seq(Byte)
  BY <1>1 DEF Init
<1>. QED
  BY <1>2, <1>3 DEF Init, TypeOK

\* Every step of the exchange keeps them.
LEMMA NextType == TypeOK /\ [Next]_vars => TypeOK'
<1>. SUFFICES ASSUME TypeOK, [Next]_vars PROVE TypeOK'
  OBVIOUS
<1>. USE DEF TypeOK, Pcs, peer, Fail
<1>1. CASE Initialize \/ OpenSocket \/ SetTimeouts \/ Connect
  BY <1>1 DEF Initialize, OpenSocket, SetTimeouts, Connect
<1>2. CASE SendAll
  <2>1. sent' \in 0..RequestSize
    <3>1. \A n \in sent + 1..RequestSize : n \in 0..RequestSize
      <4>. HIDE DEF TypeOK
      <4>1. sent \in 0..RequestSize /\ RequestSize \in Nat
        BY Zenon DEF TypeOK
      <4>. QED
        BY <4>1
    <3>. QED
      BY <1>2, <3>1 DEF SendAll, OffsetAfter
  <2>. QED
    BY <1>2, <2>1 DEF SendAll
<1>3. CASE PollReply
  BY <1>3 DEF PollReply
<1>4. CASE ReceiveReply
  <2>1. reply' \in Seq(Byte) /\ Len(reply') <= ReplySize
    <3>1. ASSUME NEW n \in Len(reply) + 1..Len(stream), n <= Room,
                 reply' = Collect(SubSeq(stream, Len(reply) + 1, n))
          PROVE  reply' \in Seq(Byte) /\ Len(reply') <= ReplySize
      <4>1. reply' = reply \o SubSeq(stream, Len(reply) + 1, n)
        BY <3>1 DEF Collect
      <4>2. reply \in Seq(Byte) /\ stream \in Seq(Byte)
        OBVIOUS
      <4>. HIDE DEF TypeOK
      <4>3. reply' \in Seq(Byte) /\ Len(reply') = n
        BY <4>1, <4>2, Piece
      <4>. QED
        BY <3>1, <4>3 DEF Room
    <3>. QED
      BY <1>4, <3>1 DEF ReceiveReply
  <2>. QED
    BY <1>4, <2>1 DEF ReceiveReply
<1>5. CASE CompareReply
  BY <1>5 DEF CompareReply
<1>8. CASE Close
  <2>1. service' \in BOOLEAN
    BY <1>8 DEF Close, ServiceAfter
  <2>2. closes' \in Nat /\ pc' = "done" /\ UNCHANGED <<initialized, sent, reply, peer>>
    <3>1. closes' = closes + 1 /\ pc' = "done" /\ UNCHANGED <<initialized, sent, reply, peer>>
      BY <1>8, Zenon DEF Close
    <3>2. closes \in Nat
      BY Zenon
    <3>. HIDE DEF TypeOK
    <3>. QED
      BY <3>1, <3>2
  <2>3. /\ outcome' \in {"none", "success", "failed", "unexpected reply"}
        /\ socket' \in {"none", "open", "closed"} /\ callFailed' \in BOOLEAN
    <3>1. CASE socket' = "closed" /\ callFailed' = callFailed
                 /\ outcome' = IF outcome = "none" THEN "success" ELSE outcome
      BY <3>1
    <3>2. CASE socket' = socket /\ callFailed' = TRUE /\ outcome' = IF outcome = "none" THEN "failed"
                 ELSE outcome
      BY <3>2
    <3>. HIDE DEF TypeOK
    <3>. QED
      BY <1>8, <3>1, <3>2 DEF Close
  <2>. QED
    BY <2>1, <2>2, <2>3
<1>6. CASE Environment
  <2>1. stream' \in Seq(Byte)
    <3>1. ASSUME NEW b \in {0} \cup ({Len(stream) + 1} \cap Byte), stream' = Append(stream, b)
          PROVE  stream' \in Seq(Byte)
      <4>1. b \in Byte
        BY <3>1, ZeroIsByte
      <4>. QED
        BY <3>1, <4>1, AppendProperties
    <3>. QED
      BY <1>6, <3>1 DEF Environment, PeerSends, PeerCloses, ConnectionLost
  <2>. QED
    BY <1>6, <2>1 DEF Environment, PeerSends, PeerCloses, ConnectionLost
<1>7. CASE UNCHANGED vars
  BY <1>7 DEF vars
<1>. QED
  BY <1>1, <1>2, <1>3, <1>4, <1>5, <1>6, <1>7, <1>8 DEF Next, Exchange

\* The offset of the request never runs past it, and no more of the reply is
\* collected than there is room for.
THEOREM TypeCorrect == Spec => []TypeOK
  BY InitType, NextType, PTL DEF Spec

-----------------------------------------------------------------------------
(* Release. *)

\* Between the first call and the last the service is entered.
Entered ==
  /\ pc = "init" => ~service /\ ~initialized
  /\ pc \notin {"init", "done"} => initialized
  /\ pc = "done" => ~service

\* The socket is open from its creation to the close.
Opened ==
  /\ pc \in {"init", "socket"} => socket = "none"
  /\ pc \in Pcs \ {"init", "socket", "done"} => socket = "open"
  /\ closes = IF pc = "done" /\ socket # "none" THEN 1 ELSE 0

\* Every step keeps the service in force until the last.
LEMMA NextEntered == TypeOK /\ Entered /\ [Next]_vars => Entered'
<1>. SUFFICES ASSUME TypeOK, Entered, [Next]_vars PROVE Entered'
  OBVIOUS
<1>. USE DEF Entered, Fail
<1>1. CASE Initialize
  <2>1. CASE initialized' = TRUE /\ service' = TRUE /\ pc' = "socket"
    BY <2>1
  <2>2. CASE pc' = "done" /\ UNCHANGED <<initialized, service>>
    BY <1>1, <2>2 DEF Initialize
  <2>. QED
    BY <1>1, <2>1, <2>2 DEF Initialize
<1>2. CASE OpenSocket
  BY <1>2 DEF OpenSocket
<1>3. CASE SetTimeouts \/ Connect
  BY <1>3 DEF SetTimeouts, Connect
<1>4. CASE SendAll \/ PollReply \/ ReceiveReply \/ CompareReply
  BY <1>4 DEF SendAll, PollReply, ReceiveReply, CompareReply
<1>5. CASE Close
  <2>1. pc = "close" /\ pc' = "done" /\ service' = (service /\ ~initialized)
    BY <1>5 DEF Close, ServiceAfter
  <2>2. initialized
    BY <2>1
  <2>3. ~service'
    BY <2>1, <2>2, Zenon
  <2>. QED
    BY <2>1, <2>3
<1>6. CASE Environment \/ UNCHANGED vars
  BY <1>6 DEF Environment, vars
<1>. QED
  BY <1>1, <1>2, <1>3, <1>4, <1>5, <1>6 DEF Next, Exchange

\* Every step keeps the socket open where the code has a descriptor.
LEMMA NextOpened == TypeOK /\ Opened /\ [Next]_vars => Opened'
<1>. SUFFICES ASSUME TypeOK, Opened, [Next]_vars PROVE Opened'
  OBVIOUS
<1>. USE DEF Opened, Pcs, Fail
<1>1. CASE Initialize \/ OpenSocket
  BY <1>1 DEF Initialize, OpenSocket
<1>2. CASE SetTimeouts \/ Connect
  BY <1>2 DEF SetTimeouts, Connect
<1>3. CASE SendAll \/ PollReply \/ ReceiveReply \/ CompareReply
  BY <1>3 DEF SendAll, PollReply, ReceiveReply, CompareReply
<1>4. CASE Close
  <2>1. pc = "close" /\ pc' = "done" /\ closes' = closes + 1 /\ (socket' = "closed" \/ socket' = socket)
    BY <1>4 DEF Close
  <2>2. socket = "open" /\ closes = 0
    BY <2>1
  <2>. QED
    BY <2>1, <2>2
<1>5. CASE Environment \/ UNCHANGED vars
  BY <1>5 DEF Environment, vars
<1>. QED
  BY <1>1, <1>2, <1>3, <1>4, <1>5 DEF Next, Exchange

\* On every path a descriptor that was opened is closed exactly once and the
\* service left.
THEOREM ReleasedOnceAlways == Spec => []ReleasedOnce
<1>1. Init => Entered /\ Opened
  BY DEF Init, Entered, Opened, Pcs
<1>2. Entered /\ Opened => ReleasedOnce
  BY DEF Entered, Opened, ReleasedOnce
<1>. QED
  BY <1>1, <1>2, InitType, NextType, NextEntered, NextOpened, PTL DEF Spec

-----------------------------------------------------------------------------
(* What the outcome says. *)

\* How far the exchange is: what was sent and collected at each position, and why
\* it ended if it did.
Progress ==
  /\ pc \in {"poll", "recv", "compare"} => sent = RequestSize
  /\ pc = "poll" => reply = <<>>
  /\ pc = "recv" => Len(reply) < ReplySize
  /\ pc \in {"init", "socket", "timeouts", "connect", "send"} => reply = <<>>
  /\ pc = "compare" => Len(reply) = ReplySize
  /\ pc \notin {"close", "done"} => outcome = "none"
  /\ pc = "done" => outcome # "none"
  /\ outcome = "success" => pc = "done" /\ socket = "closed"
  /\ (pc = "close" /\ outcome = "none") \/ outcome = "success" =>
       sent = RequestSize /\ reply = ExpectedReply
  /\ outcome = "unexpected reply" => Len(reply) = ReplySize /\ reply # ExpectedReply

\* What was collected is the head of the stream.
Collected == Len(reply) <= Len(stream) /\ \A i \in 1..Len(reply) : reply[i] = stream[i]

\* Nothing is collected and no verdict given at the start.
LEMMA InitOutcome == Init => Progress /\ Collected /\ FailureHasCause
  BY DEF Init, Progress, Collected, FailureHasCause

\* How far the exchange is stays known.
LEMMA NextProgress == TypeOK /\ Progress /\ [Next]_vars => Progress'
<1>. SUFFICES ASSUME TypeOK, Progress, [Next]_vars PROVE Progress'
  OBVIOUS
<1>. USE DEF TypeOK, Progress, Pcs, Fail
<1>1. CASE Initialize \/ OpenSocket \/ SetTimeouts \/ Connect
  BY <1>1 DEF Initialize, OpenSocket, SetTimeouts, Connect
<1>2. CASE SendAll
  BY <1>2 DEF SendAll, OffsetAfter
<1>3. CASE PollReply
  <2>1. Len(<<>>) < ReplySize
    OBVIOUS
  <2>. QED
    BY <1>3, <2>1 DEF PollReply
<1>4. CASE ReceiveReply
  <2>1. UNCHANGED <<sent, socket>> /\ pc = "recv" /\ outcome = "none"
    BY <1>4 DEF ReceiveReply
  <2>2. CASE pc' = "close" /\ outcome' = "failed"
    BY <2>1, <2>2
  <2>3. CASE outcome' = outcome /\ Len(reply') <= ReplySize
             /\ pc' = IF Len(reply') < ReplySize THEN "recv" ELSE "compare"
    BY <2>1, <2>3, NextType
  <2>4. Len(reply') <= ReplySize
    BY NextType
  <2>. QED
    BY <1>4, <2>2, <2>3, <2>4 DEF ReceiveReply
<1>5. CASE CompareReply
  BY <1>5 DEF CompareReply, IsExpected
<1>6. CASE Close
  BY <1>6 DEF Close
<1>7. CASE Environment
  BY <1>7 DEF Environment
<1>8. CASE UNCHANGED vars
  BY <1>8 DEF vars
<1>. QED
  BY <1>1, <1>2, <1>3, <1>4, <1>5, <1>6, <1>7, <1>8 DEF Next, Exchange

\* A piece is cut off the stream where the last one ended.
LEMMA NextCollected == TypeOK /\ Collected /\ [Next]_vars => Collected'
<1>. SUFFICES ASSUME TypeOK, Collected, [Next]_vars PROVE Collected'
  OBVIOUS
<1>1. CASE UNCHANGED <<reply, stream>>
  BY <1>1 DEF Collected
<1>2. CASE ReceiveReply
  <2>1. ASSUME NEW n \in Len(reply) + 1..Len(stream), reply' = Collect(SubSeq(stream, Len(reply) + 1, n)),
               stream' = stream
        PROVE  Collected'
    <3>1. reply' = reply \o SubSeq(stream, Len(reply) + 1, n)
      BY <2>1 DEF Collect
    <3>2. reply \in Seq(Byte) /\ stream \in Seq(Byte) /\ Len(reply) \in Nat /\ Len(stream) \in Nat
      BY LenProperties DEF TypeOK
    <3>3. /\ Len(reply') = n
          /\ \A i \in 1..Len(reply) : reply'[i] = reply[i]
          /\ \A i \in Len(reply) + 1..n : reply'[i] = stream[i]
      BY <3>1, <3>2, Piece
    <3>. QED
      BY <2>1, <3>2, <3>3 DEF Collected
  <2>. QED
    BY <1>1, <1>2, <2>1 DEF ReceiveReply, peer
<1>3. CASE Environment
  <2>1. ASSUME NEW b \in Byte, stream' = Append(stream, b), reply' = reply PROVE Collected'
    <3>1. stream \in Seq(Byte) /\ Len(reply) \in Nat /\ Len(stream) \in Nat
      BY LenProperties DEF TypeOK
    <3>2. /\ Len(Append(stream, b)) = Len(stream) + 1
          /\ \A i \in 1..Len(stream) : Append(stream, b)[i] = stream[i]
      BY <3>1, AppendProperties
    <3>. QED
      BY <2>1, <3>1, <3>2 DEF Collected
  <2>2. {0} \cup ({Len(stream) + 1} \cap Byte) \subseteq Byte
    BY DEF Byte
  <2>. QED
    BY <1>1, <1>3, <2>1, <2>2 DEF Environment, PeerSends, PeerCloses, ConnectionLost
<1>. QED
  BY <1>1, <1>2, <1>3 DEF Next, Exchange, vars, peer, Initialize, OpenSocket, SetTimeouts, Connect,
     SendAll, PollReply, CompareReply, Close

\* A failure comes with its cause.
LEMMA NextCause ==
  TypeOK /\ Progress /\ Collected /\ FailureHasCause /\ [Next]_vars => FailureHasCause'
<1>. SUFFICES ASSUME TypeOK, Progress, Collected, FailureHasCause, [Next]_vars, outcome' = "failed"
              PROVE  callFailed' \/ reset' \/ (peerClosed' /\ Len(stream') < ReplySize)
  BY DEF FailureHasCause
<1>. USE DEF Progress, FailureHasCause, Fail, peer
<1>1. CASE Initialize \/ OpenSocket \/ SetTimeouts \/ Connect
  BY <1>1 DEF Initialize, OpenSocket, SetTimeouts, Connect
<1>2. CASE SendAll
  BY <1>2 DEF SendAll
<1>3. CASE PollReply
  <2>1. Revents # {} /\ ~Readable(Revents) => reset
    BY DEF Revents, Readable
  <2>. QED
    BY <1>3, <2>1 DEF PollReply
<1>4. CASE ReceiveReply
  BY <1>4 DEF ReceiveReply
<1>5. CASE CompareReply \/ Close
  BY <1>5 DEF CompareReply, Close
<1>6. CASE Environment
  BY <1>6 DEF Environment
<1>7. CASE UNCHANGED vars
  BY <1>7 DEF vars
<1>. QED
  BY <1>1, <1>2, <1>3, <1>4, <1>5, <1>6, <1>7 DEF Next, Exchange

\* So all of them hold in every state.
LEMMA OutcomeAlways == Spec => [](TypeOK /\ Progress /\ Collected /\ FailureHasCause)
  BY InitType, NextType, InitOutcome, NextProgress, NextCollected, NextCause, PTL DEF Spec

\* A failure is never the scenario's own making: a peer that answers and closes
\* at once, in however many pieces, is no failure.
THEOREM FailureAlwaysHasCause == Spec => []FailureHasCause
  BY OutcomeAlways, PTL

\* The expected reply, and what it is to stand at the head of the stream.
LEMMA Expected == ExpectedReply \in Seq(Byte) /\ Len(ExpectedReply) = ReplySize
  BY IsASeq DEF ExpectedReply, Byte

\* A sequence that agrees with the head of the stream is a prefix of it.
LEMMA PrefixPointwise ==
  ASSUME NEW S, NEW s \in Seq(S), NEW t \in Seq(S), Len(s) <= Len(t)
  PROVE  IsPrefix(s, t) <=> \A i \in 1..Len(s) : s[i] = t[i]
<1>1. Len(s) \in Nat /\ Len(t) \in Nat
  BY LenProperties
<1>2. SubSeq(s, 1, Len(s)) = s
  BY SubSeqFull
<1>3. \A i \in 1..Len(s) : t[i] \in S
  BY <1>1, ElementOfSeq
<1>. DEFINE h == SubSeq(t, 1, Len(s))
<1>4. h \in Seq(S) /\ Len(h) = Len(s) /\ \A i \in 1..Len(s) : h[i] = t[i]
  <2>1. h \in Seq(S) /\ Len(h) = (IF 1 <= Len(s) THEN Len(s) - 1 + 1 ELSE 0)
        /\ \A i \in 1..Len(s) - 1 + 1 : h[i] = t[1 + i - 1]
    BY <1>1, <1>3, SubSeqProperties
  <2>. HIDE DEF h
  <2>. QED
    BY <1>1, <2>1
<1>5. s = h <=> \A i \in 1..Len(s) : s[i] = h[i]
  <2>. HIDE DEF h
  <2>. QED
    BY <1>4, SeqEqual
<1>. QED
  BY <1>2, <1>4, <1>5 DEF IsPrefix

\* And the other way round.
LEMMA ReplyAtHead ==
  ASSUME NEW t \in Seq(Byte), Len(ExpectedReply) <= Len(t)
  PROVE  IsPrefix(ExpectedReply, t) <=> \A i \in 1..ReplySize : ExpectedReply[i] = t[i]
<1>1. IsPrefix(ExpectedReply, t) <=> \A i \in 1..Len(ExpectedReply) : ExpectedReply[i] = t[i]
  BY Expected, PrefixPointwise
<1>. QED
  BY <1>1, Expected

\* Success means that all of the request went out and that the peer's stream
\* begins with the reply that is expected.
THEOREM SuccessAlwaysEarned == Spec => []SuccessEarned
<1>1. TypeOK /\ Progress /\ Collected => SuccessEarned
  <2>. SUFFICES ASSUME TypeOK, Progress, Collected, outcome = "success" PROVE IsPrefix(ExpectedReply, stream)
    BY DEF SuccessEarned, Progress
  <2>1. reply = ExpectedReply
    BY DEF Progress
  <2>. QED
    BY <2>1, Expected, PrefixPointwise DEF Collected, TypeOK
<1>. QED
  BY <1>1, OutcomeAlways, PTL

\* A reply is called unexpected only if the peer's bytes differ, wherever the
\* stream was cut.
THEOREM MismatchAlwaysReal == Spec => []MismatchIsReal
<1>1. TypeOK /\ Progress /\ Collected => MismatchIsReal
  <2>. SUFFICES ASSUME TypeOK, Progress, Collected, outcome = "unexpected reply",
                       IsPrefix(ExpectedReply, stream)
                PROVE  FALSE
    BY DEF MismatchIsReal
  <2>1. Len(reply) = ReplySize /\ reply # ExpectedReply /\ reply \in Seq(Byte)
    BY DEF Progress, TypeOK
  <2>2. \A i \in 1..ReplySize : ExpectedReply[i] = stream[i]
    <3>1. Len(ExpectedReply) <= Len(stream) /\ stream \in Seq(Byte)
      BY DEF IsPrefix, TypeOK
    <3>. QED
      BY <3>1, ReplyAtHead
  <2>3. \A i \in 1..Len(reply) : reply[i] = ExpectedReply[i]
    BY <2>1, <2>2 DEF Collected
  <2>. QED
    BY <2>1, <2>3, Expected, SeqEqual
<1>. QED
  BY <1>1, OutcomeAlways, PTL

-----------------------------------------------------------------------------
(* The UDP workload, with echoes (b = FALSE) or as a burst (b = TRUE): what *)
(* its invariant is made of.                                               *)

\* A step of the workload or none.
UdpStepped(b) == Udp(b)!Next \/ UNCHANGED udpVars

\* Where the workload can be in each mode, and how far.
UdpPlace(b) ==
  /\ udpPc \notin {"close", "done"} => udpOutcome = "none"
  /\ udpPc \in {"writable", "echo", "recv", "noReply", "terminal", "postSend"} => sequence < Udp(b)!Count
  /\ udpPc \in {"echo", "recv"} => Udp(b)!Echoes
  /\ udpPc = "noReply" => mode = "NoReplyTimeout"
  /\ udpPc \in {"terminal", "postSend"} => mode = "TerminalClosure"
  /\ mode # "EchoReply" => sequence = 0
  /\ udpPc \notin {"terminal", "postSend", "close", "done"} => echoed <= sequence
  /\ udpPc = "writable" => retries > 0

\* An echo to be read was sent, and those of the datagrams done with have come.
UdpAnswered(b) ==
  /\ \A f \in Udp(b)!Flows : \A i \in 1..Len(inbox[f]) : inbox[f][i] \in answered
  /\ mode = "EchoReply" /\ ~b => 0..sequence - 1 \subseteq answered
  /\ udpPc \in {"terminal", "postSend"} => 0 \in answered
  /\ udpPc = "postSend" => 0 \in hungUp

\* Room that a poll reported is still to be used, or was.
UdpRegained(b) ==
  recovery => \/ regained
              \/ udpPc \in {"send", "writable"} /\ retries > 0 /\ sequence < Udp(b)!Count
              \/ udpPc \in {"close", "done"} /\ udpOutcome # "success"

\* The refusal of the socket options is seen before anything is sent.
UdpRefused(b) ==
  udpPc \notin {"init", "open", "close", "done"} /\ ~b => tunneled

\* How many flows and retries a workload has.
FlowsIn(b) == IF b THEN BurstFlows ELSE EchoFlows
RetriesIn(b) == IF b THEN BurstRetries ELSE EchoRetries

\* The parameters of both workloads.
LEMMA UdpParameters ==
  ASSUME NEW b \in BOOLEAN
  PROVE  /\ FlowsIn(b) \in Nat /\ 0 < FlowsIn(b) /\ RetriesIn(b) \in Nat
         /\ Datagrams \in Nat /\ PollDeadline \in Nat /\ 0 < PollDeadline
<1>1. Udp(b)!Parameters
  BY ScenarioParameters
<1>2. CASE b = TRUE
  BY <1>1, <1>2 DEF Udp!Parameters, FlowsIn, RetriesIn
<1>3. CASE b = FALSE
  BY <1>1, <1>3 DEF Udp!Parameters, FlowsIn, RetriesIn
<1>. QED
  BY <1>2, <1>3

\* The same, as the steps use them.
LEMMA UdpConstants ==
  ASSUME NEW b \in BOOLEAN, mode \in {"EchoReply", "NoReplyTimeout", "TerminalClosure"}
  PROVE  /\ Udp(b)!Flows = 0..FlowsIn(b) - 1 /\ 0 \in Udp(b)!Flows
         /\ Udp(b)!Numbers = 0..Datagrams
         /\ Udp(b)!Count = (IF mode = "EchoReply" THEN Datagrams ELSE 1) /\ Udp(b)!Count \in Nat
         /\ Udp(b)!Echoes = (IF mode = "EchoReply" THEN ~b ELSE mode = "TerminalClosure")
         /\ sequence \in Nat => Udp(b)!Flow \in Udp(b)!Flows
<1>0. /\ FlowsIn(b) \in Nat /\ 0 < FlowsIn(b) /\ Datagrams \in Nat
  BY UdpParameters
<1>1. Udp(b)!Flows = 0..FlowsIn(b) - 1
  BY DEF Udp!Flows, FlowsIn
<1>2. 0 \in Udp(b)!Flows
  BY <1>0, <1>1
<1>3. Udp(b)!Count = (IF mode = "EchoReply" THEN Datagrams ELSE 1) /\ Udp(b)!Count \in Nat
  BY <1>0 DEF Udp!Count
<1>4. Udp(b)!Echoes = (IF mode = "EchoReply" THEN ~b ELSE mode = "TerminalClosure")
  BY DEF Udp!Echoes
<1>5. ASSUME sequence \in Nat PROVE Udp(b)!Flow \in Udp(b)!Flows
  <2>1. sequence % FlowsIn(b) \in 0..FlowsIn(b) - 1
    BY <1>0, <1>5
  <2>. QED
    BY <1>1, <1>2, <2>1 DEF Udp!Flow, FlowsIn
<1>. QED
  BY <1>1, <1>2, <1>3, <1>4, <1>5 DEF Udp!Numbers

-----------------------------------------------------------------------------
(* The UDP workload: its steps, and the types they keep. *)

\* The types hold at the start.
LEMMA UdpInitType ==
  ASSUME NEW b \in BOOLEAN, Udp(b)!Init
  PROVE  Udp(b)!TypeOK /\ UdpPlace(b) /\ UdpAnswered(b) /\ UdpRegained(b) /\ UdpRefused(b)
<1>0. mode \in {"EchoReply", "NoReplyTimeout", "TerminalClosure"}
  BY DEF Udp!Init
<1>. USE UdpConstants, UdpParameters, <1>0
<1>1. <<>> \in Seq(Udp(b)!Numbers) /\ Len(<<>>) = 0
  BY EmptySeq
<1>2. queued \in [Udp(b)!Flows -> Seq(Udp(b)!Numbers)] /\ inbox \in [Udp(b)!Flows -> Seq(Udp(b)!Numbers)]
  BY <1>1 DEF Udp!Init
<1>3. sequence \in 0..Udp(b)!Count /\ echoed \in 0..Udp(b)!Count /\ clock \in Nat /\ clock = 0 /\ retries = 0
  BY DEF Udp!Init
<1>4. Udp(b)!TypeOK
  <2>1. retries \in 0..RetriesIn(b) /\ clock \in 0..PollDeadline
    BY <1>3
  <2>. QED
    BY <1>2, <1>3, <2>1 DEF Udp!TypeOK, Udp!Init, Udp!Pcs, RetriesIn
<1>5. UdpPlace(b)
  BY DEF UdpPlace, Udp!Init
<1>6. UdpAnswered(b)
  <2>1. \A f \in Udp(b)!Flows : inbox[f] = <<>>
    BY DEF Udp!Init
  <2>2. \A f \in Udp(b)!Flows : \A i \in 1..Len(inbox[f]) : inbox[f][i] \in answered
    BY <1>1, <2>1
  <2>3. 0..sequence - 1 = {}
    BY DEF Udp!Init
  <2>. QED
    BY <2>2, <2>3 DEF UdpAnswered, Udp!Init
<1>7. UdpRegained(b) /\ UdpRefused(b)
  BY DEF UdpRegained, UdpRefused, Udp!Init
<1>. QED
  BY <1>4, <1>5, <1>6, <1>7

\* The steps of the workload and of what it talks to.
LEMMA UdpCases ==
  ASSUME NEW b \in BOOLEAN, UdpStepped(b)
  PROVE  \/ Udp(b)!Initialize \/ Udp(b)!OpenSocket \/ Udp(b)!VerifyPostRouteRejection
         \/ Udp(b)!Send \/ Udp(b)!AwaitWritable \/ Udp(b)!AwaitEcho \/ Udp(b)!ReceiveEcho
         \/ Udp(b)!AwaitNoReply \/ Udp(b)!AwaitTerminal \/ Udp(b)!VerifyTerminalSend
         \/ Udp(b)!Finish \/ Udp(b)!Tick \/ Udp(b)!Environment \/ UNCHANGED udpVars
  BY DEF UdpStepped, Udp!Next, Udp!Workload

\* The datagrams waiting in a socket and the echoes that came keep their type.
LEMMA UdpQueuesType ==
  ASSUME NEW b \in BOOLEAN, Udp(b)!TypeOK, UdpStepped(b)
  PROVE  /\ queued' \in [Udp(b)!Flows -> Seq(Udp(b)!Numbers)]
         /\ inbox' \in [Udp(b)!Flows -> Seq(Udp(b)!Numbers)]
         /\ network' \subseteq Udp(b)!Numbers /\ answered' \subseteq Udp(b)!Numbers
<1>0. mode \in {"EchoReply", "NoReplyTimeout", "TerminalClosure"} /\ sequence \in Nat
  <2>1. sequence \in 0..Udp(b)!Count /\ mode \in {"EchoReply", "NoReplyTimeout", "TerminalClosure"}
    BY DEF Udp!TypeOK
  <2>. QED
    BY <2>1, UdpConstants
<1>. DEFINE F == Udp(b)!Flows
            N == Udp(b)!Numbers
<1>1. /\ queued \in [F -> Seq(N)] /\ inbox \in [F -> Seq(N)] /\ network \subseteq N /\ answered \subseteq N
  BY DEF Udp!TypeOK
<1>2. Udp(b)!Flow \in F
  <2>1. Udp(b)!Flow \in F
    BY <1>0, UdpConstants
  <2>. QED
    BY <1>0, <2>1
<1>3. ASSUME NEW q \in [F -> Seq(N)], NEW f \in F, NEW n \in N
      PROVE  [q EXCEPT ![f] = Append(@, n)] \in [F -> Seq(N)]
  <2>1. Append(q[f], n) \in Seq(N)
    BY AppendProperties
  <2>. QED
    BY <2>1
<1>4. ASSUME NEW q \in [F -> Seq(N)], NEW f \in F, q[f] # <<>>
      PROVE  [q EXCEPT ![f] = Tail(@)] \in [F -> Seq(N)] /\ Head(q[f]) \in N
  <2>1. Tail(q[f]) \in Seq(N) /\ Head(q[f]) \in N
    BY <1>4, HeadTailProperties
  <2>. QED
    BY <2>1
<1>. HIDE DEF F, N
<1>5. CASE UNCHANGED <<queued, inbox, network, answered>>
  BY <1>1, <1>5 DEF F, N
<1>6. CASE Udp(b)!Send
  <2>1. CASE queued' = [queued EXCEPT ![Udp(b)!Flow] = Append(@, sequence)]
    <3>0. sequence \in N
      <4>1. sequence < Udp(b)!Count
        BY <1>6 DEF Udp!Send
      <4>2. Datagrams \in Nat /\ N = 0..Datagrams
        BY <1>0, UdpConstants, UdpParameters DEF N
      <4>. QED
        BY <1>0, <4>1, <4>2, UdpConstants
    <3>1. queued' \in [F -> Seq(N)]
      BY <1>1, <1>2, <1>3, <2>1, <3>0
    <3>. QED
      BY <1>1, <1>6, <3>1 DEF Udp!Send, F, N
  <2>2. CASE queued' = queued
    BY <1>5, <1>6, <2>2 DEF Udp!Send
  <2>. QED
    BY <1>6, <2>1, <2>2 DEF Udp!Send
<1>7. CASE Udp(b)!ReceiveEcho
  <2>1. CASE inbox[Udp(b)!Flow] # <<>> /\ inbox' = [inbox EXCEPT ![Udp(b)!Flow] = Tail(@)]
    <3>1. inbox' \in [F -> Seq(N)]
      BY <1>1, <1>2, <1>4, <2>1
    <3>. QED
      BY <1>1, <1>7, <3>1 DEF Udp!ReceiveEcho, F, N
  <2>2. CASE inbox' = inbox
    BY <1>5, <1>7, <2>2 DEF Udp!ReceiveEcho
  <2>. QED
    BY <1>7, <2>1, <2>2 DEF Udp!ReceiveEcho
<1>8. CASE Udp(b)!Environment
  <2>1. ASSUME NEW f \in F, Udp(b)!Transmit(f) PROVE queued' \in [F -> Seq(N)] /\ network' \subseteq N
    BY <1>1, <1>4, <2>1 DEF Udp!Transmit
  <2>2. ASSUME NEW f \in F, Udp(b)!Transmit(f) PROVE inbox' = inbox /\ answered' = answered
    BY <2>2 DEF Udp!Transmit
  <2>3. ASSUME NEW f \in F, Udp(b)!HangUp(f) PROVE UNCHANGED <<queued, inbox, network, answered>>
    BY <2>3 DEF Udp!HangUp
  <2>4. ASSUME NEW n \in N, Udp(b)!EchoArrives(n)
        PROVE  inbox' \in [F -> Seq(N)] /\ answered' \subseteq N /\ network' \subseteq N /\ queued' = queued
    <3>. DEFINE g == IF mode = "EchoReply" THEN n % FlowsIn(b) ELSE 0
    <3>1. inbox' = [inbox EXCEPT ![g] = Append(@, n)]
      BY <2>4 DEF Udp!EchoArrives, FlowsIn
    <3>2. g \in F
      <4>1. n \in Nat
        BY <1>0, UdpConstants, UdpParameters DEF N
      <4>2. F = 0..FlowsIn(b) - 1 /\ 0 \in F
        BY <1>0, UdpConstants DEF F
      <4>3. n % FlowsIn(b) \in 0..FlowsIn(b) - 1
        BY <4>1, UdpParameters
      <4>. QED
        BY <4>2, <4>3
    <3>. HIDE DEF g
    <3>3. inbox' \in [F -> Seq(N)]
      BY <1>1, <1>3, <3>1, <3>2
    <3>4. answered' = answered \cup {n} /\ network' \in {network, network \ {n}} /\ queued' = queued
      BY <2>4 DEF Udp!EchoArrives
    <3>. QED
      BY <1>1, <3>3, <3>4
  <2>. QED
    BY <1>1, <1>5, <1>8, <2>1, <2>2, <2>3, <2>4 DEF Udp!Environment, F, N
<1>. QED
  BY <1>5, <1>6, <1>7, <1>8, UdpCases DEF Udp!Initialize, Udp!OpenSocket, Udp!VerifyPostRouteRejection,
     Udp!AwaitWritable, Udp!AwaitEcho, Udp!AwaitNoReply, Udp!AwaitTerminal, Udp!VerifyTerminalSend,
     Udp!Finish, Udp!Tick, Udp!sockets, udpVars

-----------------------------------------------------------------------------
(* The UDP workload: how far it is. *)

\* The modes there are.
LEMMA UdpModes ==
  ASSUME NEW b \in BOOLEAN, Udp(b)!TypeOK
  PROVE  /\ mode \in {"EchoReply", "NoReplyTimeout", "TerminalClosure"}
         /\ sequence \in 0..Udp(b)!Count /\ Udp(b)!Count \in Nat /\ echoed \in 0..Udp(b)!Count
         /\ retries \in 0..RetriesIn(b) /\ RetriesIn(b) \in Nat /\ PollDeadline \in Nat
              /\ clock \in 0..PollDeadline
<1>1. mode \in {"EchoReply", "NoReplyTimeout", "TerminalClosure"}
  BY DEF Udp!TypeOK
<1>2. sequence \in 0..Udp(b)!Count /\ echoed \in 0..Udp(b)!Count
      /\ retries \in 0..RetriesIn(b) /\ clock \in 0..PollDeadline
  BY DEF Udp!TypeOK, RetriesIn
<1>. QED
  BY <1>1, <1>2, UdpConstants, UdpParameters

\* A run keeps its mode.
LEMMA UdpModeStays ==
  ASSUME NEW b \in BOOLEAN, UdpStepped(b)
  PROVE  mode' = mode
  BY UdpCases DEF Udp!Initialize, Udp!OpenSocket, Udp!VerifyPostRouteRejection,
     Udp!AwaitWritable, Udp!AwaitEcho, Udp!AwaitNoReply, Udp!AwaitTerminal, Udp!VerifyTerminalSend,
     Udp!Finish, Udp!Tick, Udp!sockets, udpVars, Udp!Send, Udp!ReceiveEcho, Udp!Environment

\* Every step goes on in the order of its mode.
LEMMA UdpPlaceNext ==
  ASSUME NEW b \in BOOLEAN, Udp(b)!TypeOK, UdpPlace(b), UdpStepped(b)
  PROVE  UdpPlace(b)'
<1>0. mode \in {"EchoReply", "NoReplyTimeout", "TerminalClosure"}
         /\ sequence \in 0..Udp(b)!Count /\ Udp(b)!Count \in Nat /\ echoed \in 0..Udp(b)!Count
         /\ retries \in 0..RetriesIn(b) /\ RetriesIn(b) \in Nat
  BY UdpModes
<1>1. mode' = mode /\ Udp(b)!Count' = Udp(b)!Count /\ Udp(b)!Echoes' = Udp(b)!Echoes
  BY UdpModeStays DEF Udp!Count, Udp!Echoes
<1>. USE <1>0, <1>1 DEF UdpPlace, Udp!Fail
<1>2. CASE Udp(b)!Initialize
  BY <1>2 DEF Udp!Initialize, Udp!progress
<1>3. CASE Udp(b)!OpenSocket
  BY <1>3 DEF Udp!OpenSocket, Udp!progress
<1>4. CASE Udp(b)!VerifyPostRouteRejection
  BY <1>4 DEF Udp!VerifyPostRouteRejection, Udp!progress
<1>5. CASE Udp(b)!Send
  <2>0. udpPc = "send" /\ udpOutcome = "none" /\ sequence < Udp(b)!Count /\ echoed' = echoed
        /\ (mode # "EchoReply" => sequence = 0) /\ echoed <= sequence
    BY <1>5 DEF Udp!Send
  <2>1. CASE Udp(b)!AfterSend /\ udpOutcome' = udpOutcome
    <3>1. CASE udpPc' \in {"noReply", "echo"} /\ UNCHANGED <<sequence, retries>>
      BY <2>0, <2>1, <3>1 DEF Udp!AfterSend
    <3>2. CASE udpPc' = "send" /\ sequence' = sequence + 1 /\ mode = "EchoReply"
      BY <2>0, <2>1, <3>2
    <3>3. mode # "EchoReply" => mode = "NoReplyTimeout" \/ Udp(b)!Echoes
      BY DEF Udp!Echoes
    <3>. QED
      BY <2>1, <3>1, <3>2, <3>3 DEF Udp!AfterSend, Udp!NextDatagram
  <2>2. CASE retries' = retries + 1 /\ udpPc' = "writable" /\ UNCHANGED <<sequence, udpOutcome>>
    BY <2>0, <2>2
  <2>3. CASE Udp(b)!Fail /\ sequence' = sequence
    BY <2>0, <2>3
  <2>. QED
    BY <1>5, <2>1, <2>2, <2>3 DEF Udp!Send
<1>6. CASE Udp(b)!AwaitWritable
  BY <1>6 DEF Udp!AwaitWritable
<1>7. CASE Udp(b)!AwaitEcho
  BY <1>7 DEF Udp!AwaitEcho, Udp!progress
<1>8. CASE Udp(b)!ReceiveEcho
  <2>0. udpPc = "recv" /\ udpOutcome = "none" /\ sequence < Udp(b)!Count /\ Udp(b)!Echoes /\ echoed <= sequence
    BY <1>8 DEF Udp!ReceiveEcho
  <2>1. Udp(b)!Echoes /\ mode # "EchoReply" => mode = "TerminalClosure"
    BY DEF Udp!Echoes
  <2>2. CASE Udp(b)!Fail /\ sequence' = sequence
    BY <2>0, <2>2
  <2>3. CASE echoed' = echoed + 1 /\ mode = "TerminalClosure" /\ udpPc' = "terminal"
             /\ UNCHANGED <<sequence, udpOutcome>>
    BY <2>0, <2>3
  <2>4. CASE echoed' = echoed + 1 /\ mode # "TerminalClosure" /\ udpPc' = "send" /\ sequence' = sequence + 1
             /\ UNCHANGED udpOutcome
    BY <2>0, <2>1, <2>4
  <2>. QED
    BY <1>8, <2>2, <2>3, <2>4 DEF Udp!ReceiveEcho, Udp!NextDatagram
<1>9. CASE Udp(b)!AwaitNoReply
  BY <1>9 DEF Udp!AwaitNoReply, Udp!progress
<1>10. CASE Udp(b)!AwaitTerminal
  BY <1>10 DEF Udp!AwaitTerminal, Udp!progress
<1>11. CASE Udp(b)!VerifyTerminalSend
  BY <1>11 DEF Udp!VerifyTerminalSend, Udp!progress
<1>12. CASE Udp(b)!Finish
  BY <1>12 DEF Udp!Finish, Udp!progress
<1>13. CASE Udp(b)!Tick
  BY <1>13 DEF Udp!Tick
<1>14. CASE Udp(b)!Environment
  BY <1>14 DEF Udp!Environment, Udp!progress
<1>15. CASE UNCHANGED udpVars
  BY <1>15 DEF udpVars
<1>. QED
  BY <1>2, <1>3, <1>4, <1>5, <1>6, <1>7, <1>8, <1>9, <1>10, <1>11, <1>12, <1>13, <1>14, <1>15, UdpCases

-----------------------------------------------------------------------------
(* The UDP workload: numbers, flows and flags keep their types. *)

\* The numbers stay in their bounds.
LEMMA UdpNumbersType ==
  ASSUME NEW b \in BOOLEAN, Udp(b)!TypeOK, UdpPlace(b), UdpStepped(b)
  PROVE  /\ sequence' \in 0..Udp(b)!Count' /\ echoed' \in 0..Udp(b)!Count'
         /\ retries' \in 0..RetriesIn(b) /\ clock' \in 0..PollDeadline
<1>0. mode \in {"EchoReply", "NoReplyTimeout", "TerminalClosure"}
         /\ sequence \in 0..Udp(b)!Count /\ Udp(b)!Count \in Nat /\ echoed \in 0..Udp(b)!Count
         /\ retries \in 0..RetriesIn(b) /\ RetriesIn(b) \in Nat /\ PollDeadline \in Nat
              /\ clock \in 0..PollDeadline
  BY UdpModes
<1>1. mode' = mode /\ Udp(b)!Count' = Udp(b)!Count
  BY UdpModeStays DEF Udp!Count
<1>2. CASE UNCHANGED <<sequence, echoed, retries, clock>>
  BY <1>0, <1>1, <1>2
<1>3. CASE Udp(b)!Send
  <2>0. sequence < Udp(b)!Count /\ echoed' = echoed
    BY <1>3 DEF Udp!Send
  <2>1. CASE Udp(b)!AfterSend
    <3>1. clock' = 0 /\ (UNCHANGED <<sequence, retries>> \/ (sequence' = sequence + 1 /\ retries' = 0))
      BY <2>1 DEF Udp!AfterSend, Udp!NextDatagram
    <3>. QED
      BY <1>0, <1>1, <2>0, <3>1
  <2>2. CASE Udp(b)!RetriesLeft /\ retries' = retries + 1 /\ clock' = 0 /\ sequence' = sequence
    <3>1. retries < RetriesIn(b)
      BY <2>2 DEF Udp!RetriesLeft, RetriesIn
    <3>. QED
      BY <1>0, <1>1, <2>0, <2>2, <3>1
  <2>3. CASE UNCHANGED <<sequence, retries, clock>>
    BY <1>2, <2>0, <2>3
  <2>. QED
    BY <1>3, <2>1, <2>2, <2>3 DEF Udp!Send
<1>4. CASE Udp(b)!ReceiveEcho
  <2>0. sequence < Udp(b)!Count /\ echoed <= sequence
    BY <1>4 DEF Udp!ReceiveEcho, UdpPlace
  <2>1. CASE UNCHANGED <<sequence, retries, echoed, clock>>
    BY <1>2, <2>1
  <2>2. CASE echoed' = echoed + 1 /\ retries' = 0
    <3>1. (clock' = 0 /\ sequence' = sequence) \/ (sequence' = sequence + 1 /\ clock' = clock)
      BY <1>4, <2>2 DEF Udp!ReceiveEcho, Udp!NextDatagram
    <3>. QED
      BY <1>0, <1>1, <2>0, <2>2, <3>1
  <2>. QED
    BY <1>4, <2>1, <2>2 DEF Udp!ReceiveEcho
<1>5. CASE Udp(b)!Tick
  <2>1. clock < PollDeadline /\ clock' = clock + 1 /\ UNCHANGED <<sequence, echoed, retries>>
    BY <1>5 DEF Udp!Tick
  <2>. QED
    BY <1>0, <1>1, <2>1
<1>. QED
  BY <1>2, <1>3, <1>4, <1>5, UdpCases DEF Udp!Initialize, Udp!OpenSocket, Udp!VerifyPostRouteRejection,
     Udp!AwaitWritable, Udp!AwaitEcho, Udp!AwaitNoReply, Udp!AwaitTerminal, Udp!VerifyTerminalSend,
     Udp!Finish, Udp!Environment, Udp!progress, udpVars

\* A set of numbers has a least one.
LEMMA LeastNumber ==
  ASSUME NEW T, T \subseteq Nat, T # {}
  PROVE  \E n \in T : \A m \in T : n <= m
<1>1. IsWellFoundedOn(OpToRel(<, Nat), Nat)
  BY NatLessThanWellFounded
<1>2. PICK n \in T : \A m \in T : ~(<<m, n>> \in OpToRel(<, Nat))
  BY ONLY <1>1, WFMin, T \subseteq Nat, T # {}
<1>3. ASSUME NEW m \in T PROVE n <= m
  <2>1. m \in Nat /\ n \in Nat
    OBVIOUS
  <2>2. m < n => <<m, n>> \in OpToRel(<, Nat)
    BY <2>1 DEF OpToRel
  <2>3. ~(m < n)
    BY <1>2, <2>2, Zenon
  <2>. QED
    BY <2>1, <2>3
<1>. QED
  BY <1>3

\* The descriptors and sockets are those of flows.
LEMMA UdpFlowsType ==
  ASSUME NEW b \in BOOLEAN, Udp(b)!TypeOK, UdpStepped(b)
  PROVE  descriptors' \subseteq Udp(b)!Flows /\ open' \subseteq Udp(b)!Flows /\ hungUp' \subseteq Udp(b)!Flows
<1>0. descriptors \subseteq Udp(b)!Flows /\ open \subseteq Udp(b)!Flows /\ hungUp \subseteq Udp(b)!Flows
  BY DEF Udp!TypeOK
<1>1. CASE UNCHANGED <<descriptors, open, hungUp>>
  BY <1>0, <1>1
<1>2. CASE Udp(b)!OpenSocket
  <2>. DEFINE L(g) == g \notin descriptors /\ \A h \in Udp(b)!Flows \ descriptors : g <= h
              f == CHOOSE g \in Udp(b)!Flows : L(g)
  <2>1. \E g \in Udp(b)!Flows : L(g)
    <3>1. Udp(b)!Flows \subseteq Nat
      BY UdpModes, UdpConstants, UdpParameters
    <3>2. descriptors # Udp(b)!Flows
      BY <1>2 DEF Udp!OpenSocket
    <3>3. Udp(b)!Flows \ descriptors # {} /\ Udp(b)!Flows \ descriptors \subseteq Nat
      BY <1>0, <3>1, <3>2
    <3>4. PICK g \in Udp(b)!Flows \ descriptors : \A h \in Udp(b)!Flows \ descriptors : g <= h
      BY <3>3, LeastNumber
    <3>. QED
      BY <3>4
  <2>2. f \in Udp(b)!Flows
    BY <2>1
  <2>3. hungUp' = hungUp /\ (UNCHANGED <<descriptors, open>>
           \/ (descriptors' = descriptors \cup {f} /\ open' = open \cup {f}))
    BY <1>2 DEF Udp!OpenSocket
  <2>. QED
    BY <1>0, <2>2, <2>3
<1>3. CASE Udp(b)!VerifyTerminalSend
  <2>1. hungUp' = hungUp /\ open' \subseteq open /\ descriptors' \subseteq descriptors
    BY <1>3 DEF Udp!VerifyTerminalSend
  <2>. QED
    BY <1>0, <2>1
<1>4. CASE Udp(b)!Finish
  BY <1>0, <1>4 DEF Udp!Finish
<1>5. CASE Udp(b)!Environment
  <2>1. ASSUME NEW f \in Udp(b)!Flows, Udp(b)!HangUp(f) PROVE hungUp' \subseteq Udp(b)!Flows /\ open' = open
    BY <1>0, <2>1 DEF Udp!HangUp
  <2>2. ASSUME NEW f \in Udp(b)!Flows, Udp(b)!Transmit(f) PROVE hungUp' = hungUp /\ open' = open
    BY <2>2 DEF Udp!Transmit
  <2>3. ASSUME NEW n \in Udp(b)!Numbers, Udp(b)!EchoArrives(n) PROVE hungUp' = hungUp /\ open' = open
    BY <2>3 DEF Udp!EchoArrives
  <2>. QED
    BY <1>0, <1>5, <2>1, <2>2, <2>3 DEF Udp!Environment
<1>. QED
  BY <1>1, <1>2, <1>3, <1>4, <1>5, UdpCases DEF Udp!Initialize, Udp!VerifyPostRouteRejection,
     Udp!Send, Udp!AwaitWritable, Udp!AwaitEcho, Udp!ReceiveEcho, Udp!AwaitNoReply, Udp!AwaitTerminal,
     Udp!Tick, Udp!sockets, udpVars

\* The flags and the places.
LEMMA UdpFlagsType ==
  ASSUME NEW b \in BOOLEAN, Udp(b)!TypeOK, UdpStepped(b)
  PROVE  /\ udpPc' \in Udp(b)!Pcs /\ udpOutcome' \in {"none", "success", "failed"}
         /\ exited' \in BOOLEAN /\ pressed' \in BOOLEAN /\ recovery' \in BOOLEAN
         /\ tunneled' \in BOOLEAN /\ regained' \in BOOLEAN /\ aborted' \in BOOLEAN
<1>1. /\ udpPc \in Udp(b)!Pcs /\ udpOutcome \in {"none", "success", "failed"}
         /\ exited \in BOOLEAN /\ pressed \in BOOLEAN /\ recovery \in BOOLEAN
         /\ tunneled \in BOOLEAN /\ regained \in BOOLEAN /\ aborted \in BOOLEAN
  BY DEF Udp!TypeOK
<1>2. udpPc' \in Udp(b)!Pcs /\ udpOutcome' \in {"none", "success", "failed"}
  BY <1>1, UdpCases DEF Udp!Initialize, Udp!OpenSocket, Udp!VerifyPostRouteRejection,
     Udp!AwaitWritable, Udp!AwaitEcho, Udp!AwaitNoReply, Udp!AwaitTerminal, Udp!VerifyTerminalSend,
     Udp!Finish, Udp!Tick, udpVars, Udp!Send, Udp!AfterSend, Udp!ReceiveEcho, Udp!Environment, Udp!Fail, Udp!Pcs
<1>3. exited' \in BOOLEAN /\ recovery' \in BOOLEAN /\ aborted' \in BOOLEAN
  BY <1>1, UdpCases DEF Udp!Initialize, Udp!OpenSocket, Udp!VerifyPostRouteRejection,
     Udp!AwaitWritable, Udp!AwaitEcho, Udp!AwaitNoReply, Udp!AwaitTerminal, Udp!VerifyTerminalSend,
     Udp!Finish, Udp!Tick, udpVars, Udp!Send, Udp!ReceiveEcho, Udp!Environment, Udp!progress
<1>4. pressed' \in BOOLEAN /\ regained' \in BOOLEAN
  BY <1>1, UdpCases DEF Udp!Initialize, Udp!OpenSocket, Udp!VerifyPostRouteRejection,
     Udp!AwaitWritable, Udp!AwaitEcho, Udp!AwaitNoReply, Udp!AwaitTerminal, Udp!VerifyTerminalSend,
     Udp!Finish, Udp!Tick, udpVars, Udp!Send, Udp!ReceiveEcho, Udp!Environment, Udp!progress
<1>5. tunneled' = tunneled
  BY UdpCases DEF Udp!Initialize, Udp!OpenSocket, Udp!VerifyPostRouteRejection,
     Udp!AwaitWritable, Udp!AwaitEcho, Udp!AwaitNoReply, Udp!AwaitTerminal, Udp!VerifyTerminalSend,
     Udp!Finish, Udp!Tick, udpVars, Udp!Send, Udp!ReceiveEcho, Udp!Environment, Udp!sockets,
     Udp!Transmit, Udp!HangUp, Udp!EchoArrives
<1>. QED
  BY <1>1, <1>2, <1>3, <1>4, <1>5

\* Every step keeps the types.
LEMMA UdpTypeNext ==
  ASSUME NEW b \in BOOLEAN, Udp(b)!TypeOK, UdpPlace(b), UdpStepped(b)
  PROVE  Udp(b)!TypeOK'
<1>1. mode' = mode /\ mode \in {"EchoReply", "NoReplyTimeout", "TerminalClosure"}
  BY UdpModes, UdpModeStays
<1>2. Udp(b)!Flows' = Udp(b)!Flows /\ Udp(b)!Numbers' = Udp(b)!Numbers /\ Udp(b)!Pcs' = Udp(b)!Pcs
  BY DEF Udp!Flows, Udp!Numbers, Udp!Pcs
<1>. QED
  BY <1>1, <1>2, UdpQueuesType, UdpNumbersType, UdpFlowsType, UdpFlagsType DEF Udp!TypeOK, RetriesIn

-----------------------------------------------------------------------------
(* The UDP workload: what waits to be read, and what a poll says. *)

\* Nothing that was answered is forgotten, and what waits to be read was answered.
LEMMA UdpInboxNext ==
  ASSUME NEW b \in BOOLEAN, Udp(b)!TypeOK, UdpAnswered(b), UdpStepped(b)
  PROVE  /\ answered \subseteq answered'
         /\ \A f \in Udp(b)!Flows : \A i \in 1..Len(inbox'[f]) : inbox'[f][i] \in answered'
<1>. DEFINE F == Udp(b)!Flows
            N == Udp(b)!Numbers
<1>0. inbox \in [F -> Seq(N)]
  BY DEF Udp!TypeOK
<1>1. \A f \in F : \A i \in 1..Len(inbox[f]) : inbox[f][i] \in answered
  BY DEF UdpAnswered
<1>2. CASE inbox' = inbox /\ answered' = answered
  BY <1>1, <1>2
<1>3. CASE Udp(b)!ReceiveEcho
  <2>1. CASE inbox[Udp(b)!Flow] # <<>> /\ inbox' = [inbox EXCEPT ![Udp(b)!Flow] = Tail(@)]
    <3>1. answered' = answered
      BY <1>3 DEF Udp!ReceiveEcho
    <3>2. ASSUME NEW f \in F, NEW i \in 1..Len(inbox'[f]) PROVE inbox'[f][i] \in answered
      <4>0. Udp(b)!Flow \in F
        BY UdpModes, UdpConstants
      <4>1. CASE f = Udp(b)!Flow
        <5>1. inbox'[f] = Tail(inbox[f]) /\ inbox[f] \in Seq(N) /\ inbox[f] # <<>>
          BY <1>0, <2>1, <4>0, <4>1
        <5>2. /\ Len(Tail(inbox[f])) = Len(inbox[f]) - 1 /\ Len(inbox[f]) \in Nat
              /\ \A k \in 1..Len(Tail(inbox[f])) : Tail(inbox[f])[k] = inbox[f][k + 1]
          BY <5>1, HeadTailProperties, LenProperties
        <5>3. i + 1 \in 1..Len(inbox[f]) /\ inbox'[f][i] = inbox[f][i + 1]
          BY <5>1, <5>2
        <5>. QED
          BY <1>1, <5>3
      <4>2. CASE f # Udp(b)!Flow
        <5>1. inbox'[f] = inbox[f]
          BY <1>0, <2>1, <4>2
        <5>. QED
          BY <1>1, <5>1
      <4>. QED
        BY <4>1, <4>2
    <3>. QED
      BY <3>1, <3>2
  <2>2. CASE inbox' = inbox
    BY <1>2, <1>3, <2>2 DEF Udp!ReceiveEcho
  <2>. QED
    BY <1>3, <2>1, <2>2 DEF Udp!ReceiveEcho
<1>4. CASE Udp(b)!Environment
  <2>1. ASSUME NEW f \in F, Udp(b)!Transmit(f) \/ Udp(b)!HangUp(f) PROVE inbox' = inbox /\ answered' = answered
    BY <2>1 DEF Udp!Transmit, Udp!HangUp
  <2>2. ASSUME NEW n \in N, Udp(b)!EchoArrives(n)
        PROVE  answered \subseteq answered'
                 /\ \A f \in F : \A i \in 1..Len(inbox'[f]) : inbox'[f][i] \in answered'
    <3>1. PICK g : inbox' = [inbox EXCEPT ![g] = Append(@, n)]
      BY <2>2 DEF Udp!EchoArrives
    <3>2. answered' = answered \cup {n}
      BY <2>2 DEF Udp!EchoArrives
    <3>3. ASSUME NEW f \in F, NEW i \in 1..Len(inbox'[f]) PROVE inbox'[f][i] \in answered'
      <4>1. CASE f = g
        <5>1. inbox'[f] = Append(inbox[f], n) /\ inbox[f] \in Seq(N)
          BY <1>0, <3>1, <4>1
        <5>2. /\ Len(inbox'[f]) = Len(inbox[f]) + 1 /\ inbox'[f][Len(inbox[f]) + 1] = n
              /\ \A k \in 1..Len(inbox[f]) : inbox'[f][k] = inbox[f][k]
          BY <5>1, AppendProperties
        <5>3. Len(inbox[f]) \in Nat
          BY <5>1, LenProperties
        <5>. QED
          BY <1>1, <3>2, <5>2, <5>3
      <4>2. CASE f # g
        <5>1. inbox'[f] = inbox[f]
          BY <1>0, <3>1, <4>2
        <5>. QED
          BY <1>1, <3>2, <5>1
      <4>. QED
        BY <4>1, <4>2
    <3>. QED
      BY <3>2, <3>3
  <2>. QED
    BY <1>2, <1>4, <2>1, <2>2 DEF Udp!Environment
<1>. QED
  BY <1>2, <1>3, <1>4, UdpCases DEF Udp!Initialize, Udp!OpenSocket, Udp!VerifyPostRouteRejection,
     Udp!AwaitWritable, Udp!AwaitEcho, Udp!AwaitNoReply, Udp!AwaitTerminal, Udp!VerifyTerminalSend,
     Udp!Finish, Udp!Tick, Udp!Send, Udp!sockets, udpVars

\* A flow that was hung up stays so.
LEMMA UdpHungUpGrows ==
  ASSUME NEW b \in BOOLEAN, UdpStepped(b)
  PROVE  hungUp \subseteq hungUp'
<1>1. Udp(b)!Environment => hungUp \subseteq hungUp'
  BY DEF Udp!Environment, Udp!Transmit, Udp!HangUp, Udp!EchoArrives
<1>. QED
  BY <1>1, UdpCases DEF Udp!Initialize, Udp!OpenSocket, Udp!VerifyPostRouteRejection,
     Udp!AwaitWritable, Udp!AwaitEcho, Udp!ReceiveEcho, Udp!AwaitNoReply, Udp!AwaitTerminal,
       Udp!VerifyTerminalSend,
     Udp!Finish, Udp!Tick, Udp!Send, Udp!sockets, udpVars

\* The datagram at the head of an inbox was answered.
LEMMA UdpHeadAnswered ==
  ASSUME NEW b \in BOOLEAN, Udp(b)!TypeOK, UdpAnswered(b), inbox[Udp(b)!Flow] # <<>>
  PROVE  Head(inbox[Udp(b)!Flow]) \in answered
<1>. DEFINE q == inbox[Udp(b)!Flow]
<1>1. Udp(b)!Flow \in Udp(b)!Flows
  BY UdpModes, UdpConstants
<1>2. q \in Seq(Udp(b)!Numbers)
  BY <1>1 DEF Udp!TypeOK
<1>3. q # <<>> => Head(q) = q[1] /\ Len(q) # 0 /\ Len(q) \in Nat
  <2>. HIDE DEF q
  <2>. QED
    BY <1>2, HeadTailProperties, EmptySeq, LenProperties
<1>4. \A i \in 1..Len(q) : q[i] \in answered
  BY <1>1 DEF UdpAnswered
<1>. HIDE DEF q
<1>5. q # <<>>
  BY DEF q
<1>6. 1 \in 1..Len(q)
  BY <1>3, <1>5
<1>7. Head(q) \in answered
  BY <1>3, <1>4, <1>5, <1>6
<1>. QED
  BY <1>7 DEF q

\* A poll that says "closed" is of a flow that was.
LEMMA UdpPolls ==
  ASSUME NEW b \in BOOLEAN, NEW f, NEW event, event # "POLLHUP", NEW ready \in BOOLEAN,
         NEW p \in Udp(b)!PollResults(f, event, ready)
  PROVE  /\ Udp(b)!ClassifyBsdPollObservation(p) = "Closed" => f \in hungUp
         /\ Udp(b)!ClassifyBsdPollObservation(p) = "Timeout" => clock = PollDeadline /\ ~ready
              /\ f \notin hungUp
<1>. DEFINE revents == {e \in {event} : ready} \cup {e \in {"POLLHUP"} : f \in hungUp}
<1>1. CASE p = [result |-> "error", revents |-> {}]
  BY <1>1 DEF Udp!ClassifyBsdPollObservation
<1>2. CASE p = [result |-> "ready", revents |-> revents] /\ revents # {}
  <2>1. p.result = "ready" /\ p.revents = revents
    BY <1>2
  <2>2. "POLLHUP" \in revents => f \in hungUp
    OBVIOUS
  <2>. HIDE DEF revents
  <2>. QED
    BY <2>1, <2>2 DEF Udp!ClassifyBsdPollObservation
<1>3. CASE p = [result |-> "timeout", revents |-> {}] /\ clock = PollDeadline /\ revents = {}
  BY <1>3 DEF Udp!ClassifyBsdPollObservation
<1>. QED
  BY <1>1, <1>2, <1>3 DEF Udp!PollResults

-----------------------------------------------------------------------------
(* The UDP workload: echoes, room and refusal. *)

\* What is read was answered, and a datagram is done with only by its own echo.
LEMMA UdpAnsweredNext ==
  ASSUME NEW b \in BOOLEAN, Udp(b)!TypeOK, UdpPlace(b), UdpAnswered(b), UdpStepped(b)
  PROVE  UdpAnswered(b)'
<1>0. /\ mode' = mode /\ sequence \in Nat /\ sequence \in 0..Udp(b)!Count /\ Udp(b)!Count \in Nat
      /\ Udp(b)!Flows' = Udp(b)!Flows
      /\ mode \in {"EchoReply", "NoReplyTimeout", "TerminalClosure"}
  BY UdpModes, UdpModeStays DEF Udp!Flows
<1>1. /\ answered \subseteq answered' /\ hungUp \subseteq hungUp'
      /\ \A f \in Udp(b)!Flows : \A i \in 1..Len(inbox'[f]) : inbox'[f][i] \in answered'
  BY UdpInboxNext, UdpHungUpGrows
<1>2. /\ mode = "EchoReply" /\ ~b => 0..sequence - 1 \subseteq answered
      /\ udpPc \in {"terminal", "postSend"} => 0 \in answered
      /\ udpPc = "postSend" => 0 \in hungUp
  BY DEF UdpAnswered
<1>3. CASE sequence' = sequence /\ (udpPc' \in {"terminal", "postSend"} => udpPc' = udpPc)
  BY <1>0, <1>1, <1>2, <1>3 DEF UdpAnswered
<1>4. CASE Udp(b)!Send
  <2>1. CASE Udp(b)!AfterSend
    <3>1. udpPc' \in {"send", "echo", "noReply"} /\ (sequence' = sequence \/ (sequence' = sequence + 1
            /\ ~Udp(b)!Echoes))
      BY <2>1 DEF Udp!AfterSend, Udp!NextDatagram
    <3>2. CASE ~Udp(b)!Echoes
      <4>1. ~(mode = "EchoReply" /\ ~b)
        BY <1>0, <3>2, UdpConstants
      <4>. QED
        BY <1>0, <1>1, <3>1, <4>1 DEF UdpAnswered
    <3>. QED
      BY <1>3, <3>1, <3>2
  <2>2. CASE sequence' = sequence /\ udpPc' \in {"writable", "close"}
    BY <1>3, <2>2
  <2>. QED
    BY <1>4, <2>1, <2>2 DEF Udp!Send, Udp!Fail
<1>5. CASE Udp(b)!ReceiveEcho
  <2>1. CASE inbox[Udp(b)!Flow] # <<>> /\ Head(inbox[Udp(b)!Flow]) = sequence
    <3>1. sequence \in answered
      BY <2>1, UdpHeadAnswered
    <3>2. CASE mode = "TerminalClosure" /\ udpPc' = "terminal" /\ sequence' = sequence
      <4>1. sequence = 0
        BY <3>2 DEF UdpPlace
      <4>. QED
        BY <1>0, <1>1, <3>1, <3>2, <4>1 DEF UdpAnswered
    <3>3. CASE udpPc' = "send" /\ sequence' = sequence + 1
      <4>1. mode = "EchoReply" /\ ~b => 0..sequence' - 1 \subseteq answered'
        BY <1>0, <1>1, <1>2, <3>1, <3>3
      <4>. QED
        BY <1>0, <1>1, <3>3, <4>1 DEF UdpAnswered
    <3>4. CASE sequence' = sequence /\ udpPc' = "close"
      BY <1>3, <3>4
    <3>. QED
      BY <1>5, <3>2, <3>3, <3>4 DEF Udp!ReceiveEcho, Udp!NextDatagram, Udp!Fail
  <2>2. CASE sequence' = sequence /\ udpPc' = "close"
    BY <1>3, <2>2
  <2>. QED
    BY <1>5, <2>1, <2>2 DEF Udp!ReceiveEcho, Udp!Fail, Udp!IsExpectedReply
<1>6. CASE Udp(b)!AwaitTerminal
  <2>1. CASE udpPc' = "postSend"
    <3>1. mode = "TerminalClosure" /\ udpPc = "terminal"
      BY <1>6 DEF Udp!AwaitTerminal, UdpPlace
    <3>2. PICK p \in Udp(b)!PollResults(0, "POLLIN", inbox[0] # <<>>) :
             Udp(b)!IsExpectedBsdPollObservation(mode, Udp(b)!ClassifyBsdPollObservation(p))
      BY <1>6, <2>1 DEF Udp!AwaitTerminal, Udp!Fail
    <3>3. Udp(b)!ClassifyBsdPollObservation(p) = "Closed"
      BY <3>1, <3>2 DEF Udp!IsExpectedBsdPollObservation
    <3>4. 0 \in hungUp
      BY <3>2, <3>3, UdpPolls
    <3>5. sequence' = sequence
      BY <1>6 DEF Udp!AwaitTerminal, Udp!progress
    <3>. QED
      BY <1>0, <1>1, <1>2, <2>1, <3>1, <3>4, <3>5 DEF UdpAnswered
  <2>2. CASE udpPc' = "close"
    BY <1>3, <1>6, <2>2 DEF Udp!AwaitTerminal, Udp!progress
  <2>. QED
    BY <1>6, <2>1, <2>2 DEF Udp!AwaitTerminal, Udp!Fail
<1>. QED
  BY <1>3, <1>4, <1>5, <1>6, UdpCases DEF Udp!Initialize, Udp!OpenSocket, Udp!VerifyPostRouteRejection,
     Udp!AwaitWritable, Udp!AwaitEcho, Udp!AwaitNoReply, Udp!VerifyTerminalSend,
     Udp!Finish, Udp!Tick, Udp!Environment, Udp!progress, Udp!Fail, udpVars

\* Room is regained only where a poll said so.
LEMMA UdpRegainedNext ==
  ASSUME NEW b \in BOOLEAN, Udp(b)!TypeOK, UdpPlace(b), UdpRegained(b), UdpStepped(b)
  PROVE  UdpRegained(b)'
<1>0. mode' = mode /\ Udp(b)!Count' = Udp(b)!Count /\ retries \in Nat /\ sequence \in Nat
        /\ Udp(b)!Count \in Nat
  BY UdpModes, UdpModeStays DEF Udp!Count
<1>1. /\ regained \in BOOLEAN /\ recovery \in BOOLEAN
  BY DEF Udp!TypeOK
<1>. USE <1>0, <1>1 DEF UdpRegained
<1>2. CASE UNCHANGED <<recovery, regained, udpPc, retries, sequence, udpOutcome>>
  BY <1>2
<1>3. CASE Udp(b)!Initialize \/ Udp(b)!OpenSocket \/ Udp(b)!VerifyPostRouteRejection
  BY <1>3 DEF Udp!Initialize, Udp!OpenSocket, Udp!VerifyPostRouteRejection, Udp!progress, Udp!Fail
<1>4. CASE Udp(b)!Send
  <2>0. udpPc = "send" /\ sequence < Udp(b)!Count /\ recovery' = recovery
    BY <1>4 DEF Udp!Send
  <2>1. recovery => regained \/ retries > 0
    <3>1. udpOutcome = "none"
      BY <2>0 DEF UdpPlace
    <3>. QED
      BY <2>0, <3>1
  <2>2. CASE regained' = (regained \/ retries > 0)
    BY <2>0, <2>1, <2>2
  <2>3. CASE retries' = retries + 1 /\ udpPc' = "writable" /\ sequence' = sequence
    BY <2>0, <2>3
  <2>4. CASE Udp(b)!Fail
    BY <2>4 DEF Udp!Fail
  <2>. QED
    BY <1>4, <2>2, <2>3, <2>4 DEF Udp!Send
<1>5. CASE Udp(b)!AwaitWritable
  <2>1. udpPc = "writable" /\ retries > 0 /\ sequence < Udp(b)!Count /\ UNCHANGED <<retries, sequence>>
    BY <1>5 DEF Udp!AwaitWritable, UdpPlace
  <2>. QED
    BY <1>5, <2>1 DEF Udp!AwaitWritable, Udp!Fail
<1>6. CASE Udp(b)!AwaitEcho \/ Udp(b)!ReceiveEcho \/ Udp(b)!AwaitTerminal
  <2>1. udpPc \in {"echo", "recv", "terminal"} /\ UNCHANGED <<recovery, regained>>
    BY <1>6 DEF Udp!AwaitEcho, Udp!ReceiveEcho, Udp!AwaitTerminal, Udp!progress
  <2>. QED
    BY <2>1
<1>7. CASE Udp(b)!AwaitNoReply
  <2>1. udpPc = "noReply" /\ UNCHANGED <<recovery, regained>>
    BY <1>7 DEF Udp!AwaitNoReply, Udp!progress
  <2>. QED
    BY <2>1
<1>8. CASE Udp(b)!VerifyTerminalSend
  <2>1. udpPc = "postSend" /\ UNCHANGED <<recovery, regained>>
    BY <1>8 DEF Udp!VerifyTerminalSend, Udp!progress
  <2>. QED
    BY <2>1
<1>9. CASE Udp(b)!Finish
  <2>1. UNCHANGED <<recovery, regained>> /\ udpPc' = "done"
    BY <1>9 DEF Udp!Finish, Udp!progress
  <2>2. CASE udpPc = "send" /\ sequence = Udp(b)!Count
    BY <2>1, <2>2
  <2>3. CASE udpPc = "close" /\ udpOutcome' = udpOutcome
    BY <2>1, <2>3
  <2>. QED
    BY <1>9, <2>2, <2>3 DEF Udp!Finish
<1>10. CASE Udp(b)!Tick \/ Udp(b)!Environment \/ UNCHANGED udpVars
  BY <1>2, <1>10 DEF Udp!Tick, Udp!Environment, Udp!progress, udpVars
<1>. QED
  BY <1>3, <1>4, <1>5, <1>6, <1>7, <1>8, <1>9, <1>10, UdpCases

\* Socket options are refused before the first datagram.
LEMMA UdpRefusedNext ==
  ASSUME NEW b \in BOOLEAN, UdpRefused(b), UdpStepped(b)
  PROVE  UdpRefused(b)'
<1>1. tunneled' = tunneled
  BY UdpCases DEF Udp!Initialize, Udp!OpenSocket, Udp!VerifyPostRouteRejection,
     Udp!AwaitWritable, Udp!AwaitEcho, Udp!AwaitNoReply, Udp!AwaitTerminal, Udp!VerifyTerminalSend,
     Udp!Finish, Udp!Tick, udpVars, Udp!Send, Udp!ReceiveEcho, Udp!Environment, Udp!sockets,
     Udp!Transmit, Udp!HangUp, Udp!EchoArrives
<1>. QED
  BY <1>1, UdpCases DEF Udp!Initialize, Udp!OpenSocket, Udp!VerifyPostRouteRejection,
     Udp!AwaitWritable, Udp!AwaitEcho, Udp!AwaitNoReply, Udp!AwaitTerminal, Udp!VerifyTerminalSend,
     Udp!Finish, Udp!Tick, udpVars, Udp!Send, Udp!ReceiveEcho, Udp!Environment, Udp!Fail, UdpRefused

-----------------------------------------------------------------------------
(* The UDP workload: its verdict. *)

\* The invariant of a workload.
UdpHolds(b) ==
  /\ Udp(b)!TypeOK /\ UdpPlace(b) /\ UdpAnswered(b) /\ UdpRegained(b) /\ UdpRefused(b)
  /\ Udp(b)!SuccessEarned /\ Udp(b)!TerminalEarned

\* The invariant holds at the start.
LEMMA UdpInitHolds == ASSUME NEW b \in BOOLEAN, Udp(b)!Init PROVE UdpHolds(b)
  BY UdpInitType DEF UdpHolds, Udp!Init, Udp!SuccessEarned, Udp!TerminalEarned

\* Whether the flows go through the tunnel stays as it is.
LEMMA UdpTunneledStays ==
  ASSUME NEW b \in BOOLEAN, UdpStepped(b)
  PROVE  tunneled' = tunneled
  BY UdpCases DEF Udp!Initialize, Udp!OpenSocket, Udp!VerifyPostRouteRejection,
     Udp!AwaitWritable, Udp!AwaitEcho, Udp!AwaitNoReply, Udp!AwaitTerminal, Udp!VerifyTerminalSend,
     Udp!Finish, Udp!Tick, udpVars, Udp!Send, Udp!ReceiveEcho, Udp!Environment, Udp!sockets,
     Udp!Transmit, Udp!HangUp, Udp!EchoArrives

\* An outcome that is already there stays, and so do its reasons.
LEMMA UdpSuccessStays ==
  ASSUME NEW b \in BOOLEAN, UdpHolds(b), UdpStepped(b), udpOutcome' = "success"
  PROVE  udpPc \in {"send", "noReply", "postSend", "close", "done"}
         /\ (regained => regained') /\ tunneled' = tunneled
         /\ (udpOutcome = "success" => aborted' = aborted /\ open' \subseteq open)
<1>1. udpPc \notin {"close", "done"} => udpOutcome = "none"
  BY DEF UdpHolds, UdpPlace
<1>2. udpPc \in {"send", "noReply", "postSend", "close", "done"}
  BY <1>1, UdpCases DEF Udp!Initialize, Udp!OpenSocket, Udp!VerifyPostRouteRejection,
     Udp!AwaitWritable, Udp!AwaitEcho, Udp!AwaitNoReply, Udp!AwaitTerminal, Udp!VerifyTerminalSend,
     Udp!Finish, Udp!Tick, udpVars, Udp!Send, Udp!ReceiveEcho, Udp!Environment, Udp!Fail, Udp!progress
<1>3. tunneled' = tunneled
  BY UdpTunneledStays
<1>4. regained => regained'
  BY UdpCases DEF Udp!Initialize, Udp!OpenSocket, Udp!VerifyPostRouteRejection,
     Udp!AwaitWritable, Udp!AwaitEcho, Udp!AwaitNoReply, Udp!AwaitTerminal, Udp!VerifyTerminalSend,
     Udp!Finish, Udp!Tick, udpVars, Udp!Send, Udp!ReceiveEcho, Udp!Environment
<1>5. ASSUME udpOutcome = "success" PROVE aborted' = aborted /\ open' \subseteq open
  <2>1. udpPc \in {"close", "done"}
    BY <1>1, <1>5
  <2>2. Udp(b)!Environment => open' = open /\ aborted' = aborted
    BY DEF Udp!Environment, Udp!Transmit, Udp!HangUp, Udp!EchoArrives
  <2>. QED
    BY <2>1, <2>2, UdpCases DEF Udp!Initialize, Udp!OpenSocket, Udp!VerifyPostRouteRejection,
       Udp!AwaitWritable, Udp!AwaitEcho, Udp!AwaitNoReply, Udp!AwaitTerminal, Udp!VerifyTerminalSend,
       Udp!Finish, Udp!Tick, udpVars, Udp!Send, Udp!ReceiveEcho, Udp!Waits
<1>. QED
  BY <1>2, <1>3, <1>4, <1>5

\* A success that is new is that of one of the three modes.
LEMMA UdpSuccessNew ==
  ASSUME NEW b \in BOOLEAN, UdpHolds(b), UdpStepped(b), udpOutcome' = "success", udpOutcome # "success"
  PROVE  \/ Udp(b)!Finish /\ udpPc = "send" /\ sequence = Udp(b)!Count
            /\ (b => pressed /\ recovery) /\ mode = "EchoReply"
         \/ Udp(b)!AwaitNoReply /\ mode = "NoReplyTimeout"
         \/ Udp(b)!VerifyTerminalSend /\ mode = "TerminalClosure" /\ 0 \in hungUp /\ 0 \in answered
            /\ aborted' /\ 0 \notin open'
<1>1. udpPc \notin {"close", "done"} => udpOutcome = "none"
  BY DEF UdpHolds, UdpPlace
<1>2. Udp(b)!Finish \/ Udp(b)!AwaitNoReply \/ Udp(b)!VerifyTerminalSend
  BY <1>1, UdpCases DEF Udp!Initialize, Udp!OpenSocket, Udp!VerifyPostRouteRejection,
     Udp!AwaitWritable, Udp!AwaitEcho, Udp!AwaitTerminal,
     Udp!Tick, udpVars, Udp!Send, Udp!ReceiveEcho, Udp!Environment, Udp!Fail
<1>3. CASE Udp(b)!Finish
  <2>1. /\ udpPc = "send" /\ sequence = Udp(b)!Count
        /\ (b => Udp(b)!HasWritableRecovery)
    BY <1>3 DEF Udp!Finish
  <2>2. mode # "EchoReply" => sequence = 0 /\ Udp(b)!Count = 1
    BY UdpModes, UdpConstants DEF UdpHolds, UdpPlace
  <2>3. mode = "EchoReply"
    BY <2>1, <2>2
  <2>. QED
    BY <1>3, <2>1, <2>3 DEF Udp!HasWritableRecovery
<1>4. CASE Udp(b)!AwaitNoReply
  BY <1>4 DEF Udp!AwaitNoReply, UdpHolds, UdpPlace
<1>5. CASE Udp(b)!VerifyTerminalSend
  <2>1. udpPc = "postSend"
    BY <1>5 DEF Udp!VerifyTerminalSend
  <2>2. mode = "TerminalClosure" /\ 0 \in hungUp /\ 0 \in answered
    BY <2>1 DEF UdpHolds, UdpPlace, UdpAnswered
  <2>3. PICK e : aborted' = (e = "ECONNABORTED") /\ e = "ECONNABORTED" /\ open' = open \ {0}
    BY <1>5 DEF Udp!VerifyTerminalSend, Udp!ProvesClosure, Udp!Fail
  <2>. QED
    BY <1>5, <2>2, <2>3
<1>. QED
  BY <1>2, <1>3, <1>4, <1>5

\* Every success is earned.
LEMMA UdpSuccessNext ==
  ASSUME NEW b \in BOOLEAN, UdpHolds(b), UdpStepped(b)
  PROVE  Udp(b)!SuccessEarned'
<1>. SUFFICES ASSUME udpOutcome' = "success"
              PROVE  /\ mode = "EchoReply" => (~b => 0..Datagrams - 1 \subseteq answered') /\ (b => regained')
                     /\ ~b => tunneled
  <2>1. mode' = mode /\ tunneled' = tunneled
    BY UdpModeStays, UdpTunneledStays
  <2>. QED
    BY <2>1 DEF Udp!SuccessEarned
<1>1. answered \subseteq answered'
  BY UdpInboxNext DEF UdpHolds
<1>2. CASE udpOutcome = "success"
  BY <1>1, <1>2, UdpSuccessStays DEF UdpHolds, Udp!SuccessEarned
<1>3. CASE udpOutcome # "success"
  <2>1. ~b => tunneled
    <3>1. udpPc \in {"send", "noReply", "postSend"}
      BY <1>3, UdpSuccessNew DEF Udp!Finish, Udp!AwaitNoReply, Udp!VerifyTerminalSend
    <3>. QED
      BY <3>1 DEF UdpHolds, UdpRefused
  <2>2. ASSUME mode = "EchoReply" PROVE (~b => 0..Datagrams - 1 \subseteq answered') /\ (b => regained')
    <3>1. udpPc = "send" /\ sequence = Udp(b)!Count /\ (b => recovery)
      BY <1>3, <2>2, UdpSuccessNew
    <3>2. sequence = Datagrams
      BY <2>2, <3>1, UdpConstants
    <3>3. ~b => 0..Datagrams - 1 \subseteq answered
      BY <2>2, <3>2 DEF UdpHolds, UdpAnswered
    <3>4. b => regained
      <4>1. ~(sequence < Udp(b)!Count)
        BY <3>1, UdpModes DEF UdpHolds
      <4>. QED
        BY <3>1, <4>1 DEF UdpHolds, UdpRegained
    <3>. QED
      BY <1>1, <3>3, <3>4, UdpSuccessStays
  <2>. QED
    BY <2>1, <2>2
<1>. QED
  BY <1>2, <1>3

\* A terminal closure is seen on a flow that was closed.
LEMMA UdpTerminalNext ==
  ASSUME NEW b \in BOOLEAN, UdpHolds(b), UdpStepped(b)
  PROVE  Udp(b)!TerminalEarned'
<1>. SUFFICES ASSUME udpOutcome' = "success", mode = "TerminalClosure"
              PROVE  0 \in hungUp' /\ aborted' /\ 0 \in answered' /\ 0 \notin open'
  BY UdpModeStays DEF Udp!TerminalEarned
<1>1. answered \subseteq answered' /\ hungUp \subseteq hungUp'
  BY UdpInboxNext, UdpHungUpGrows DEF UdpHolds
<1>2. CASE udpOutcome = "success"
  <2>1. 0 \in hungUp /\ aborted /\ 0 \in answered /\ 0 \notin open
    BY <1>2 DEF UdpHolds, Udp!TerminalEarned
  <2>. QED
    BY <1>1, <1>2, <2>1, UdpSuccessStays
<1>3. CASE udpOutcome # "success"
  BY <1>1, <1>3, UdpSuccessNew
<1>. QED
  BY <1>2, <1>3

\* Every step keeps the invariant.
LEMMA UdpHoldsNext ==
  ASSUME NEW b \in BOOLEAN, UdpHolds(b), UdpStepped(b)
  PROVE  UdpHolds(b)'
<1>1. Udp(b)!TypeOK /\ UdpPlace(b) /\ UdpAnswered(b) /\ UdpRegained(b) /\ UdpRefused(b)
  BY DEF UdpHolds
<1>. QED
  BY <1>1, UdpTypeNext, UdpPlaceNext, UdpAnsweredNext, UdpRegainedNext, UdpRefusedNext,
     UdpSuccessNext, UdpTerminalNext DEF UdpHolds

\* In the timeout mode a success is the silence of one poll.
LEMMA UdpTimeoutEarned ==
  ASSUME NEW b \in BOOLEAN, UdpHolds(b), UdpStepped(b)
  PROVE  Udp(b)!TimeoutEarned
<1>. SUFFICES ASSUME mode = "NoReplyTimeout", udpOutcome' = "success", udpOutcome # "success"
              PROVE  inbox[0] = <<>> /\ 0 \notin hungUp /\ clock = PollDeadline
  BY DEF Udp!TimeoutEarned
<1>1. Udp(b)!AwaitNoReply
  BY UdpSuccessNew
<1>2. PICK p \in Udp(b)!PollResults(0, "POLLIN", inbox[0] # <<>>) :
        Udp(b)!IsExpectedBsdPollObservation(mode, Udp(b)!ClassifyBsdPollObservation(p))
  BY <1>1 DEF Udp!AwaitNoReply
<1>3. Udp(b)!ClassifyBsdPollObservation(p) = "Timeout"
  BY <1>2 DEF Udp!IsExpectedBsdPollObservation
<1>. QED
  BY <1>2, <1>3, UdpPolls

-----------------------------------------------------------------------------
(* The HTTP transfers, down (u = FALSE) and up (u = TRUE). *)

\* A step of a transfer or none.
HttpStepped(u) == Http(u)!Next \/ UNCHANGED httpVars

\* How much is sent, and how long the body is.
Total(u) == HttpRequestSize + (IF u THEN UploadBytes ELSE 0)
Body(u) == IF u THEN UploadBytes ELSE DownloadBytes

\* What is in hand at each place: the request and the body go out piece by piece.
HttpSending(u) ==
  /\ httpPc \in {"init", "connect", "timeouts", "format"} =>
       size = 0 /\ uploaded = 0 /\ remaining = 0 /\ httpSent = 0
  /\ httpPc = "send" => uploaded + (size - httpSent) + remaining = Total(u)
  /\ httpPc = "recv" \/ success => uploaded = Total(u)

\* Until the header is there all that came is header, and is kept.
HttpReceiving(u) ==
  /\ httpPc \notin {"recv", "close", "done"} => got = 0 /\ header = 0 /\ before = 0 /\ ~received_header
  /\ httpPc = "recv" /\ ~received_header =>
       header = got /\ before = got /\ got < HeaderLimit /\ got < answer.header
  /\ received_header => before < answer.header /\ answer.header <= got
  /\ Http(u)!CountShortByEarlierPieces

\* Why it ended.
HttpEnding(u) ==
  /\ httpPc \notin {"close", "done"} => ~success /\ cause = "none"
  /\ httpPc \in {"close", "done"} /\ ~success =>
       \/ cause = "call"
       \/ cause = "early" /\ got < answer.header
       \/ cause = "long" /\ answer.header > HeaderLimit
       \/ cause = "invalid" /\ answer.status = "invalid"
       \/ /\ cause = "verdict"
          /\ answer.status # "200" \/ got - answer.header # Http(u)!ExpectedBytes \/ before > 0
  /\ Http(u)!SuccessEarned

\* The invariant of a transfer.
HttpHolds(u) == Http(u)!TypeOK /\ HttpSending(u) /\ HttpReceiving(u) /\ HttpEnding(u)

\* The parameters of the transfers.
LEMMA HttpParameters ==
  ASSUME NEW u \in BOOLEAN
  PROVE  /\ Body(u) \in Nat /\ 0 < Body(u) /\ HttpRequestSize \in Nat /\ 0 < HttpRequestSize
         /\ BufferBytes \in Nat /\ 0 < BufferBytes /\ HeaderLimit \in Nat /\ 0 < HeaderLimit
         /\ SizeLimit \in Nat /\ 0 < SizeLimit
         /\ Total(u) \in Nat /\ Total(u) <= HttpRequestSize + Body(u)
         /\ \A n \in HeaderSizes : n \in Nat /\ 0 < n /\ n < SizeLimit
         /\ \A n \in BodySizes : n \in Nat /\ n < SizeLimit
<1>1. Http(u)!Parameters
  BY ScenarioParameters
<1>2. \A n \in HeaderSizes \cup BodySizes : n < SizeLimit
  BY <1>1 DEF Http!Parameters
<1>3. HeaderSizes \subseteq Nat \ {0} /\ BodySizes \subseteq Nat
  BY <1>1 DEF Http!Parameters
<1>4. {HttpRequestSize, BufferBytes, HeaderLimit, SizeLimit} \subseteq Nat \ {0}
  BY <1>1 DEF Http!Parameters
<1>5. Body(u) \in Nat \ {0}
  BY <1>1 DEF Http!Parameters, Body
<1>6. Total(u) = HttpRequestSize + (IF u THEN Body(u) ELSE 0)
  BY DEF Total, Body
<1>7. HttpRequestSize \in Nat /\ Body(u) \in Nat
  BY <1>4, <1>5
<1>8. Total(u) \in Nat /\ Total(u) <= HttpRequestSize + Body(u)
  BY <1>6, <1>7
<1>. QED
  BY <1>2, <1>3, <1>4, <1>5, <1>8

\* The types, as the steps use them.
LEMMA HttpTypes ==
  ASSUME NEW u \in BOOLEAN, Http(u)!TypeOK
  PROVE  /\ httpSent \in Nat /\ size \in Nat /\ remaining \in Nat /\ uploaded \in Nat
         /\ httpSent <= size /\ size <= HttpRequestSize + Body(u) /\ remaining <= Body(u)
         /\ uploaded <= HttpRequestSize + Body(u) + 1
         /\ header \in 0..HeaderLimit /\ body_bytes \in 0..SizeLimit - 1 /\ got \in Nat /\ before \in 0..got
         /\ answer.header \in Nat /\ 0 < answer.header /\ answer.header < SizeLimit
         /\ answer.body \in Nat /\ answer.body < SizeLimit /\ got <= answer.header + answer.body
         /\ answer.status \in {"200", "other", "invalid"} /\ received_header \in BOOLEAN /\ success \in BOOLEAN
<1>1. answer \in Http(u)!Answers
  BY DEF Http!TypeOK
<1>2. /\ answer.header \in HeaderSizes /\ answer.body \in BodySizes /\ answer.status \in {"200", "other",
           "invalid"}
  BY <1>1 DEF Http!Answers
<1>3. got \in 0..answer.header + answer.body /\ before \in 0..got
  BY DEF Http!TypeOK
<1>4. /\ size \in 0..HttpRequestSize + Body(u) /\ httpSent \in 0..size /\ remaining \in 0..Body(u)
      /\ uploaded \in 0..HttpRequestSize + Body(u) + 1
      /\ header \in 0..HeaderLimit /\ body_bytes \in 0..SizeLimit - 1
      /\ received_header \in BOOLEAN /\ success \in BOOLEAN
  BY DEF Http!TypeOK, Body
<1>5. /\ answer.header \in Nat /\ 0 < answer.header /\ answer.header < SizeLimit
      /\ answer.body \in Nat /\ answer.body < SizeLimit
  BY <1>2, HttpParameters
<1>6. HttpRequestSize + Body(u) \in Nat
  BY HttpParameters
<1>7. httpSent \in Nat /\ size \in Nat /\ httpSent <= size /\ size <= HttpRequestSize + Body(u)
  BY <1>4, <1>6
<1>8. got \in Nat /\ got <= answer.header + answer.body
  BY <1>3, <1>5
<1>9. remaining \in Nat /\ uploaded \in Nat /\ remaining <= Body(u) /\ uploaded <= HttpRequestSize + Body(u) + 1
  BY <1>4, <1>6, HttpParameters
<1>. QED
  BY <1>2, <1>3, <1>4, <1>5, <1>7, <1>8, <1>9

\* The invariant holds at the start.
LEMMA HttpInitHolds == ASSUME NEW u \in BOOLEAN, Http(u)!Init PROVE HttpHolds(u)
<1>1. answer.header \in HeaderSizes /\ answer.body \in BodySizes
  BY DEF Http!Init, Http!Answers
<1>2. Http(u)!TypeOK
  <2>1. got \in 0..answer.header + answer.body /\ before \in 0..got /\ httpSent \in 0..size
    BY <1>1, HttpParameters DEF Http!Init
  <2>2. body_bytes \in 0..SizeLimit - 1 /\ header \in 0..HeaderLimit /\ remaining \in 0..Body(u)
        /\ size \in 0..HttpRequestSize + Body(u) /\ uploaded \in 0..HttpRequestSize + Body(u) + 1
    BY HttpParameters DEF Http!Init
  <2>. QED
    BY <2>1, <2>2 DEF Http!Init, Http!TypeOK, Http!Pcs, Body
<1>3. HttpSending(u) /\ HttpReceiving(u) /\ HttpEnding(u)
  BY DEF Http!Init, HttpSending, HttpReceiving, HttpEnding, Http!CountShortByEarlierPieces, Http!SuccessEarned
<1>. QED
  BY <1>2, <1>3 DEF HttpHolds

\* The steps of a transfer.
LEMMA HttpCases ==
  ASSUME NEW u \in BOOLEAN, HttpStepped(u)
  PROVE  \/ Http(u)!Initialize \/ Http(u)!Connect \/ Http(u)!SetTimeouts \/ Http(u)!FormatRequest
         \/ Http(u)!SendAll \/ Http(u)!NextPiece \/ Http(u)!Receive \/ Http(u)!EndOfStream
         \/ Http(u)!ReceiveFails \/ Http(u)!Close \/ UNCHANGED httpVars
  BY DEF HttpStepped, Http!Next

\* The answer of the server is fixed before the transfer.
LEMMA HttpAnswerStays == ASSUME NEW u \in BOOLEAN, HttpStepped(u) PROVE answer' = answer
  BY HttpCases DEF Http!Initialize, Http!Connect, Http!SetTimeouts, Http!FormatRequest, Http!SendAll,
     Http!NextPiece, Http!Receive, Http!EndOfStream, Http!ReceiveFails, Http!Close, httpVars

\* A piece of data that was received.
LEMMA HttpReceived ==
  ASSUME NEW u \in BOOLEAN, HttpHolds(u), Http(u)!Receive
  PROVE  \E n \in Nat : /\ 0 < n /\ got' = got + n /\ got' <= answer.header + answer.body
                        /\ Http(u)!HeaderPiece(n) \/ Http(u)!BodyPiece(n)
<1>1. /\ answer.header \in Nat /\ answer.body \in Nat /\ got \in Nat
      /\ BufferBytes \in Nat
  BY HttpTypes, HttpParameters DEF HttpHolds
<1>2. PICK n \in 1..Http(u)!Least(BufferBytes, answer.header + answer.body - got) :
        got' = got + n /\ (Http(u)!HeaderPiece(n) \/ Http(u)!BodyPiece(n))
  BY DEF Http!Receive
<1>3. n \in Nat /\ 0 < n /\ n <= answer.header + answer.body - got
  BY <1>1, <1>2 DEF Http!Least
<1>. QED
  BY <1>1, <1>2, <1>3

-----------------------------------------------------------------------------
(* The HTTP transfers: pieces of the request, the header and the body. *)

\* What one piece does to the header and the count.
LEMMA HttpPieces ==
  ASSUME NEW u \in BOOLEAN, HttpHolds(u), Http(u)!Receive
  PROVE  \E n \in Nat :
           /\ 0 < n /\ got' = got + n /\ got' <= answer.header + answer.body /\ httpPc = "recv"
           /\ \/ \* the end of the header
                 /\ ~received_header /\ header' \in 0..HeaderLimit /\ answer.header <= got'
                 /\ received_header' = TRUE /\ body_bytes' = (n + SizeLimit - answer.header) % SizeLimit
                 /\ UNCHANGED <<httpPc, cause, before>>
              \/ /\ ~received_header /\ header' \in 0..HeaderLimit
                 /\ httpPc' = "close" /\ cause' = "invalid" /\ answer.status = "invalid"
                 /\ UNCHANGED <<received_header, body_bytes, before>>
              \/ /\ ~received_header /\ header' \in 0..HeaderLimit /\ HeaderLimit < answer.header
                 /\ httpPc' = "close" /\ cause' = "long"
                 /\ UNCHANGED <<received_header, body_bytes, before>>
              \/ /\ ~received_header /\ header' = got' /\ got' < HeaderLimit /\ got' < answer.header
                 /\ before' = got'
                 /\ UNCHANGED <<httpPc, cause, received_header, body_bytes>>
              \/ /\ received_header /\ body_bytes' = (body_bytes + n) % SizeLimit
                 /\ UNCHANGED <<httpPc, cause, header, received_header, before>>
<1>1. PICK n \in Nat : /\ 0 < n /\ got' = got + n /\ got' <= answer.header + answer.body
                       /\ Http(u)!HeaderPiece(n) \/ Http(u)!BodyPiece(n)
  BY HttpReceived
<1>2. httpPc = "recv" /\ answer' = answer
  BY DEF Http!Receive
<1>3. /\ answer.header \in Nat /\ HeaderLimit \in Nat /\ got \in Nat /\ header \in 0..HeaderLimit
  BY HttpTypes, HttpParameters DEF HttpHolds
<1>4. CASE Http(u)!BodyPiece(n)
  BY <1>1, <1>2, <1>4 DEF Http!BodyPiece
<1>5. CASE Http(u)!HeaderPiece(n)
  <2>0. ~received_header
    BY <1>5 DEF Http!HeaderPiece
  <2>1. header = got /\ before = got /\ got < HeaderLimit
    BY <1>2, <2>0 DEF HttpHolds, HttpReceiving
  <2>2. header' = IF HeaderLimit - header < n THEN HeaderLimit ELSE header + n
    <3>1. header' = header + (IF HeaderLimit - header < n THEN HeaderLimit - header ELSE n)
      BY <1>5 DEF Http!HeaderPiece, Http!Copied, Http!Least
    <3>. QED
      BY <1>3, <3>1
  <2>3. header' \in 0..HeaderLimit /\ (header' # HeaderLimit => header' = got' /\ got' < HeaderLimit)
          /\ header' <= got'
    BY <1>1, <1>3, <2>1, <2>2
  <2>4. CASE Http(u)!HeaderFound /\ Http(u)!StatusParses /\ received_header' = TRUE
             /\ body_bytes' = Http(u)!BodyOfFirst(n) /\ UNCHANGED <<httpPc, cause, before>>
    <3>1. answer.header <= got' /\ body_bytes' = (n + SizeLimit - answer.header) % SizeLimit
      BY <1>1, <1>3, <2>3, <2>4 DEF Http!HeaderFound, Http!BodyOfFirst
    <3>. QED
      BY <1>1, <1>2, <2>0, <2>3, <2>4, <3>1
  <2>5. CASE ~Http(u)!StatusParses /\ Http(u)!Fail("invalid") /\ UNCHANGED <<received_header, body_bytes,
               before>>
    <3>1. answer.status = "invalid" /\ httpPc' = "close" /\ cause' = "invalid"
      BY <2>5 DEF Http!StatusParses, Http!Fail
    <3>. QED
      BY <1>1, <1>2, <2>0, <2>3, <2>5, <3>1
  <2>6. CASE ~Http(u)!HeaderFound /\ header' = HeaderLimit /\ Http(u)!Fail("long")
             /\ UNCHANGED <<received_header, body_bytes, before>>
    <3>1. HeaderLimit < answer.header /\ httpPc' = "close" /\ cause' = "long"
      BY <1>3, <2>6 DEF Http!HeaderFound, Http!Fail
    <3>. QED
      BY <1>1, <1>2, <2>0, <2>3, <2>6, <3>1
  <2>7. CASE ~Http(u)!HeaderFound /\ header' # HeaderLimit /\ before' = before + n
             /\ UNCHANGED <<httpPc, cause, received_header, body_bytes>>
    <3>1. header' = got' /\ got' < HeaderLimit /\ before' = got' /\ got' < answer.header
      BY <1>1, <1>3, <2>1, <2>3, <2>7 DEF Http!HeaderFound
    <3>. QED
      BY <1>1, <1>2, <2>0, <2>7, <3>1
  <2>. QED
    BY <1>5, <2>4, <2>5, <2>6, <2>7 DEF Http!HeaderPiece
<1>. QED
  BY <1>1, <1>4, <1>5

\* What was sent and what is left make up the request.
LEMMA HttpSendingNext ==
  ASSUME NEW u \in BOOLEAN, HttpHolds(u), HttpStepped(u)
  PROVE  HttpSending(u)'
<1>0. /\ httpSent \in Nat /\ size \in Nat /\ remaining \in Nat /\ uploaded \in Nat
      /\ httpSent <= size /\ size <= HttpRequestSize + Body(u) /\ remaining <= Body(u)
      /\ uploaded <= HttpRequestSize + Body(u) + 1 /\ HttpRequestSize \in Nat /\ Body(u) \in Nat
      /\ Total(u) \in Nat /\ Total(u) <= HttpRequestSize + Body(u) /\ BufferBytes \in Nat
  BY HttpTypes, HttpParameters DEF HttpHolds
<1>1. HttpSending(u)
  BY DEF HttpHolds
<1>2. httpPc \notin {"close", "done"} => ~success
  BY DEF HttpHolds, HttpEnding
<1>. USE DEF HttpSending
<1>3. CASE Http(u)!Initialize \/ Http(u)!Connect \/ Http(u)!SetTimeouts
  BY <1>1, <1>2, <1>3 DEF Http!Initialize, Http!Connect, Http!SetTimeouts, Http!Fail, Http!client
<1>4. CASE Http(u)!FormatRequest
  <2>1. /\ httpPc' = "send" /\ size' = HttpRequestSize /\ remaining' = (IF u THEN Body(u) ELSE 0)
        /\ httpSent' = 0 /\ uploaded' = 0 /\ ~success'
    BY <1>1, <1>2, <1>4 DEF Http!FormatRequest, Body
  <2>2. Total(u) = HttpRequestSize + (IF u THEN Body(u) ELSE 0)
    BY DEF Total, Body
  <2>. QED
    BY <1>0, <2>1, <2>2
<1>5. CASE Http(u)!SendAll
  <2>0. httpPc = "send" /\ ~success /\ ~success' /\ UNCHANGED <<size, remaining>>
    BY <1>2, <1>5 DEF Http!SendAll
  <2>1. ASSUME NEW n \in 1..size - httpSent, httpSent' = httpSent + n, uploaded' = Http(u)!Taken(n),
                 httpPc' = "send"
        PROVE  HttpSending(u)'
    <3>2. uploaded' = uploaded + n
      <4>1. uploaded' = IF uploaded + n < HttpRequestSize + Body(u) + 1 THEN uploaded + n
                        ELSE HttpRequestSize + Body(u) + 1
        BY <2>1 DEF Http!Taken, Http!Least, Body
      <4>2. uploaded + n <= Total(u)
        BY <1>0, <1>1, <2>0, <2>1
      <4>. QED
        BY <1>0, <4>1, <4>2
    <3>. QED
      BY <1>0, <1>1, <2>0, <2>1, <3>2
  <2>2. CASE Http(u)!Fail("call")
    BY <2>0, <2>2 DEF Http!Fail
  <2>. QED
    BY <1>5, <2>0, <2>1, <2>2 DEF Http!SendAll, Http!OffsetAfter
<1>6. CASE Http(u)!NextPiece
  <2>0. httpPc = "send" /\ httpSent = size /\ uploaded' = uploaded /\ ~success /\ ~success'
    BY <1>2, <1>6 DEF Http!NextPiece
  <2>1. CASE remaining > 0 /\ size' = Http(u)!Chunk /\ remaining' = Http(u)!Left /\ httpSent' = 0
               /\ httpPc' = httpPc
    <3>1. size' \in Nat /\ remaining' = remaining - size'
      BY <1>0, <2>1 DEF Http!Chunk, Http!Left, Http!Least
    <3>. QED
      BY <1>0, <1>1, <2>0, <2>1, <3>1
  <2>2. CASE remaining = 0 /\ httpPc' = "recv"
    BY <1>0, <1>1, <2>0, <2>2
  <2>. QED
    BY <1>6, <2>1, <2>2 DEF Http!NextPiece
<1>7. CASE Http(u)!Receive
  <2>1. httpPc = "recv" /\ UNCHANGED <<uploaded, success>>
    BY <1>7 DEF Http!Receive, Http!client
  <2>2. httpPc' \in {"recv", "close"}
    BY <1>7, HttpPieces
  <2>. QED
    BY <1>1, <2>1, <2>2
<1>8. CASE Http(u)!EndOfStream \/ Http(u)!ReceiveFails
  BY <1>1, <1>8 DEF Http!EndOfStream, Http!ReceiveFails, Http!client, Http!Fail
<1>9. CASE Http(u)!Close
  BY <1>1, <1>9 DEF Http!Close
<1>10. CASE UNCHANGED httpVars
  BY <1>1, <1>10 DEF httpVars
<1>. QED
  BY <1>3, <1>4, <1>5, <1>6, <1>7, <1>8, <1>9, <1>10, HttpCases

-----------------------------------------------------------------------------
(* The HTTP transfers: the count of the body, and why they end. *)

\* A sum that wraps around once at most.
LEMMA WrapOnce ==
  ASSUME NEW w \in Nat, 0 < w
  PROVE  /\ \A x \in 0..w - 1 : x % w = x
         /\ \A x \in w..2 * w - 1 : x % w = x - w
         /\ \A x \in 0..w - 1 : (x + w - 0) % w = x
         /\ \A x, n \in Nat : x < 2 * w /\ x + n < 2 * w => ((x % w) + n) % w = (x + n) % w
<1>1. \A x \in 0..w - 1 : x % w = x
  OBVIOUS
<1>2. \A x \in w..2 * w - 1 : x % w = x - w
  OBVIOUS
<1>3. ASSUME NEW x \in 0..w - 1 PROVE (x + w - 0) % w = x
  <2>1. x + w - 0 = x + w /\ x + w \in w..2 * w - 1 /\ (x + w) - w = x
    OBVIOUS
  <2>. QED
    BY <1>2, <2>1
<1>4. ASSUME NEW x \in Nat, NEW n \in Nat, x < 2 * w, x + n < 2 * w
      PROVE  ((x % w) + n) % w = (x + n) % w
  <2>1. CASE x < w
    <3>1. x \in 0..w - 1
      BY <2>1
    <3>. QED
      BY <1>1, <3>1
  <2>2. CASE w <= x
    <3>1. x \in w..2 * w - 1 /\ x + n \in w..2 * w - 1 /\ (x - w) + n \in 0..w - 1
      BY <1>4, <2>2
    <3>2. x % w = x - w /\ (x + n) % w = (x + n) - w /\ ((x - w) + n) % w = (x - w) + n
      BY <1>1, <1>2, <3>1
    <3>3. (x - w) + n = (x + n) - w
      OBVIOUS
    <3>. QED
      BY <3>2, <3>3
  <2>. QED
    BY <2>1, <2>2
<1>. QED
  BY <1>1, <1>2, <1>3, <1>4

\* Header and body are what came, the count but for the earlier pieces.
LEMMA HttpReceivingNext ==
  ASSUME NEW u \in BOOLEAN, HttpHolds(u), HttpStepped(u)
  PROVE  HttpReceiving(u)'
<1>0. /\ header \in 0..HeaderLimit /\ body_bytes \in 0..SizeLimit - 1 /\ got \in Nat /\ before \in 0..got
      /\ answer.header \in Nat /\ 0 < answer.header /\ answer.header < SizeLimit
      /\ answer.body \in Nat /\ answer.body < SizeLimit /\ got <= answer.header + answer.body
      /\ HeaderLimit \in Nat /\ 0 < HeaderLimit /\ SizeLimit \in Nat /\ 0 < SizeLimit
  BY HttpTypes, HttpParameters DEF HttpHolds
<1>1. HttpReceiving(u) /\ answer' = answer
  BY HttpAnswerStays DEF HttpHolds
<1>2. CASE UNCHANGED <<header, received_header, body_bytes, got, before>>
           /\ (httpPc' = httpPc \/ httpPc' \in {"close", "done"}
               \/ httpPc \notin {"recv", "close", "done"})
  <2>1. httpPc \notin {"recv", "close", "done"} => got = 0 /\ header = 0 /\ before = 0 /\ ~received_header
    BY <1>1 DEF HttpReceiving
  <2>2. UNCHANGED Http(u)!CountShortByEarlierPieces
    BY <1>1, <1>2 DEF Http!CountShortByEarlierPieces, Http!BodyReceived
  <2>. QED
    BY <1>0, <1>1, <1>2, <2>1, <2>2 DEF HttpReceiving
<1>3. CASE Http(u)!Receive
  <2>. DEFINE Short(g, m, bb) == bb = ((g - answer.header) + SizeLimit - m) % SizeLimit
  <2>0. received_header => Short(got, before, body_bytes) /\ before < answer.header /\ answer.header <= got
    BY <1>1 DEF HttpReceiving, Http!CountShortByEarlierPieces, Http!BodyReceived
  <2>00. ~received_header /\ httpPc = "recv" => before = got /\ got < HeaderLimit /\ got < answer.header
    BY <1>1 DEF HttpReceiving
  <2>1. PICK n \in Nat :
           /\ 0 < n /\ got' = got + n /\ got' <= answer.header + answer.body /\ httpPc = "recv"
           /\ \/ \* the end of the header
                 /\ ~received_header /\ header' \in 0..HeaderLimit /\ answer.header <= got'
                 /\ received_header' = TRUE /\ body_bytes' = (n + SizeLimit - answer.header) % SizeLimit
                 /\ UNCHANGED <<httpPc, cause, before>>
              \/ /\ ~received_header /\ header' \in 0..HeaderLimit
                 /\ httpPc' = "close" /\ cause' = "invalid" /\ answer.status = "invalid"
                 /\ UNCHANGED <<received_header, body_bytes, before>>
              \/ /\ ~received_header /\ header' \in 0..HeaderLimit /\ HeaderLimit < answer.header
                 /\ httpPc' = "close" /\ cause' = "long"
                 /\ UNCHANGED <<received_header, body_bytes, before>>
              \/ /\ ~received_header /\ header' = got' /\ got' < HeaderLimit /\ got' < answer.header
                 /\ before' = got'
                 /\ UNCHANGED <<httpPc, cause, received_header, body_bytes>>
              \/ /\ received_header /\ body_bytes' = (body_bytes + n) % SizeLimit
                 /\ UNCHANGED <<httpPc, cause, header, received_header, before>>
    BY <1>3, HttpPieces
  <2>2. ASSUME ~received_header, body_bytes' = (n + SizeLimit - answer.header) % SizeLimit, before' = before
        PROVE  Short(got', before', body_bytes')
    <3>1. (got' - answer.header) + SizeLimit - before' = n + SizeLimit - answer.header
      BY <1>0, <2>00, <2>1, <2>2
    <3>. QED
      BY <2>2, <3>1
  <2>3. ASSUME received_header, body_bytes' = (body_bytes + n) % SizeLimit, before' = before
        PROVE  Short(got', before', body_bytes')
    <3>. DEFINE X == (got - answer.header) + SizeLimit - before
    <3>0. X < 2 * SizeLimit /\ X + n < 2 * SizeLimit
      BY <1>0, <2>0, <2>1, <2>3
    <3>1. X \in Nat /\ body_bytes = X % SizeLimit
      BY <1>0, <2>0, <2>3
    <3>2. (got' - answer.header) + SizeLimit - before' = X + n
      BY <1>0, <2>1, <2>3
    <3>. HIDE DEF X
    <3>3. ((X % SizeLimit) + n) % SizeLimit = (X + n) % SizeLimit
      BY <1>0, <2>1, <3>0, <3>1, WrapOnce
    <3>. QED
      BY <2>3, <3>1, <3>2, <3>3
  <2>4. received_header' => Short(got', before', body_bytes') /\ before' < answer.header
          /\ answer.header <= got'
    <3>1. n \in Nat /\ 0 < n /\ got' = got + n
      BY <2>1
    <3>2. CASE ~received_header /\ answer.header <= got'
                 /\ body_bytes' = (n + SizeLimit - answer.header) % SizeLimit /\ before' = before
      <4>1. before' < answer.header
        BY <2>00, <2>1, <3>2
      <4>. QED
        BY <2>2, <3>2, <4>1
    <3>3. CASE received_header /\ body_bytes' = (body_bytes + n) % SizeLimit /\ before' = before
      <4>1. before' < answer.header /\ answer.header <= got'
        BY <1>0, <2>0, <3>1, <3>3
      <4>. QED
        BY <2>3, <3>3, <4>1
    <3>4. CASE ~received_header /\ received_header' = received_header
      BY <3>4
    <3>. HIDE DEF Short
    <3>. QED
      BY <2>1, <3>2, <3>3, <3>4
  <2>5. received_header' => Http(u)!CountShortByEarlierPieces'
    BY <1>1, <2>4 DEF Http!CountShortByEarlierPieces, Http!BodyReceived
  <2>6. Http(u)!CountShortByEarlierPieces'
    BY <2>5 DEF Http!CountShortByEarlierPieces
  <2>7. httpPc' \in {"recv", "close"}
    BY <2>1
  <2>8. httpPc' = "recv" /\ ~received_header' => header' = got' /\ before' = got' /\ got' < HeaderLimit
          /\ got' < answer.header
    <3>1. httpPc' = "recv" /\ ~received_header' => ~received_header /\ header' = got' /\ got' < HeaderLimit
            /\ got' < answer.header
                 /\ before' = got'
      BY <2>1
    <3>. QED
      BY <3>1
  <2>. QED
    BY <1>1, <2>4, <2>6, <2>7, <2>8 DEF HttpReceiving
<1>4. CASE Http(u)!NextPiece
  BY <1>2, <1>4 DEF Http!NextPiece, Http!response
<1>. QED
  BY <1>2, <1>3, <1>4, HttpCases DEF Http!Initialize, Http!Connect, Http!SetTimeouts, Http!FormatRequest,
     Http!SendAll, Http!EndOfStream, Http!ReceiveFails, Http!Close, httpVars, Http!response, Http!Fail

\* A transfer ends with its cause.
LEMMA HttpEndingNext ==
  ASSUME NEW u \in BOOLEAN, HttpHolds(u), HttpStepped(u)
  PROVE  HttpEnding(u)'
<1>0. /\ header \in 0..HeaderLimit /\ body_bytes \in 0..SizeLimit - 1 /\ got \in Nat /\ before \in 0..got
      /\ answer.header \in Nat /\ 0 < answer.header /\ answer.header < SizeLimit
      /\ answer.body \in Nat /\ answer.body < SizeLimit /\ got <= answer.header + answer.body
      /\ HeaderLimit \in Nat /\ SizeLimit \in Nat /\ 0 < SizeLimit /\ success \in BOOLEAN
  BY HttpTypes, HttpParameters DEF HttpHolds
<1>1. HttpEnding(u) /\ answer' = answer /\ Http(u)!ExpectedBytes' = Http(u)!ExpectedBytes
  BY HttpAnswerStays DEF HttpHolds, Http!ExpectedBytes
<1>2. httpPc \notin {"close", "done"} => ~success /\ cause = "none"
  BY <1>1 DEF HttpEnding
<1>. USE DEF HttpEnding
<1>3. CASE /\ httpPc \notin {"close", "done"} /\ httpPc' \notin {"close", "done"} /\ UNCHANGED <<success,
                cause>>
  BY <1>1, <1>2, <1>3 DEF Http!SuccessEarned
<1>4. CASE httpPc \notin {"close", "done"} /\ Http(u)!Fail("call") /\ success' = success
  BY <1>1, <1>2, <1>4 DEF Http!SuccessEarned, Http!Fail
<1>5. CASE Http(u)!Receive
  <2>1. success' = success /\ ~success
    BY <1>2, <1>5 DEF Http!Receive
  <2>2. \/ httpPc' = "recv" /\ httpPc = "recv" /\ cause' = cause
        \/ httpPc' = "close" /\ cause' = "invalid" /\ answer.status = "invalid"
        \/ httpPc' = "close" /\ cause' = "long" /\ HeaderLimit < answer.header
    BY <1>5, HttpPieces
  <2>. QED
    BY <1>0, <1>1, <1>2, <2>1, <2>2 DEF Http!SuccessEarned
<1>6. CASE Http(u)!EndOfStream
  <2>0. UNCHANGED <<got, before, received_header, body_bytes>> /\ httpPc' = "close" /\ httpPc = "recv"
    BY <1>6 DEF Http!EndOfStream, Http!response, Http!Fail
  <2>1. CASE ~received_header /\ cause' = "early" /\ success' = success
    <3>1. got < answer.header
      BY <2>0, <2>1 DEF HttpHolds, HttpReceiving
    <3>. QED
      BY <1>1, <1>2, <2>0, <2>1, <3>1 DEF Http!SuccessEarned
  <2>2. CASE received_header /\ success' = Http(u)!Verdict /\ cause' = IF success' THEN "none" ELSE "verdict"
    <3>1. body_bytes = ((got - answer.header) + SizeLimit - before) % SizeLimit /\ answer.header <= got
      BY <2>2 DEF HttpHolds, HttpReceiving, Http!CountShortByEarlierPieces, Http!BodyReceived
    <3>2. before = 0 => body_bytes = got - answer.header
      <4>. DEFINE d == got - answer.header
      <4>1. d \in 0..SizeLimit - 1
        BY <1>0, <3>1
      <4>2. (d + SizeLimit - 0) % SizeLimit = d
        BY <1>0, <4>1, WrapOnce
      <4>. QED
        BY <3>1, <4>2
    <3>3. CASE Http(u)!Verdict
      <4>1. success' = TRUE
        BY <2>2, <3>3
      <4>2. answer.status = "200" /\ body_bytes = Http(u)!ExpectedBytes
        BY <3>3 DEF Http!Verdict
      <4>3. Http(u)!SuccessEarned'
        BY <1>1, <2>0, <3>1, <3>2, <4>2 DEF Http!SuccessEarned, Http!BodyReceived
      <4>. QED
        BY <2>0, <4>1, <4>3
    <3>4. CASE ~Http(u)!Verdict
      <4>1. ~success'
        BY <2>2, <3>4
      <4>2. cause' = "verdict"
        BY <2>2, <4>1
      <4>3. answer.status # "200" \/ got - answer.header # Http(u)!ExpectedBytes \/ before > 0
        <5>1. answer.status # "200" \/ body_bytes # Http(u)!ExpectedBytes
          BY <3>4 DEF Http!Verdict
        <5>. QED
          BY <1>0, <3>2, <5>1
      <4>. QED
        BY <1>1, <2>0, <4>1, <4>2, <4>3 DEF Http!SuccessEarned
    <3>. QED
      BY <3>3, <3>4
  <2>. QED
    BY <1>6, <2>1, <2>2 DEF Http!EndOfStream, Http!Fail
<1>7. CASE httpPc \in {"close", "done"} /\ httpPc' \in {"close", "done"}
           /\ UNCHANGED <<success, cause, got, before, body_bytes, received_header>>
  <2>1. Http(u)!SuccessEarned'
    BY <1>1, <1>7 DEF Http!SuccessEarned, Http!BodyReceived
  <2>. QED
    BY <1>1, <1>7, <2>1
<1>8. CASE Http(u)!Close
  BY <1>7, <1>8 DEF Http!Close, Http!response
<1>9. CASE UNCHANGED httpVars
  BY <1>3, <1>7, <1>9 DEF httpVars
<1>. QED
  BY <1>3, <1>4, <1>5, <1>6, <1>8, <1>9, HttpCases DEF Http!Initialize, Http!Connect, Http!SetTimeouts,
     Http!FormatRequest, Http!SendAll, Http!NextPiece, Http!ReceiveFails

-----------------------------------------------------------------------------
(* The HTTP transfers: types, and what they report. *)

\* Every step keeps the types.
LEMMA HttpTypeNext ==
  ASSUME NEW u \in BOOLEAN, HttpHolds(u), HttpStepped(u)
  PROVE  Http(u)!TypeOK'
<1>0. /\ httpSent \in Nat /\ size \in Nat /\ remaining \in Nat /\ uploaded \in Nat
      /\ httpSent <= size /\ size <= HttpRequestSize + Body(u) /\ remaining <= Body(u)
      /\ uploaded <= HttpRequestSize + Body(u) + 1
      /\ header \in 0..HeaderLimit /\ body_bytes \in 0..SizeLimit - 1 /\ got \in Nat /\ before \in 0..got
      /\ answer.header \in Nat /\ 0 < answer.header /\ answer.header < SizeLimit
      /\ answer.body \in Nat /\ got <= answer.header + answer.body
      /\ received_header \in BOOLEAN /\ success \in BOOLEAN
      /\ HttpRequestSize \in Nat /\ Body(u) \in Nat /\ BufferBytes \in Nat /\ HeaderLimit \in Nat
      /\ SizeLimit \in Nat /\ 0 < SizeLimit /\ 0 < BufferBytes
  BY HttpTypes, HttpParameters DEF HttpHolds
<1>1. answer' = answer
  BY HttpAnswerStays
<1>. DEFINE B == Body(u)
            R == HttpRequestSize
<1>2. /\ size \in 0..R + B /\ httpSent \in 0..size /\ remaining \in 0..B /\ uploaded \in 0..R + B + 1
      /\ answer \in Http(u)!Answers /\ httpPc \in Http(u)!Pcs
      /\ httpService \in BOOLEAN /\ httpSocket \in {"none", "open", "closed"}
      /\ cause \in {"none", "call", "long", "invalid", "early", "verdict"}
      /\ body_bytes \in 0..SizeLimit - 1 /\ got \in 0..answer.header + answer.body
  BY DEF HttpHolds, Http!TypeOK, Body
\* What is sent.
<1>3. /\ size' \in 0..R + B /\ httpSent' \in 0..size' /\ remaining' \in 0..B /\ uploaded' \in 0..R + B + 1
  <2>1. CASE UNCHANGED <<size, httpSent, remaining, uploaded>>
    BY <1>2, <2>1
  <2>2. CASE Http(u)!FormatRequest
    <3>1. httpSent = 0
      BY <2>2 DEF Http!FormatRequest, HttpHolds, HttpSending
    <3>2. size' = R /\ remaining' = (IF u THEN B ELSE 0) /\ UNCHANGED <<httpSent, uploaded>>
      BY <2>2 DEF Http!FormatRequest, Body
    <3>3. R \in Nat /\ B \in Nat
      BY <1>0
    <3>. HIDE DEF R, B
    <3>. QED
      BY <1>2, <3>1, <3>2, <3>3
  <2>3. CASE Http(u)!SendAll
    <3>1. ASSUME NEW n \in 1..size - httpSent, httpSent' = httpSent + n, uploaded' = Http(u)!Taken(n),
                 UNCHANGED <<size, remaining>>
          PROVE  httpSent' \in 0..size' /\ uploaded' \in 0..R + B + 1
      <4>1. uploaded' = IF uploaded + n < R + B + 1 THEN uploaded + n ELSE R + B + 1
        BY <3>1 DEF Http!Taken, Http!Least, Body
      <4>2. n \in Nat /\ httpSent + n <= size
        BY <1>0, <3>1
      <4>3. B \in Nat /\ R \in Nat
        BY <1>0
      <4>. HIDE DEF B, R
      <4>. QED
        BY <1>0, <3>1, <4>1, <4>2, <4>3
    <3>. QED
      BY <1>2, <2>1, <2>3, <3>1 DEF Http!SendAll, Http!OffsetAfter
  <2>4. CASE Http(u)!NextPiece
    <3>1. CASE size' = Http(u)!Chunk /\ remaining' = Http(u)!Left /\ httpSent' = 0 /\ uploaded' = uploaded
      <4>1. size' = IF remaining < BufferBytes THEN remaining ELSE BufferBytes
        BY <3>1 DEF Http!Chunk, Http!Least
      <4>2. remaining' = remaining - size'
        BY <3>1 DEF Http!Left
      <4>. QED
        BY <1>0, <1>2, <3>1, <4>1, <4>2
    <3>. QED
      BY <2>1, <2>4, <3>1 DEF Http!NextPiece
  <2>. QED
    BY <2>1, <2>2, <2>3, <2>4, HttpCases DEF Http!Initialize, Http!Connect, Http!SetTimeouts, Http!Receive,
       Http!EndOfStream, Http!ReceiveFails, Http!Close, Http!client, httpVars
\* What comes.
<1>4. /\ header' \in 0..HeaderLimit /\ received_header' \in BOOLEAN /\ body_bytes' \in 0..SizeLimit - 1
      /\ got' \in 0..answer.header + answer.body /\ before' \in 0..got'
  <2>1. CASE UNCHANGED <<header, received_header, body_bytes, got, before>>
    BY <1>0, <1>2, <2>1
  <2>2. CASE Http(u)!Receive
    <3>. DEFINE total == answer.header + answer.body
    <3>0. total \in Nat
      BY <1>0
    <3>1. PICK n \in Nat :
           /\ got' = got + n /\ got' <= total
           /\ header' \in 0..HeaderLimit \/ (header' = got' /\ got' < HeaderLimit) \/ header' = header
           /\ received_header' = TRUE \/ received_header' = received_header
           /\ \/ body_bytes' = (n + SizeLimit - answer.header) % SizeLimit
              \/ body_bytes' = body_bytes \/ body_bytes' = (body_bytes + n) % SizeLimit
           /\ before' \in {before, got'}
      BY <2>2, HttpPieces
    <3>2. got' \in Nat /\ n \in Nat /\ got' >= got
      BY <1>0, <3>1
    <3>3. header' \in 0..HeaderLimit
      BY <1>0, <3>1, <3>2
    <3>4. n + SizeLimit - answer.header \in Nat /\ body_bytes + n \in Nat
      BY <1>0, <3>2
    <3>5. body_bytes' \in 0..SizeLimit - 1
      <4>1. \A x \in Nat : x % SizeLimit \in 0..SizeLimit - 1
        BY <1>0
      <4>. QED
        BY <1>0, <3>1, <3>4, <4>1
    <3>6. got' \in 0..total /\ before' \in 0..got'
      <4>. HIDE DEF total
      <4>. QED
        BY <1>0, <3>0, <3>1, <3>2
    <3>. QED
      BY <1>0, <3>1, <3>3, <3>5, <3>6
  <2>. QED
    BY <2>1, <2>2, HttpCases DEF Http!Initialize, Http!Connect, Http!SetTimeouts, Http!FormatRequest,
         Http!SendAll,
       Http!NextPiece, Http!EndOfStream, Http!ReceiveFails, Http!Close, Http!response, httpVars
<1>5. success' \in BOOLEAN
  <2>1. Http(u)!Verdict \in BOOLEAN
    BY DEF Http!Verdict
  <2>. QED
    BY <1>0, <2>1, HttpCases DEF Http!Initialize, Http!Connect, Http!SetTimeouts, Http!FormatRequest,
         Http!SendAll,
       Http!NextPiece, Http!Receive, Http!EndOfStream, Http!ReceiveFails, Http!Close, httpVars
<1>6. cause' \in {"none", "call", "long", "invalid", "early", "verdict"} /\ httpPc' \in Http(u)!Pcs
  <2>1. Http(u)!Receive => cause' \in {cause, "invalid", "long"} /\ httpPc' \in {"recv", "close"}
    BY HttpPieces
  <2>. QED
    BY <1>2, <2>1, HttpCases DEF Http!Initialize, Http!Connect, Http!SetTimeouts, Http!FormatRequest,
         Http!SendAll,
       Http!NextPiece, Http!EndOfStream, Http!ReceiveFails, Http!Close, httpVars, Http!Fail, Http!Pcs
<1>7. httpService' \in BOOLEAN /\ httpSocket' \in {"none", "open", "closed"}
  BY <1>2, HttpCases DEF Http!Initialize, Http!Connect, Http!SetTimeouts, Http!FormatRequest, Http!SendAll,
       Http!NextPiece, Http!Receive, Http!EndOfStream, Http!ReceiveFails, Http!Close, httpVars, Http!client,
       Http!ServiceAfter
<1>8. Http(u)!Answers' = Http(u)!Answers /\ Http(u)!Pcs' = Http(u)!Pcs
  BY DEF Http!Answers, Http!Pcs
<1>. QED
  BY <1>1, <1>2, <1>3, <1>4, <1>5, <1>6, <1>7, <1>8 DEF Http!TypeOK, Body

\* Every step keeps the invariant.
LEMMA HttpHoldsNext ==
  ASSUME NEW u \in BOOLEAN, HttpHolds(u), HttpStepped(u)
  PROVE  HttpHolds(u)'
  BY HttpTypeNext, HttpSendingNext, HttpReceivingNext, HttpEndingNext DEF HttpHolds

\* What the runs check of a transfer.
LEMMA HttpReports ==
  ASSUME NEW u \in BOOLEAN, HttpHolds(u)
  PROVE  /\ Http(u)!SuccessEarned /\ Http(u)!UploadComplete
         /\ Http(u)!FailureHasCause /\ Http(u)!CountShortByEarlierPieces
<1>1. Http(u)!SuccessEarned /\ Http(u)!CountShortByEarlierPieces
  BY DEF HttpHolds, HttpEnding, HttpReceiving
<1>2. Http(u)!UploadComplete
  BY DEF HttpHolds, HttpSending, Total, Http!UploadComplete
<1>3. Http(u)!FailureHasCause
  BY DEF HttpHolds, HttpEnding, Http!FailureHasCause, Http!BodyReceived
<1>. QED
  BY <1>1, <1>2, <1>3

-----------------------------------------------------------------------------
(* The checksum of the packets: sums of words with the carry put back in. *)

\* What a sum of words comes to: the remainder by the largest word, which
\* stands for zero but for the sum zero itself.
Folded(b, n) == IF n = 0 THEN 0 ELSE ((n - 1) % (b - 1)) + 1

\* A multiple of w that is less than w away from zero is zero.
LEMMA Multiple ==
  ASSUME NEW w \in Nat, 0 < w, NEW k \in Int, w * k < w, -w < w * k
  PROVE  k = 0
<1>1. ASSUME k >= 1 PROVE FALSE
  BY <1>1
<1>2. ASSUME k <= -1 PROVE FALSE
  BY <1>2
<1>. QED
  BY <1>1, <1>2

\* The remainder is determined by its range.
LEMMA Remainder ==
  ASSUME NEW w \in Nat, 0 < w, NEW q \in Int, NEW r \in 0..w - 1
  PROVE  (w * q + r) % w = r /\ (w * q + r) \div w = q
<1>. DEFINE x == w * q + r
            d == x \div w
            m == x % w
<1>1. x \in Int
  OBVIOUS
<1>2. x = w * d + m /\ d \in Int /\ m \in 0..w - 1
  <2>. HIDE DEF x
  <2>. QED
    BY <1>1
<1>. HIDE DEF d, m
<1>3. w * q - w * d = m - r
  BY <1>2
<1>4. w * (q - d) = m - r
  BY <1>2, <1>3
<1>5. q - d = 0
  BY <1>2, <1>4, Multiple
<1>. QED
  BY <1>2, <1>3, <1>5 DEF d, m

\* Multiples of w do not count.
LEMMA RemainderAdd ==
  ASSUME NEW w \in Nat, 0 < w, NEW x \in Int, NEW k \in Int
  PROVE  (x + w * k) % w = x % w
<1>. DEFINE d == x \div w
            m == x % w
<1>1. x = w * d + m /\ d \in Int /\ m \in 0..w - 1
  OBVIOUS
<1>. HIDE DEF d, m
<1>2. x + w * k = w * (d + k) + m
  BY <1>1
<1>3. (w * (d + k) + m) % w = m
  BY <1>1, Remainder
<1>. QED
  BY <1>2, <1>3 DEF m

\* A folded sum is a word.
LEMMA FoldedRange ==
  ASSUME NEW b \in Nat, b > 1, NEW n \in Nat
  PROVE  Folded(b, n) \in 0..b - 1 /\ (n < b => Folded(b, n) = n) /\ (n > 0 => Folded(b, n) > 0)
<1>1. CASE n = 0
  BY <1>1 DEF Folded
<1>2. CASE n > 0
  <2>1. n - 1 \in Nat /\ b - 1 \in Nat /\ b - 1 > 0
    BY <1>2
  <2>2. (n - 1) % (b - 1) \in 0..(b - 1) - 1
    BY <2>1
  <2>3. n - 1 < b - 1 => (n - 1) % (b - 1) = n - 1
    BY <2>1
  <2>. QED
    BY <1>2, <2>1, <2>2, <2>3 DEF Folded
<1>. QED
  BY <1>1, <1>2

\* One turn of the carry keeps what it comes to, and makes the sum smaller.
LEMMA FoldedStep ==
  ASSUME NEW b \in Nat, b > 1, NEW n \in Nat, b <= n
  PROVE  LET m == (n % b) + (n \div b)
         IN  m \in Nat /\ m < n /\ Folded(b, m) = Folded(b, n)
<1>. DEFINE q == n \div b
            r == n % b
            m == r + q
<1>1. n = b * q + r /\ q \in Int /\ r \in 0..b - 1
  OBVIOUS
<1>. HIDE DEF q, r
<1>2. q >= 1
  <2>. SUFFICES ASSUME q <= 0 PROVE FALSE
    BY <1>1
  <2>1. b * q <= 0
    BY <1>1
  <2>. QED
    BY <1>1, <2>1
<1>3. n - 1 = (m - 1) + (b - 1) * q
  BY <1>1
<1>4. m \in Nat /\ m > 0
  BY <1>1, <1>2
<1>5. (b - 1) * q >= 1
  <2>1. (b - 1) \in Nat /\ b - 1 >= 1
    OBVIOUS
  <2>. QED
    BY <1>1, <1>2, <2>1
<1>6. m < n
  BY <1>1, <1>3, <1>4, <1>5
<1>7. (n - 1) % (b - 1) = (m - 1) % (b - 1)
  <2>1. b - 1 \in Nat /\ 0 < b - 1 /\ m - 1 \in Int
    BY <1>4
  <2>2. ((m - 1) + (b - 1) * q) % (b - 1) = (m - 1) % (b - 1)
    BY <1>1, <2>1, RemainderAdd
  <2>. QED
    BY <1>3, <2>2
<1>. QED
  BY <1>4, <1>6, <1>7 DEF Folded, q, r

\* The recursive function that puts the carry back in is this sum.
LEMMA FoldIs ==
  ASSUME NEW b \in Nat, b > 1, NEW F,
         F = CHOOSE f : f = [n \in Nat |-> IF n < b THEN n ELSE f[(n % b) + (n \div b)]]
  PROVE  \A n \in Nat : F[n] = Folded(b, n)
<1>. DEFINE W == [n \in Nat |-> Folded(b, n)]
            Is(f) == f = [n \in Nat |-> IF n < b THEN n ELSE f[(n % b) + (n \div b)]]
<1>1. Is(W)
  <2>1. ASSUME NEW n \in Nat PROVE Folded(b, n) = IF n < b THEN n ELSE W[(n % b) + (n \div b)]
    <3>1. CASE n < b
      BY <3>1, FoldedRange
    <3>2. CASE b <= n
      <4>. DEFINE m == (n % b) + (n \div b)
      <4>1. m \in Nat /\ Folded(b, m) = Folded(b, n)
        BY <3>2, FoldedStep
      <4>. HIDE DEF m
      <4>2. W[m] = Folded(b, n)
        BY <4>1
      <4>3. ~(n < b)
        BY <3>2
      <4>. QED
        BY <4>2, <4>3 DEF m
    <3>. QED
      BY <3>1, <3>2
  <2>. QED
    BY <2>1
<1>2. Is(F)
  BY <1>1
<1>3. \A n \in Nat : F[n] = IF n < b THEN n ELSE F[(n % b) + (n \div b)]
  BY <1>2
<1>. HIDE DEF Is
<1>. SUFFICES ASSUME NEW o \in Nat, F[o] # Folded(b, o) PROVE FALSE
  OBVIOUS
<1>. DEFINE Bad == {n \in Nat : F[n] # Folded(b, n)}
<1>4. PICK n \in Bad : \A m \in Bad : n <= m
  <2>1. Bad \subseteq Nat /\ o \in Bad
    OBVIOUS
  <2>. HIDE DEF Bad
  <2>. QED
    BY <2>1, LeastNumber
<1>5. CASE n < b
  BY <1>3, <1>5, FoldedRange
<1>6. CASE b <= n
  <2>. DEFINE m == (n % b) + (n \div b)
  <2>1. m \in Nat /\ m < n /\ Folded(b, m) = Folded(b, n)
    BY <1>6, FoldedStep
  <2>2. F[n] = F[m]
    BY <1>3, <1>6
  <2>. HIDE DEF m
  <2>3. m \notin Bad
    <3>1. n \in Nat
      OBVIOUS
    <3>. HIDE DEF Bad
    <3>. QED
      BY <1>4, <2>1, <3>1
  <2>. QED
    BY <2>1, <2>2, <2>3
<1>. QED
  BY <1>5, <1>6

-----------------------------------------------------------------------------
(* The checksum of the packets: what proves right, and what does not. *)

\* Quotient and remainder.
LEMMA Division ==
  ASSUME NEW w \in Nat, 0 < w, NEW x \in Int, NEW r, r = x % w
  PROVE  r \in 0..w - 1 /\ \E q \in Int : x = w * q + r
<1>. DEFINE q == x \div w
            m == x % w
<1>1. x = w * q + m /\ q \in Int /\ m \in 0..w - 1
  OBVIOUS
<1>. HIDE DEF q
<1>. QED
  BY <1>1

\* A sum comes to the largest word exactly when it is a multiple of it.
LEMMA FullSum ==
  ASSUME NEW b \in Nat, b > 1, NEW n \in Nat, n > 0
  PROVE  Folded(b, n) = b - 1 <=> \E k \in Int : n = (b - 1) * k
<1>. DEFINE w == b - 1
            r == (n - 1) % w
<1>0. w \in Nat /\ 0 < w /\ n - 1 \in Int
  OBVIOUS
<1>1. r \in 0..w - 1 /\ \E q \in Int : n - 1 = w * q + r
  <2>. HIDE DEF w
  <2>. QED
    BY <1>0, Division
<1>2. Folded(b, n) = r + 1
  BY DEF Folded
<1>3. ASSUME Folded(b, n) = w PROVE \E k \in Int : n = w * k
  <2>0. PICK q \in Int : n - 1 = w * q + r
    BY <1>1
  <2>1. r = w - 1
    <3>. HIDE DEF r
    <3>. QED
      BY <1>1, <1>2, <1>3
  <2>2. n = w * (q + 1) /\ q + 1 \in Int
    <3>. HIDE DEF r, w
    <3>1. n = w * q + w
      BY <1>0, <2>0, <2>1
    <3>2. w * (q + 1) = w * q + w
      BY <1>0, <1>1
    <3>. QED
      BY <1>1, <3>1, <3>2
  <2>. QED
    BY <2>2
<1>4. ASSUME NEW k \in Int, n = w * k PROVE Folded(b, n) = w
  <2>1. n - 1 = w * (k - 1) + (w - 1) /\ k - 1 \in Int /\ w - 1 \in 0..w - 1
    <3>. HIDE DEF w
    <3>. QED
      BY <1>0, <1>4
  <2>2. (w * (k - 1) + (w - 1)) % w = w - 1
    <3>. HIDE DEF w
    <3>. QED
      BY <1>0, <2>1, Remainder
  <2>. QED
    BY <1>0, <1>2, <2>1, <2>2
<1>. QED
  BY <1>3, <1>4

\* Sum and checksum together are such a multiple.
LEMMA ChecksumFills ==
  ASSUME NEW b \in Nat, b > 1, NEW n \in Nat
  PROVE  /\ b - 1 - Folded(b, n) \in 0..b - 1
         /\ \E k \in Int : n + (b - 1 - Folded(b, n)) = (b - 1) * k
         /\ n + (b - 1 - Folded(b, n)) > 0
<1>1. Folded(b, n) \in 0..b - 1 /\ (n > 0 => Folded(b, n) > 0) /\ (n < b => Folded(b, n) = n)
  BY FoldedRange
<1>2. CASE n = 0
  <2>1. Folded(b, n) = 0
    BY <1>2 DEF Folded
  <2>. DEFINE w == b - 1
              x == n + (b - 1 - Folded(b, n))
  <2>2. x = w /\ w \in Nat /\ w > 0
    BY <1>2, <2>1
  <2>3. \E k \in Int : x = w * k
    <3>. HIDE DEF x, w
    <3>1. x = w * 1
      BY <2>2
    <3>. QED
      BY <3>1
  <2>4. x > 0
    <3>. HIDE DEF x
    <3>. QED
      BY <2>2
  <2>5. b - 1 - Folded(b, n) \in 0..b - 1
    BY <1>1
  <2>. HIDE DEF x, w
  <2>. QED
    BY <2>3, <2>4, <2>5, Zenon DEF x, w
<1>3. CASE n > 0
  <2>. DEFINE w == b - 1
              q == (n - 1) \div w
              r == (n - 1) % w
  <2>0. w \in Nat /\ 0 < w /\ n - 1 \in Int
    BY <1>3
  <2>1. n - 1 = w * q + r /\ q \in Int /\ r \in 0..w - 1
    <3>. HIDE DEF w
    <3>. QED
      BY <2>0
  <2>2. Folded(b, n) = r + 1
    BY <1>3 DEF Folded
  <2>. HIDE DEF q, r
  <2>3. n + (b - 1 - Folded(b, n)) = w * q + w
    BY <2>1, <2>2
  <2>4. w * q + w = w * (q + 1) /\ q + 1 \in Int
    <3>. HIDE DEF w
    <3>. QED
      BY <2>0, <2>1
  <2>. QED
    BY <1>1, <1>3, <2>3, <2>4
<1>. QED
  BY <1>2, <1>3

\* A checksum that is right, sent as it is or as all ones for zero, proves right.
LEMMA ChecksumProves ==
  ASSUME NEW b \in Nat, b > 1, NEW n \in Nat, NEW c, c = b - 1 - Folded(b, n)
  PROVE  /\ c \in 0..b - 1
         /\ Folded(b, n + c) = b - 1
         /\ n > 0 /\ c = 0 => Folded(b, n + (b - 1)) = b - 1
<1>0. c \in 0..b - 1 /\ n + c > 0
  BY ChecksumFills
<1>1. c \in 0..b - 1 /\ n + c \in Nat /\ n + c > 0
  BY <1>0
<1>2. PICK k \in Int : n + c = (b - 1) * k
  BY ChecksumFills
<1>3. Folded(b, n + c) = b - 1
  BY <1>1, <1>2, FullSum
<1>4. ASSUME n > 0, c = 0 PROVE Folded(b, n + (b - 1)) = b - 1
  <2>1. n + (b - 1) = (b - 1) * (k + 1) /\ k + 1 \in Int /\ n + (b - 1) \in Nat /\ n + (b - 1) > 0
    BY <1>2, <1>4
  <2>. QED
    BY <2>1, FullSum
<1>. QED
  BY <1>1, <1>3, <1>4

\* No other word in its place does, but the one that stands for the same.
LEMMA WrongChecksum ==
  ASSUME NEW b \in Nat, b > 1, NEW n \in Nat, NEW c, c = b - 1 - Folded(b, n),
         NEW h \in 0..b - 1, h # c, h - c < b - 1, c - h < b - 1
  PROVE  Folded(b, n + h) # b - 1
<1>1. c \in 0..b - 1 /\ n + c > 0
  BY ChecksumFills
<1>2. PICK k \in Int : n + c = (b - 1) * k
  BY ChecksumFills
<1>3. CASE n + h = 0
  BY <1>3 DEF Folded
<1>4. ASSUME n + h > 0, Folded(b, n + h) = b - 1 PROVE FALSE
  <2>1. PICK j \in Int : n + h = (b - 1) * j
    <3>1. n + h \in Nat
      OBVIOUS
    <3>. QED
      BY <1>4, <3>1, FullSum
  <2>. DEFINE w == b - 1
  <2>2. w \in Nat /\ 0 < w
    OBVIOUS
  <2>3. w * (j - k) = h - c /\ j - k \in Int
    BY <1>1, <1>2, <2>1
  <2>4. w * (j - k) < w /\ -w < w * (j - k)
    BY <1>1, <2>3
  <2>. HIDE DEF w
  <2>5. j - k = 0
    BY <2>2, <2>3, <2>4, Multiple
  <2>6. h - c = 0
    BY <2>2, <2>3, <2>5
  <2>. QED
    BY <1>1, <2>6
<1>. QED
  BY <1>3, <1>4

-----------------------------------------------------------------------------
(* The packets, well formed (m = FALSE) or malformed (m = TRUE). *)

\* The digits, tokens and words of a run.
DigitIn(m) == IF m THEN MalformedDigit ELSE EchoDigit
TokensIn(m) == IF m THEN MalformedTokens ELSE EchoTokens
WordsIn(m) == DigitIn(m) * DigitIn(m)

\* A step of the packet echo or none.
PacketStepped(m) == Packets(m)!Next \/ UNCHANGED packetVars

\* The parameters of the packets.
LEMMA PacketParameters ==
  ASSUME NEW m \in BOOLEAN
  PROVE  /\ DigitIn(m) \in Nat /\ DigitIn(m) > 1 /\ DigitIn(m) % 2 = 0
         /\ Packets(m)!Base = WordsIn(m) /\ WordsIn(m) \in Nat /\ WordsIn(m) > 3
         /\ Packets(m)!Word = 0..WordsIn(m) - 1 /\ TokensIn(m) \subseteq 0..WordsIn(m) - 1
         /\ PacketTimeout \in Nat /\ MaxPackets \in Nat
<1>1. Packets(m)!Parameters
  BY ScenarioParameters
<1>2. DigitIn(m) \in Nat /\ DigitIn(m) > 1 /\ DigitIn(m) % 2 = 0
  BY <1>1 DEF Packets!Parameters, DigitIn
<1>3. Packets(m)!Base = WordsIn(m)
  BY DEF Packets!Base, DigitIn, WordsIn
<1>4. WordsIn(m) \in Nat /\ WordsIn(m) > 3
  <2>. DEFINE d == DigitIn(m)
  <2>1. d \in Nat /\ d >= 2
    BY <1>2
  <2>. HIDE DEF d
  <2>2. d * d \in Nat /\ d * d > 3
    BY <2>1
  <2>. QED
    BY <2>2 DEF WordsIn, d
<1>5. Packets(m)!Word = 0..WordsIn(m) - 1
  BY <1>3 DEF Packets!Word
<1>6. TokensIn(m) \subseteq Packets(m)!Word /\ PacketTimeout \in Nat /\ MaxPackets \in Nat
  BY <1>1 DEF Packets!Parameters, TokensIn
<1>. QED
  BY <1>2, <1>3, <1>4, <1>5, <1>6

\* A checksum is what the folded sum lacks to the largest word.
LEMMA ChecksumIs ==
  ASSUME NEW m \in BOOLEAN, NEW n \in Nat
  PROVE  Packets(m)!Checksum(n) = WordsIn(m) - 1 - Folded(WordsIn(m), n)
<1>1. WordsIn(m) \in Nat /\ WordsIn(m) > 1 /\ Packets(m)!Base = WordsIn(m)
  BY PacketParameters
<1>. DEFINE F == Packets(m)!Fold
            b == WordsIn(m)
<1>2. F = CHOOSE f : f = [k \in Nat |-> IF k < b THEN k ELSE f[(k % b) + (k \div b)]]
  BY <1>1 DEF Packets!Fold
<1>3. F[n] = Folded(b, n)
  <2>. HIDE DEF F, b
  <2>1. b \in Nat /\ b > 1
    BY <1>1 DEF b
  <2>. QED
    BY <1>2, <2>1, FoldIs
<1>. QED
  BY <1>1, <1>3 DEF Packets!Checksum

\* The packets of a run: from here to the echo service, or back.
PacketOf(m, from, to, payload, id) == Packets(m)!BuildUdpPacket(from, to, payload, id)

\* Such a packet is right but for its header checksum.
LEMMA PacketIs ==
  ASSUME NEW m \in BOOLEAN, NEW from \in 1..2, NEW to \in 1..2, from # to,
         NEW payload \in 0..WordsIn(m) - 1, NEW id \in TokensIn(m) \cup {0},
         NEW p, p = PacketOf(m, from, to, payload, id)
  PROVE  /\ p \in [header_sum : 0..WordsIn(m) - 1, udp_sum : 0..WordsIn(m) - 1, id : TokensIn(m) \cup {0},
                   src : 1..2, dst : 1..2, sport : 1..2, dport : 1..2, payload : 0..WordsIn(m) - 1]
         /\ p.src = from /\ p.dst = to /\ p.sport = from /\ p.dport = to
         /\ p.payload = payload /\ p.id = id
         /\ p.header_sum = WordsIn(m) - 1 - Folded(WordsIn(m), id + from + to)
         /\ Packets(m)!Ipv4(p) = id + from + to /\ Packets(m)!Ipv4(p) \in Nat
         /\ Packets(m)!SumsValid(p)
<1>. DEFINE b == WordsIn(m)
            h == id + from + to
            u == from + to + from + to + payload
            c == b - 1 - Folded(b, u)
<1>1. b \in Nat /\ b > 1 /\ id \in 0..b - 1
  BY PacketParameters
<1>2. h \in Nat /\ u \in Nat /\ h > 0 /\ u > 0
  BY <1>1
<1>3. /\ p.id = id /\ p.src = from /\ p.dst = to /\ p.sport = from /\ p.dport = to /\ p.payload = payload
  BY DEF Packets!BuildUdpPacket, PacketOf
<1>4. p.header_sum = Packets(m)!Checksum(h)
  BY DEF Packets!BuildUdpPacket, PacketOf, Packets!Ipv4
<1>5. p.udp_sum = Packets(m)!NonZero(Packets(m)!Checksum(u))
  BY DEF Packets!BuildUdpPacket, PacketOf, Packets!Udp
<1>6. p.header_sum = b - 1 - Folded(b, h)
  BY <1>2, <1>4, ChecksumIs
<1>7. p.udp_sum = IF c = 0 THEN b - 1 ELSE c
  <2>1. Packets(m)!Base = b
    BY PacketParameters
  <2>2. Packets(m)!Checksum(u) = c
    BY <1>2, ChecksumIs
  <2>. QED
    BY <1>5, <2>1, <2>2 DEF Packets!NonZero
<1>8. Packets(m)!Ipv4(p) = h /\ Packets(m)!Udp(p) = u
  BY <1>3 DEF Packets!Ipv4, Packets!Udp
<1>. HIDE DEF h, u, b
<1>9. p.header_sum \in 0..b - 1 /\ Folded(b, h + p.header_sum) = b - 1
  BY <1>1, <1>2, <1>6, ChecksumProves
<1>10. c \in 0..b - 1 /\ Folded(b, u + c) = b - 1 /\ (c = 0 => Folded(b, u + (b - 1)) = b - 1)
  <2>1. c = b - 1 - Folded(b, u)
    OBVIOUS
  <2>. HIDE DEF c
  <2>. QED
    BY <1>1, <1>2, <2>1, ChecksumProves
<1>. HIDE DEF c
<1>11. p.udp_sum \in 0..b - 1 /\ p.udp_sum # 0 /\ Folded(b, u + p.udp_sum) = b - 1
  BY <1>1, <1>7, <1>10
<1>12. Packets(m)!Checksum(h + p.header_sum) = 0
  <2>1. h + p.header_sum \in Nat
    BY <1>1, <1>2, <1>9
  <2>2. Packets(m)!Checksum(h + p.header_sum) = b - 1 - Folded(b, h + p.header_sum)
    BY <2>1, ChecksumIs DEF b
  <2>. QED
    BY <1>1, <1>9, <2>2
<1>13. Packets(m)!Checksum(u + p.udp_sum) = 0
  <2>1. u + p.udp_sum \in Nat
    BY <1>1, <1>2, <1>11
  <2>2. Packets(m)!Checksum(u + p.udp_sum) = b - 1 - Folded(b, u + p.udp_sum)
    BY <2>1, ChecksumIs DEF b
  <2>. QED
    BY <1>1, <1>11, <2>2
<1>14. Packets(m)!SumsValid(p)
  BY <1>8, <1>11, <1>12, <1>13 DEF Packets!SumsValid
<1>15. p = [header_sum |-> p.header_sum, udp_sum |-> p.udp_sum, id |-> id, src |-> from, dst |-> to,
            sport |-> from, dport |-> to, payload |-> payload]
  BY <1>4, <1>5 DEF Packets!BuildUdpPacket, PacketOf, Packets!Ipv4, Packets!Udp
<1>16. payload \in 0..b - 1
  BY DEF b
<1>17. p \in [header_sum : 0..b - 1, udp_sum : 0..b - 1, id : TokensIn(m) \cup {0},
              src : 1..2, dst : 1..2, sport : 1..2, dport : 1..2, payload : 0..b - 1]
  BY <1>9, <1>11, <1>15, <1>16
<1>. QED
  BY <1>2, <1>3, <1>6, <1>8, <1>14, <1>17 DEF b, h

-----------------------------------------------------------------------------
(* The packets: what a run submits. *)

\* Inverting the high digit of a word makes it another that does not stand for the same.
LEMMA HighDigitInverted ==
  ASSUME NEW d \in Nat, d > 1, d % 2 = 0, NEW x \in 0..d * d - 1,
         NEW y, y = (d - 1 - (x \div d)) * d + (x % d)
  PROVE  y \in 0..d * d - 1 /\ y # x /\ y - x < d * d - 1 /\ x - y < d * d - 1
<1>. DEFINE q == x \div d
            r == x % d
<1>0. d * d \in Nat /\ x \in Nat
  <2>1. d * d \in Nat
    OBVIOUS
  <2>. QED
    BY <2>1
<1>1. x = d * q + r /\ q \in Int /\ r \in 0..d - 1
  BY <1>0
<1>2. d = 2 * (d \div 2) /\ d \div 2 \in Int
  OBVIOUS
<1>3. y = (d - 1 - q) * d + r
  OBVIOUS
<1>. HIDE DEF q, r
<1>4. q >= 0
  <2>. SUFFICES ASSUME q <= -1 PROVE FALSE
    BY <1>1
  <2>1. d * q <= -d
    BY <1>1
  <2>. QED
    BY <1>0, <1>1, <2>1
<1>5. q <= d - 1
  <2>. SUFFICES ASSUME q >= d PROVE FALSE
    BY <1>1
  <2>1. d * q >= d * d
    BY <1>1
  <2>. QED
    BY <1>0, <1>1, <2>1
<1>. DEFINE g == d - 1 - q
<1>6. g \in 0..d - 1
  BY <1>1, <1>4, <1>5
<1>7. y = d * g + r
  BY <1>1, <1>3
<1>8. d * g <= d * (d - 1) /\ d * g >= 0 /\ d * q <= d * (d - 1) /\ d * q >= 0
  <2>. HIDE DEF g
  <2>1. \A k \in 0..d - 1 : d * k <= d * (d - 1) /\ d * k >= 0
    OBVIOUS
  <2>2. q \in 0..d - 1
    BY <1>1, <1>4, <1>5
  <2>. QED
    BY <1>6, <2>1, <2>2
<1>9. d * (d - 1) = d * d - d
  OBVIOUS
<1>10. y \in 0..d * d - 1
  <2>. DEFINE dg == d * g
              dd == d * d
  <2>1. dg \in Int /\ dd \in Nat /\ dg <= dd - d /\ dg >= 0 /\ y = dg + r
    BY <1>0, <1>6, <1>7, <1>8, <1>9
  <2>. HIDE DEF dg, dd
  <2>2. y \in 0..dd - 1
    BY <1>1, <2>1
  <2>. QED
    BY <2>2 DEF dd
<1>11. y - x = d * g - d * q
  <2>. DEFINE dg == d * g
              dq == d * q
  <2>1. dg \in Int /\ dq \in Int /\ y = dg + r /\ x = dq + r
    BY <1>1, <1>6, <1>7
  <2>. HIDE DEF dg, dq
  <2>2. y - x = dg - dq
    BY <1>1, <2>1
  <2>. QED
    BY <2>2 DEF dg, dq
<1>12. y - x < d * d - 1 /\ x - y < d * d - 1
  <2>. DEFINE dg == d * g
              dd == d * d
              dq == d * q
  <2>1. dg \in Int /\ dq \in Int /\ dd \in Nat /\ dg <= dd - d /\ dg >= 0 /\ dq <= dd - d /\ dq >= 0
          /\ y - x = dg - dq
    BY <1>0, <1>1, <1>6, <1>8, <1>9, <1>11
  <2>2. y \in Int
    BY <1>10
  <2>. HIDE DEF dg, dd, dq
  <2>3. y - x < dd - 1 /\ x - y < dd - 1
    BY <1>0, <2>1, <2>2
  <2>. QED
    BY <2>3 DEF dd
<1>13. y # x
  <2>. SUFFICES ASSUME y = x PROVE FALSE
    OBVIOUS
  <2>1. d * (g - q) = 0
    BY <1>0, <1>1, <1>6, <1>11
  <2>2. g - q = 0
    BY <1>1, <1>6, <2>1
  <2>3. d = 2 * q + 1
    BY <1>1, <2>2
  <2>. QED
    BY <1>1, <1>2, <2>3
<1>. QED
  BY <1>10, <1>12, <1>13

\* A packet may have another header checksum, or another port.
LEMMA RecordIs ==
  ASSUME NEW W, NEW T,
         NEW p \in [header_sum : W, udp_sum : W, id : T,
                    src : 1..2, dst : 1..2, sport : 1..2, dport : 1..2, payload : W],
         NEW w \in W, NEW Q,
         Q = [header_sum : W, udp_sum : W, id : T,
              src : 1..2, dst : 1..2, sport : 1..2, dport : 1..3, payload : W]
  PROVE  /\ p \in Q /\ [p EXCEPT !.header_sum = w] \in Q /\ [p EXCEPT !.udp_sum = w] \in Q
         /\ [p EXCEPT !.payload = w] \in Q /\ [p EXCEPT !.dport = 3] \in Q
<1>1. /\ p = [header_sum |-> p.header_sum, udp_sum |-> p.udp_sum, id |-> p.id, src |-> p.src,
              dst |-> p.dst, sport |-> p.sport, dport |-> p.dport, payload |-> p.payload]
      /\ {p.header_sum, p.udp_sum, p.payload} \subseteq W /\ p.id \in T
      /\ {p.src, p.dst, p.sport, p.dport} \subseteq 1..2
  OBVIOUS
<1>2. 3 \in 1..3 /\ 1..2 \subseteq 1..3
  OBVIOUS
<1>3. p \in Q
  BY <1>1, <1>2
<1>4. [p EXCEPT !.header_sum = w] \in Q
  BY <1>1, <1>2
<1>5. [p EXCEPT !.udp_sum = w] \in Q
  BY <1>1, <1>2
<1>6. [p EXCEPT !.payload = w] \in Q
  BY <1>1, <1>2
<1>7. [p EXCEPT !.dport = 3] \in Q
  BY <1>1, <1>2
<1>. QED
  BY <1>3, <1>4, <1>5, <1>6, <1>7

\* What a run submits.
OutgoingOf(m, payload, id) ==
  LET p == PacketOf(m, 1, 2, payload, id) IN IF m THEN Packets(m)!Inverted(p) ELSE p

\* Packets, as a sequence or a set of them holds them.
PacketSet(m) == Packets(m)!Packet

\* The packets of the module are these.
LEMMA PacketSetIs ==
  ASSUME NEW m \in BOOLEAN
  PROVE  PacketSet(m) = [header_sum : 0..WordsIn(m) - 1, udp_sum : 0..WordsIn(m) - 1, id : TokensIn(m) \cup {0},
            src : 1..2, dst : 1..2, sport : 1..2, dport : 1..3, payload : 0..WordsIn(m) - 1]
<1>1. Packets(m)!Word = 0..WordsIn(m) - 1
  BY PacketParameters
<1>. QED
  BY <1>1 DEF PacketSet, Packets!Packet, TokensIn

\* It proves right exactly when it is not to be malformed.
LEMMA OutgoingIs ==
  ASSUME NEW m \in BOOLEAN, NEW payload \in TokensIn(m) \cup {0}, NEW id \in TokensIn(m) \cup {0},
         NEW o, o = OutgoingOf(m, payload, id)
  PROVE  /\ o \in PacketSet(m) /\ o.payload = payload /\ o.id = id
         /\ (Packets(m)!Checksum(Packets(m)!Ipv4(o) + o.header_sum) = 0 <=> ~m)
<1>. DEFINE p == PacketOf(m, 1, 2, payload, id)
            b == WordsIn(m)
            h == id + 3
<1>0. b \in Nat /\ b > 1 /\ payload \in 0..b - 1 /\ id \in 0..b - 1 /\ h \in Nat
  BY PacketParameters
<1>1. /\ p \in [header_sum : 0..WordsIn(m) - 1, udp_sum : 0..WordsIn(m) - 1, id : TokensIn(m) \cup {0},
                src : 1..2, dst : 1..2, sport : 1..2, dport : 1..2, payload : 0..WordsIn(m) - 1]
      /\ p.src = 1 /\ p.dst = 2 /\ p.payload = payload /\ p.id = id
      /\ p.header_sum = b - 1 - Folded(b, id + 1 + 2)
      /\ Packets(m)!SumsValid(p)
  BY <1>0, PacketIs
<1>2. p.header_sum = b - 1 - Folded(b, h)
  <2>1. id + 1 + 2 = h
    BY <1>0
  <2>. QED
    BY <1>1, <2>1
<1>. DEFINE W == 0..b - 1
<1>3. \A w \in W : p \in PacketSet(m) /\ [p EXCEPT !.header_sum = w] \in PacketSet(m)
  <2>. HIDE DEF p
  <2>1. p \in [header_sum : W, udp_sum : W, id : TokensIn(m) \cup {0},
               src : 1..2, dst : 1..2, sport : 1..2, dport : 1..2, payload : W]
    BY <1>1
  <2>2. PacketSet(m) = [header_sum : W, udp_sum : W, id : TokensIn(m) \cup {0},
               src : 1..2, dst : 1..2, sport : 1..2, dport : 1..3, payload : W]
    BY PacketSetIs
  <2>. HIDE DEF W
  <2>. QED
    BY <2>1, <2>2, RecordIs
<1>9. 0 \in W
  BY <1>0
<1>. HIDE DEF p
<1>4. CASE ~m
  <2>1. o = p
    BY <1>4 DEF OutgoingOf, p
  <2>. QED
    BY <1>1, <1>3, <1>4, <1>9, <2>1 DEF Packets!SumsValid
<1>5. CASE m
  <2>. DEFINE d == DigitIn(m)
              x == p.header_sum
              y == (d - 1 - (x \div d)) * d + (x % d)
  <2>1. o = [p EXCEPT !.header_sum = y]
    BY <1>5 DEF OutgoingOf, p, Packets!Inverted, DigitIn
  <2>2. x \in 0..b - 1 /\ b = d * d /\ d \in Nat /\ d > 1 /\ d % 2 = 0
    BY <1>1, PacketParameters DEF WordsIn
  <2>3. y \in 0..b - 1 /\ y # x /\ y - x < b - 1 /\ x - y < b - 1
    <3>. HIDE DEF d, x, b
    <3>. QED
      BY <2>2, HighDigitInverted
  <2>. HIDE DEF y
  <2>4. o \in PacketSet(m)
    BY <1>3, <2>1, <2>3
  <2>5. o.header_sum = y /\ o.payload = payload /\ o.id = id /\ o.src = 1 /\ o.dst = 2
    BY <1>1, <2>1
  <2>6. Packets(m)!Ipv4(o) = h
    BY <1>0, <2>5 DEF Packets!Ipv4
  <2>7. Packets(m)!Checksum(h + y) # 0
    <3>. HIDE DEF h, b
    <3>1. h + y \in Nat
      BY <1>0, <2>3
    <3>2. Packets(m)!Checksum(h + y) = b - 1 - Folded(b, h + y)
      BY <3>1, ChecksumIs DEF b
    <3>3. Folded(b, h + y) # b - 1
      BY <1>0, <1>2, <2>3, WrongChecksum
    <3>4. Folded(b, h + y) \in 0..b - 1
      BY <1>0, <3>1, FoldedRange
    <3>. QED
      BY <1>0, <3>2, <3>3, <3>4
  <2>. QED
    BY <1>5, <2>4, <2>5, <2>6, <2>7
<1>. QED
  BY <1>4, <1>5

-----------------------------------------------------------------------------
(* The packet echo: its invariant. *)

\* What was built for this run is what goes out.
PacketBuilt(m) ==
  packetPc \in {"submit", "poll"} => \E id \in TokensIn(m) \cup {0} : outgoing = OutgoingOf(m, token, id)

\* What its variables hold.
PacketTypes(m) ==
  /\ packetPc \in {"idle", "submit", "poll", "ok", "failed"}
  /\ token \in TokensIn(m) \cup {0} /\ left \in 0..PacketTimeout
  /\ outgoing \in PacketSet(m) /\ packets \in Seq(PacketSet(m)) /\ packetsSent \subseteq PacketSet(m)

\* The invariant of the packet echo.
PacketsHold(m) == PacketTypes(m) /\ PacketBuilt(m)

\* The types imply the type invariant of the module.
LEMMA PacketTyped == ASSUME NEW m \in BOOLEAN, PacketTypes(m) PROVE Packets(m)!TypeOK
<1>1. Packets(m)!Packet = PacketSet(m)
  BY DEF PacketSet
<1>2. TokensIn(m) = IF m THEN MalformedTokens ELSE EchoTokens
  BY DEF TokensIn
<1>. HIDE DEF PacketSet, TokensIn
<1>. QED
  BY <1>1, <1>2 DEF Packets!TypeOK, PacketTypes

\* An echo, and what may become of it on its way, is a packet.
LEMMA EchoIs ==
  ASSUME NEW m \in BOOLEAN, NEW p \in PacketSet(m), NEW w \in 0..WordsIn(m) - 1,
         NEW e, e = Packets(m)!Echo(p)
  PROVE  /\ e \in PacketSet(m) /\ [e EXCEPT !.udp_sum = w] \in PacketSet(m)
         /\ [e EXCEPT !.payload = w] \in PacketSet(m) /\ [e EXCEPT !.dport = 3] \in PacketSet(m)
         /\ e.src = 2 /\ e.dst = 1 /\ e.sport = 2 /\ e.dport = 1 /\ e.payload = p.payload
         /\ Packets(m)!SumsValid(e)
<1>1. p.payload \in 0..WordsIn(m) - 1 /\ p.id \in TokensIn(m) \cup {0}
  <2>. DEFINE V == 0..WordsIn(m) - 1
              S == TokensIn(m) \cup {0}
  <2>1. p \in [header_sum : V, udp_sum : V, id : S,
               src : 1..2, dst : 1..2, sport : 1..2, dport : 1..3, payload : V]
    BY PacketSetIs
  <2>. HIDE DEF V, S
  <2>2. p.payload \in V /\ p.id \in S
    BY <2>1
  <2>. QED
    BY <2>2 DEF V, S
<1>2. e = PacketOf(m, 2, 1, p.payload, p.id)
  BY DEF Packets!Echo, Packets!Here, Packets!There, PacketOf
<1>. DEFINE W == 0..WordsIn(m) - 1
            T == TokensIn(m) \cup {0}
<1>3. /\ e \in [header_sum : W, udp_sum : W, id : T,
                src : 1..2, dst : 1..2, sport : 1..2, dport : 1..2, payload : W]
      /\ e.src = 2 /\ e.dst = 1 /\ e.sport = 2 /\ e.dport = 1 /\ e.payload = p.payload
      /\ Packets(m)!SumsValid(e)
  BY <1>1, <1>2, PacketIs
<1>4. PacketSet(m) = [header_sum : W, udp_sum : W, id : T,
                      src : 1..2, dst : 1..2, sport : 1..2, dport : 1..3, payload : W]
  BY PacketSetIs
<1>5. w \in W
  OBVIOUS
<1>. HIDE DEF W, T
<1>6. /\ e \in PacketSet(m) /\ [e EXCEPT !.udp_sum = w] \in PacketSet(m)
      /\ [e EXCEPT !.payload = w] \in PacketSet(m) /\ [e EXCEPT !.dport = 3] \in PacketSet(m)
  BY ONLY <1>3, <1>4, <1>5, RecordIs
<1>. QED
  BY <1>3, <1>6

\* The invariant holds at the start.
LEMMA PacketInitHolds == ASSUME NEW m \in BOOLEAN, Packets(m)!Init PROVE PacketsHold(m)
<1>. DEFINE W == 0..WordsIn(m) - 1
            T == TokensIn(m) \cup {0}
<1>1. outgoing = PacketOf(m, 1, 2, 0, 0)
  BY DEF Packets!Init, Packets!Here, Packets!There, PacketOf
<1>2. 0 \in W /\ 0 \in 0..PacketTimeout /\ 0 \in T
  BY PacketParameters
<1>3. outgoing \in [header_sum : W, udp_sum : W, id : T,
                    src : 1..2, dst : 1..2, sport : 1..2, dport : 1..2, payload : W]
  BY <1>1, <1>2, PacketIs
<1>4. PacketSet(m) = [header_sum : W, udp_sum : W, id : T,
                      src : 1..2, dst : 1..2, sport : 1..2, dport : 1..3, payload : W]
  BY PacketSetIs
<1>5. outgoing \in PacketSet(m)
  <2>. HIDE DEF W, T
  <2>. QED
    BY ONLY <1>2, <1>3, <1>4, RecordIs
<1>6. packets \in Seq(PacketSet(m)) /\ packetsSent \subseteq PacketSet(m) /\ packetPc = "idle"
      /\ token = 0 /\ left = 0
  BY DEF Packets!Init
<1>. QED
  BY <1>2, <1>5, <1>6 DEF PacketsHold, PacketTypes, PacketBuilt

\* A run begins with a packet of its own.
LEMMA PacketStart ==
  ASSUME NEW m \in BOOLEAN, PacketsHold(m), Packets(m)!Start
  PROVE  PacketsHold(m)'
<1>0. UNCHANGED <<left, packets, packetsSent>>
  BY DEF Packets!Start
<1>1. ASSUME packetPc' = "failed", UNCHANGED <<token, outgoing>> PROVE PacketsHold(m)'
  BY <1>0, <1>1 DEF PacketsHold, PacketTypes, PacketBuilt
<1>2. ASSUME NEW t \in TokensIn(m), NEW id \in TokensIn(m), packetPc' = "submit", token' = t,
             outgoing' = OutgoingOf(m, t, id)
      PROVE  PacketsHold(m)'
  <2>1. OutgoingOf(m, t, id) \in PacketSet(m)
    BY OutgoingIs
  <2>2. PacketTypes(m)'
    BY <1>0, <1>2, <2>1 DEF PacketsHold, PacketTypes
  <2>3. \E i \in TokensIn(m) \cup {0} : outgoing' = OutgoingOf(m, token', i)
    BY <1>2
  <2>. QED
    BY <2>2, <2>3 DEF PacketsHold, PacketBuilt
<1>3. \/ packetPc' = "failed" /\ UNCHANGED <<token, outgoing>>
      \/ \E t \in TokensIn(m), id \in TokensIn(m) :
           packetPc' = "submit" /\ token' = t /\ outgoing' = OutgoingOf(m, t, id)
  BY DEF Packets!Start, TokensIn, OutgoingOf, PacketOf, Packets!Here, Packets!There
<1>. QED
  BY <1>1, <1>2, <1>3

\* What arrives is a packet.
LEMMA PacketDeliver ==
  ASSUME NEW m \in BOOLEAN, PacketsHold(m), Packets(m)!Deliver
  PROVE  PacketsHold(m)'
<1>0. UNCHANGED <<packetPc, token, outgoing, left, packetsSent>>
  BY DEF Packets!Deliver
<1>1. Packets(m)!Word = 0..WordsIn(m) - 1
  BY PacketParameters
<1>2. PICK p \in packetsSent :
        \E q \in {Packets(m)!Echo(p), [Packets(m)!Echo(p) EXCEPT !.dport = 3]} \cup
                 {[Packets(m)!Echo(p) EXCEPT !.payload = w] : w \in 0..WordsIn(m) - 1} \cup
                 {[Packets(m)!Echo(p) EXCEPT !.udp_sum = w] : w \in 0..WordsIn(m) - 1} :
          packets' = Append(packets, q)
  BY <1>1 DEF Packets!Deliver
<1>3. PICK q : /\ packets' = Append(packets, q)
               /\ \/ q = Packets(m)!Echo(p) \/ q = [Packets(m)!Echo(p) EXCEPT !.dport = 3]
                  \/ \E w \in 0..WordsIn(m) - 1 : \/ q = [Packets(m)!Echo(p) EXCEPT !.payload = w]
                                                  \/ q = [Packets(m)!Echo(p) EXCEPT !.udp_sum = w]
  BY <1>2
<1>4. p \in PacketSet(m) /\ packets \in Seq(PacketSet(m))
  BY DEF PacketsHold, PacketTypes
<1>5. 0 \in 0..WordsIn(m) - 1
  BY PacketParameters
<1>. DEFINE e == Packets(m)!Echo(p)
<1>6. q \in PacketSet(m)
  <2>1. e \in PacketSet(m) /\ [e EXCEPT !.dport = 3] \in PacketSet(m)
    BY <1>4, <1>5, EchoIs
  <2>2. ASSUME NEW w \in 0..WordsIn(m) - 1
        PROVE  [e EXCEPT !.payload = w] \in PacketSet(m) /\ [e EXCEPT !.udp_sum = w] \in PacketSet(m)
    BY <1>4, EchoIs
  <2>3. \/ q = e \/ q = [e EXCEPT !.dport = 3]
        \/ \E w \in 0..WordsIn(m) - 1 : q = [e EXCEPT !.payload = w] \/ q = [e EXCEPT !.udp_sum = w]
    BY <1>3
  <2>. HIDE DEF e
  <2>. QED
    BY <2>1, <2>2, <2>3
<1>7. packets' \in Seq(PacketSet(m))
  BY <1>3, <1>4, <1>6, AppendProperties
<1>. QED
  BY <1>0, <1>7 DEF PacketsHold, PacketTypes, PacketBuilt

\* A poll takes one packet off the queue.
LEMMA PacketPoll ==
  ASSUME NEW m \in BOOLEAN, PacketsHold(m), Packets(m)!Poll
  PROVE  PacketsHold(m)'
<1>0. UNCHANGED <<token, outgoing, packetsSent>> /\ packetPc = "poll" /\ packetPc' \in {"poll", "ok", "failed"}
  BY DEF Packets!Poll
<1>1. left \in 0..PacketTimeout /\ left > 0 /\ PacketTimeout \in Nat
  BY PacketParameters DEF PacketsHold, PacketTypes, Packets!Poll, Packets!InTime
<1>2. left' = left \/ left' = left - 1
  BY DEF Packets!Poll
<1>3. left' \in 0..PacketTimeout
  BY <1>1, <1>2
<1>4. packets \in Seq(PacketSet(m))
  BY DEF PacketsHold, PacketTypes
<1>5. packets' = packets \/ (packets # <<>> /\ packets' = Tail(packets))
  BY DEF Packets!Poll
<1>6. packets' \in Seq(PacketSet(m))
  BY <1>4, <1>5, HeadTailProperties
<1>7. PacketTypes(m)'
  BY <1>0, <1>3, <1>6 DEF PacketsHold, PacketTypes
<1>8. PacketBuilt(m)'
  BY <1>0 DEF PacketsHold, PacketBuilt
<1>. QED
  BY <1>7, <1>8 DEF PacketsHold

\* The packet that was built is sent.
LEMMA PacketSubmit ==
  ASSUME NEW m \in BOOLEAN, PacketsHold(m), Packets(m)!Submit
  PROVE  PacketsHold(m)'
<1>0. UNCHANGED <<token, outgoing, packets>> /\ packetPc = "submit" /\ packetPc' \in {"poll", "ok", "failed"}
  BY DEF Packets!Submit
<1>1. left' = left \/ left' = PacketTimeout
  BY DEF Packets!Submit
<1>2. packetsSent' = packetsSent \/ packetsSent' = packetsSent \cup {outgoing}
  BY DEF Packets!Submit
<1>3. PacketTypes(m)'
  BY <1>0, <1>1, <1>2, PacketParameters DEF PacketsHold, PacketTypes
<1>. QED
  BY <1>0, <1>3 DEF PacketsHold, PacketBuilt

\* Every step keeps the invariant.
LEMMA PacketsHoldNext ==
  ASSUME NEW m \in BOOLEAN, PacketsHold(m), PacketStepped(m)
  PROVE  PacketsHold(m)'
<1>1. CASE Packets(m)!TimedOut
  BY <1>1 DEF PacketsHold, PacketTypes, PacketBuilt, Packets!TimedOut
<1>2. CASE Packets(m)!Tick
  <2>1. UNCHANGED <<packetPc, token, outgoing, packets, packetsSent>> /\ left > 0 /\ left' = left - 1
    BY <1>2 DEF Packets!Tick
  <2>2. left \in 0..PacketTimeout /\ PacketTimeout \in Nat
    BY PacketParameters DEF PacketsHold, PacketTypes
  <2>3. left' \in 0..PacketTimeout
    BY <2>1, <2>2
  <2>. QED
    BY <2>1, <2>3 DEF PacketsHold, PacketTypes, PacketBuilt
<1>3. CASE UNCHANGED packetVars
  BY <1>3 DEF PacketsHold, PacketTypes, PacketBuilt, packetVars
<1>. QED
  BY <1>1, <1>2, <1>3, PacketStart, PacketSubmit, PacketPoll, PacketDeliver
  DEF PacketStepped, Packets!Next, Packets!Run

\* SubmittedAsMeant is about the packet that was built.
LEMMA PacketMeant == ASSUME NEW m \in BOOLEAN, PacketsHold(m) PROVE Packets(m)!SubmittedAsMeant
<1>1. ASSUME packetPc = "submit"
      PROVE  (Packets(m)!Checksum(Packets(m)!Ipv4(outgoing) + outgoing.header_sum) = 0) = ~m
  <2>1. PICK id \in TokensIn(m) \cup {0} : outgoing = OutgoingOf(m, token, id)
    BY <1>1 DEF PacketsHold, PacketBuilt
  <2>2. token \in TokensIn(m) \cup {0}
    BY DEF PacketsHold, PacketTypes
  <2>. QED
    BY <2>1, <2>2, OutgoingIs
<1>. QED
  BY <1>1 DEF Packets!SubmittedAsMeant

\* A run of the echo ends well by the echo of its own datagram, and by nothing else.
LEMMA PacketAnswers ==
  ASSUME NEW m \in BOOLEAN, PacketsHold(m), PacketStepped(m)
  PROVE  Packets(m)!AnsweredByEcho /\ Packets(m)!EchoAccepted
<1>1. /\ packets \in Seq(PacketSet(m)) /\ outgoing \in PacketSet(m)
      /\ token \in TokensIn(m) \cup {0}
  BY DEF PacketsHold, PacketTypes
<1>2. packetPc = "poll" => outgoing.payload = token
  <2>1. ASSUME packetPc = "poll" PROVE outgoing.payload = token
    <3>1. PICK id \in TokensIn(m) \cup {0} : outgoing = OutgoingOf(m, token, id)
      BY <2>1 DEF PacketsHold, PacketBuilt
    <3>. QED
      BY <1>1, <3>1, OutgoingIs
  <2>. QED
    BY <2>1
<1>3. ASSUME packetPc = "poll", packetPc' = "ok"
      PROVE  Packets(m)!ValidateUdpReply(Head(packets), token)
  BY <1>3 DEF PacketStepped, Packets!Next, Packets!Run, Packets!Start, Packets!Submit, Packets!Poll,
     Packets!TimedOut, Packets!Tick, Packets!Deliver, packetVars
<1>4. Packets(m)!AnsweredByEcho
  BY <1>2, <1>3 DEF Packets!AnsweredByEcho, Packets!ValidateUdpReply, Packets!There, Packets!Here
<1>5. ASSUME packetPc = "poll", packets # <<>>, packets' = Tail(packets),
             Head(packets) = Packets(m)!Echo(outgoing)
      PROVE  packetPc' = "ok"
  <2>0. Tail(packets) # packets
    <3>1. Len(Tail(packets)) = Len(packets) - 1 /\ Len(packets) \in Nat
      BY <1>1, <1>5, HeadTailProperties
    <3>. QED
      BY <3>1
  <2>1. Packets(m)!Poll /\ packets' # packets
    <3>1. packets' # packets
      BY <1>5, <2>0
    <3>2. ~Packets(m)!Deliver
      <4>1. ASSUME NEW q, packets' = Append(packets, q) PROVE FALSE
        <5>1. packets' \in Seq(PacketSet(m)) /\ Len(packets') = Len(packets) - 1 /\ Len(packets) \in Nat
          BY <1>1, <1>5, HeadTailProperties
        <5>2. Len(Append(packets, q)) = Len(packets) + 1
          BY <1>1, AppendProperties
        <5>. QED
          BY <4>1, <5>1, <5>2
      <4>. QED
        BY <4>1 DEF Packets!Deliver
    <3>. QED
      BY <1>5, <3>1, <3>2 DEF PacketStepped, Packets!Next, Packets!Run, Packets!Start, Packets!Submit,
         Packets!TimedOut, Packets!Tick, packetVars
  <2>2. packetPc' = IF Packets(m)!ValidateUdpReply(Head(packets), token) THEN "ok" ELSE "poll"
    BY <2>1 DEF Packets!Poll
  <2>. DEFINE e == Packets(m)!Echo(outgoing)
  <2>3. 0 \in 0..WordsIn(m) - 1
    BY PacketParameters
  <2>4. /\ e.src = 2 /\ e.dst = 1 /\ e.sport = 2 /\ e.dport = 1 /\ e.payload = outgoing.payload
        /\ Packets(m)!SumsValid(e)
    BY <1>1, <2>3, EchoIs
  <2>5. Packets(m)!ValidateUdpReply(e, token)
    <3>. HIDE DEF e
    <3>. QED
      BY <1>2, <1>5, <2>4 DEF Packets!ValidateUdpReply, Packets!There, Packets!Here
  <2>. QED
    BY <1>5, <2>2, <2>5
<1>. QED
  BY <1>4, <1>5 DEF Packets!EchoAccepted

-----------------------------------------------------------------------------
(* Functions on the naturals that are defined by recursion exist: of the    *)
(* beginnings there are, each goes as far as it is to, and they agree.     *)

\* From a on, G stays in V.
StaysIn(a, G, V) == a \in V /\ \A n \in Nat : \A v \in V : G[<<n, v>>] \in V

\* g starts with a and goes on by G up to n.
Begins(g, a, G, n) == g[0] = a /\ \A k \in Nat : k < n => g[k + 1] = G[<<k, g[k]>>]

\* Two beginnings agree as far as both go.
LEMMA BeginsAlike ==
  ASSUME NEW a, NEW G, NEW n \in Nat, NEW g, Begins(g, a, G, n), NEW h, Begins(h, a, G, n)
  PROVE  \A k \in Nat : k <= n => g[k] = h[k]
<1>. SUFFICES ASSUME NEW o \in Nat, o <= n, g[o] # h[o] PROVE FALSE
  OBVIOUS
<1>. DEFINE Bad == {k \in Nat : k <= n /\ g[k] # h[k]}
<1>1. PICK k \in Bad : \A m \in Bad : k <= m
  <2>1. Bad \subseteq Nat /\ o \in Bad
    OBVIOUS
  <2>. HIDE DEF Bad
  <2>. QED
    BY <2>1, LeastNumber
<1>2. k \in Nat /\ k <= n /\ g[k] # h[k]
  OBVIOUS
<1>3. k # 0
  BY <1>2 DEF Begins
<1>4. k - 1 \in Nat /\ k - 1 < k /\ k - 1 < n /\ (k - 1) + 1 = k
  BY <1>2, <1>3
<1>5. k - 1 \notin Bad
  <2>. HIDE DEF Bad
  <2>. QED
    BY <1>1, <1>2, <1>4
<1>6. g[k - 1] = h[k - 1]
  BY <1>4, <1>5
<1>7. g[k] = G[<<k - 1, g[k - 1]>>] /\ h[k] = G[<<k - 1, h[k - 1]>>]
  BY <1>4 DEF Begins
<1>. QED
  BY <1>2, <1>6, <1>7

\* There are beginnings of every length.
LEMMA BeginsFar ==
  ASSUME NEW V, NEW a, NEW G, StaysIn(a, G, V)
  PROVE  \A n \in Nat : \E g \in [Nat -> V] : Begins(g, a, G, n)
<1>. DEFINE Bad == {n \in Nat : \A g \in [Nat -> V] : ~Begins(g, a, G, n)}
<1>. SUFFICES ASSUME NEW o \in Bad PROVE FALSE
  OBVIOUS
<1>1. PICK n \in Bad : \A m \in Bad : n <= m
  <2>1. Bad \subseteq Nat
    OBVIOUS
  <2>. HIDE DEF Bad
  <2>. QED
    BY <2>1, LeastNumber
<1>2. n # 0
  <2>. DEFINE c == [k \in Nat |-> a]
  <2>1. c \in [Nat -> V] /\ Begins(c, a, G, 0)
    BY DEF Begins, StaysIn
  <2>. QED
    BY <2>1
<1>3. n - 1 \in Nat /\ n - 1 < n
  BY <1>2
<1>4. n - 1 \notin Bad
  <2>1. n \in Nat
    OBVIOUS
  <2>. HIDE DEF Bad
  <2>. QED
    BY <1>1, <1>3, <2>1
<1>5. PICK g \in [Nat -> V] : Begins(g, a, G, n - 1)
  BY <1>3, <1>4
<1>. DEFINE h == [g EXCEPT ![n] = G[<<n - 1, g[n - 1]>>]]
<1>6. h \in [Nat -> V]
  BY <1>3 DEF StaysIn
<1>7. Begins(h, a, G, n)
  <2>1. h[0] = a
    BY <1>2, <1>5 DEF Begins
  <2>2. ASSUME NEW k \in Nat, k < n PROVE h[k + 1] = G[<<k, h[k]>>]
    <3>1. h[k] = g[k]
      BY <2>2
    <3>2. CASE k = n - 1
      <4>1. h[n] = G[<<n - 1, g[n - 1]>>] /\ k + 1 = n
        BY <3>2
      <4>. QED
        BY <3>1, <3>2, <4>1
    <3>3. CASE k < n - 1
      <4>1. h[k + 1] = g[k + 1]
        BY <3>3
      <4>. QED
        BY <1>5, <3>1, <3>3, <4>1 DEF Begins
    <3>. QED
      BY <2>2, <3>2, <3>3
  <2>. QED
    BY <2>1, <2>2 DEF Begins
<1>. QED
  BY <1>6, <1>7

\* Together they make the function.
LEMMA Iterated ==
  ASSUME NEW V, NEW a, NEW G, StaysIn(a, G, V)
  PROVE  \E f \in [Nat -> V] : f[0] = a /\ \A n \in Nat : f[n + 1] = G[<<n, f[n]>>]
<1>. DEFINE To(n) == CHOOSE g \in [Nat -> V] : Begins(g, a, G, n)
            f == [n \in Nat |-> To(n)[n]]
<1>1. \A n \in Nat : To(n) \in [Nat -> V] /\ Begins(To(n), a, G, n)
  BY BeginsFar
<1>. HIDE DEF To
<1>2. f \in [Nat -> V]
  BY <1>1
<1>3. f[0] = a
  BY <1>1 DEF Begins
<1>4. ASSUME NEW n \in Nat PROVE f[n + 1] = G[<<n, f[n]>>]
  <2>1. To(n) \in [Nat -> V] /\ Begins(To(n), a, G, n)
    BY <1>1
  <2>2. To(n + 1) \in [Nat -> V] /\ Begins(To(n + 1), a, G, n + 1)
    BY <1>1
  <2>3. Begins(To(n + 1), a, G, n)
    BY <2>2 DEF Begins
  <2>4. To(n + 1)[n] = To(n)[n]
    BY <2>1, <2>2, <2>3, BeginsAlike
  <2>5. To(n + 1)[n + 1] = G[<<n, To(n + 1)[n]>>]
    BY <2>2 DEF Begins
  <2>. QED
    BY <2>4, <2>5
<1>. QED
  BY <1>2, <1>3, <1>4

-----------------------------------------------------------------------------
(* The figures of a workload: powers of two, and the conversion of ticks. *)

\* There is a function of the powers of two.
LEMMA PowersExist ==
  ASSUME NEW F, F = CHOOSE f : f = [n \in Nat |-> IF n = 0 THEN 1 ELSE 2 * f[n - 1]]
  PROVE  F \in [Nat -> Nat] /\ F[0] = 1 /\ \A n \in Nat : F[n + 1] = 2 * F[n]
<1>. DEFINE G == [p \in Nat \X Nat |-> 2 * p[2]]
            Is(f) == f = [n \in Nat |-> IF n = 0 THEN 1 ELSE 2 * f[n - 1]]
<1>1. PICK f \in [Nat -> Nat] : f[0] = 1 /\ \A n \in Nat : f[n + 1] = G[<<n, f[n]>>]
  <2>. DEFINE V == Nat
  <2>1. StaysIn(1, G, V)
    BY DEF StaysIn
  <2>. HIDE DEF G, V
  <2>2. \E f \in [Nat -> V] : f[0] = 1 /\ \A n \in Nat : f[n + 1] = G[<<n, f[n]>>]
    BY <2>1, Iterated
  <2>. QED
    BY <2>2 DEF V
<1>2. \A n \in Nat : f[n + 1] = 2 * f[n]
  BY <1>1
<1>3. Is(f)
  <2>1. ASSUME NEW n \in Nat PROVE f[n] = IF n = 0 THEN 1 ELSE 2 * f[n - 1]
    <3>1. CASE n = 0
      BY <1>1, <3>1
    <3>2. CASE n # 0
      <4>1. n - 1 \in Nat /\ (n - 1) + 1 = n
        BY <3>2
      <4>2. f[(n - 1) + 1] = 2 * f[n - 1]
        BY <1>2, <4>1
      <4>. QED
        BY <3>2, <4>1, <4>2
    <3>. QED
      BY <3>1, <3>2
  <2>. QED
    BY <1>1, <2>1
<1>4. Is(F)
  BY <1>3
<1>5. \A n \in Nat : F[n] = IF n = 0 THEN 1 ELSE 2 * F[n - 1]
  BY <1>4
<1>6. ASSUME NEW o \in Nat, F[o] # f[o] PROVE FALSE
  <2>. DEFINE Bad == {n \in Nat : F[n] # f[n]}
  <2>1. PICK n \in Bad : \A m \in Bad : n <= m
    <3>1. Bad \subseteq Nat /\ o \in Bad
      BY <1>6
    <3>. HIDE DEF Bad
    <3>. QED
      BY <3>1, LeastNumber
  <2>2. n \in Nat /\ F[n] # f[n]
    OBVIOUS
  <2>3. n # 0
    BY <1>1, <1>5, <2>2
  <2>4. n - 1 \in Nat /\ n - 1 < n /\ (n - 1) + 1 = n
    BY <2>2, <2>3
  <2>5. n - 1 \notin Bad
    <3>. HIDE DEF Bad
    <3>. QED
      BY <2>1, <2>2, <2>4
  <2>6. f[n] = 2 * f[n - 1]
    BY <1>2, <2>4
  <2>. QED
    BY <1>5, <2>2, <2>3, <2>4, <2>5, <2>6
<1>7. F = [n \in Nat |-> F[n]]
  BY <1>4
<1>8. F = f
  BY <1>1, <1>6, <1>7
<1>. QED
  BY <1>1, <1>2, <1>8

\* Power is that function.
LEMMA PowerIs ==
  /\ Metrics!Power \in [Nat -> Nat] /\ Metrics!Power[0] = 1
  /\ \A n \in Nat : Metrics!Power[n + 1] = 2 * Metrics!Power[n]
<1>. DEFINE F == Metrics!Power
<1>1. F = CHOOSE f : f = [n \in Nat |-> IF n = 0 THEN 1 ELSE 2 * f[n - 1]]
  BY DEF Metrics!Power
<1>. HIDE DEF F
<1>2. F \in [Nat -> Nat] /\ F[0] = 1 /\ \A n \in Nat : F[n + 1] = 2 * F[n]
  BY <1>1, PowersExist
<1>. QED
  BY <1>2 DEF F

\* Powers of two grow, and so are all positive.
LEMMA PowersGrow ==
  ASSUME NEW k \in Nat
  PROVE  \A n \in Nat : k <= n => Metrics!Power[k] <= Metrics!Power[n] /\ Metrics!Power[n] \in Nat
<1>. DEFINE F == Metrics!Power
<1>1. F \in [Nat -> Nat] /\ \A n \in Nat : F[n + 1] = 2 * F[n]
  BY PowerIs
<1>. HIDE DEF F
<1>2. ASSUME NEW o \in Nat, k <= o, ~(F[k] <= F[o]) PROVE FALSE
  <2>. DEFINE Bad == {n \in Nat : k <= n /\ ~(F[k] <= F[n])}
  <2>1. PICK n \in Bad : \A m \in Bad : n <= m
    <3>1. Bad \subseteq Nat /\ o \in Bad
      BY <1>2
    <3>. HIDE DEF Bad
    <3>. QED
      BY <3>1, LeastNumber
  <2>2. n \in Nat /\ k <= n /\ ~(F[k] <= F[n])
    OBVIOUS
  <2>3. n # k
    BY <1>1, <2>2
  <2>4. n - 1 \in Nat /\ n - 1 < n /\ (n - 1) + 1 = n /\ k <= n - 1
    BY <2>2, <2>3
  <2>5. n - 1 \notin Bad
    <3>. HIDE DEF Bad
    <3>. QED
      BY <2>1, <2>2, <2>4
  <2>6. F[n] = 2 * F[n - 1] /\ F[n - 1] \in Nat /\ F[k] \in Nat
    BY <1>1, <2>4
  <2>7. F[k] <= F[n - 1]
    BY <2>4, <2>5
  <2>. QED
    BY <2>2, <2>6, <2>7
<1>3. \A n \in Nat : F[n] \in Nat
  BY <1>1
<1>. QED
  BY <1>2, <1>3 DEF F

\* The parameters of the figures.
LEMMA MetricParameters ==
  /\ Width \in Nat /\ Width > 0 /\ Second \in Nat /\ Second > 0 /\ Frequency \in Nat /\ Frequency > 0
  /\ MaxTick \in Nat /\ MaxEchoes \in Nat /\ MaxEchoes > 0 /\ MaxSubmissions \in Nat
  /\ Metrics!Limit \in Nat /\ Metrics!Limit = Metrics!Power[Width] /\ Metrics!Limit > 1
  /\ MaxEchoes * Metrics!Exact(MaxTick) < Metrics!Limit
<1>1. Metrics!Parameters
  BY ScenarioParameters
<1>2. /\ Width \in Nat /\ Width > 0 /\ Second \in Nat /\ Second > 0 /\ Frequency \in Nat /\ Frequency > 0
      /\ MaxTick \in Nat /\ MaxEchoes \in Nat /\ MaxEchoes > 0 /\ MaxSubmissions \in Nat
  BY <1>1 DEF Metrics!Parameters
<1>3. MaxEchoes * Metrics!Exact(MaxTick) < Metrics!Limit
  BY <1>1 DEF Metrics!Parameters, Metrics!Exact
<1>4. Metrics!Limit = Metrics!Power[Width]
  BY DEF Metrics!Limit
<1>5. Metrics!Power[1] = 2
  <2>1. Metrics!Power[0 + 1] = 2 * Metrics!Power[0] /\ Metrics!Power[0] = 1
    BY PowerIs
  <2>. QED
    BY <2>1
<1>6. Metrics!Power[1] <= Metrics!Power[Width] /\ Metrics!Power[Width] \in Nat
  <2>1. 1 \in Nat /\ 1 <= Width
    BY <1>2
  <2>. QED
    BY <1>2, <2>1, PowersGrow
<1>. QED
  BY <1>2, <1>3, <1>4, <1>5, <1>6

\* The exact nanoseconds are a number, and grow with the interval.
LEMMA ExactIs ==
  ASSUME NEW t \in Nat
  PROVE  Metrics!Exact(t) \in Nat /\ \A k \in Nat : k <= t => Metrics!Exact(k) <= Metrics!Exact(t)
<1>. DEFINE E(k) == (k * Second) \div Frequency
<1>0. Second \in Nat /\ Frequency \in Nat /\ Frequency > 0
  BY MetricParameters
<1>1. ASSUME NEW k \in Nat
      PROVE  /\ E(k) \in Nat /\ \E m \in 0..Frequency - 1 : k * Second = Frequency * E(k) + m
             /\ k * Second \in Nat
  <2>. DEFINE x == k * Second
              q == x \div Frequency
              m == x % Frequency
  <2>1. x \in Nat
    BY <1>0
  <2>2. x = Frequency * q + m /\ q \in Int /\ m \in 0..Frequency - 1
    <3>. HIDE DEF x
    <3>. QED
      BY <1>0, <2>1
  <2>. HIDE DEF x, q, m
  <2>3. q >= 0
    <3>. SUFFICES ASSUME q <= -1 PROVE FALSE
      BY <2>2
    <3>1. Frequency * q <= -Frequency
      BY <1>0, <2>2
    <3>. QED
      BY <1>0, <2>1, <2>2, <3>1
  <2>4. q \in Nat
    BY <2>2, <2>3
  <2>5. \E r \in 0..Frequency - 1 : x = Frequency * q + r
    BY <2>2
  <2>. QED
    BY <2>1, <2>4, <2>5 DEF x, q
<1>2. ASSUME NEW k \in Nat, k <= t PROVE E(k) <= E(t)
  <2>1. E(k) \in Nat /\ E(t) \in Nat /\ k * Second \in Nat /\ t * Second \in Nat
    BY <1>1
  <2>2. PICK i \in 0..Frequency - 1 : k * Second = Frequency * E(k) + i
    BY <1>1
  <2>3. PICK j \in 0..Frequency - 1 : t * Second = Frequency * E(t) + j
    BY <1>1
  <2>4. k * Second <= t * Second
    BY <1>0, <1>2
  <2>. DEFINE a == E(k)
              c == E(t)
              x == k * Second
              y == t * Second
  <2>5. /\ a \in Nat /\ c \in Nat /\ x \in Nat /\ y \in Nat
        /\ x = Frequency * a + i /\ y = Frequency * c + j /\ x <= y
    BY <2>1, <2>2, <2>3, <2>4
  <2>. HIDE DEF a, c, x, y
  <2>6. ASSUME c + 1 <= a PROVE FALSE
    <3>1. Frequency * (c + 1) <= Frequency * a
      BY <1>0, <2>5, <2>6
    <3>2. Frequency * (c + 1) = Frequency * c + Frequency
      BY <1>0, <2>5
    <3>. QED
      BY <1>0, <2>5, <3>1, <3>2
  <2>7. a <= c
    BY <2>5, <2>6
  <2>. QED
    BY <2>7 DEF a, c
<1>3. Metrics!Exact(t) = E(t) /\ \A k \in Nat : Metrics!Exact(k) = E(k)
  BY DEF Metrics!Exact
<1>. HIDE DEF E
<1>. QED
  BY <1>1, <1>2, <1>3

-----------------------------------------------------------------------------
(* The figures of a workload: no conversion overflows, and the buckets. *)

\* Whole seconds split off or not, the nanoseconds are the same.
LEMMA SplitIsExact ==
  ASSUME NEW t \in Nat
  PROVE  (t \div Frequency) * Second + ((t % Frequency) * Second) \div Frequency = Metrics!Exact(t)
<1>. DEFINE F == Frequency
            q == t \div F
            r == t % F
            x == r * Second
            d == x \div F
            m == x % F
<1>0. Second \in Nat /\ F \in Nat /\ F > 0
  BY MetricParameters
<1>1. t = F * q + r /\ q \in Int /\ r \in 0..F - 1
  <2>. HIDE DEF F
  <2>. QED
    BY <1>0
<1>2. x \in Nat
  <2>. HIDE DEF r
  <2>. QED
    BY <1>0, <1>1
<1>3. x = F * d + m /\ d \in Int /\ m \in 0..F - 1
  <2>. HIDE DEF F, x
  <2>. QED
    BY <1>0, <1>2
<1>4. t * Second = F * (q * Second + d) + m
  <2>1. t * Second = (F * q + r) * Second
    <3>. HIDE DEF F, q, r
    <3>. QED
      BY <1>1
  <2>. HIDE DEF F, q, d, m
  <2>2. (F * q + r) * Second = F * (q * Second) + r * Second
    <3>. HIDE DEF r
    <3>. QED
      BY <1>0, <1>1
  <2>3. F * (q * Second + d) = F * (q * Second) + F * d
    <3>1. q * Second \in Int
      BY <1>0, <1>1
    <3>. DEFINE y == q * Second
    <3>. HIDE DEF y
    <3>2. F * (y + d) = F * y + F * d
      BY <1>0, <1>3, <3>1 DEF y
    <3>. QED
      BY <3>2 DEF y
  <2>4. F * (q * Second) \in Int /\ F * d \in Int
    <3>1. q * Second \in Int
      BY <1>0, <1>1
    <3>. QED
      BY <1>0, <1>3, <3>1
  <2>. DEFINE u == F * (q * Second)
              v == F * d
              w == F * (q * Second + d)
              z == t * Second
  <2>5. z = u + x /\ w = u + v /\ x = v + m /\ u \in Int /\ v \in Int /\ m \in Int
    BY <1>3, <2>1, <2>2, <2>3, <2>4
  <2>. HIDE DEF u, v, w, x, z
  <2>6. z = w + m
    BY <2>5
  <2>. QED
    BY <2>6 DEF w, z
<1>5. (t * Second) \div F = q * Second + d
  <2>1. q * Second + d \in Int
    <3>. HIDE DEF q, d
    <3>. QED
      BY <1>0, <1>1, <1>3
  <2>. DEFINE y == q * Second + d
              z == t * Second
  <2>2. y \in Int /\ z = F * y + m
    BY <1>4, <2>1
  <2>. HIDE DEF y, z, F, m
  <2>3. z \div F = y
    BY <1>0, <1>3, <2>2, Remainder
  <2>. QED
    BY <2>3 DEF y, z
<1>. QED
  BY <1>5 DEF Metrics!Exact

\* No interval of the clock is too long for a number.
LEMMA ConversionIsExact ==
  ASSUME NEW t \in 0..MaxTick
  PROVE  /\ Metrics!TicksToNanoseconds(t) = Metrics!Exact(t)
         /\ Metrics!Exact(t) \in 0..Metrics!Limit - 1
<1>. DEFINE e == Metrics!Exact(t)
            h == Metrics!Exact(MaxTick)
            L == Metrics!Limit
<1>1. MaxTick \in Nat /\ MaxEchoes \in Nat /\ MaxEchoes > 0 /\ L \in Nat /\ L > 1 /\ MaxEchoes * h < L
  BY MetricParameters
<1>2. e \in Nat /\ h \in Nat /\ e <= h
  BY <1>1, ExactIs
<1>. HIDE DEF e, h, L
<1>3. h <= MaxEchoes * h
  BY <1>1, <1>2
<1>4. e \in 0..L - 1
  <2>1. MaxEchoes * h \in Nat
    BY <1>1, <1>2
  <2>. QED
    BY <1>1, <1>2, <1>3, <2>1
<1>5. Metrics!TicksToNanoseconds(t) = e % L
  <2>1. Metrics!TicksToNanoseconds(t)
          = ((t \div Frequency) * Second + ((t % Frequency) * Second) \div Frequency) % L
    BY DEF Metrics!TicksToNanoseconds, L
  <2>2. (t \div Frequency) * Second + ((t % Frequency) * Second) \div Frequency = e
    <3>1. t \in Nat
      BY <1>1
    <3>. QED
      BY <3>1, SplitIsExact DEF e
  <2>. QED
    BY <2>1, <2>2
<1>6. e % L = e
  BY <1>1, <1>4
<1>. QED
  BY <1>4, <1>5, <1>6 DEF e, L

\* The bucket of an interval, by powers of two.
LEMMA BucketIs ==
  ASSUME NEW x \in 0..Metrics!Limit - 1, NEW b, b = Metrics!RttBucket(x)
  PROVE  /\ b \in 0..Width - 1 /\ x < Metrics!Power[b + 1]
         /\ b = 0 \/ Metrics!Power[b] <= x
         /\ x > 0 => Metrics!Power[b] <= x
<1>. DEFINE P == Metrics!Power
<1>0. /\ P \in [Nat -> Nat] /\ P[0] = 1 /\ \A n \in Nat : P[n + 1] = 2 * P[n]
      /\ Width \in Nat /\ Width > 0 /\ Metrics!Limit = P[Width] /\ P[Width] \in Nat
  BY PowerIs, MetricParameters
<1>1. x \in Nat /\ x < P[Width]
  BY <1>0
<1>2. CASE x = 0
  <2>1. b = 0
    BY <1>2 DEF Metrics!RttBucket
  <2>2. P[0 + 1] = 2
    BY <1>0
  <2>. HIDE DEF P
  <2>3. 0 < P[b + 1]
    BY <2>1, <2>2
  <2>. QED
    BY <1>0, <1>2, <2>1, <2>3 DEF P
<1>3. CASE x > 0
  <2>. DEFINE T == {n \in Nat : x < P[n]}
  <2>1. PICK n \in T : \A m \in T : n <= m
    <3>1. T \subseteq Nat /\ Width \in T
      BY <1>0, <1>1
    <3>. HIDE DEF T
    <3>. QED
      BY <3>1, LeastNumber
  <2>2. n \in Nat /\ x < P[n] /\ n <= Width
    <3>1. Width \in T
      BY <1>0, <1>1
    <3>. HIDE DEF P
    <3>. QED
      BY <2>1, <3>1
  <2>. HIDE DEF P
  <2>3. n # 0
    BY <1>0, <1>1, <1>3, <2>2
  <2>4. n - 1 \in Nat /\ n - 1 < n /\ (n - 1) + 1 = n /\ n - 1 \in 0..Width - 1
    BY <1>0, <2>2, <2>3
  <2>5. n - 1 \notin T
    <3>. HIDE DEF T
    <3>. QED
      BY <2>1, <2>2, <2>4
  <2>6. P[n - 1] <= x /\ x < P[(n - 1) + 1] /\ P[n - 1] \in Nat /\ P[(n - 1) + 1] \in Nat
    BY <1>0, <1>1, <2>2, <2>4, <2>5
  <2>7. b = CHOOSE c \in 0..Width - 1 : x \in P[c]..P[c + 1] - 1
    BY <1>3 DEF Metrics!RttBucket, Metrics!Bucket, P
  <2>8. \E c \in 0..Width - 1 : x \in P[c]..P[c + 1] - 1
    BY <1>1, <2>4, <2>6
  <2>9. b \in 0..Width - 1 /\ x \in P[b]..P[b + 1] - 1
    BY <2>7, <2>8
  <2>10. P[b] \in Nat /\ P[b + 1] \in Nat
    BY <1>0, <2>9
  <2>11. P[b] <= x /\ x < P[b + 1]
    BY <1>1, <2>9, <2>10
  <2>. QED
    BY <2>9, <2>11 DEF P
<1>. QED
  BY <1>1, <1>2, <1>3

\* A longer interval is in no lower bucket.
LEMMA BucketsGrow ==
  ASSUME NEW x \in 0..Metrics!Limit - 1, NEW y \in 0..Metrics!Limit - 1, x <= y
  PROVE  Metrics!RttBucket(x) <= Metrics!RttBucket(y)
<1>. DEFINE P == Metrics!Power
            a == Metrics!RttBucket(x)
            b == Metrics!RttBucket(y)
<1>0. Width \in Nat /\ Metrics!Limit \in Nat
  BY MetricParameters
<1>1. /\ a \in 0..Width - 1 /\ (a = 0 \/ P[a] <= x)
      /\ b \in 0..Width - 1 /\ y < P[b + 1]
  BY BucketIs
<1>. HIDE DEF P, a, b
<1>2. ASSUME b < a PROVE FALSE
  <2>1. b + 1 \in Nat /\ a \in Nat /\ b + 1 <= a
    BY <1>0, <1>1, <1>2
  <2>2. P[b + 1] <= P[a] /\ P[a] \in Nat
    BY <2>1, PowersGrow DEF P
  <2>3. P[b + 1] \in Nat
    BY <2>1, PowerIs DEF P
  <2>4. P[a] <= x
    BY <1>1, <2>1
  <2>. QED
    BY <1>0, <1>1, <2>2, <2>3, <2>4
<1>3. a <= b
  BY <1>0, <1>1, <1>2
<1>. QED
  BY <1>3 DEF a, b

-----------------------------------------------------------------------------
(* The figures of a workload: what an echo adds to them. *)

\* A step of the figures or none.
MetricStepped == Metrics!Next \/ UNCHANGED metricVars

\* What their variables hold.
MetricTypes ==
  /\ now \in 0..MaxTick /\ submitted \in 0..MaxSubmissions /\ echoes \in 0..MaxEchoes
  /\ rtt_min \in 0..Metrics!Limit - 1 /\ rtt_max \in 0..Metrics!Limit - 1
  /\ rtt_total \in 0..Metrics!Limit - 1
  /\ histogram \in [0..Width - 1 -> 0..MaxEchoes]
  /\ first_tick \in Nat /\ last_tick \in Nat /\ first_tick <= last_tick /\ last_tick <= now

\* The round trips: one per echo, each within the clock.
MetricTrips ==
  /\ trips \in Seq(0..MaxTick) /\ Len(trips) = echoes

\* Smallest, largest and sum are those of the round trips.
MetricFigures ==
  /\ echoes = 0 => rtt_min = 0 /\ rtt_max = 0
  /\ echoes > 0 => /\ \E i \in 1..echoes : rtt_min = Metrics!Exact(trips[i])
                   /\ \E i \in 1..echoes : rtt_max = Metrics!Exact(trips[i])
  /\ \A i \in 1..echoes : rtt_min <= Metrics!Exact(trips[i]) /\ Metrics!Exact(trips[i]) <= rtt_max
  /\ echoes * rtt_min <= rtt_total /\ rtt_total <= echoes * rtt_max

\* The round trips of a bucket.
TripsOf(b) == {i \in 1..echoes : Metrics!RttBucket(Metrics!Exact(trips[i])) = b}

\* The histogram counts the round trips of each bucket.
MetricBuckets == \A b \in 0..Width - 1 : histogram[b] = Cardinality(TripsOf(b))

\* The invariant of the figures.
MetricsHold == MetricTypes /\ MetricTrips /\ MetricFigures /\ MetricBuckets

\* The types imply the type invariant of the module.
LEMMA MetricsTyped == MetricsHold => Metrics!TypeOK
<1>1. Metrics!Bucket = 0..Width - 1
  BY DEF Metrics!Bucket
<1>. QED
  BY <1>1 DEF MetricsHold, MetricTypes, Metrics!TypeOK

\* The figures are right at the start.
LEMMA MetricInit == Metrics!Init => MetricsHold
<1>. SUFFICES ASSUME Metrics!Init PROVE MetricsHold
  OBVIOUS
<1>1. /\ now = 0 /\ submitted = 0 /\ first_tick = 0 /\ last_tick = 0 /\ echoes = 0
      /\ rtt_min = 0 /\ rtt_max = 0 /\ rtt_total = 0
      /\ histogram = [b \in 0..Width - 1 |-> 0] /\ trips = <<>>
  BY DEF Metrics!Init, Metrics!Bucket
<1>2. MetricTypes
  <2>1. 0 \in 0..MaxTick /\ 0 \in 0..MaxSubmissions /\ 0 \in 0..MaxEchoes /\ 0 \in 0..Metrics!Limit - 1
    BY MetricParameters
  <2>. QED
    BY <1>1, <2>1 DEF MetricTypes
<1>3. MetricTrips
  BY <1>1 DEF MetricTrips
<1>4. MetricFigures
  BY <1>1 DEF MetricFigures
<1>5. MetricBuckets
  <2>1. \A b : TripsOf(b) = {}
    BY <1>1 DEF TripsOf
  <2>. QED
    BY <1>1, <2>1, FS_EmptySet DEF MetricBuckets
<1>. QED
  BY <1>2, <1>3, <1>4, <1>5 DEF MetricsHold

\* The clock and the submissions leave the round trips alone.
LEMMA MetricTick ==
  ASSUME MetricsHold, Metrics!Tick \/ Metrics!RecordSubmission \/ UNCHANGED metricVars
  PROVE  MetricsHold'
<1>1. UNCHANGED <<echoes, rtt_min, rtt_max, rtt_total, histogram, trips>>
  BY DEF Metrics!Tick, Metrics!RecordSubmission, metricVars, Metrics!echoes
<1>2. MetricTrips' /\ MetricFigures'
  BY <1>1 DEF MetricsHold, MetricTrips, MetricFigures
<1>3. MetricBuckets'
  BY <1>1 DEF MetricsHold, MetricBuckets, TripsOf
<1>4. MetricTypes'
  <2>1. CASE Metrics!Tick
    BY <1>1, <2>1, MetricParameters DEF MetricsHold, MetricTypes, Metrics!Tick, Metrics!submissions
  <2>2. CASE Metrics!RecordSubmission
    BY <1>1, <2>2, MetricParameters
    DEF MetricsHold, MetricTypes, Metrics!RecordSubmission, Metrics!Submission
  <2>3. CASE UNCHANGED metricVars
    BY <1>1, <2>3 DEF MetricsHold, MetricTypes, metricVars
  <2>. QED
    BY <2>1, <2>2, <2>3
<1>. QED
  BY <1>2, <1>3, <1>4 DEF MetricsHold

\* An echo that is recorded: its round trip x, its nanoseconds e.
Recorded(x, e) ==
  /\ x \in 0..MaxTick /\ e = Metrics!Exact(x) /\ e \in 0..Metrics!Limit - 1
  /\ echoes < MaxEchoes /\ echoes' = echoes + 1
  /\ rtt_min' = IF echoes = 0 \/ e < rtt_min THEN e ELSE rtt_min
  /\ rtt_max' = IF e > rtt_max THEN e ELSE rtt_max
  /\ rtt_total' = (rtt_total + e) % Metrics!Limit
  /\ histogram' = [histogram EXCEPT ![Metrics!RttBucket(e)] = @ + 1]
  /\ trips' = Append(trips, x)
  /\ UNCHANGED <<now, submitted, first_tick, last_tick>>

\* RecordEcho records an echo so.
LEMMA EchoRecorded ==
  ASSUME MetricsHold, Metrics!RecordEcho
  PROVE  \E x, e : Recorded(x, e)
<1>1. PICK start \in 0..now :
        LET elapsed == Metrics!TicksToNanoseconds(now - start) IN
        /\ echoes < MaxEchoes /\ echoes' = echoes + 1
        /\ rtt_min' = IF echoes = 0 \/ elapsed < rtt_min THEN elapsed ELSE rtt_min
        /\ rtt_max' = IF elapsed > rtt_max THEN elapsed ELSE rtt_max
        /\ rtt_total' = (rtt_total + elapsed) % Metrics!Limit
        /\ histogram' = [histogram EXCEPT ![Metrics!RttBucket(elapsed)] = @ + 1]
        /\ trips' = Append(trips, now - start)
        /\ UNCHANGED <<now, submitted, first_tick, last_tick>>
  BY DEF Metrics!RecordEcho, Metrics!submissions
<1>2. now - start \in 0..MaxTick
  BY MetricParameters DEF MetricsHold, MetricTypes
<1>3. /\ Metrics!TicksToNanoseconds(now - start) = Metrics!Exact(now - start)
      /\ Metrics!Exact(now - start) \in 0..Metrics!Limit - 1
  BY <1>2, ConversionIsExact
<1>4. Recorded(now - start, Metrics!Exact(now - start))
  BY <1>1, <1>2, <1>3 DEF Recorded
<1>. QED
  BY <1>4

\* The round trips stay one per echo.
LEMMA RecordedTrips ==
  ASSUME MetricsHold, NEW x, NEW e, Recorded(x, e)
  PROVE  /\ MetricTrips'
         /\ \A i \in 1..echoes : trips'[i] = trips[i] /\ trips[i] \in 0..MaxTick
         /\ trips'[echoes + 1] = x
         /\ echoes \in Nat /\ echoes' = echoes + 1
<1>1. trips \in Seq(0..MaxTick) /\ Len(trips) = echoes /\ x \in 0..MaxTick /\ trips' = Append(trips, x)
      /\ echoes' = echoes + 1
  BY DEF MetricsHold, MetricTrips, Recorded
<1>. DEFINE T == 0..MaxTick
<1>2. trips \in Seq(T) /\ x \in T
  BY <1>1
<1>. HIDE DEF T
<1>3. /\ Append(trips, x) \in Seq(T) /\ Len(Append(trips, x)) = Len(trips) + 1
      /\ \A i \in 1..Len(trips) : Append(trips, x)[i] = trips[i]
      /\ Append(trips, x)[Len(trips) + 1] = x
  BY <1>2, AppendProperties
<1>4. \A i \in 1..Len(trips) : trips[i] \in T
  BY <1>2
<1>5. Len(trips) \in Nat
  BY <1>2
<1>. QED
  BY <1>1, <1>3, <1>4, <1>5 DEF T, MetricTrips

\* Products grow with their factors.
LEMMA TimesGrows ==
  ASSUME NEW k \in Nat, NEW a \in Nat, NEW b \in Nat, a <= b
  PROVE  k * a <= k * b /\ k * a \in Nat /\ k * b \in Nat /\ (k + 1) * a = k * a + a /\ (k + 1) * b = k * b + b
  OBVIOUS

\* Once more.
LEMMA TimesNext ==
  ASSUME NEW k \in Nat, NEW a \in Nat
  PROVE  (k + 1) * a = k * a + a /\ k * a \in Nat /\ (k = 0 => k * a = 0)
  OBVIOUS

\* Products grow with the number of times.
LEMMA TimesMore ==
  ASSUME NEW k \in Nat, NEW n \in Nat, NEW b \in Nat, k <= n
  PROVE  k * b <= n * b /\ k * b \in Nat /\ n * b \in Nat
  OBVIOUS

\* Smallest, largest and sum stay those of the round trips, within a number.
LEMMA RecordedFigures ==
  ASSUME MetricsHold, NEW x, NEW e, Recorded(x, e)
  PROVE  /\ MetricFigures' /\ rtt_min' \in 0..Metrics!Limit - 1 /\ rtt_max' \in 0..Metrics!Limit - 1
         /\ rtt_total' \in 0..Metrics!Limit - 1
<1>. DEFINE L == Metrics!Limit
            H == Metrics!Exact(MaxTick)
            E(i) == Metrics!Exact(trips[i])
            EE(i) == Metrics!Exact(trips'[i])
<1>0. /\ L \in Nat /\ L > 1 /\ MaxEchoes \in Nat /\ MaxTick \in Nat /\ MaxEchoes * H < L /\ H \in Nat
      /\ \A k \in 0..MaxTick : Metrics!Exact(k) \in Nat /\ Metrics!Exact(k) <= H
  BY MetricParameters, ExactIs
<1>1. /\ echoes \in Nat /\ echoes' = echoes + 1 /\ echoes + 1 <= MaxEchoes
      /\ \A i \in 1..echoes : trips'[i] = trips[i] /\ trips[i] \in 0..MaxTick
      /\ trips'[echoes + 1] = x /\ x \in 0..MaxTick
  <2>1. /\ echoes \in Nat /\ echoes' = echoes + 1 /\ trips'[echoes + 1] = x
        /\ \A i \in 1..echoes : trips'[i] = trips[i] /\ trips[i] \in 0..MaxTick
    BY RecordedTrips
  <2>2. echoes < MaxEchoes /\ x \in 0..MaxTick
    BY DEF Recorded
  <2>. QED
    BY <1>0, <2>1, <2>2
<1>2. /\ e \in 0..L - 1 /\ e = Metrics!Exact(x) /\ e \in Nat /\ e <= H
      /\ rtt_min \in 0..L - 1 /\ rtt_max \in 0..L - 1 /\ rtt_total \in 0..L - 1
      /\ rtt_min' = (IF echoes = 0 \/ e < rtt_min THEN e ELSE rtt_min)
      /\ rtt_max' = (IF e > rtt_max THEN e ELSE rtt_max)
      /\ rtt_total' = (rtt_total + e) % L
  BY <1>0, <1>1 DEF Recorded, MetricsHold, MetricTypes
<1>3. /\ echoes = 0 => rtt_min = 0 /\ rtt_max = 0
      /\ echoes > 0 => /\ \E i \in 1..echoes : rtt_min = E(i)
                       /\ \E i \in 1..echoes : rtt_max = E(i)
      /\ \A i \in 1..echoes : rtt_min <= E(i) /\ E(i) <= rtt_max
      /\ echoes * rtt_min <= rtt_total /\ rtt_total <= echoes * rtt_max
  BY DEF MetricsHold, MetricFigures
<1>4. /\ \A i \in 1..echoes : E(i) \in Nat /\ E(i) <= H /\ EE(i) = E(i)
      /\ EE(echoes + 1) = e
  BY <1>0, <1>1, <1>2
<1>. HIDE DEF L, H, E, EE
<1>5. rtt_min \in Nat /\ rtt_max \in Nat /\ rtt_total \in Nat /\ rtt_max <= H
  BY <1>0, <1>1, <1>2, <1>3, <1>4
<1>6. /\ rtt_min' \in Nat /\ rtt_max' \in Nat /\ rtt_max' <= H /\ rtt_min' <= e /\ e <= rtt_max'
      /\ rtt_max <= rtt_max' /\ (echoes > 0 => rtt_min' <= rtt_min)
      /\ rtt_min' \in 0..L - 1 /\ rtt_max' \in 0..L - 1
  BY <1>0, <1>2, <1>5
<1>7. rtt_total + e <= (echoes + 1) * rtt_max'
  <2>1. /\ echoes * rtt_max <= echoes * rtt_max' /\ echoes * rtt_max \in Nat /\ echoes * rtt_max' \in Nat
        /\ (echoes + 1) * rtt_max' = echoes * rtt_max' + rtt_max'
    BY <1>1, <1>5, <1>6, TimesGrows
  <2>. QED
    BY <1>2, <1>3, <1>5, <1>6, <2>1
<1>8. (echoes + 1) * rtt_min' <= rtt_total + e
  <2>1. /\ (echoes + 1) * rtt_min' = echoes * rtt_min' + rtt_min' /\ echoes * rtt_min' \in Nat
        /\ (echoes = 0 => echoes * rtt_min' = 0)
    BY <1>1, <1>6, TimesNext
  <2>2. CASE echoes = 0
    <3>1. echoes * rtt_min' = 0
      BY <2>1, <2>2
    <3>. QED
      BY <1>2, <1>5, <1>6, <2>1, <3>1
  <2>3. CASE echoes > 0
    <3>1. echoes * rtt_min' <= echoes * rtt_min /\ echoes * rtt_min \in Nat
      BY <1>1, <1>5, <1>6, <2>3, TimesGrows
    <3>. QED
      BY <1>2, <1>3, <1>5, <1>6, <2>1, <3>1
  <2>. QED
    BY <1>1, <2>2, <2>3
<1>9. rtt_total + e < L
  <2>0. echoes + 1 \in Nat
    BY <1>1
  <2>1. /\ (echoes + 1) * rtt_max' <= (echoes + 1) * H
        /\ (echoes + 1) * rtt_max' \in Nat /\ (echoes + 1) * H \in Nat
    BY <1>0, <1>6, <2>0, TimesGrows
  <2>2. (echoes + 1) * H <= MaxEchoes * H /\ MaxEchoes * H \in Nat
    BY <1>0, <1>1, <2>0, TimesMore
  <2>. QED
    BY <1>0, <1>2, <1>5, <1>7, <2>1, <2>2
<1>10. rtt_total' = rtt_total + e /\ rtt_total' \in 0..L - 1
  BY <1>0, <1>2, <1>5, <1>9
<1>11. \A i \in 1..echoes + 1 : rtt_min' <= EE(i) /\ EE(i) <= rtt_max'
  <2>. TAKE i \in 1..echoes + 1
  <2>1. CASE i = echoes + 1
    BY <1>4, <1>6, <2>1
  <2>2. CASE i \in 1..echoes
    <3>1. E(i) \in Nat /\ EE(i) = E(i) /\ rtt_min <= E(i) /\ E(i) <= rtt_max /\ echoes > 0
      BY <1>1, <1>3, <1>4, <2>2
    <3>. QED
      BY <1>5, <1>6, <3>1
  <2>. QED
    BY <1>1, <2>1, <2>2
<1>12. \E i \in 1..echoes + 1 : rtt_min' = EE(i)
  <2>1. CASE rtt_min' = e
    <3>1. echoes + 1 \in 1..echoes + 1 /\ rtt_min' = EE(echoes + 1)
      BY <1>1, <1>4, <2>1
    <3>. QED
      BY <3>1
  <2>2. CASE rtt_min' # e
    <3>1. echoes > 0 /\ rtt_min' = rtt_min
      BY <1>1, <1>2, <2>2
    <3>2. PICK i \in 1..echoes : rtt_min = E(i)
      BY <1>3, <3>1
    <3>3. i \in 1..echoes + 1 /\ EE(i) = E(i)
      BY <1>1, <1>4
    <3>. QED
      BY <3>1, <3>2, <3>3
  <2>. QED
    BY <2>1, <2>2
<1>13. \E i \in 1..echoes + 1 : rtt_max' = EE(i)
  <2>1. CASE rtt_max' = e
    <3>1. echoes + 1 \in 1..echoes + 1 /\ rtt_max' = EE(echoes + 1)
      BY <1>1, <1>4, <2>1
    <3>. QED
      BY <3>1
  <2>2. CASE rtt_max' # e
    <3>1. echoes > 0 /\ rtt_max' = rtt_max
      BY <1>1, <1>2, <1>3, <1>5, <2>2
    <3>2. PICK i \in 1..echoes : rtt_max = E(i)
      BY <1>3, <3>1
    <3>3. i \in 1..echoes + 1 /\ EE(i) = E(i)
      BY <1>1, <1>4
    <3>. QED
      BY <3>1, <3>2, <3>3
  <2>. QED
    BY <2>1, <2>2
<1>14. echoes' > 0 /\ echoes' # 0 /\ echoes' = echoes + 1
  BY <1>1
<1>15. MetricFigures'
  BY <1>7, <1>8, <1>10, <1>11, <1>12, <1>13, <1>14 DEF MetricFigures, E, EE
<1>. QED
  BY <1>6, <1>10, <1>15 DEF L

-----------------------------------------------------------------------------
(* The figures of a workload: how many round trips a bucket holds. *)

\* The round trips are finitely many.
LEMMA TripsFinite ==
  ASSUME echoes \in Nat, NEW T, T \subseteq 1..echoes
  PROVE  IsFiniteSet(T) /\ Cardinality(T) \in Nat /\ Cardinality(T) <= echoes
<1>1. IsFiniteSet(1..echoes) /\ Cardinality(1..echoes) = echoes
  BY FS_Interval
<1>2. IsFiniteSet(T) /\ Cardinality(T) <= Cardinality(1..echoes)
  BY <1>1, FS_Subset
<1>. QED
  BY <1>1, <1>2, FS_CardinalityType

\* The bucket of the new round trip counts one more, the others what they did.
LEMMA RecordedBuckets ==
  ASSUME MetricsHold, NEW x, NEW e, Recorded(x, e)
  PROVE  MetricBuckets' /\ histogram' \in [0..Width - 1 -> 0..MaxEchoes]
<1>. DEFINE B(i) == Metrics!RttBucket(Metrics!Exact(trips[i]))
            BB(i) == Metrics!RttBucket(Metrics!Exact(trips'[i]))
            c == Metrics!RttBucket(e)
            n == echoes
<1>1. /\ n \in Nat /\ \A i \in 1..n : BB(i) = B(i)
      /\ BB(n + 1) = c
  <2>1. /\ n \in Nat /\ trips'[n + 1] = x /\ \A i \in 1..n : trips'[i] = trips[i]
    BY RecordedTrips
  <2>2. Metrics!Exact(x) = e
    BY DEF Recorded
  <2>. QED
    BY <2>1, <2>2
<1>2. /\ histogram' = [histogram EXCEPT ![c] = @ + 1] /\ n < MaxEchoes /\ echoes' = n + 1
      /\ histogram \in [0..Width - 1 -> 0..MaxEchoes] /\ e \in 0..Metrics!Limit - 1
  BY DEF Recorded, MetricsHold, MetricTypes
<1>3. c \in 0..Width - 1
  BY <1>2, BucketIs
<1>4. MaxEchoes \in Nat
  BY MetricParameters
<1>. HIDE DEF B, BB, c
<1>5. ASSUME NEW b \in 0..Width - 1
      PROVE  histogram'[b] = Cardinality({i \in 1..n + 1 : BB(i) = b}) /\ histogram'[b] \in 0..MaxEchoes
  <2>. DEFINE S == {i \in 1..n : B(i) = b}
              SS == {i \in 1..n + 1 : BB(i) = b}
  <2>1. histogram[b] = Cardinality(S)
    BY DEF MetricsHold, MetricBuckets, TripsOf, B
  <2>2. IsFiniteSet(S) /\ Cardinality(S) \in Nat /\ Cardinality(S) <= n
    <3>1. S \subseteq 1..n
      OBVIOUS
    <3>. HIDE DEF S
    <3>. QED
      BY <1>1, <3>1, TripsFinite
  <2>3. CASE b = c
    <3>1. SS = S \cup {n + 1} /\ n + 1 \notin S
      BY <1>1, <2>3
    <3>. HIDE DEF S, SS
    <3>2. Cardinality(SS) = Cardinality(S) + 1
      BY <2>2, <3>1, FS_AddElement
    <3>3. histogram'[b] = histogram[b] + 1
      BY <1>2, <1>3, <2>3
    <3>4. histogram'[b] = Cardinality(SS) /\ histogram'[b] \in 0..MaxEchoes
      BY <1>1, <1>2, <1>4, <2>1, <2>2, <3>2, <3>3
    <3>. QED
      BY <3>4 DEF SS
  <2>4. CASE b # c
    <3>1. SS = S
      BY <1>1, <2>4
    <3>2. histogram'[b] = histogram[b]
      BY <1>2, <2>4
    <3>. QED
      BY <1>2, <2>1, <3>1, <3>2
  <2>. QED
    BY <2>3, <2>4
<1>6. \A b \in 0..Width - 1 : TripsOf(b)' = {i \in 1..n + 1 : BB(i) = b}
  BY <1>2 DEF TripsOf, BB
<1>7. MetricBuckets'
  BY <1>5, <1>6 DEF MetricBuckets
<1>8. histogram' = [b \in 0..Width - 1 |-> histogram'[b]]
  BY <1>2
<1>. QED
  BY <1>5, <1>7, <1>8

\* Every step keeps the figures right.
LEMMA MetricsHoldNext == ASSUME MetricsHold, MetricStepped PROVE MetricsHold'
<1>1. CASE Metrics!RecordEcho
  <2>1. PICK x, e : Recorded(x, e)
    BY <1>1, EchoRecorded
  <2>2. MetricTrips'
    BY <2>1, RecordedTrips
  <2>3. /\ MetricFigures' /\ rtt_min' \in 0..Metrics!Limit - 1 /\ rtt_max' \in 0..Metrics!Limit - 1
        /\ rtt_total' \in 0..Metrics!Limit - 1
    BY <2>1, RecordedFigures
  <2>4. MetricBuckets' /\ histogram' \in [0..Width - 1 -> 0..MaxEchoes]
    BY <2>1, RecordedBuckets
  <2>5. echoes < MaxEchoes /\ echoes' = echoes + 1 /\ UNCHANGED <<now, submitted, first_tick, last_tick>>
    BY <2>1 DEF Recorded
  <2>6. echoes' \in 0..MaxEchoes
    BY <2>5, MetricParameters DEF MetricsHold, MetricTypes
  <2>7. MetricTypes'
    BY <2>3, <2>4, <2>5, <2>6 DEF MetricsHold, MetricTypes
  <2>. QED
    BY <2>2, <2>3, <2>4, <2>7 DEF MetricsHold
<1>. QED
  BY <1>1, MetricTick DEF MetricStepped, Metrics!Next

-----------------------------------------------------------------------------
(* The figures of a workload: they are those of the round trips. *)

\* A finite set of numbers has a largest one.
LEMMA LargestNumber ==
  ASSUME NEW K \in Nat, NEW T, T \subseteq 0..K, T # {}
  PROVE  \E n \in T : \A m \in T : m <= n
<1>. DEFINE S == {K - m : m \in T}
<1>1. S \subseteq Nat /\ S # {}
  <2>1. PICK t \in T : TRUE
    OBVIOUS
  <2>2. K - t \in S
    OBVIOUS
  <2>3. \A m \in T : K - m \in Nat
    OBVIOUS
  <2>. QED
    BY <2>2, <2>3
<1>2. PICK s \in S : \A r \in S : s <= r
  <2>. HIDE DEF S
  <2>. QED
    BY <1>1, LeastNumber
<1>3. PICK n \in T : s = K - n
  OBVIOUS
<1>4. ASSUME NEW m \in T PROVE m <= n
  <2>1. K - m \in S
    OBVIOUS
  <2>2. s <= K - m /\ m \in Nat /\ n \in Nat /\ s = K - n
    <3>. HIDE DEF S
    <3>. QED
      BY <1>2, <1>3, <2>1
  <2>. QED
    BY <2>2
<1>. QED
  BY <1>4

\* Min and Max pick the element that is one.
LEMMA MinIs ==
  ASSUME NEW S, S \subseteq Nat, NEW n \in S, \A m \in S : n <= m
  PROVE  Metrics!Min(S) = n
<1>1. Metrics!Min(S) = CHOOSE x \in S : \A y \in S : x =< y
  BY DEF Metrics!Min
<1>2. Metrics!Min(S) \in S /\ \A y \in S : Metrics!Min(S) <= y
  BY <1>1
<1>3. Metrics!Min(S) \in Nat /\ n \in Nat /\ Metrics!Min(S) <= n /\ n <= Metrics!Min(S)
  BY <1>2
<1>. QED
  BY <1>3

\* And so does Max.
LEMMA MaxIs ==
  ASSUME NEW S, S \subseteq Nat, NEW n \in S, \A m \in S : m <= n
  PROVE  Metrics!Max(S) = n
<1>1. Metrics!Max(S) = CHOOSE x \in S : \A y \in S : x >= y
  BY DEF Metrics!Max
<1>2. Metrics!Max(S) \in S /\ \A y \in S : Metrics!Max(S) >= y
  BY <1>1
<1>3. Metrics!Max(S) \in Nat /\ n \in Nat /\ Metrics!Max(S) >= n /\ n >= Metrics!Max(S)
  BY <1>2
<1>. QED
  BY <1>3

\* A quotient is between the bounds of the sum.
LEMMA MeanBetween ==
  ASSUME NEW k \in Nat, k > 0, NEW a \in Nat, NEW b \in Nat, NEW s \in Nat, k * a <= s, s <= k * b
  PROVE  a <= s \div k /\ s \div k <= b
<1>. DEFINE q == s \div k
            r == s % k
<1>1. s = k * q + r /\ q \in Int /\ r \in 0..k - 1
  OBVIOUS
<1>. HIDE DEF q, r
<1>2. ASSUME q + 1 <= a PROVE FALSE
  <2>1. k * (q + 1) <= k * a /\ k * (q + 1) = k * q + k
    BY <1>1, <1>2
  <2>. QED
    BY <1>1, <2>1
<1>3. ASSUME b + 1 <= q PROVE FALSE
  <2>1. k * (b + 1) <= k * q /\ k * (b + 1) = k * b + k
    BY <1>1, <1>3
  <2>. QED
    BY <1>1, <2>1
<1>. QED
  BY <1>1, <1>2, <1>3 DEF q

\* The nanoseconds of the round trips.
LEMMA TripsAre ==
  ASSUME MetricsHold
  PROVE  /\ echoes \in Nat /\ DOMAIN trips = 1..echoes /\ Len(trips) = echoes
         /\ \A i \in 1..echoes : /\ trips[i] \in 0..MaxTick
                                 /\ Metrics!Exact(trips[i]) \in 0..Metrics!Limit - 1
         /\ Metrics!Trips = {Metrics!Exact(trips[i]) : i \in 1..echoes}
         /\ Metrics!Trips \subseteq Nat /\ Metrics!Trips \subseteq 0..Metrics!Limit - 1
<1>1. trips \in Seq(0..MaxTick) /\ Len(trips) = echoes /\ echoes \in Nat
  BY MetricParameters DEF MetricsHold, MetricTrips, MetricTypes
<1>2. DOMAIN trips = 1..echoes /\ \A i \in 1..echoes : trips[i] \in 0..MaxTick
  <2>. DEFINE S == 0..MaxTick
  <2>1. trips \in Seq(S)
    BY <1>1
  <2>. HIDE DEF S
  <2>2. DOMAIN trips = 1..Len(trips) /\ \A i \in 1..Len(trips) : trips[i] \in S
    BY <2>1
  <2>. QED
    BY <1>1, <2>2 DEF S
<1>3. \A i \in 1..echoes : Metrics!Exact(trips[i]) \in 0..Metrics!Limit - 1
  BY <1>2, ConversionIsExact
<1>4. Metrics!Trips = {Metrics!Exact(trips[i]) : i \in 1..echoes}
  BY <1>2 DEF Metrics!Trips
<1>5. Metrics!Trips \subseteq 0..Metrics!Limit - 1
  BY <1>3, <1>4
<1>6. Metrics!Trips \subseteq Nat
  BY <1>5, MetricParameters
<1>. QED
  BY <1>1, <1>2, <1>3, <1>4, <1>5, <1>6

\* The figures that are shown are those of the round trips.
LEMMA FiguresAreExact == MetricsHold => Metrics!FiguresExact
<1>. SUFFICES ASSUME MetricsHold PROVE Metrics!FiguresExact
  OBVIOUS
<1>1. ASSUME submitted >= 2 PROVE Metrics!SubmissionElapsed = Metrics!Exact(last_tick - first_tick)
  <2>1. last_tick - first_tick \in 0..MaxTick /\ submitted \in Nat
    BY MetricParameters DEF MetricsHold, MetricTypes
  <2>2. ~(submitted < 2)
    BY <1>1, <2>1
  <2>3. Metrics!TicksToNanoseconds(last_tick - first_tick) = Metrics!Exact(last_tick - first_tick)
    BY <2>1, ConversionIsExact
  <2>. QED
    BY <2>2, <2>3 DEF Metrics!SubmissionElapsed
<1>2. ASSUME echoes > 0
      PROVE  /\ rtt_min = Metrics!Min(Metrics!Trips) /\ rtt_max = Metrics!Max(Metrics!Trips)
             /\ rtt_min <= Metrics!RttMean /\ Metrics!RttMean <= rtt_max
  <2>. DEFINE T == Metrics!Trips
  <2>1. T = {Metrics!Exact(trips[i]) : i \in 1..echoes} /\ T \subseteq Nat /\ echoes \in Nat
    BY TripsAre
  <2>2. /\ \E i \in 1..echoes : rtt_min = Metrics!Exact(trips[i])
        /\ \E i \in 1..echoes : rtt_max = Metrics!Exact(trips[i])
        /\ \A i \in 1..echoes : rtt_min <= Metrics!Exact(trips[i]) /\ Metrics!Exact(trips[i]) <= rtt_max
        /\ echoes * rtt_min <= rtt_total /\ rtt_total <= echoes * rtt_max
    BY <1>2 DEF MetricsHold, MetricFigures
  <2>3. rtt_min \in T /\ rtt_max \in T /\ \A v \in T : rtt_min <= v /\ v <= rtt_max
    BY <2>1, <2>2
  <2>4. rtt_min \in Nat /\ rtt_max \in Nat /\ rtt_total \in Nat
    BY MetricParameters DEF MetricsHold, MetricTypes
  <2>. HIDE DEF T
  <2>5. rtt_min = Metrics!Min(T)
    BY <2>1, <2>3, MinIs
  <2>6. rtt_max = Metrics!Max(T)
    BY <2>1, <2>3, MaxIs
  <2>7. rtt_min <= rtt_total \div echoes /\ rtt_total \div echoes <= rtt_max
    BY <1>2, <2>1, <2>2, <2>4, MeanBetween
  <2>8. Metrics!RttMean = rtt_total \div echoes
    BY <1>2, <2>1 DEF Metrics!RttMean
  <2>. QED
    BY <2>5, <2>6, <2>7, <2>8 DEF T
<1>. QED
  BY <1>1, <1>2 DEF Metrics!FiguresExact

-----------------------------------------------------------------------------
(* The percentiles: round trips counted by buckets and by length. *)

\* The bucket of a round trip.
TripBucket(i) == Metrics!RttBucket(Metrics!Exact(trips[i]))

\* The round trips up to a bucket, and those that take no longer than v.
TripsUpTo(b) == {i \in 1..echoes : TripBucket(i) <= b}
TripsWithin(v) == {i \in 1..echoes : Metrics!Exact(trips[i]) <= v}

\* Each round trip is in a bucket of the histogram.
LEMMA TripBuckets ==
  ASSUME MetricsHold
  PROVE  /\ echoes \in Nat /\ Width \in Nat /\ Width > 0
         /\ \A i \in 1..echoes : TripBucket(i) \in 0..Width - 1
<1>1. \A i \in 1..echoes : Metrics!Exact(trips[i]) \in 0..Metrics!Limit - 1
  BY TripsAre
<1>2. \A i \in 1..echoes : TripBucket(i) \in 0..Width - 1
  BY <1>1, BucketIs DEF TripBucket
<1>. QED
  BY <1>2, TripsAre, MetricParameters

\* The round trips up to a bucket are those of the bucket and those below.
LEMMA UpToNext ==
  ASSUME MetricsHold, NEW b \in 0..Width - 1
  PROVE  Cardinality(TripsUpTo(b)) = histogram[b] + (IF b = 0 THEN 0 ELSE Cardinality(TripsUpTo(b - 1)))
<1>1. echoes \in Nat /\ Width \in Nat /\ \A i \in 1..echoes : TripBucket(i) \in 0..Width - 1
  BY TripBuckets
<1>2. histogram[b] = Cardinality(TripsOf(b))
  BY DEF MetricsHold, MetricBuckets
<1>3. TripsOf(b) = {i \in 1..echoes : TripBucket(i) = b}
  BY DEF TripsOf, TripBucket
<1>4. CASE b = 0
  <2>1. TripsUpTo(b) = TripsOf(b)
    BY <1>1, <1>3, <1>4 DEF TripsUpTo
  <2>2. Cardinality(TripsOf(b)) \in Nat
    <3>1. TripsOf(b) \subseteq 1..echoes
      BY DEF TripsOf
    <3>. QED
      BY <1>1, <3>1, TripsFinite
  <2>. QED
    BY <1>2, <1>4, <2>1, <2>2
<1>5. CASE b # 0
  <2>. DEFINE S == TripsOf(b)
              T == TripsUpTo(b - 1)
  <2>1. TripsUpTo(b) = S \cup T /\ S \cap T = {}
    BY <1>1, <1>3, <1>5 DEF TripsUpTo
  <2>2. S \subseteq 1..echoes /\ T \subseteq 1..echoes
    BY DEF TripsOf, TripsUpTo
  <2>. HIDE DEF S, T
  <2>3. IsFiniteSet(S) /\ Cardinality(S) \in Nat /\ IsFiniteSet(T) /\ Cardinality(T) \in Nat
    BY <1>1, <2>2, TripsFinite
  <2>4. Cardinality(S \cup T) = Cardinality(S) + Cardinality(T) - Cardinality({})
    BY <2>1, <2>3, FS_Union
  <2>5. Cardinality({}) = 0
    BY FS_EmptySet
  <2>. QED
    BY <1>2, <1>5, <2>1, <2>3, <2>4, <2>5 DEF S, T
<1>. QED
  BY <1>4, <1>5

\* What the loop over the histogram has counted.
LEMMA ObservedIs ==
  ASSUME MetricsHold
  PROVE  \A b \in 0..Width - 1 : Metrics!ObservedUpTo[b] = Cardinality(TripsUpTo(b))
<1>. DEFINE F == Metrics!ObservedUpTo
            W == [b \in 0..Width - 1 |-> Cardinality(TripsUpTo(b))]
            Is(f) == f = [b \in 0..Width - 1 |-> histogram[b] + (IF b = 0 THEN 0 ELSE f[b - 1])]
<1>0. Width \in Nat /\ Width > 0
  BY MetricParameters
<1>1. F = CHOOSE f : Is(f)
  BY DEF Metrics!ObservedUpTo, Metrics!Bucket
<1>2. Is(W)
  <2>1. ASSUME NEW b \in 0..Width - 1
        PROVE  W[b] = histogram[b] + (IF b = 0 THEN 0 ELSE W[b - 1])
    <3>1. CASE b = 0
      BY <3>1, UpToNext
    <3>2. CASE b # 0
      <4>1. b - 1 \in 0..Width - 1
        BY <1>0, <3>2
      <4>2. W[b - 1] = Cardinality(TripsUpTo(b - 1))
        BY <4>1
      <4>. QED
        BY <3>2, <4>2, UpToNext
    <3>. QED
      BY <3>1, <3>2
  <2>. QED
    BY <2>1
<1>. HIDE DEF F
<1>3. Is(F)
  BY <1>1, <1>2
<1>4. \A b \in 0..Width - 1 : /\ F[b] = histogram[b] + (IF b = 0 THEN 0 ELSE F[b - 1])
                              /\ W[b] = histogram[b] + (IF b = 0 THEN 0 ELSE W[b - 1])
  BY <1>2, <1>3
<1>5. \A b \in 0..Width - 1 : W[b] = Cardinality(TripsUpTo(b))
  OBVIOUS
<1>. HIDE DEF Is, W
<1>6. ASSUME NEW o \in 0..Width - 1, F[o] # W[o] PROVE FALSE
  <2>. DEFINE Bad == {b \in 0..Width - 1 : F[b] # W[b]}
  <2>1. PICK b \in Bad : \A m \in Bad : b <= m
    <3>1. Bad \subseteq Nat /\ o \in Bad
      BY <1>0, <1>6
    <3>. HIDE DEF Bad
    <3>. QED
      BY <3>1, LeastNumber
  <2>2. b \in 0..Width - 1 /\ F[b] # W[b]
    OBVIOUS
  <2>3. b # 0
    BY <1>4, <2>2
  <2>4. b - 1 \in 0..Width - 1 /\ b - 1 < b
    BY <1>0, <2>2, <2>3
  <2>5. b - 1 \notin Bad
    <3>. HIDE DEF Bad
    <3>. QED
      BY <1>0, <2>1, <2>2, <2>4
  <2>6. F[b - 1] = W[b - 1]
    BY <2>4, <2>5
  <2>. QED
    BY <1>4, <2>2, <2>3, <2>6
<1>. QED
  BY <1>5, <1>6 DEF F

\* The rank is the least number that is at least that percentage.
LEMMA RankIs ==
  ASSUME NEW n \in Nat, n > 0, NEW p \in {50, 95, 99}, n = echoes, NEW R, R = Metrics!Rank(p)
  PROVE  R \in Nat /\ 1 <= R /\ R <= n /\ \A k \in Nat : k * 100 >= p * n <=> k >= R
<1>. DEFINE y == n * p
<1>1. y \in Nat /\ y >= 1 /\ y <= n * 100 /\ p * n = y
  OBVIOUS
<1>2. R = (y + 99) \div 100
  BY DEF Metrics!Rank
<1>. HIDE DEF y
<1>3. R \in Nat /\ 100 * R <= y + 99 /\ y + 99 < 100 * R + 100
  BY <1>1, <1>2
<1>. QED
  BY <1>1, <1>3

\* AtMost counts the round trips that take no longer.
LEMMA WithinIs ==
  ASSUME MetricsHold, NEW v
  PROVE  Metrics!AtMost(v) = Cardinality(TripsWithin(v))
<1>1. DOMAIN trips = 1..echoes
  BY TripsAre
<1>2. \A S : Metrics!Cardinality(S) = Cardinality(S)
  BY DEF Metrics!Cardinality, Cardinality, Metrics!IsFiniteSet, IsFiniteSet
<1>. QED
  BY <1>1, <1>2 DEF Metrics!AtMost, TripsWithin

-----------------------------------------------------------------------------
(* The percentiles: the bucket is that of the round trip. *)

\* Fewer round trips, no more of them.
LEMMA FewerTrips ==
  ASSUME MetricsHold, NEW S, NEW T, S \subseteq T, T \subseteq 1..echoes
  PROVE  Cardinality(S) <= Cardinality(T) /\ Cardinality(S) \in Nat /\ Cardinality(T) \in Nat
<1>1. echoes \in Nat
  BY TripsAre
<1>2. S \subseteq 1..echoes
  OBVIOUS
<1>3. IsFiniteSet(T) /\ Cardinality(S) \in Nat /\ Cardinality(T) \in Nat
  BY <1>1, <1>2, TripsFinite
<1>. QED
  BY <1>3, FS_Subset

\* The percentile is a round trip: the least one that enough of them do not exceed.
LEMMA PercentileIs ==
  ASSUME MetricsHold, echoes > 0, NEW p \in {50, 95, 99}, NEW R, R = Metrics!Rank(p),
         NEW v, v = Metrics!Percentile(p)
  PROVE  /\ v \in Metrics!Trips /\ Cardinality(TripsWithin(v)) >= R
         /\ \A u \in Metrics!Trips : Cardinality(TripsWithin(u)) >= R => v <= u
<1>. DEFINE n == echoes
            T == Metrics!Trips
            S == {u \in T : Metrics!AtMost(u) * 100 >= p * n}
            L == Metrics!Limit
<1>1. /\ n \in Nat /\ n > 0 /\ Len(trips) = n /\ T \subseteq Nat /\ T \subseteq 0..L - 1
      /\ T = {Metrics!Exact(trips[i]) : i \in 1..n} /\ L \in Nat /\ L > 1
  BY TripsAre, MetricParameters
<1>2. v = Metrics!Min(S)
  BY <1>1 DEF Metrics!Percentile
<1>3. R \in Nat /\ 1 <= R /\ R <= n /\ \A k \in Nat : k * 100 >= p * n <=> k >= R
  BY <1>1, RankIs
<1>4. ASSUME NEW u \in T
      PROVE  Cardinality(TripsWithin(u)) \in Nat /\ (u \in S <=> Cardinality(TripsWithin(u)) >= R)
  <2>1. TripsWithin(u) \subseteq 1..n
    BY DEF TripsWithin
  <2>2. Cardinality(TripsWithin(u)) \in Nat
    BY <1>1, <2>1, TripsFinite
  <2>3. Metrics!AtMost(u) = Cardinality(TripsWithin(u))
    BY WithinIs
  <2>. QED
    BY <1>3, <2>2, <2>3
<1>5. PICK m \in T : \A u \in T : u <= m
  <2>1. T # {} /\ L - 1 \in Nat
    <3>1. Metrics!Exact(trips[1]) \in T /\ 1 \in 1..n
      BY <1>1
    <3>. QED
      BY <1>1, <3>1
  <2>. HIDE DEF T, L
  <2>. QED
    BY <1>1, <2>1, LargestNumber
<1>6. m \in S
  <2>1. TripsWithin(m) = 1..n
    BY <1>1, <1>5 DEF TripsWithin
  <2>2. Cardinality(1..n) = n
    BY <1>1, FS_Interval
  <2>. QED
    BY <1>3, <1>4, <2>1, <2>2
<1>7. PICK w \in S : \A u \in S : w <= u
  <2>1. S \subseteq Nat /\ S # {}
    BY <1>1, <1>6
  <2>. HIDE DEF S
  <2>. QED
    BY <2>1, LeastNumber
<1>8. v = w
  <2>1. S \subseteq Nat
    BY <1>1
  <2>. HIDE DEF S
  <2>. QED
    BY <1>2, <1>7, <2>1, MinIs
<1>9. v \in T /\ \A u \in T : u \in S => v <= u
  BY <1>7, <1>8
<1>10. v \in S
  BY <1>7, <1>8
<1>. QED
  BY <1>4, <1>9, <1>10

\* The bucket where the loop stops is that of the percentile.
LEMMA PercentileBucket ==
  ASSUME MetricsHold, echoes > 0, NEW p \in {50, 95, 99}, NEW v, v = Metrics!Percentile(p)
  PROVE  /\ v \in 0..Metrics!Limit - 1
         /\ Metrics!Min({c \in Metrics!Bucket : Metrics!ObservedUpTo[c] >= Metrics!Rank(p)})
              = Metrics!RttBucket(v)
<1>. DEFINE n == echoes
            T == Metrics!Trips
            R == Metrics!Rank(p)
            L == Metrics!Limit
            E(i) == Metrics!Exact(trips[i])
            b == Metrics!RttBucket(v)
            C == {c \in 0..Width - 1 : Metrics!ObservedUpTo[c] >= R}
<1>1. /\ n \in Nat /\ T \subseteq 0..L - 1 /\ T = {E(i) : i \in 1..n} /\ L \in Nat /\ Width \in Nat
  BY TripsAre, MetricParameters
<1>2. R \in Nat /\ 1 <= R
  BY <1>1, RankIs
<1>3. v \in T /\ Cardinality(TripsWithin(v)) >= R /\ \A u \in T : Cardinality(TripsWithin(u)) >= R => v <= u
  BY PercentileIs
<1>4. v \in 0..L - 1 /\ v \in Nat
  BY <1>1, <1>3
<1>5. b \in 0..Width - 1
  BY <1>4, BucketIs
<1>6. \A c \in 0..Width - 1 : /\ Metrics!ObservedUpTo[c] = Cardinality(TripsUpTo(c))
                              /\ Cardinality(TripsUpTo(c)) \in Nat
  <2>1. \A c : TripsUpTo(c) \subseteq 1..n
    BY DEF TripsUpTo
  <2>. QED
    BY <1>1, <2>1, ObservedIs, TripsFinite
<1>7. \A i \in 1..n : E(i) \in 0..L - 1 /\ TripBucket(i) = Metrics!RttBucket(E(i))
        /\ TripBucket(i) \in 0..Width - 1
  BY TripsAre, TripBuckets DEF TripBucket
<1>8. b \in C
  <2>1. TripsWithin(v) \subseteq TripsUpTo(b)
    <3>1. ASSUME NEW i \in 1..n, E(i) <= v PROVE TripBucket(i) <= b
      BY <1>4, <1>7, <3>1, BucketsGrow
    <3>. QED
      BY <3>1 DEF TripsWithin, TripsUpTo
  <2>2. TripsUpTo(b) \subseteq 1..n
    BY DEF TripsUpTo
  <2>3. Cardinality(TripsWithin(v)) <= Cardinality(TripsUpTo(b)) /\ Cardinality(TripsWithin(v)) \in Nat
    BY <2>1, <2>2, FewerTrips
  <2>. HIDE DEF b, R
  <2>. QED
    BY <1>2, <1>3, <1>5, <1>6, <2>3
<1>9. ASSUME NEW c \in C PROVE b <= c
  <2>1. c \in 0..Width - 1 /\ Cardinality(TripsUpTo(c)) >= R /\ Cardinality(TripsUpTo(c)) \in Nat
    BY <1>6
  <2>. DEFINE U == {E(i) : i \in TripsUpTo(c)}
  <2>2. U \subseteq T /\ U # {}
    <3>1. TripsUpTo(c) # {}
      <4>1. TripsUpTo(c) = {} => Cardinality(TripsUpTo(c)) = 0
        BY FS_EmptySet
      <4>. HIDE DEF R
      <4>. QED
        BY <1>2, <2>1, <4>1
    <3>2. TripsUpTo(c) \subseteq 1..n
      BY DEF TripsUpTo
    <3>. QED
      BY <1>1, <3>1, <3>2
  <2>3. PICK m \in U : \A u \in U : u <= m
    <3>1. U \subseteq 0..L - 1 /\ L - 1 \in Nat
      <4>1. L > 1
        BY MetricParameters
      <4>. QED
        BY <1>1, <2>2, <4>1
    <3>. HIDE DEF U, L
    <3>. QED
      BY <2>2, <3>1, LargestNumber
  <2>4. PICK j \in TripsUpTo(c) : m = E(j)
    BY <2>3
  <2>5. j \in 1..n /\ TripBucket(j) <= c
    BY <2>4 DEF TripsUpTo
  <2>6. TripsUpTo(c) \subseteq TripsWithin(m)
    BY <2>3 DEF TripsWithin, TripsUpTo
  <2>7. TripsWithin(m) \subseteq 1..n
    BY DEF TripsWithin
  <2>8. Cardinality(TripsUpTo(c)) <= Cardinality(TripsWithin(m)) /\ Cardinality(TripsWithin(m)) \in Nat
    BY <2>6, <2>7, FewerTrips
  <2>9. m \in T
    BY <2>2, <2>3
  <2>10. v <= m
    <3>1. Cardinality(TripsWithin(m)) >= R
      <4>. HIDE DEF R
      <4>. QED
        BY <1>2, <2>1, <2>8
    <3>. HIDE DEF R, T
    <3>. QED
      BY <1>3, <2>9, <3>1
  <2>11. m \in 0..L - 1 /\ Metrics!RttBucket(m) = TripBucket(j)
    BY <1>7, <2>4, <2>5
  <2>12. b <= Metrics!RttBucket(m)
    BY <1>4, <2>10, <2>11, BucketsGrow
  <2>. HIDE DEF b
  <2>. QED
    BY <1>1, <1>5, <1>7, <2>1, <2>5, <2>11, <2>12
<1>10. Metrics!Min(C) = b
  <2>1. C \subseteq Nat
    BY <1>1
  <2>. HIDE DEF C, b
  <2>. QED
    BY <1>8, <1>9, <2>1, MinIs
<1>11. Metrics!Bucket = 0..Width - 1
  BY DEF Metrics!Bucket
<1>. QED
  BY <1>4, <1>10, <1>11

\* Its upper end is no less than the percentile and no more than twice as much.
LEMMA PercentilesAreConservative == MetricsHold => Metrics!PercentilesConservative
<1>. SUFFICES ASSUME MetricsHold, echoes > 0, NEW p \in {50, 95, 99}
              PROVE  /\ Metrics!Percentile(p) <= Metrics!RttPercentileUpper(p)
                     /\ Metrics!RttPercentileUpper(p) <= Metrics!Max({2, 2 * Metrics!Percentile(p)})
  BY DEF Metrics!PercentilesConservative
<1>. DEFINE v == Metrics!Percentile(p)
            b == Metrics!RttBucket(v)
            P == Metrics!Power
            u == Metrics!RttPercentileUpper(p)
<1>1. v \in 0..Metrics!Limit - 1 /\ Metrics!Limit = P[Width] /\ P[Width] \in Nat /\ v \in Nat
  <2>1. v \in 0..Metrics!Limit - 1
    <3>1. v = Metrics!Percentile(p)
      OBVIOUS
    <3>. HIDE DEF v, b, u
    <3>. QED
      BY <3>1, PercentileBucket
  <2>2. Metrics!Limit = P[Width] /\ Metrics!Limit \in Nat
    BY MetricParameters
  <2>. HIDE DEF v, P
  <2>. QED
    BY <2>1, <2>2
<1>2. Width \in Nat /\ b \in 0..Width - 1 /\ v < P[b + 1] /\ (b = 0 \/ P[b] <= v)
  BY <1>1, BucketIs, MetricParameters
<1>3. u = IF b + 1 = Width THEN P[Width] - 1 ELSE P[b + 1]
  <2>1. Metrics!Min({c \in Metrics!Bucket : Metrics!ObservedUpTo[c] >= Metrics!Rank(p)}) = b
    BY PercentileBucket
  <2>2. u = IF Metrics!Min({c \in Metrics!Bucket : Metrics!ObservedUpTo[c] >= Metrics!Rank(p)}) + 1 = Width
            THEN Metrics!Limit - 1
            ELSE P[Metrics!Min({c \in Metrics!Bucket : Metrics!ObservedUpTo[c] >= Metrics!Rank(p)}) + 1]
    BY DEF Metrics!RttPercentileUpper
  <2>. HIDE DEF b, u, P, v
  <2>. QED
    BY <1>1, <2>1, <2>2
<1>4. P[0] = 1 /\ P[b + 1] = 2 * P[b] /\ P[b] \in Nat /\ b \in Nat
  <2>1. b \in Nat
    BY <1>2
  <2>. HIDE DEF b
  <2>. QED
    BY <2>1, PowerIs
<1>. HIDE DEF v, b, P, u
<1>5. v <= u
  BY <1>1, <1>2, <1>3, <1>4
<1>6. u <= 2 \/ u <= 2 * v
  <2>1. CASE b = 0
    BY <1>1, <1>2, <1>3, <1>4, <2>1
  <2>2. CASE P[b] <= v
    BY <1>1, <1>2, <1>3, <1>4, <2>2
  <2>. QED
    BY <1>2, <2>1, <2>2
<1>7. u <= Metrics!Max({2, 2 * v})
  <2>. DEFINE S == {2, 2 * v}
              m == IF 2 * v >= 2 THEN 2 * v ELSE 2
  <2>1. S \subseteq Nat /\ m \in S /\ \A k \in S : k <= m
    BY <1>1
  <2>2. u <= m
    BY <1>1, <1>2, <1>3, <1>4, <1>6
  <2>. HIDE DEF S, m
  <2>3. Metrics!Max(S) = m
    BY <2>1, MaxIs
  <2>. QED
    BY <2>2, <2>3 DEF S
<1>. QED
  BY <1>5, <1>7 DEF v, u

-----------------------------------------------------------------------------
(* The one-shot scenarios: sequences of steps, and of sequences. *)

\* A sequence, of whatever.
IsSeq(q) == \E S : q \in Seq(S)

\* Two sequences, one after the other.
LEMMA SeqJoined ==
  ASSUME NEW a, NEW b, IsSeq(a), IsSeq(b)
  PROVE  IsSeq(a \o b)
<1>1. PICK S : a \in Seq(S)
  BY DEF IsSeq
<1>2. PICK T : b \in Seq(T)
  BY DEF IsSeq
<1>3. a \in Seq(S \cup T) /\ b \in Seq(S \cup T)
  BY <1>1, <1>2
<1>4. a \o b \in Seq(S \cup T)
  BY <1>3, ConcatProperties
<1>. QED
  BY <1>4 DEF IsSeq

\* The length of a sequence.
LEMMA SeqLen == ASSUME NEW q, IsSeq(q) PROVE Len(q) \in Nat /\ DOMAIN q = 1..Len(q)
  BY DEF IsSeq

\* The empty sequence.
LEMMA SeqNone == IsSeq(<<>>)
<1>1. <<>> \in Seq({})
  OBVIOUS
<1>. QED
  BY <1>1 DEF IsSeq

\* A sequence of one step.
LEMMA SeqOne == ASSUME NEW a PROVE IsSeq(<<a>>)
<1>1. <<a>> \in Seq({a})
  OBVIOUS
<1>. QED
  BY <1>1 DEF IsSeq

\* Of three.
LEMMA SeqThree == ASSUME NEW a, NEW b, NEW c PROVE IsSeq(<<a, b, c>>)
<1>1. <<a, b, c>> \in Seq({a, b, c})
  OBVIOUS
<1>. QED
  BY <1>1 DEF IsSeq

\* A sequence of sequences, laid end to end.
LEMMA FlattenedIs ==
  ASSUME NEW q, IsSeq(q), \A i \in 1..Len(q) : IsSeq(q[i]), Len(q) > 0
  PROVE  \E f : /\ OneShot!FlattenSeq(q) = f[Len(q)]
                /\ \A i \in 1..Len(q) : f[i] = IF i = 1 THEN q[i] ELSE f[i - 1] \o q[i]
<1>. DEFINE n == Len(q)
            S == UNION {(CHOOSE T : q[i] \in Seq(T)) : i \in 1..n}
            V == Seq(S)
            Is(f) == f = [i \in 1..n |-> IF i = 1 THEN q[i] ELSE f[i - 1] \o q[i]]
            F == CHOOSE f : Is(f)
<1>0. n \in Nat
  BY SeqLen
<1>1. \A i \in 1..n : q[i] \in V
  <2>1. ASSUME NEW i \in 1..n PROVE q[i] \in V
    <3>1. q[i] \in Seq(CHOOSE T : q[i] \in Seq(T))
      BY DEF IsSeq
    <3>2. (CHOOSE T : q[i] \in Seq(T)) \subseteq S
      OBVIOUS
    <3>. DEFINE T == CHOOSE T : q[i] \in Seq(T)
    <3>3. q[i] \in Seq(T) /\ T \subseteq S
      BY <3>1, <3>2
    <3>. HIDE DEF T, S
    <3>. QED
      BY <3>3
  <2>. QED
    BY <2>1
<1>3. CASE n > 0
  <2>1. OneShot!FlattenSeq(q) = F[n]
    BY <1>0, <1>3 DEF OneShot!FlattenSeq
  <2>. DEFINE G == [p \in Nat \X V |-> IF p[1] + 2 \in 1..n THEN p[2] \o q[p[1] + 2] ELSE p[2]]
  <2>2. StaysIn(q[1], G, V)
    <3>1. q[1] \in V
      BY <1>0, <1>1, <1>3
    <3>2. ASSUME NEW k \in Nat, NEW v \in V PROVE G[<<k, v>>] \in V
      <4>1. G[<<k, v>>] = IF k + 2 \in 1..n THEN v \o q[k + 2] ELSE v
        OBVIOUS
      <4>2. k + 2 \in 1..n => v \o q[k + 2] \in V
        <5>1. ASSUME k + 2 \in 1..n PROVE v \o q[k + 2] \in V
          <6>1. q[k + 2] \in V
            BY <1>1, <5>1
          <6>. HIDE DEF S
          <6>. QED
            BY <6>1, ConcatProperties
        <5>. QED
          BY <5>1
      <4>. QED
        BY <4>1, <4>2
    <3>. QED
      BY <3>1, <3>2 DEF StaysIn
  <2>3. PICK g \in [Nat -> V] : g[0] = q[1] /\ \A k \in Nat : g[k + 1] = G[<<k, g[k]>>]
    <3>. HIDE DEF G, V
    <3>. QED
      BY <2>2, Iterated
  <2>4. \A k \in Nat : k + 2 \in 1..n => g[k + 1] = g[k] \o q[k + 2]
    <3>1. ASSUME NEW k \in Nat, k + 2 \in 1..n PROVE g[k + 1] = g[k] \o q[k + 2]
      <4>1. g[k] \in V /\ g[k + 1] = G[<<k, g[k]>>]
        BY <2>3
      <4>. HIDE DEF V
      <4>. QED
        BY <3>1, <4>1
    <3>. QED
      BY <3>1
  <2>. DEFINE W == [i \in 1..n |-> g[i - 1]]
  <2>. HIDE DEF G, V
  <2>5. Is(W)
    <3>1. ASSUME NEW i \in 1..n PROVE W[i] = IF i = 1 THEN q[i] ELSE W[i - 1] \o q[i]
      <4>1. CASE i = 1
        BY <2>3, <4>1
      <4>2. CASE i # 1
        <5>1. i - 2 \in Nat /\ (i - 2) + 1 = i - 1 /\ (i - 2) + 2 = i /\ i - 1 \in 1..n /\ (i - 1) - 1 = i - 2
          BY <1>0, <4>2
        <5>2. g[(i - 2) + 1] = g[i - 2] \o q[(i - 2) + 2]
          BY <2>4, <5>1
        <5>3. W[i] = g[i - 1] /\ W[i - 1] = g[i - 2]
          BY <5>1
        <5>. QED
          BY <4>2, <5>1, <5>2, <5>3
      <4>. QED
        BY <4>1, <4>2
    <3>. QED
      BY <3>1
  <2>6. Is(F)
    BY <2>5
  <2>7. \A i \in 1..n : F[i] = IF i = 1 THEN q[i] ELSE F[i - 1] \o q[i]
    BY <2>6
  <2>. HIDE DEF F
  <2>. QED
    BY <2>1, <2>7
<1>. QED
  BY <1>0, <1>3

-----------------------------------------------------------------------------
(* The one-shot scenarios: what a sequence of releases gives back. *)

\* The releases q, done in their order, take what is held from H to G: nothing is
\* released that is not there, and nothing while its user still is.
Frees(q, H, G) ==
  /\ IsSeq(q) /\ G = H \ {q[i] : i \in 1..Len(q)}
  /\ \A i \in 1..Len(q) :
       /\ q[i] \in H /\ \A j \in 1..i - 1 : q[j] # q[i]
       /\ \A user \in H : OneShot!Uses(user, q[i]) => \E j \in 1..i : q[j] = user

\* No release leaves all there is.
LEMMA FreesNone == ASSUME NEW H PROVE Frees(<<>>, H, H)
  BY SeqNone DEF Frees

\* One release, of what nothing uses.
LEMMA FreesOne ==
  ASSUME NEW H, NEW r \in H, \A user \in H : ~OneShot!Uses(user, r)
  PROVE  Frees(<<r>>, H, H \ {r})
  BY SeqOne DEF Frees

\* The elements of a sequence behind another.
LEMMA JoinedIs ==
  ASSUME NEW a, NEW b, IsSeq(a), IsSeq(b)
  PROVE  /\ Len(a) \in Nat /\ Len(b) \in Nat /\ Len(a \o b) = Len(a) + Len(b) /\ IsSeq(a \o b)
         /\ \A i \in 1..Len(a) : (a \o b)[i] = a[i]
         /\ \A i \in 1..Len(b) : (a \o b)[Len(a) + i] = b[i]
         /\ \A i \in 1..Len(a) + Len(b) : i \in 1..Len(a) \/ (i - Len(a) \in 1..Len(b)
              /\ i = Len(a) + (i - Len(a)))
<1>1. PICK S : a \in Seq(S) /\ b \in Seq(S)
  <2>1. PICK T : a \in Seq(T)
    BY DEF IsSeq
  <2>2. PICK U : b \in Seq(U)
    BY DEF IsSeq
  <2>3. a \in Seq(T \cup U) /\ b \in Seq(T \cup U)
    BY <2>1, <2>2
  <2>. QED
    BY <2>3
<1>2. /\ Len(a \o b) = Len(a) + Len(b) /\ Len(a) \in Nat /\ Len(b) \in Nat
      /\ \A i \in 1..Len(a) + Len(b) : (a \o b)[i] = IF i <= Len(a) THEN a[i] ELSE b[i - Len(a)]
  BY <1>1, ConcatProperties
<1>3. IsSeq(a \o b)
  BY SeqJoined
<1>. DEFINE m == Len(a)
            n == Len(b)
            c == a \o b
<1>. HIDE DEF m, n, c
<1>4. \A i \in 1..m : c[i] = a[i]
  BY <1>2 DEF m, n, c
<1>5. \A i \in 1..n : c[m + i] = b[i]
  <2>. TAKE i \in 1..n
  <2>1. m \in Nat /\ n \in Nat /\ m + i \in 1..m + n /\ ~(m + i <= m) /\ (m + i) - m = i
    BY <1>2 DEF m, n
  <2>. QED
    BY <1>2, <2>1 DEF m, n, c
<1>6. \A i \in 1..m + n : i \in 1..m \/ (i - m \in 1..n /\ i = m + (i - m))
  BY <1>2 DEF m, n
<1>. QED
  BY <1>2, <1>3, <1>4, <1>5, <1>6 DEF m, n, c

\* Releases after releases.
LEMMA FreesJoined ==
  ASSUME NEW a, NEW b, NEW H, NEW G, NEW K, Frees(a, H, G), Frees(b, G, K)
  PROVE  Frees(a \o b, H, K)
<1>. DEFINE m == Len(a)
            n == Len(b)
            c == a \o b
<1>1. IsSeq(a) /\ IsSeq(b)
  BY DEF Frees
<1>2. /\ m \in Nat /\ n \in Nat /\ Len(c) = m + n /\ IsSeq(c)
      /\ \A i \in 1..m : c[i] = a[i]
      /\ \A i \in 1..n : c[m + i] = b[i]
      /\ \A i \in 1..m + n : i \in 1..m \/ (i - m \in 1..n /\ i = m + (i - m))
  BY <1>1, JoinedIs
<1>3. /\ G = H \ {a[i] : i \in 1..m}
      /\ \A i \in 1..m :
           /\ a[i] \in H /\ \A j \in 1..i - 1 : a[j] # a[i]
           /\ \A user \in H : OneShot!Uses(user, a[i]) => \E j \in 1..i : a[j] = user
  BY DEF Frees
<1>4. /\ K = G \ {b[i] : i \in 1..n}
      /\ \A i \in 1..n :
           /\ b[i] \in G /\ \A j \in 1..i - 1 : b[j] # b[i]
           /\ \A user \in G : OneShot!Uses(user, b[i]) => \E j \in 1..i : b[j] = user
  BY DEF Frees
<1>. HIDE DEF m, n, c
<1>5. K = H \ {c[i] : i \in 1..m + n}
  <2>1. \A x : (\E i \in 1..m + n : x = c[i]) <=> (\E i \in 1..m : x = a[i]) \/ (\E i \in 1..n : x = b[i])
    <3>1. ASSUME NEW i \in 1..m + n PROVE (\E j \in 1..m : c[i] = a[j]) \/ (\E j \in 1..n : c[i] = b[j])
      <4>1. CASE i \in 1..m
        BY <1>2, <4>1
      <4>2. CASE i - m \in 1..n /\ i = m + (i - m)
        <5>1. c[m + (i - m)] = b[i - m]
          BY <1>2, <4>2
        <5>. QED
          BY <4>2, <5>1
      <4>. QED
        BY <1>2, <4>1, <4>2
    <3>2. ASSUME NEW i \in 1..m PROVE i \in 1..m + n /\ c[i] = a[i]
      BY <1>2
    <3>3. ASSUME NEW i \in 1..n PROVE m + i \in 1..m + n /\ c[m + i] = b[i]
      BY <1>2
    <3>. QED
      BY <3>1, <3>2, <3>3
  <2>. QED
    BY <1>3, <1>4, <2>1
<1>6. ASSUME NEW i \in 1..m + n
      PROVE  /\ c[i] \in H /\ \A j \in 1..i - 1 : c[j] # c[i]
             /\ \A user \in H : OneShot!Uses(user, c[i]) => \E j \in 1..i : c[j] = user
  <2>1. CASE i \in 1..m
    <3>1. c[i] = a[i] /\ \A j \in 1..i : j \in 1..m /\ c[j] = a[j]
      BY <1>2, <2>1
    <3>2. \A j \in 1..i - 1 : j \in 1..i
      BY <2>1, <1>2
    <3>. QED
      BY <1>3, <2>1, <3>1, <3>2
  <2>2. CASE i - m \in 1..n /\ i = m + (i - m)
    <3>. DEFINE k == i - m
    <3>1. k \in 1..n /\ i = m + k /\ c[i] = b[k]
      <4>1. c[m + (i - m)] = b[i - m]
        BY <1>2, <2>2
      <4>. QED
        BY <2>2, <4>1
    <3>. HIDE DEF k
    <3>2. c[i] \in H
      BY <1>3, <1>4, <3>1
    <3>3. ASSUME NEW j \in 1..i - 1 PROVE c[j] # c[i]
      <4>1. CASE j \in 1..m
        BY <1>2, <1>3, <1>4, <3>1, <4>1
      <4>2. CASE j - m \in 1..k - 1
        <5>1. j - m \in 1..n /\ j = m + (j - m)
          BY <1>2, <3>1, <4>2
        <5>2. c[m + (j - m)] = b[j - m]
          BY <1>2, <5>1
        <5>. QED
          BY <1>4, <3>1, <4>2, <5>1, <5>2
      <4>. QED
        BY <1>2, <3>1, <4>1, <4>2
    <3>4. ASSUME NEW user \in H, OneShot!Uses(user, c[i]) PROVE \E j \in 1..i : c[j] = user
      <4>1. CASE user \in G
        <5>1. PICK j \in 1..k : b[j] = user
          BY <1>4, <3>1, <3>4, <4>1
        <5>2. j \in 1..n /\ m + j \in 1..i
          BY <1>2, <3>1
        <5>. QED
          BY <1>2, <5>1, <5>2
      <4>2. CASE user \notin G
        <5>1. PICK j \in 1..m : a[j] = user
          BY <1>3, <4>2
        <5>2. j \in 1..i
          BY <1>2, <3>1
        <5>. QED
          BY <1>2, <5>1, <5>2
      <4>. QED
        BY <4>1, <4>2
    <3>. QED
      BY <3>2, <3>3, <3>4
  <2>. QED
    BY <1>2, <2>1, <2>2
<1>7. Frees(c, H, K)
  BY <1>2, <1>5, <1>6 DEF Frees
<1>. QED
  BY <1>7 DEF c

\* A release that is left out when there is nothing to release.
LEMMA FreesWhen ==
  ASSUME NEW H, NEW r, \A user \in H : ~OneShot!Uses(user, r)
  PROVE  Frees(OneShot!When(r \in H, r), H, H \ {r})
<1>1. CASE r \in H
  BY <1>1, FreesOne DEF OneShot!When
<1>2. CASE r \notin H
  <2>1. H \ {r} = H
    BY <1>2
  <2>. QED
    BY <1>2, <2>1, FreesNone DEF OneShot!When
<1>. QED
  BY <1>1, <1>2

\* The first of them is done.
LEMMA FreesHead ==
  ASSUME NEW q, NEW H, NEW G, Frees(q, H, G), q # <<>>
  PROVE  /\ Head(q) \in H /\ Frees(Tail(q), H \ {Head(q)}, G)
         /\ \A user \in H \ {Head(q)} : ~OneShot!Uses(user, Head(q))
<1>0. PICK S : q \in Seq(S)
  BY DEF Frees, IsSeq
<1>. DEFINE n == Len(q)
            t == Tail(q)
            r == Head(q)
<1>1. /\ n \in Nat /\ n > 0 /\ r = q[1] /\ t \in Seq(S) /\ Len(t) = n - 1
      /\ \A i \in 1..n - 1 : t[i] = q[i + 1]
  BY <1>0, HeadTailProperties
<1>2. IsSeq(t)
  BY <1>1 DEF IsSeq
<1>3. /\ G = H \ {q[i] : i \in 1..n}
      /\ \A i \in 1..n :
           /\ q[i] \in H /\ \A j \in 1..i - 1 : q[j] # q[i]
           /\ \A user \in H : OneShot!Uses(user, q[i]) => \E j \in 1..i : q[j] = user
  BY DEF Frees
<1>. HIDE DEF n, t, r
<1>4. r \in H
  BY <1>1, <1>3
<1>5. \A user \in H \ {r} : ~OneShot!Uses(user, r)
  <2>1. \A j \in 1..1 : j = 1
    OBVIOUS
  <2>2. 1 \in 1..n
    BY <1>1
  <2>. QED
    BY <1>1, <1>3, <2>1, <2>2
<1>6. \A i \in 1..n - 1 : i + 1 \in 1..n /\ i + 1 # 1
  BY <1>1
<1>7. G = (H \ {r}) \ {t[i] : i \in 1..n - 1}
  <2>1. \A i \in 1..n : i = 1 \/ (i - 1 \in 1..n - 1 /\ (i - 1) + 1 = i)
    BY <1>1
  <2>2. \A x : (\E i \in 1..n : x = q[i]) <=> x = r \/ \E i \in 1..n - 1 : x = t[i]
    <3>1. ASSUME NEW i \in 1..n PROVE q[i] = r \/ \E j \in 1..n - 1 : q[i] = t[j]
      <4>1. CASE i = 1
        BY <1>1, <4>1
      <4>2. CASE i - 1 \in 1..n - 1 /\ (i - 1) + 1 = i
        <5>1. t[i - 1] = q[(i - 1) + 1]
          BY <1>1, <4>2
        <5>. QED
          BY <4>2, <5>1
      <4>. QED
        BY <2>1, <4>1, <4>2
    <3>2. 1 \in 1..n
      BY <1>1
    <3>. QED
      BY <1>1, <1>6, <3>1, <3>2
  <2>3. \A x : x \in {q[i] : i \in 1..n} <=> \E i \in 1..n : x = q[i]
    OBVIOUS
  <2>4. \A x : x \in {t[i] : i \in 1..n - 1} <=> \E i \in 1..n - 1 : x = t[i]
    OBVIOUS
  <2>5. \A x : x \in {q[i] : i \in 1..n} <=> x = r \/ x \in {t[i] : i \in 1..n - 1}
    BY <2>2, <2>3, <2>4
  <2>. DEFINE A == {q[i] : i \in 1..n}
              B == {t[i] : i \in 1..n - 1}
  <2>6. G = H \ A /\ \A x : x \in A <=> x = r \/ x \in B
    BY <1>3, <2>5
  <2>. HIDE DEF A, B
  <2>7. G = (H \ {r}) \ B
    BY <2>6
  <2>. QED
    BY <2>7 DEF B
<1>8. ASSUME NEW i \in 1..n - 1
      PROVE  /\ t[i] \in H \ {r} /\ \A j \in 1..i - 1 : t[j] # t[i]
             /\ \A user \in H \ {r} : OneShot!Uses(user, t[i]) => \E j \in 1..i : t[j] = user
  <2>1. t[i] = q[i + 1] /\ i + 1 \in 1..n
    BY <1>1, <1>6
  <2>2. t[i] \in H /\ t[i] # r
    <3>1. 1 \in 1..(i + 1) - 1
      BY <1>1
    <3>. QED
      BY <1>1, <1>3, <2>1, <3>1
  <2>3. ASSUME NEW j \in 1..i - 1 PROVE t[j] # t[i]
    <3>1. j \in 1..n - 1 /\ j + 1 \in 1..(i + 1) - 1
      BY <1>1
    <3>2. t[j] = q[j + 1]
      BY <1>1, <3>1
    <3>. QED
      BY <1>3, <2>1, <3>1, <3>2
  <2>4. ASSUME NEW user \in H \ {r}, OneShot!Uses(user, t[i]) PROVE \E j \in 1..i : t[j] = user
    <3>1. PICK j \in 1..i + 1 : q[j] = user
      BY <1>3, <2>1, <2>4
    <3>2. j # 1
      BY <1>1, <2>4, <3>1
    <3>3. j - 1 \in 1..i /\ j - 1 \in 1..n - 1 /\ (j - 1) + 1 = j
      BY <1>1, <3>2
    <3>4. t[j - 1] = q[(j - 1) + 1]
      BY <1>1, <3>3
    <3>. QED
      BY <3>1, <3>3, <3>4
  <2>. QED
    BY <2>2, <2>3, <2>4
<1>9. Frees(t, H \ {r}, G)
  BY <1>1, <1>2, <1>7, <1>8 DEF Frees
<1>. QED
  BY <1>4, <1>5, <1>9 DEF t, r

\* When none is left, all of them are done.
LEMMA FreesDone == ASSUME NEW H, NEW G, Frees(<<>>, H, G) PROVE G = H
  BY DEF Frees

-----------------------------------------------------------------------------
(* The one-shot scenarios: releases that need no test. *)

\* Who uses what.
LEMMA UsersAre ==
  ASSUME NEW user
  PROVE  /\ \A r : r \notin {"context", "ssl", "service", "tmem"} => ~OneShot!Uses(user, r)
         /\ OneShot!Uses(user, "context") => user = "connection"
         /\ OneShot!Uses(user, "ssl") => user = "context"
         /\ OneShot!Uses(user, "tmem") => user = "root"
         /\ OneShot!Uses(user, "service") => user = "descriptor" \/ user \in {s1, s2, s3}
<1>1. OneShot!Range(<<s1, s2, s3>>) = {s1, s2, s3}
  BY DEF OneShot!Range
<1>. QED
  BY <1>1 DEF OneShot!Uses

\* The sockets are three, and none of them is anything else a scenario holds.
LEMMA SocketsAre ==
  /\ s1 # s2 /\ s1 # s3 /\ s2 # s3
  /\ {s1, s2, s3} \cap OneShot!Resources = {}
<1>1. OneShot!Parameters
  BY ScenarioParameters
<1>2. OneShot!IsInjective(<<s1, s2, s3>>) /\ OneShot!Range(<<s1, s2, s3>>) \cap OneShot!Resources = {}
  BY <1>1 DEF OneShot!Parameters
<1>3. OneShot!Range(<<s1, s2, s3>>) = {s1, s2, s3}
  BY DEF OneShot!Range
<1>4. s1 # s2 /\ s1 # s3 /\ s2 # s3
  <2>. DEFINE q == <<s1, s2, s3>>
  <2>1. \A a, b \in DOMAIN q : q[a] = q[b] => a = b
    BY <1>2 DEF OneShot!IsInjective
  <2>2. DOMAIN q = 1..3 /\ q[1] = s1 /\ q[2] = s2 /\ q[3] = s3
    OBVIOUS
  <2>. HIDE DEF q
  <2>. QED
    BY <2>1, <2>2
<1>. QED
  BY <1>2, <1>3, <1>4

\* The releases of a return, with what is held there.
OwnedBy(H, q) ==
  OneShot!FlattenSeq([i \in DOMAIN q |-> OneShot!When(q[i] \in OneShot!Tested => q[i] \in H, q[i])])

\* The scope objects on the stack.
ScopesOf(H) == OneShot!When("ssl" \in H, "ssl") \o OneShot!When("service" \in H, "service")

\* They leave nothing.
Undoes(q, H) == Frees(OwnedBy(H, q) \o ScopesOf(H), H, {})

\* Releases without a test that leave the scope objects to the stack.
Plain(q) == \A i \in 1..Len(q) : q[i] \notin OneShot!Tested

\* They leave what the stack gives back.
Clears(q, H) == IsSeq(q) /\ Plain(q) /\ Frees(q, H, H \cap {"ssl", "service"})

\* The scope objects: ssl, then the services.
LEMMA ScopesFree == ASSUME NEW H, H \subseteq {"ssl", "service"} PROVE Frees(ScopesOf(H), H, {})
<1>1. Frees(OneShot!When("ssl" \in H, "ssl"), H, H \ {"ssl"})
  BY UsersAre, FreesWhen
<1>. DEFINE G == H \ {"ssl"}
<1>2. ("service" \in H <=> "service" \in G) /\ G \subseteq {"service"} /\ G \ {"service"} = {}
  OBVIOUS
<1>3. \A user \in G : ~OneShot!Uses(user, "service")
  <2>1. "service" # "descriptor" /\ "service" \notin {s1, s2, s3}
    BY SocketsAre DEF OneShot!Resources
  <2>. QED
    BY <1>2, <2>1, UsersAre
<1>4. Frees(OneShot!When("service" \in G, "service"), G, {})
  <2>1. Frees(OneShot!When("service" \in G, "service"), G, G \ {"service"})
    <3>. HIDE DEF G
    <3>. QED
      BY <1>3, FreesWhen
  <2>. QED
    BY <1>2, <2>1
<1>. QED
  BY <1>1, <1>2, <1>4, FreesJoined DEF ScopesOf

\* A sequence of single elements, laid end to end.
LEMMA SinglesFlattened ==
  ASSUME NEW q, IsSeq(q)
  PROVE  OneShot!FlattenSeq([i \in DOMAIN q |-> <<q[i]>>]) = q
<1>. DEFINE n == Len(q)
            p == [i \in DOMAIN q |-> <<q[i]>>]
<1>0. PICK S : q \in Seq(S)
  BY DEF IsSeq
<1>1. n \in Nat /\ DOMAIN q = 1..n /\ q = [i \in 1..n |-> q[i]] /\ \A i \in 1..n : q[i] \in S
  BY <1>0
<1>2. p \in Seq({<<q[i]>> : i \in 1..n}) /\ Len(p) = n /\ \A i \in 1..n : p[i] = <<q[i]>>
  BY <1>1
<1>3. IsSeq(p) /\ \A i \in 1..Len(p) : IsSeq(p[i])
  BY <1>2, SeqOne DEF IsSeq
<1>4. CASE n = 0
  <2>1. Len(p) = 0
    BY <1>2, <1>4
  <2>2. q = <<>>
    BY <1>0, <1>4
  <2>. HIDE DEF p
  <2>. QED
    BY <2>1, <2>2 DEF OneShot!FlattenSeq
<1>5. CASE n > 0
  <2>1. PICK f : /\ OneShot!FlattenSeq(p) = f[n]
                 /\ \A i \in 1..n : f[i] = IF i = 1 THEN p[i] ELSE f[i - 1] \o p[i]
    <3>1. Len(p) > 0
      BY <1>2, <1>5
    <3>. HIDE DEF p, n
    <3>. QED
      BY <1>2, <1>3, <3>1, FlattenedIs
  <2>. DEFINE Beginning(i, t) == t \in Seq(S) /\ Len(t) = i /\ \A j \in 1..i : t[j] = q[j]
  <2>2. \A o \in 1..n : Beginning(o, f[o])
    <3>. SUFFICES ASSUME NEW o \in 1..n, ~Beginning(o, f[o]) PROVE FALSE
      OBVIOUS
    <3>. DEFINE Bad == {i \in 1..n : ~Beginning(i, f[i])}
    <3>. HIDE DEF n, p
    <3>1. PICK i \in Bad : \A m \in Bad : i <= m
      <4>1. Bad \subseteq Nat
        BY <1>1
      <4>2. o \in Bad
        OBVIOUS
      <4>. HIDE DEF Bad
      <4>. QED
        BY <4>1, <4>2, LeastNumber
    <3>2. i \in 1..n /\ ~Beginning(i, f[i])
      OBVIOUS
    <3>3. i # 1
      <4>1. ASSUME i = 1 PROVE Beginning(i, f[i])
        <5>1. f[i] = <<q[1]>> /\ q[1] \in S
          BY <1>1, <1>2, <2>1, <3>2, <4>1
        <5>. QED
          BY <4>1, <5>1
      <4>. QED
        BY <3>2, <4>1
    <3>4. i - 1 \in 1..n /\ i - 1 < i
      BY <1>1, <3>2, <3>3
    <3>5. Beginning(i - 1, f[i - 1])
      <4>1. i - 1 \notin Bad
        <5>. HIDE DEF Bad
        <5>. QED
          BY <1>1, <3>1, <3>2, <3>4
      <4>. QED
        BY <3>4, <4>1
    <3>6. f[i] = f[i - 1] \o <<q[i]>> /\ q[i] \in S
      BY <1>1, <1>2, <2>1, <3>2, <3>3
    <3>7. Beginning(i, f[i - 1] \o <<q[i]>>)
      <4>. DEFINE t == f[i - 1]
                  x == q[i]
      <4>0. t \in Seq(S) /\ Len(t) = i - 1 /\ \A j \in 1..i - 1 : t[j] = q[j]
        BY <3>5
      <4>1. t \in Seq(S) /\ x \in S /\ Len(t) = i - 1 /\ i - 1 \in Nat /\ \A j \in 1..i - 1 : t[j] = q[j]
        <5>1. x \in S
          BY <3>6
        <5>2. i - 1 \in Nat
          BY <1>1, <3>4
        <5>. HIDE DEF t, x
        <5>. QED
          BY <4>0, <5>1, <5>2
      <4>2. i \in Nat /\ x = q[i]
        BY <1>1, <3>2
      <4>. HIDE DEF t, x
      <4>. HIDE DEF Beginning
      <4>3. Append(t, x) = t \o <<x>>
        BY <4>1, AppendIsConcat
      <4>4. Append(t, x) \in Seq(S) /\ Len(Append(t, x)) = i /\ Append(t, x)[i] = x
            /\ \A j \in 1..i - 1 : Append(t, x)[j] = t[j]
        BY <4>1, <4>2, AppendProperties
      <4>5. \A j \in 1..i : j = i \/ j \in 1..i - 1
        BY <4>2
      <4>6. Beginning(i, Append(t, x))
        BY <4>1, <4>2, <4>4, <4>5 DEF Beginning
      <4>. QED
        BY <4>3, <4>6 DEF t, x
    <3>. QED
      BY <3>2, <3>6, <3>7
  <2>3. n \in 1..n
    BY <1>1, <1>5
  <2>4. Beginning(n, f[n])
    BY <2>2, <2>3
  <2>5. f[n] = q
    BY <1>0, <1>1, <2>4
  <2>. QED
    BY <2>1, <2>5
<1>. QED
  BY <1>1, <1>4, <1>5

\* Without a test all of them are done.
LEMMA OwnedPlain == ASSUME NEW H, NEW q, IsSeq(q), Plain(q) PROVE OwnedBy(H, q) = q
<1>1. \A i \in DOMAIN q : OneShot!When(q[i] \in OneShot!Tested => q[i] \in H, q[i]) = <<q[i]>>
  BY SeqLen DEF Plain, OneShot!When
<1>2. [i \in DOMAIN q |-> OneShot!When(q[i] \in OneShot!Tested => q[i] \in H, q[i])]
        = [i \in DOMAIN q |-> <<q[i]>>]
  BY <1>1
<1>. QED
  BY <1>2, SinglesFlattened DEF OwnedBy

\* Such releases, then those of the stack, leave nothing.
LEMMA ClearsUndoes == ASSUME NEW H, NEW q, Clears(q, H) PROVE Undoes(q, H)
<1>. DEFINE G == H \cap {"ssl", "service"}
<1>1. OwnedBy(H, q) = q /\ Frees(q, H, G)
  BY OwnedPlain DEF Clears
<1>2. ("ssl" \in H <=> "ssl" \in G) /\ ("service" \in H <=> "service" \in G) /\ G \subseteq {"ssl", "service"}
  OBVIOUS
<1>. HIDE DEF G
<1>3. ScopesOf(H) = ScopesOf(G)
  BY <1>2 DEF ScopesOf, OneShot!When
<1>4. Frees(ScopesOf(H), G, {})
  BY <1>2, <1>3, ScopesFree
<1>. QED
  BY <1>1, <1>4, FreesJoined DEF Undoes

\* One resource more, released first.
LEMMA ClearsMore ==
  ASSUME NEW H, NEW q, Clears(q, H), NEW r, r \notin H, r \notin OneShot!Tested, r \notin {"ssl", "service"},
         \A user \in H \cup {r} : ~OneShot!Uses(user, r)
  PROVE  Clears(<<r>> \o q, H \cup {r})
<1>. DEFINE J == H \cup {r}
            c == <<r>> \o q
<1>1. r \in J /\ J \ {r} = H /\ J \cap {"ssl", "service"} = H \cap {"ssl", "service"}
  OBVIOUS
<1>2. Frees(<<r>>, J, H)
  <2>1. Frees(<<r>>, J, J \ {r})
    <3>. HIDE DEF J
    <3>. QED
      BY <1>1, FreesOne DEF J
  <2>. QED
    BY <1>1, <2>1
<1>3. Frees(c, J, J \cap {"ssl", "service"})
  BY <1>1, <1>2, FreesJoined DEF Clears
<1>4. IsSeq(q) /\ IsSeq(<<r>>) /\ Plain(q) /\ Len(<<r>>) = 1 /\ <<r>>[1] = r
  BY SeqOne DEF Clears
<1>5. /\ IsSeq(c) /\ Len(q) \in Nat /\ Len(c) = 1 + Len(q)
      /\ \A i \in 1..1 : c[i] = <<r>>[i]
      /\ \A i \in 1..Len(q) : c[1 + i] = q[i]
      /\ \A i \in 1..1 + Len(q) : i \in 1..1 \/ (i - 1 \in 1..Len(q) /\ i = 1 + (i - 1))
  <2>. DEFINE a == <<r>>
  <2>1. Len(a) = 1 /\ IsSeq(a)
    BY <1>4
  <2>. HIDE DEF a
  <2>2. /\ Len(a) \in Nat /\ Len(q) \in Nat /\ Len(a \o q) = Len(a) + Len(q) /\ IsSeq(a \o q)
        /\ \A i \in 1..Len(a) : (a \o q)[i] = a[i]
        /\ \A i \in 1..Len(q) : (a \o q)[Len(a) + i] = q[i]
        /\ \A i \in 1..Len(a) + Len(q) : i \in 1..Len(a) \/ (i - Len(a) \in 1..Len(q)
             /\ i = Len(a) + (i - Len(a)))
    BY <1>4, <2>1, JoinedIs
  <2>. QED
    BY <2>1, <2>2 DEF a
<1>6. Plain(c)
  <2>1. ASSUME NEW i \in 1..1 + Len(q) PROVE c[i] \notin OneShot!Tested
    <3>1. CASE i \in 1..1
      <4>1. i = 1
        BY <3>1
      <4>. QED
        BY <1>4, <1>5, <3>1, <4>1
    <3>2. CASE i - 1 \in 1..Len(q) /\ i = 1 + (i - 1)
      <4>1. c[1 + (i - 1)] = q[i - 1]
        BY <1>5, <3>2
      <4>. QED
        BY <1>4, <3>2, <4>1 DEF Plain
    <3>. QED
      BY <1>5, <3>1, <3>2
  <2>. QED
    BY <1>5, <2>1 DEF Plain
<1>. QED
  BY <1>3, <1>5, <1>6 DEF Clears

-----------------------------------------------------------------------------
(* The one-shot scenarios: releases that are tested. *)

\* Three sequences laid end to end.
LEMMA FlattenThree ==
  ASSUME NEW q, IsSeq(q), Len(q) = 3, IsSeq(q[1]), IsSeq(q[2]), IsSeq(q[3])
  PROVE  OneShot!FlattenSeq(q) = q[1] \o q[2] \o q[3]
<1>1. \A i \in 1..3 : i = 1 \/ i = 2 \/ i = 3
  OBVIOUS
<1>2. \A i \in 1..Len(q) : IsSeq(q[i])
  BY <1>1
<1>3. PICK f : /\ OneShot!FlattenSeq(q) = f[Len(q)]
               /\ \A i \in 1..Len(q) : f[i] = IF i = 1 THEN q[i] ELSE f[i - 1] \o q[i]
  <2>1. Len(q) > 0 /\ IsSeq(q)
    OBVIOUS
  <2>. QED
    BY ONLY <1>2, <2>1, FlattenedIs
<1>4. \A i \in 1..3 : f[i] = IF i = 1 THEN q[i] ELSE f[i - 1] \o q[i]
  BY <1>3
<1>5. f[1] = q[1]
  <2>1. 1 \in 1..3
    OBVIOUS
  <2>. QED
    BY ONLY <1>4, <2>1
<1>6. f[2] = f[1] \o q[2]
  <2>1. 2 \in 1..3 /\ 2 # 1 /\ 2 - 1 = 1
    OBVIOUS
  <2>2. f[2] = f[2 - 1] \o q[2]
    BY ONLY <1>4, <2>1
  <2>. QED
    BY <2>1, <2>2
<1>7. f[3] = f[2] \o q[3]
  <2>1. 3 \in 1..3 /\ 3 # 1 /\ 3 - 1 = 2
    OBVIOUS
  <2>2. f[3] = f[3 - 1] \o q[3]
    BY ONLY <1>4, <2>1
  <2>. QED
    BY <2>1, <2>2
<1>. QED
  BY <1>3, <1>5, <1>6, <1>7

\* And four.
LEMMA FlattenFour ==
  ASSUME NEW q, IsSeq(q), Len(q) = 4, IsSeq(q[1]), IsSeq(q[2]), IsSeq(q[3]), IsSeq(q[4])
  PROVE  OneShot!FlattenSeq(q) = q[1] \o q[2] \o q[3] \o q[4]
<1>1. \A i \in 1..4 : i = 1 \/ i = 2 \/ i = 3 \/ i = 4
  OBVIOUS
<1>2. \A i \in 1..Len(q) : IsSeq(q[i])
  BY <1>1
<1>3. PICK f : /\ OneShot!FlattenSeq(q) = f[Len(q)]
               /\ \A i \in 1..Len(q) : f[i] = IF i = 1 THEN q[i] ELSE f[i - 1] \o q[i]
  <2>1. Len(q) > 0 /\ IsSeq(q)
    OBVIOUS
  <2>. QED
    BY ONLY <1>2, <2>1, FlattenedIs
<1>4. \A i \in 1..4 : f[i] = IF i = 1 THEN q[i] ELSE f[i - 1] \o q[i]
  BY <1>3
<1>5. f[1] = q[1]
  <2>1. 1 \in 1..4
    OBVIOUS
  <2>. QED
    BY ONLY <1>4, <2>1
<1>6. f[2] = f[1] \o q[2]
  <2>1. 2 \in 1..4 /\ 2 # 1 /\ 2 - 1 = 1
    OBVIOUS
  <2>2. f[2] = f[2 - 1] \o q[2]
    BY ONLY <1>4, <2>1
  <2>. QED
    BY <2>1, <2>2
<1>7. f[3] = f[2] \o q[3]
  <2>1. 3 \in 1..4 /\ 3 # 1 /\ 3 - 1 = 2
    OBVIOUS
  <2>2. f[3] = f[3 - 1] \o q[3]
    BY ONLY <1>4, <2>1
  <2>. QED
    BY <2>1, <2>2
<1>8. f[4] = f[3] \o q[4]
  <2>1. 4 \in 1..4 /\ 4 # 1 /\ 4 - 1 = 3
    OBVIOUS
  <2>2. f[4] = f[4 - 1] \o q[4]
    BY ONLY <1>4, <2>1
  <2>. QED
    BY <2>1, <2>2
<1>. QED
  BY <1>3, <1>5, <1>6, <1>7, <1>8

\* A release or none.
LEMMA SeqWhen == ASSUME NEW r, NEW there PROVE IsSeq(OneShot!When(there, r))
  BY SeqOne, SeqNone DEF OneShot!When

\* What ssl and the services hold once the socket is theirs.
SslHeld == {"service", "ssl", "context", "connection"}

\* SslReleases, with the descriptor given back by ssl or without.
LEMMA SslUndoes ==
  ASSUME NEW H \in {SslHeld, SslHeld \cup {"descriptor"}}
  PROVE  Undoes(OneShot!SslReleases, H)
<1>. DEFINE q == OneShot!SslReleases
            w == OneShot!When("descriptor" \in H, "descriptor")
            J == H \ {"connection"}
            K == J \ {"descriptor"}
<1>1. OwnedBy(H, q) = <<"connection">> \o w \o <<"context">>
  <2>1. DOMAIN q = 1..3 /\ q[1] = "connection" /\ q[2] = "descriptor" /\ q[3] = "context"
    BY DEF OneShot!SslReleases
  <2>. DEFINE p == [i \in DOMAIN q |-> OneShot!When(q[i] \in OneShot!Tested => q[i] \in H, q[i])]
  <2>2. DOMAIN p = 1..3 /\ p[1] = <<"connection">> /\ p[2] = w /\ p[3] = <<"context">>
    BY <2>1 DEF OneShot!When, OneShot!Tested
  <2>3. IsSeq(p) /\ Len(p) = 3
    <3>1. \A i \in 1..3 : p[i] \in {<<"connection">>, w, <<"context">>}
      <4>1. \A i \in 1..3 : i = 1 \/ i = 2 \/ i = 3
        OBVIOUS
      <4>. HIDE DEF p, w
      <4>. QED
        BY <2>2, <4>1
    <3>2. p = [i \in 1..3 |-> p[i]]
      BY <2>1
    <3>. DEFINE S == {<<"connection">>, w, <<"context">>}
    <3>. HIDE DEF p, w, S
    <3>3. p \in Seq(S) /\ Len(p) = 3
      <4>1. \A i \in 1..3 : p[i] \in S
        BY <3>1 DEF S
      <4>. QED
        BY ONLY <3>2, <4>1
    <3>. QED
      BY <3>3 DEF IsSeq
  <2>4. IsSeq(<<"connection">>) /\ IsSeq(w) /\ IsSeq(<<"context">>)
    BY SeqOne, SeqWhen
  <2>. HIDE DEF p, q, w
  <2>5. OneShot!FlattenSeq(p) = <<"connection">> \o w \o <<"context">>
    BY <2>2, <2>3, <2>4, FlattenThree
  <2>. USE DEF p
  <2>. QED
    BY <2>5 DEF OwnedBy
<1>2. H \in {{"service", "ssl", "context", "connection"}, {"service", "ssl", "context", "connection",
        "descriptor"}}
  BY DEF SslHeld
<1>3. Frees(<<"connection">>, H, J)
  BY <1>2, UsersAre, FreesOne
<1>4. ("descriptor" \in H <=> "descriptor" \in J) /\ K = {"service", "ssl", "context"}
  BY <1>2
<1>5. Frees(w, J, K)
  <2>1. Frees(OneShot!When("descriptor" \in J, "descriptor"), J, K)
    <3>. HIDE DEF J
    <3>. QED
      BY UsersAre, FreesWhen
  <2>2. w = OneShot!When("descriptor" \in J, "descriptor")
    BY <1>4 DEF OneShot!When
  <2>. QED
    BY <2>1, <2>2
<1>6. Frees(<<"context">>, K, {"service", "ssl"})
  <2>1. "context" \in K /\ \A user \in K : ~OneShot!Uses(user, "context")
    BY <1>4, UsersAre
  <2>2. K \ {"context"} = {"service", "ssl"}
    BY <1>4
  <2>. HIDE DEF K
  <2>. QED
    BY <2>1, <2>2, FreesOne
<1>7. Frees(ScopesOf({"service", "ssl"}), {"service", "ssl"}, {})
  BY ScopesFree
<1>8. ScopesOf(H) = ScopesOf({"service", "ssl"})
  BY <1>2 DEF ScopesOf, OneShot!When
<1>. HIDE DEF w, J, K
<1>9. Frees(<<"connection">> \o w, H, K)
  BY <1>3, <1>5, FreesJoined
<1>10. Frees(<<"connection">> \o w \o <<"context">>, H, {"service", "ssl"})
  BY <1>6, <1>9, FreesJoined
<1>. QED
  BY <1>1, <1>7, <1>8, <1>10, FreesJoined DEF Undoes

\* What manual_bsd_lifecycle may hold.
ManualHeld == {"clone", "monitor", "root", "tmem"}

\* ManualBsdState::Cleanup, whatever there is.
LEMMA CleanupUndoes ==
  ASSUME NEW H, H \subseteq ManualHeld
  PROVE  Undoes(OneShot!Cleanup, H)
<1>. DEFINE q == OneShot!Cleanup
            W(r) == OneShot!When(r \in H, r)
            J == H \ {"clone"}
            K == J \ {"monitor"}
            L == K \ {"root"}
<1>1. OwnedBy(H, q) = W("clone") \o W("monitor") \o W("root") \o W("tmem")
  <2>1. DOMAIN q = 1..4 /\ q[1] = "clone" /\ q[2] = "monitor" /\ q[3] = "root" /\ q[4] = "tmem"
    BY DEF OneShot!Cleanup
  <2>. DEFINE p == [i \in DOMAIN q |-> OneShot!When(q[i] \in OneShot!Tested => q[i] \in H, q[i])]
  <2>2. DOMAIN p = 1..4 /\ p[1] = W("clone") /\ p[2] = W("monitor") /\ p[3] = W("root") /\ p[4] = W("tmem")
    BY <2>1 DEF OneShot!When, OneShot!Tested
  <2>3. IsSeq(p) /\ Len(p) = 4
    <3>1. \A i \in 1..4 : p[i] \in {W("clone"), W("monitor"), W("root"), W("tmem")}
      <4>1. \A i \in 1..4 : i = 1 \/ i = 2 \/ i = 3 \/ i = 4
        OBVIOUS
      <4>. HIDE DEF p, W
      <4>. QED
        BY <2>2, <4>1
    <3>2. p = [i \in 1..4 |-> p[i]]
      BY <2>1
    <3>. DEFINE S == {W("clone"), W("monitor"), W("root"), W("tmem")}
    <3>. HIDE DEF p, W, S
    <3>3. p \in Seq(S) /\ Len(p) = 4
      <4>1. \A i \in 1..4 : p[i] \in S
        BY <3>1 DEF S
      <4>. QED
        BY ONLY <3>2, <4>1
    <3>. QED
      BY <3>3 DEF IsSeq
  <2>4. IsSeq(W("clone")) /\ IsSeq(W("monitor")) /\ IsSeq(W("root")) /\ IsSeq(W("tmem"))
    BY SeqOne, SeqWhen
  <2>. HIDE DEF p, q, W
  <2>5. OneShot!FlattenSeq(p) = W("clone") \o W("monitor") \o W("root") \o W("tmem")
    BY <2>2, <2>3, <2>4, FlattenFour
  <2>. USE DEF p
  <2>. QED
    BY <2>5 DEF OwnedBy
<1>2. /\ "monitor" \in H <=> "monitor" \in J
      /\ "root" \in H <=> "root" \in K
      /\ "tmem" \in H <=> "tmem" \in L
      /\ L \subseteq {"tmem"} /\ L \ {"tmem"} = {}
  BY DEF ManualHeld
<1>3. Frees(W("clone"), H, J)
  BY UsersAre, FreesWhen
<1>. HIDE DEF J, K, L
<1>4. Frees(W("monitor"), J, K)
  <2>1. Frees(OneShot!When("monitor" \in J, "monitor"), J, K)
    BY UsersAre, FreesWhen DEF K
  <2>. QED
    BY <1>2, <2>1 DEF OneShot!When
<1>5. Frees(W("root"), K, L)
  <2>1. Frees(OneShot!When("root" \in K, "root"), K, L)
    BY UsersAre, FreesWhen DEF L
  <2>. QED
    BY <1>2, <2>1 DEF OneShot!When
<1>6. Frees(W("tmem"), L, {})
  <2>1. \A user \in L : ~OneShot!Uses(user, "tmem")
    BY <1>2, UsersAre
  <2>2. Frees(OneShot!When("tmem" \in L, "tmem"), L, L \ {"tmem"})
    BY <2>1, FreesWhen
  <2>. QED
    BY <1>2, <2>2 DEF OneShot!When
<1>7. Frees(ScopesOf({}), {}, {})
  BY ScopesFree
<1>8. ScopesOf(H) = ScopesOf({})
  BY DEF ScopesOf, OneShot!When, ManualHeld
<1>. HIDE DEF W
<1>9. Frees(W("clone") \o W("monitor"), H, K)
  BY <1>3, <1>4, FreesJoined
<1>10. Frees(W("clone") \o W("monitor") \o W("root"), H, L)
  BY <1>5, <1>9, FreesJoined
<1>11. Frees(W("clone") \o W("monitor") \o W("root") \o W("tmem"), H, {})
  BY <1>6, <1>10, FreesJoined
<1>. QED
  BY <1>1, <1>7, <1>8, <1>11, FreesJoined DEF Undoes

-----------------------------------------------------------------------------
(* The one-shot scenarios: what a sequence of steps leads to. *)

\* A step from H on ends, whatever its call brings, in one of J, with what it frees
\* at once freed in order; if it fails, everything is given back.
Fine(step, H, J) ==
  /\ step.after \in {<<>>, <<"addrinfo">>}
  /\ \A gained \in {step.gets} \cup {g \in {{}} : "descriptor" \in step.gets} :
       LET there == (H \ step.moves) \cup gained IN
       /\ \E G \in J : Frees(step.after, there, G)
       /\ \A used \in H \ there : \A user \in there : ~OneShot!Uses(user, used)
  /\ step.fails => Undoes(step.undo, H)

\* The steps q go, through what h says may be held before each, from any of I to one of J.
Through(h, q, I, J) ==
  /\ I \subseteq h[1] /\ h[Len(q) + 1] \subseteq J
  /\ \A i \in 1..Len(q) : \A H \in h[i] : Fine(q[i], H, h[i + 1])

\* Such steps lead from I to J.
Leads(q, I, J) == IsSeq(q) /\ \E h : Through(h, q, I, J)

\* A step may end in more.
LEMMA FineMore == ASSUME NEW step, NEW H, NEW J, NEW K, Fine(step, H, J), J \subseteq K PROVE Fine(step, H, K)
  BY DEF Fine

\* No step.
LEMMA LeadsNone == ASSUME NEW I PROVE Leads(<<>>, I, I)
<1>. DEFINE h == [i \in 1..1 |-> I]
<1>1. h[1] = I /\ Len(<<>>) = 0
  OBVIOUS
<1>. HIDE DEF h
<1>2. Through(h, <<>>, I, I)
  BY <1>1 DEF Through
<1>. QED
  BY <1>2, SeqNone DEF Leads

\* One step.
LEMMA LeadsOne ==
  ASSUME NEW step, NEW I, NEW J, \A H \in I : Fine(step, H, J)
  PROVE  Leads(<<step>>, I, J)
<1>. DEFINE h == [i \in 1..2 |-> IF i = 1 THEN I ELSE J]
            q == <<step>>
<1>1. h[1] = I /\ h[2] = J /\ Len(q) = 1 /\ q[1] = step
  OBVIOUS
<1>2. IsSeq(q)
  BY SeqOne
<1>. HIDE DEF h, q
<1>3. \A i \in 1..1 : i = 1
  OBVIOUS
<1>4. Through(h, q, I, J)
  BY <1>1, <1>3 DEF Through
<1>. QED
  BY <1>2, <1>4 DEF Leads, q

\* Steps after steps.
LEMMA LeadsJoined ==
  ASSUME NEW a, NEW b, NEW I, NEW J, NEW K, Leads(a, I, J), Leads(b, J, K)
  PROVE  Leads(a \o b, I, K)
<1>. DEFINE m == Len(a)
            n == Len(b)
            c == a \o b
<1>1. IsSeq(a) /\ IsSeq(b)
  BY DEF Leads
<1>2. /\ m \in Nat /\ n \in Nat /\ Len(c) = m + n /\ IsSeq(c)
      /\ \A i \in 1..m : c[i] = a[i]
      /\ \A i \in 1..n : c[m + i] = b[i]
      /\ \A i \in 1..m + n : i \in 1..m \/ (i - m \in 1..n /\ i = m + (i - m))
  BY <1>1, JoinedIs
<1>3. PICK f : Through(f, a, I, J)
  BY DEF Leads
<1>4. PICK g : Through(g, b, J, K)
  BY DEF Leads
<1>. DEFINE h == [i \in 1..m + n + 1 |-> IF i <= m THEN f[i] ELSE g[i - m]]
<1>5. /\ I \subseteq f[1] /\ f[m + 1] \subseteq J
      /\ \A i \in 1..m : \A H \in f[i] : Fine(a[i], H, f[i + 1])
  BY <1>3 DEF Through
<1>6. /\ J \subseteq g[1] /\ g[n + 1] \subseteq K
      /\ \A i \in 1..n : \A H \in g[i] : Fine(b[i], H, g[i + 1])
  BY <1>4 DEF Through
<1>. HIDE DEF m, n, c
<1>7. /\ \A i \in 1..m : h[i] = f[i]
      /\ \A i \in 1..n + 1 : h[m + i] = g[i]
  <2>1. ASSUME NEW i \in 1..m PROVE h[i] = f[i]
    BY <1>2
  <2>2. ASSUME NEW i \in 1..n + 1 PROVE h[m + i] = g[i]
    <3>1. m + i \in 1..m + n + 1 /\ ~(m + i <= m) /\ (m + i) - m = i
      BY <1>2
    <3>. QED
      BY <3>1
  <2>. QED
    BY <2>1, <2>2
<1>. HIDE DEF h
<1>8. I \subseteq h[1]
  <2>1. CASE m = 0
    <3>1. h[m + 1] = g[1]
      BY <1>2, <1>7
    <3>. QED
      BY <1>5, <1>6, <2>1, <3>1
  <2>2. CASE m > 0
    BY <1>2, <1>5, <1>7, <2>2
  <2>. QED
    BY <1>2, <2>1, <2>2
<1>9. h[(m + n) + 1] \subseteq K
  <2>1. n + 1 \in 1..n + 1 /\ m + (n + 1) = (m + n) + 1
    BY <1>2
  <2>. QED
    BY <1>6, <1>7, <2>1
<1>10. ASSUME NEW i \in 1..m + n, NEW H \in h[i] PROVE Fine(c[i], H, h[i + 1])
  <2>1. CASE i \in 1..m
    <3>1. c[i] = a[i] /\ Fine(a[i], H, f[i + 1])
      BY <1>2, <1>5, <1>7, <1>10, <2>1
    <3>2. f[i + 1] \subseteq h[i + 1]
      <4>1. CASE i + 1 \in 1..m
        BY <1>7, <4>1
      <4>2. CASE i = m
        <5>1. h[m + 1] = g[1]
          BY <1>2, <1>7
        <5>. QED
          BY <1>5, <1>6, <4>2, <5>1
      <4>. QED
        BY <1>2, <2>1, <4>1, <4>2
    <3>. QED
      BY <3>1, <3>2, FineMore
  <2>2. CASE i - m \in 1..n /\ i = m + (i - m)
    <3>. DEFINE k == i - m
    <3>1. k \in 1..n /\ i = m + k /\ k \in 1..n + 1 /\ k + 1 \in 1..n + 1 /\ i + 1 = m + (k + 1)
      BY <1>2, <2>2
    <3>. HIDE DEF k
    <3>2. c[i] = b[k] /\ h[i] = g[k] /\ h[i + 1] = g[k + 1]
      BY <1>2, <1>7, <3>1
    <3>. QED
      BY <1>6, <1>10, <3>1, <3>2
  <2>. QED
    BY <1>2, <2>1, <2>2
<1>11. Through(h, c, I, K)
  BY <1>2, <1>8, <1>9, <1>10 DEF Through
<1>. QED
  BY <1>2, <1>11 DEF Leads, c

\* They may end in more.
LEMMA LeadsMore ==
  ASSUME NEW q, NEW I, NEW J, NEW K, Leads(q, I, J), J \subseteq K
  PROVE  Leads(q, I, K)
  BY DEF Leads, Through

\* A call that changes nothing, and one that acquires something.
LEMMA DoFine == ASSUME NEW call, NEW undo, NEW H, Undoes(undo, H) PROVE Fine(OneShot!Do(call, undo), H, {H})
<1>. DEFINE step == OneShot!Do(call, undo)
<1>1. step.after = <<>> /\ step.gets = {} /\ step.moves = {} /\ step.undo = undo
  BY DEF OneShot!Do, OneShot!Try
<1>. HIDE DEF step
<1>2. \A gained \in {step.gets} \cup {g \in {{}} : "descriptor" \in step.gets} :
        (H \ step.moves) \cup gained = H
  BY <1>1
<1>3. Frees(step.after, H, H)
  BY <1>1, FreesNone
<1>. QED
  BY <1>1, <1>2, <1>3 DEF Fine, step

\* And one that acquires something.
LEMMA TryFine ==
  ASSUME NEW call, NEW gets, NEW undo, NEW H, "descriptor" \notin gets, Undoes(undo, H)
  PROVE  Fine(OneShot!Try(call, gets, undo), H, {H \cup gets})
<1>. DEFINE step == OneShot!Try(call, gets, undo)
            K == H \cup gets
<1>1. step.after = <<>> /\ step.gets = gets /\ step.moves = {} /\ step.undo = undo
  BY DEF OneShot!Try
<1>. HIDE DEF step
<1>2. \A gained \in {step.gets} \cup {g \in {{}} : "descriptor" \in step.gets} :
        (H \ step.moves) \cup gained = K
  BY <1>1
<1>4. H \ K = {}
  OBVIOUS
<1>. HIDE DEF K
<1>3. Frees(step.after, K, K)
  BY <1>1, FreesNone
<1>. QED
  BY <1>1, <1>2, <1>3, <1>4 DEF Fine, step, K

\* The same as sequences of one step.
LEMMA DoLeads ==
  ASSUME NEW call, NEW undo, NEW H, Undoes(undo, H)
  PROVE  Leads(<<OneShot!Do(call, undo)>>, {H}, {H})
  BY DoFine, LeadsOne

\* And here.
LEMMA TryLeads ==
  ASSUME NEW call, NEW gets, NEW undo, NEW H, "descriptor" \notin gets, Undoes(undo, H)
  PROVE  Leads(<<OneShot!Try(call, gets, undo)>>, {H}, {H \cup gets})
  BY TryFine, LeadsOne

-----------------------------------------------------------------------------
(* The one-shot scenarios: the steps they share. *)

\* Two elements are one and one.
LEMMA PairJoined == ASSUME NEW a, NEW b PROVE <<a, b>> = <<a>> \o <<b>>
<1>. DEFINE x == <<a>>
            y == <<b>>
            t == <<a, b>>
            S == {a, b}
<1>1. x \in Seq(S) /\ y \in Seq(S) /\ t \in Seq(S) /\ Len(x) = 1 /\ Len(y) = 1 /\ Len(t) = 2
      /\ x[1] = a /\ y[1] = b /\ t[1] = a /\ t[2] = b
  OBVIOUS
<1>. HIDE DEF x, y, t, S
<1>2. x \o y \in Seq(S) /\ Len(x \o y) = 2
      /\ \A i \in 1..2 : (x \o y)[i] = IF i <= 1 THEN x[i] ELSE y[i - 1]
  BY <1>1, ConcatProperties
<1>3. \A i \in 1..2 : (x \o y)[i] = t[i]
  BY <1>1, <1>2
<1>4. x \o y = t
  BY ONLY <1>1, <1>2, <1>3, SeqEqual
<1>. QED
  BY <1>4 DEF x, y, t

\* So two steps lead on as one and one do.
LEMMA LeadsPair ==
  ASSUME NEW a, NEW b, NEW I, NEW J, NEW K, Leads(<<a>>, I, J), Leads(<<b>>, J, K)
  PROVE  Leads(<<a, b>>, I, K)
  BY PairJoined, LeadsJoined

\* And three.
LEMMA LeadsThree ==
  ASSUME NEW a, NEW b, NEW c, NEW I, NEW J, NEW K, NEW L,
         Leads(<<a>>, I, J), Leads(<<b>>, J, K), Leads(<<c>>, K, L)
  PROVE  Leads(<<a, b, c>>, I, L)
<1>1. Leads(<<a, b>>, I, K)
  BY LeadsPair
<1>2. <<a, b, c>> = <<a, b>> \o <<c>>
  OBVIOUS
<1>. QED
  BY <1>1, <1>2, LeadsJoined

\* The sockets by their number.
LEMMA SocketIs == OneShot!s = s1 /\ OneShot!Socket(1) = s1 /\ OneShot!Socket(2) = s2 /\ OneShot!Socket(3) = s3
  BY DEF OneShot!s, OneShot!Socket

\* A socket is of no use to another resource, and no test guards its release.
LEMMA SocketPlain ==
  ASSUME NEW k \in {s1, s2, s3}
  PROVE  /\ k \notin {"ssl", "service", "addrinfo", "context", "connection", "descriptor"}
         /\ k \notin OneShot!Tested /\ k \notin ManualHeld
         /\ \A user : ~OneShot!Uses(user, k)
<1>1. k \notin OneShot!Resources
  BY SocketsAre
<1>2. /\ k # "ssl" /\ k # "service" /\ k # "addrinfo" /\ k # "context" /\ k # "connection" /\ k # "descriptor"
      /\ k # "root" /\ k # "monitor" /\ k # "tmem" /\ k # "clone"
  BY <1>1 DEF OneShot!Resources
<1>3. \A user : ~OneShot!Uses(user, k)
  BY <1>2, UsersAre
<1>. HIDE DEF OneShot!Uses
<1>. QED
  BY <1>2, <1>3 DEF OneShot!Tested, ManualHeld

\* Nothing to release but what the stack gives back.
LEMMA ClearsNone == ASSUME NEW H, H \subseteq {"ssl", "service"} PROVE Clears(<<>>, H)
<1>1. H \cap {"ssl", "service"} = H
  OBVIOUS
<1>2. Plain(<<>>)
  BY DEF Plain
<1>. QED
  BY <1>1, <1>2, SeqNone, FreesNone DEF Clears

\* A socket more, closed first.
LEMMA ClearsSocket ==
  ASSUME NEW H, NEW q, Clears(q, H), NEW k \in {s1, s2, s3}, k \notin H
  PROVE  Clears(<<k>> \o q, H \cup {k})
<1>1. k \notin OneShot!Tested /\ k \notin {"ssl", "service"} /\ \A user \in H \cup {k} : ~OneShot!Uses(user, k)
  BY SocketPlain
<1>. QED
  BY <1>1, ClearsMore

\* A socket, and what the stack gives back.
LEMMA ClearsOneSocket ==
  ASSUME NEW H, H \subseteq {"ssl", "service"}, NEW k \in {s1, s2, s3}
  PROVE  Clears(<<k>>, H \cup {k})
<1>1. Clears(<<>>, H) /\ k \notin H
  BY ClearsNone, SocketPlain
<1>2. <<k>> \o <<>> = <<k>>
  OBVIOUS
<1>3. Clears(<<k>> \o <<>>, H \cup {k})
  BY <1>1, ClearsSocket
<1>. QED
  BY <1>2, <1>3

\* A call after which the address list is freed.
LEMMA AfterFine ==
  ASSUME NEW step, step.after = <<"addrinfo">>, step.gets = {}, step.moves = {}, NEW H, "addrinfo" \notin H,
         step.fails => Undoes(step.undo, H \cup {"addrinfo"})
  PROVE  Fine(step, H \cup {"addrinfo"}, {H})
<1>. DEFINE K == H \cup {"addrinfo"}
<1>1. "addrinfo" \in K /\ K \ {"addrinfo"} = H /\ K \ K = {}
  OBVIOUS
<1>. HIDE DEF K
<1>2. Frees(<<"addrinfo">>, K, H)
  <2>1. \A user \in K : ~OneShot!Uses(user, "addrinfo")
    BY UsersAre
  <2>2. Frees(<<"addrinfo">>, K, K \ {"addrinfo"})
    BY <1>1, <2>1, FreesOne
  <2>. QED
    BY <1>1, <2>2
<1>3. \A gained \in {step.gets} \cup {g \in {{}} : "descriptor" \in step.gets} :
        (K \ step.moves) \cup gained = K
  OBVIOUS
<1>. QED
  BY <1>1, <1>2, <1>3 DEF Fine, K

\* ResolveIpv4, which keeps nothing.
LEMMA ResolveLeads ==
  ASSUME NEW H, NEW undo, Clears(undo, H), "addrinfo" \notin H
  PROVE  Leads(OneShot!Resolve(undo), {H}, {H})
<1>. DEFINE a == OneShot!Try("getaddrinfo", {"addrinfo"}, undo)
            b == [OneShot!Do("first AF_INET", <<"addrinfo">> \o undo) EXCEPT !.after = <<"addrinfo">>]
<1>1. Leads(<<a>>, {H}, {H \cup {"addrinfo"}})
  BY ClearsUndoes, TryLeads
<1>2. Undoes(<<"addrinfo">> \o undo, H \cup {"addrinfo"})
  <2>1. "addrinfo" \notin OneShot!Tested /\ "addrinfo" \notin {"ssl", "service"}
    BY DEF OneShot!Tested
  <2>2. \A user \in H \cup {"addrinfo"} : ~OneShot!Uses(user, "addrinfo")
    BY UsersAre
  <2>. QED
    BY <2>1, <2>2, ClearsMore, ClearsUndoes
<1>3. b.after = <<"addrinfo">> /\ b.gets = {} /\ b.moves = {} /\ b.undo = <<"addrinfo">> \o undo
  BY DEF OneShot!Do, OneShot!Try
<1>4. OneShot!Resolve(undo) = <<a, b>>
  BY DEF OneShot!Resolve
<1>. HIDE DEF a, b
<1>5. Fine(b, H \cup {"addrinfo"}, {H})
  BY <1>2, <1>3, AfterFine
<1>6. Leads(<<b>>, {H \cup {"addrinfo"}}, {H})
  BY <1>5, LeadsOne
<1>. QED
  BY <1>1, <1>4, <1>6, LeadsPair

\* SetSocketTimeouts.
LEMMA TimeoutLeads ==
  ASSUME NEW H, NEW undo, Undoes(undo, H)
  PROVE  Leads(OneShot!SetSocketTimeouts(undo), {H}, {H})
  BY DoLeads, LeadsPair DEF OneShot!SetSocketTimeouts

\* A socket is opened.
LEMMA OpenLeads ==
  ASSUME NEW H, NEW undo, Undoes(undo, H), NEW k \in {s1, s2, s3}
  PROVE  Leads(<<OneShot!OpenSocket(k, undo)>>, {H}, {H \cup {k}})
<1>1. "descriptor" \notin {k}
  BY SocketPlain
<1>. QED
  BY <1>1, TryLeads DEF OneShot!OpenSocket

\* ConnectResolvedTcp.
LEMMA ConnectLeads ==
  ASSUME NEW H, NEW others, Clears(others, H), "addrinfo" \notin H, NEW k \in {s1, s2, s3}, k \notin H
  PROVE  Leads(OneShot!ConnectResolvedTcp(k, others), {H}, {H \cup {k}})
<1>. DEFINE J == H \cup {k}
            u == <<k>> \o others
            a == OneShot!Resolve(others)
            b == <<OneShot!OpenSocket(k, others)>>
            c == OneShot!SetSocketTimeouts(u)
            d == <<OneShot!Do("connect", u)>>
<1>1. Undoes(others, H) /\ Undoes(u, J)
  BY ClearsUndoes, ClearsSocket
<1>2. Leads(a, {H}, {H})
  BY ResolveLeads
<1>3. Leads(b, {H}, {J})
  BY <1>1, OpenLeads
<1>4. Leads(c, {J}, {J}) /\ Leads(d, {J}, {J})
  <2>. HIDE DEF u, J
  <2>. QED
    BY <1>1, TimeoutLeads, DoLeads
<1>5. OneShot!ConnectResolvedTcp(k, others) = a \o b \o c \o d
  BY DEF OneShot!ConnectResolvedTcp
<1>. HIDE DEF J, a, b, c, d
<1>6. Leads(a \o b, {H}, {J})
  BY <1>2, <1>3, LeadsJoined
<1>7. Leads(a \o b \o c, {H}, {J})
  BY <1>4, <1>6, LeadsJoined
<1>8. Leads(a \o b \o c \o d, {H}, {J})
  BY <1>4, <1>7, LeadsJoined
<1>. QED
  BY <1>5, <1>8 DEF J

\* From nothing held to nothing held, on every way out.
Sound(sc) ==
  \E J : Leads(sc.steps, {{}}, J) /\ \A H \in J : Undoes(sc.release, H)

\* A scenario is sound by its steps and the releases at its end.
LEMMA SoundIs ==
  ASSUME NEW q, NEW r, NEW w, NEW J, Leads(q, {{}}, J), \A H \in J : Undoes(r, H)
  PROVE  Sound(OneShot!Scenario(q, r, w))
<1>1. OneShot!Scenario(q, r, w).steps = q /\ OneShot!Scenario(q, r, w).release = r
  BY DEF OneShot!Scenario
<1>. QED
  BY <1>1 DEF Sound

\* Nothing to release.
LEMMA NothingUndone == Clears(<<>>, {}) /\ Undoes(<<>>, {})
  BY ClearsNone, ClearsUndoes

\* One socket to close.
LEMMA SocketUndone == ASSUME NEW k \in {s1, s2, s3} PROVE Clears(<<k>>, {k}) /\ Undoes(<<k>>, {k})
<1>1. Clears(<<k>>, {} \cup {k})
  BY ClearsOneSocket
<1>2. {} \cup {k} = {k}
  OBVIOUS
<1>. QED
  BY <1>1, <1>2, ClearsUndoes

-----------------------------------------------------------------------------
(* The one-shot scenarios, one by one: a socket at a time, and bsd:s itself. *)

\* The first connection.
LEMMA FirstConnectLeads == Leads(OneShot!ConnectResolvedTcp(s1, <<>>), {{}}, {{s1}})
<1>1. Clears(<<>>, {}) /\ "addrinfo" \notin {} /\ s1 \notin {} /\ {} \cup {s1} = {s1}
  BY NothingUndone
<1>2. Leads(OneShot!ConnectResolvedTcp(s1, <<>>), {{}}, {{} \cup {s1}})
  BY <1>1, ConnectLeads
<1>. QED
  BY <1>1, <1>2

\* A call on the socket.
LEMMA CallLeads == ASSUME NEW call PROVE Leads(<<OneShot!Do(call, <<s1>>)>>, {{s1}}, {{s1}})
  BY SocketUndone, DoLeads

\* DnsResolve.
LEMMA DnsSound == Sound(OneShot!DnsResolve)
<1>. DEFINE a == OneShot!Try("getaddrinfo", {"addrinfo"}, <<>>)
            b == [OneShot!Do("collect", <<>>) EXCEPT !.after = <<"addrinfo">>, !.fails = FALSE]
            q == <<a, b>>
<1>1. Leads(<<a>>, {{}}, {{} \cup {"addrinfo"}})
  BY NothingUndone, TryLeads
<1>2. b.after = <<"addrinfo">> /\ b.gets = {} /\ b.moves = {} /\ ~b.fails
  BY DEF OneShot!Do, OneShot!Try
<1>3. OneShot!DnsResolve = OneShot!Scenario(q, <<>>, "some")
  BY DEF OneShot!DnsResolve
<1>. HIDE DEF a, b
<1>4. Fine(b, {} \cup {"addrinfo"}, {{}})
  BY <1>2, AfterFine
<1>5. Leads(<<b>>, {{} \cup {"addrinfo"}}, {{}})
  BY <1>4, LeadsOne
<1>6. Leads(q, {{}}, {{}})
  BY <1>1, <1>5, LeadsPair
<1>7. \A H \in {{}} : Undoes(<<>>, H)
  BY NothingUndone
<1>. DEFINE J == {{}}
            r == <<>>
<1>8. Leads(q, {{}}, J) /\ \A H \in J : Undoes(r, H)
  BY <1>6, <1>7
<1>. HIDE DEF q, J, r
<1>9. Sound(OneShot!Scenario(q, r, "some"))
  BY ONLY <1>8, SoundIs
<1>. QED
  BY <1>3, <1>9 DEF r

\* The scenarios that connect by TCP.
LEMMA TcpSound == Sound(OneShot!PlainTcpConnect) /\ Sound(OneShot!IdleTcpHold) /\ Sound(OneShot!HttpGet)
<1>. DEFINE a == OneShot!ConnectResolvedTcp(s1, <<>>)
            b == <<OneShot!Do("send", <<s1>>), OneShot!Do("recv", <<s1>>)>>
            c == <<OneShot!Do("format", <<s1>>), OneShot!Do("send", <<s1>>), OneShot!Do("recv", <<s1>>)>>
<1>1. Leads(a, {{}}, {{s1}})
  BY FirstConnectLeads
<1>2. Leads(b, {{s1}}, {{s1}})
  BY CallLeads, LeadsPair
<1>3. Leads(c, {{s1}}, {{s1}})
  BY CallLeads, LeadsThree
<1>4. /\ OneShot!PlainTcpConnect = OneShot!Scenario(a \o b, <<s1>>, "some")
      /\ OneShot!IdleTcpHold = OneShot!Scenario(a, <<s1>>, "nothing")
      /\ OneShot!HttpGet = OneShot!Scenario(a \o c, <<s1>>, "some")
  BY SocketIs DEF OneShot!PlainTcpConnect, OneShot!IdleTcpHold, OneShot!HttpGet
<1>. HIDE DEF a, b, c
<1>5. Leads(a \o b, {{}}, {{s1}}) /\ Leads(a \o c, {{}}, {{s1}})
  BY <1>1, <1>2, <1>3, LeadsJoined
<1>6. \A H \in {{s1}} : Undoes(<<s1>>, H)
  BY SocketUndone
<1>. QED
  BY <1>1, <1>4, <1>5, <1>6, SoundIs

\* The first socket.
LEMMA FirstOpenLeads == Leads(<<OneShot!OpenSocket(s1, <<>>)>>, {{}}, {{s1}})
<1>1. Leads(<<OneShot!OpenSocket(s1, <<>>)>>, {{}}, {{} \cup {s1}}) /\ {} \cup {s1} = {s1}
  BY NothingUndone, OpenLeads
<1>. QED
  BY <1>1

\* Those that only have a UDP socket.
LEMMA UdpSocketSound ==
  ASSUME NEW q, Leads(q, {{s1}}, {{s1}})
  PROVE  Sound(OneShot!UdpSocket(q))
<1>1. Leads(<<OneShot!OpenSocket(s1, <<>>)>> \o q, {{}}, {{s1}})
  BY FirstOpenLeads, LeadsJoined
<1>2. OneShot!UdpSocket(q) = OneShot!Scenario(<<OneShot!OpenSocket(s1, <<>>)>> \o q, <<s1>>, "nothing")
  BY SocketIs DEF OneShot!UdpSocket
<1>3. \A H \in {{s1}} : Undoes(<<s1>>, H)
  BY SocketUndone
<1>. QED
  BY <1>1, <1>2, <1>3, SoundIs

\* Those that send to the UDP target.
LEMMA UdpExchangeSound ==
  ASSUME NEW q, Leads(q, {{s1}}, {{s1}}), NEW w
  PROVE  Sound(OneShot!UdpExchange(q, w))
<1>. DEFINE a == OneShot!Resolve(<<>>)
            b == <<OneShot!OpenSocket(s1, <<>>)>>
<1>1. Leads(a, {{}}, {{}})
  BY NothingUndone, ResolveLeads
<1>2. Leads(b, {{}}, {{s1}})
  BY FirstOpenLeads
<1>3. OneShot!UdpExchange(q, w) = OneShot!Scenario(a \o b \o q, <<s1>>, w)
  BY SocketIs DEF OneShot!UdpExchange
<1>. HIDE DEF a, b
<1>4. Leads(a \o b, {{}}, {{s1}})
  BY <1>1, <1>2, LeadsJoined
<1>5. Leads(a \o b \o q, {{}}, {{s1}})
  BY <1>4, LeadsJoined
<1>6. \A H \in {{s1}} : Undoes(<<s1>>, H)
  BY SocketUndone
<1>. QED
  BY <1>3, <1>5, <1>6, SoundIs

\* The timeouts some of them set.
LEMMA OptionLeads == ASSUME NEW enabled PROVE Leads(OneShot!Timeouts(enabled), {{s1}}, {{s1}})
  BY SocketIs, SocketUndone, TimeoutLeads, LeadsNone DEF OneShot!Timeouts

\* All of the UDP ones.
LEMMA UdpSound ==
  /\ Sound(OneShot!UdpSocket(<<>>))
  /\ Sound(OneShot!UdpSocket(OneShot!SetSocketTimeouts(<<OneShot!s>>)))
  /\ Sound(OneShot!UdpSocket(<<OneShot!Do("setsockopt", <<OneShot!s>>)>>))
  /\ Sound(OneShot!UdpSendToOnly) /\ Sound(OneShot!UdpConnectSendOnly) /\ Sound(OneShot!UdpEcho)
<1>1. Sound(OneShot!UdpSocket(<<>>))
  BY LeadsNone, UdpSocketSound
<1>2. Sound(OneShot!UdpSocket(OneShot!SetSocketTimeouts(<<OneShot!s>>)))
  <2>1. Leads(OneShot!SetSocketTimeouts(<<s1>>), {{s1}}, {{s1}})
    BY SocketUndone, TimeoutLeads
  <2>. QED
    BY <2>1, SocketIs, UdpSocketSound
<1>3. Sound(OneShot!UdpSocket(<<OneShot!Do("setsockopt", <<OneShot!s>>)>>))
  BY CallLeads, SocketIs, UdpSocketSound
<1>4. Sound(OneShot!UdpSendToOnly)
  <2>. DEFINE a == OneShot!Timeouts(FALSE)
              b == <<OneShot!Do("sendto", <<s1>>)>>
  <2>1. Leads(a, {{s1}}, {{s1}}) /\ Leads(b, {{s1}}, {{s1}})
    BY CallLeads, OptionLeads
  <2>2. OneShot!UdpSendToOnly = OneShot!UdpExchange(a \o b, "nothing")
    BY SocketIs DEF OneShot!UdpSendToOnly
  <2>. HIDE DEF a, b
  <2>3. Leads(a \o b, {{s1}}, {{s1}})
    BY <2>1, LeadsJoined
  <2>. QED
    BY <2>2, <2>3, UdpExchangeSound
<1>5. Sound(OneShot!UdpConnectSendOnly)
  <2>. DEFINE a == OneShot!Timeouts(TRUE)
              b == <<OneShot!Do("connect", <<s1>>), OneShot!Do("send", <<s1>>)>>
  <2>1. Leads(a, {{s1}}, {{s1}}) /\ Leads(b, {{s1}}, {{s1}})
    BY CallLeads, OptionLeads, LeadsPair
  <2>2. OneShot!UdpConnectSendOnly = OneShot!UdpExchange(a \o b, "nothing")
    BY SocketIs DEF OneShot!UdpConnectSendOnly
  <2>. HIDE DEF a, b
  <2>3. Leads(a \o b, {{s1}}, {{s1}})
    BY <2>1, LeadsJoined
  <2>. QED
    BY <2>2, <2>3, UdpExchangeSound
<1>6. Sound(OneShot!UdpEcho)
  <2>. DEFINE a == OneShot!Timeouts(FALSE)
              b == <<OneShot!Do("sendto", <<s1>>)>>
              c == <<OneShot!Do("poll", <<s1>>)>>
              d == <<OneShot!Do("recv", <<s1>>)>>
  <2>1. Leads(a, {{s1}}, {{s1}}) /\ Leads(b, {{s1}}, {{s1}})
    BY CallLeads, OptionLeads
  <2>2. Leads(c, {{s1}}, {{s1}}) /\ Leads(d, {{s1}}, {{s1}})
    BY CallLeads
  <2>3. OneShot!UdpEcho = OneShot!UdpExchange(a \o b \o c \o d, "right")
    BY SocketIs DEF OneShot!UdpEcho
  <2>. HIDE DEF a, b, c, d
  <2>4. Leads(a \o b, {{s1}}, {{s1}})
    BY <2>1, LeadsJoined
  <2>5. Leads(a \o b \o c, {{s1}}, {{s1}})
    BY <2>2, <2>4, LeadsJoined
  <2>6. Leads(a \o b \o c \o d, {{s1}}, {{s1}})
    BY <2>2, <2>5, LeadsJoined
  <2>. QED
    BY <2>3, <2>6, UdpExchangeSound
<1>. QED
  BY <1>1, <1>2, <1>3, <1>4, <1>5, <1>6

\* Any step of manual_bsd_lifecycle.
LEMMA ManualLeads ==
  /\ \A call : Leads(<<OneShot!Do(call, OneShot!Cleanup)>>, SUBSET ManualHeld, SUBSET ManualHeld)
  /\ \A call, r : r \in ManualHeld =>
       Leads(<<OneShot!Try(call, {r}, OneShot!Cleanup)>>, SUBSET ManualHeld, SUBSET ManualHeld)
<1>1. ASSUME NEW call, NEW H \in SUBSET ManualHeld PROVE Fine(OneShot!Do(call, OneShot!Cleanup), H,
               SUBSET ManualHeld)
  <2>1. Undoes(OneShot!Cleanup, H) /\ {H} \subseteq SUBSET ManualHeld
    BY CleanupUndoes
  <2>2. Fine(OneShot!Do(call, OneShot!Cleanup), H, {H})
    BY <2>1, DoFine
  <2>. QED
    BY <2>1, <2>2, FineMore
<1>2. ASSUME NEW call, NEW r \in ManualHeld, NEW H \in SUBSET ManualHeld
      PROVE  Fine(OneShot!Try(call, {r}, OneShot!Cleanup), H, SUBSET ManualHeld)
  <2>1. "descriptor" \notin {r} /\ {H \cup {r}} \subseteq SUBSET ManualHeld
    BY DEF ManualHeld
  <2>2. Undoes(OneShot!Cleanup, H)
    BY CleanupUndoes
  <2>3. Fine(OneShot!Try(call, {r}, OneShot!Cleanup), H, {H \cup {r}})
    BY <2>1, <2>2, TryFine
  <2>. QED
    BY <2>1, <2>3, FineMore
<1>. QED
  BY <1>1, <1>2, LeadsOne

\* ManualBsdLifecycle, in every build.
LEMMA ManualSound == ASSUME NEW ph PROVE Sound(OneShot!ManualBsdLifecycle(ph))
<1>. DEFINE u == OneShot!Cleanup
            I == SUBSET ManualHeld
            P(k, step) == IF k \in ph THEN <<step>> ELSE <<>>
            a == <<OneShot!Try("open root", {"root"}, u)>>
            b == P("monitor", OneShot!Try("open monitor", {"monitor"}, u))
            c == P("tmem", OneShot!Try("create tmem", {"tmem"}, u))
            d == P("register", OneShot!Do("RegisterClient", u))
            e == P("start", OneShot!Do("StartMonitoring", u))
            f == P("clone", OneShot!Try("clone root", {"clone"}, u))
<1>1. {"root", "monitor", "tmem", "clone"} \subseteq ManualHeld
  BY DEF ManualHeld
<1>2. Leads(a, I, I)
  BY <1>1, ManualLeads
<1>3. ASSUME NEW k, NEW step, Leads(<<step>>, I, I) PROVE Leads(P(k, step), I, I)
  BY <1>3, LeadsNone
<1>4. OneShot!ManualBsdLifecycle(ph) = OneShot!Scenario(a \o b \o c \o d \o e \o f, u, "nothing")
  BY DEF OneShot!ManualBsdLifecycle
<1>5. /\ Leads(<<OneShot!Try("open monitor", {"monitor"}, u)>>, I, I)
      /\ Leads(<<OneShot!Try("create tmem", {"tmem"}, u)>>, I, I)
      /\ Leads(<<OneShot!Do("RegisterClient", u)>>, I, I)
      /\ Leads(<<OneShot!Do("StartMonitoring", u)>>, I, I)
      /\ Leads(<<OneShot!Try("clone root", {"clone"}, u)>>, I, I)
  BY <1>1, ManualLeads
<1>. HIDE DEF I, P
<1>6. Leads(b, I, I) /\ Leads(c, I, I) /\ Leads(d, I, I) /\ Leads(e, I, I) /\ Leads(f, I, I)
  BY <1>3, <1>5
<1>. HIDE DEF a, b, c, d, e, f, u
<1>7. Leads(a \o b, I, I)
  BY <1>2, <1>6, LeadsJoined
<1>8. Leads(a \o b \o c, I, I)
  BY <1>6, <1>7, LeadsJoined
<1>9. Leads(a \o b \o c \o d, I, I)
  BY <1>6, <1>8, LeadsJoined
<1>10. Leads(a \o b \o c \o d \o e, I, I)
  BY <1>6, <1>9, LeadsJoined
<1>11. Leads(a \o b \o c \o d \o e \o f, I, I)
  BY <1>6, <1>10, LeadsJoined
<1>12. Leads(a \o b \o c \o d \o e \o f, {{}}, I)
  <2>1. Leads(<<>>, {{}}, {{}}) /\ {{}} \subseteq I
    BY LeadsNone DEF I
  <2>2. Leads(<<>>, {{}}, I)
    BY <2>1, LeadsMore
  <2>3. Leads(<<>> \o (a \o b \o c \o d \o e \o f), {{}}, I)
    BY <1>11, <2>2, LeadsJoined
  <2>4. IsSeq(a \o b \o c \o d \o e \o f)
    BY <1>11 DEF Leads
  <2>5. <<>> \o (a \o b \o c \o d \o e \o f) = a \o b \o c \o d \o e \o f
    <3>. DEFINE q == a \o b \o c \o d \o e \o f
    <3>1. IsSeq(q)
      BY <2>4
    <3>. HIDE DEF q
    <3>2. <<>> \o q = q
      BY <3>1, ConcatEmptySeq DEF IsSeq
    <3>. QED
      BY <3>2 DEF q
  <2>. QED
    BY <2>3, <2>5
<1>13. \A H \in I : Undoes(u, H)
  BY CleanupUndoes DEF I, u
<1>. QED
  BY <1>4, <1>12, <1>13, SoundIs

-----------------------------------------------------------------------------
(* The one-shot scenarios, one by one: ssl. *)

\* Seven steps that keep what is held.
LEMMA LeadsSeven ==
  ASSUME NEW a, NEW b, NEW c, NEW d, NEW e, NEW f, NEW g, NEW I,
         Leads(<<a>>, I, I), Leads(<<b>>, I, I), Leads(<<c>>, I, I), Leads(<<d>>, I, I),
         Leads(<<e>>, I, I), Leads(<<f>>, I, I), Leads(<<g>>, I, I)
  PROVE  Leads(<<a, b, c, d, e, f, g>>, I, I)
<1>1. Leads(<<a, b, c>>, I, I) /\ Leads(<<d, e>>, I, I) /\ Leads(<<f, g>>, I, I)
  BY LeadsPair, LeadsThree
<1>2. Leads(<<a, b, c>> \o <<d, e>>, I, I)
  BY <1>1, LeadsJoined
<1>3. Leads((<<a, b, c>> \o <<d, e>>) \o <<f, g>>, I, I)
  BY <1>1, <1>2, LeadsJoined
<1>4. <<a, b, c, d, e, f, g>> = (<<a, b, c>> \o <<d, e>>) \o <<f, g>>
  OBVIOUS
<1>. QED
  BY <1>3, <1>4

\* Four steps, and those seven.
LEMMA LeadsEleven ==
  ASSUME NEW a, NEW b, NEW c, NEW d, NEW e, NEW f, NEW g, NEW h, NEW i, NEW j, NEW k,
         NEW I, NEW J, Leads(<<a, b>> \o <<c, d>>, I, J), Leads(<<e, f, g, h, i, j, k>>, J, J)
  PROVE  Leads(<<a, b, c, d, e, f, g, h, i, j, k>>, I, J)
<1>1. Leads((<<a, b>> \o <<c, d>>) \o <<e, f, g, h, i, j, k>>, I, J)
  BY LeadsJoined
<1>2. <<a, b, c, d, e, f, g, h, i, j, k>> = (<<a, b>> \o <<c, d>>) \o <<e, f, g, h, i, j, k>>
  OBVIOUS
<1>. QED
  BY <1>1, <1>2

\* The socket changes hands; ssl keeps no descriptor of it when it answers ENOENT.
LEMMA TransferFine ==
  Fine(OneShot!Transfer, SslHeld \cup {s1}, {SslHeld, SslHeld \cup {"descriptor"}})
<1>. DEFINE step == OneShot!Transfer
            H == SslHeld \cup {s1}
            J == {SslHeld, SslHeld \cup {"descriptor"}}
            u == <<"connection", "context", s1>>
            <1>1. step.after = <<>> /\ step.gets = {"descriptor"} /\ step.moves = {s1} /\ step.undo = u
  BY SocketIs DEF OneShot!Transfer, OneShot!Try
<1>2. s1 \notin SslHeld /\ s1 \notin {"ssl", "service", "descriptor"}
  BY SocketPlain DEF SslHeld
<1>3. ASSUME NEW g \in {step.gets} \cup {x \in {{}} : "descriptor" \in step.gets}
      PROVE  (H \ step.moves) \cup g \in J /\ H \ ((H \ step.moves) \cup g) = {s1}
  <2>1. g = {"descriptor"} \/ g = {}
    BY <1>1, <1>3
  <2>2. H \ step.moves = SslHeld
    BY <1>1, <1>2
  <2>. HIDE DEF step
  <2>3. H \ SslHeld = {s1} /\ H \ (SslHeld \cup {"descriptor"}) = {s1}
    BY <1>2
  <2>4. SslHeld \cup {} = SslHeld
    OBVIOUS
  <2>. HIDE DEF H
  <2>. QED
    BY <2>1, <2>2, <2>3, <2>4
<1>4. Undoes(u, H)
  <2>1. Clears(<<s1>>, {"ssl", "service"} \cup {s1})
    BY ClearsOneSocket
  <2>. DEFINE A == {"ssl", "service"} \cup {s1}
              B == A \cup {"context"}
  <2>2. "context" \notin A /\ "connection" \notin B
    BY SocketPlain
  <2>3. "context" \notin OneShot!Tested /\ "connection" \notin OneShot!Tested
    BY DEF OneShot!Tested
  <2>4. Clears(<<"context">> \o <<s1>>, B)
    <3>1. \A user \in B : ~OneShot!Uses(user, "context")
      BY <2>2, UsersAre
    <3>2. Clears(<<s1>>, A)
      BY <2>1
    <3>. HIDE DEF A
    <3>. QED
      BY <2>2, <2>3, <3>1, <3>2, ClearsMore
  <2>5. Clears(<<"connection">> \o (<<"context">> \o <<s1>>), B \cup {"connection"})
    <3>1. \A user \in B \cup {"connection"} : ~OneShot!Uses(user, "connection")
      BY UsersAre
    <3>. HIDE DEF B
    <3>. QED
      BY <2>2, <2>3, <2>4, <3>1, ClearsMore
  <2>6. B \cup {"connection"} = H
    BY DEF SslHeld
  <2>7. u = <<"connection">> \o (<<"context">> \o <<s1>>)
    <3>1. <<"context">> \o <<s1>> = <<"context", s1>>
      BY PairJoined
    <3>2. u = <<"connection">> \o <<"context", s1>>
      OBVIOUS
    <3>. QED
      BY <3>1, <3>2
  <2>. HIDE DEF B, H, u
  <2>. QED
    BY <2>5, <2>6, <2>7, ClearsUndoes
<1>5. \A user : ~OneShot!Uses(user, s1)
  BY SocketPlain
<1>. HIDE DEF step, H, J, u
<1>6. \A there : Frees(step.after, there, there)
  BY <1>1, FreesNone
<1>7. ASSUME NEW g \in {step.gets} \cup {x \in {{}} : "descriptor" \in step.gets}
      PROVE  LET there == (H \ step.moves) \cup g IN
             /\ \E G \in J : Frees(step.after, there, G)
             /\ \A used \in H \ there : \A user \in there : ~OneShot!Uses(user, used)
  <2>. DEFINE there == (H \ step.moves) \cup g
  <2>1. there \in J /\ H \ there = {s1}
    BY <1>3
  <2>. HIDE DEF there
  <2>2. /\ \E G \in J : Frees(step.after, there, G)
        /\ \A used \in H \ there : \A user \in there : ~OneShot!Uses(user, used)
    BY <1>5, <1>6, <2>1
  <2>. QED
    BY <2>2 DEF there
<1>8. step.after \in {<<>>, <<"addrinfo">>} /\ (step.fails => Undoes(step.undo, H))
  BY <1>1, <1>4
<1>9. Fine(step, H, J)
  BY <1>7, <1>8 DEF Fine
<1>. QED
  BY <1>9 DEF step, H, J

\* VerifiedHttpsGet.
LEMMA TlsSound == ASSUME NEW wants PROVE Sound(OneShot!VerifiedHttpsGet(wants))
<1>. DEFINE r == OneShot!SslReleases
            S == {"service"}
            T == {"service", "ssl"}
            U == T \cup {s1}
            V == U \cup {"context"}
            W == V \cup {"connection"}
            J == {SslHeld, SslHeld \cup {"descriptor"}}
            a == <<OneShot!Try("socketInitialize", {"service"}, <<>>), OneShot!Try("sslInitialize", {"ssl"},
              <<>>)>>
            b == OneShot!Resolve(<<>>)
            c == <<OneShot!OpenSocket(s1, <<>>)>>
            d == OneShot!SetSocketTimeouts(<<s1>>)
            e == << OneShot!Do("connect", <<s1>>),
                    OneShot!Try("sslCreateContext", {"context"}, <<s1>>),
                    OneShot!Try("sslContextCreateConnection", {"connection"}, <<"context", s1>>),
                    OneShot!Transfer,
                    OneShot!Do("host name", r), OneShot!Do("verify option", r),
                    OneShot!Do("io mode", r), OneShot!Do("handshake", r),
                    OneShot!Do("format", r), OneShot!Do("write", r), OneShot!Do("recv", r) >>
<1>1. OneShot!VerifiedHttpsGet(wants) = OneShot!Scenario(a \o b \o c \o d \o e, r, wants)
  BY SocketIs DEF OneShot!VerifiedHttpsGet
<1>2. /\ Clears(<<>>, T) /\ Undoes(<<>>, {}) /\ Undoes(<<>>, S) /\ Undoes(<<>>, T)
      /\ Clears(<<s1>>, U) /\ Undoes(<<s1>>, U)
  <2>1. Clears(<<>>, {}) /\ Clears(<<>>, S) /\ Clears(<<>>, T)
    BY ClearsNone
  <2>2. Clears(<<s1>>, U)
    BY ClearsOneSocket
  <2>. HIDE DEF S, T, U
  <2>. QED
    BY <2>1, <2>2, ClearsUndoes
<1>3. Undoes(<<"context", s1>>, V)
  <2>1. /\ "context" \notin U /\ "context" \notin OneShot!Tested /\ "context" \notin {"ssl", "service"}
        /\ \A user \in U \cup {"context"} : ~OneShot!Uses(user, "context")
    BY SocketPlain, UsersAre DEF OneShot!Tested
  <2>2. <<"context", s1>> = <<"context">> \o <<s1>>
    BY PairJoined
  <2>. HIDE DEF U
  <2>3. Clears(<<"context">> \o <<s1>>, V)
    BY <1>2, <2>1, ClearsMore
  <2>. HIDE DEF V
  <2>. QED
    BY <2>2, <2>3, ClearsUndoes
<1>4. W = SslHeld \cup {s1} /\ {} \cup {"service"} = S /\ S \cup {"ssl"} = T /\ "addrinfo" \notin T
  BY DEF SslHeld
<1>5. \A H \in J : Undoes(r, H)
  BY SslUndoes
<1>6. \A call : Leads(<<OneShot!Do(call, r)>>, J, J)
  <2>1. ASSUME NEW call, NEW H \in J PROVE Fine(OneShot!Do(call, r), H, J)
    <3>1. Fine(OneShot!Do(call, r), H, {H}) /\ {H} \subseteq J
      BY <1>5, DoFine
    <3>. HIDE DEF J, r
    <3>. QED
      BY <3>1, FineMore
  <2>. HIDE DEF J, r
  <2>. QED
    BY <2>1, LeadsOne
<1>7. Leads(<<OneShot!Transfer>>, {W}, J)
  <2>. DEFINE H == SslHeld \cup {s1}
  <2>1. W = H
    BY <1>4
  <2>2. Fine(OneShot!Transfer, H, J)
    BY TransferFine
  <2>. HIDE DEF W, J, H
  <2>. QED
    BY <2>1, <2>2, LeadsOne
<1>8. Leads(a, {{}}, {T})
  <2>1. Leads(<<OneShot!Try("socketInitialize", {"service"}, <<>>)>>, {{}}, {S})
    <3>1. Leads(<<OneShot!Try("socketInitialize", {"service"}, <<>>)>>, {{}}, {{} \cup {"service"}})
      BY <1>2, TryLeads
    <3>. QED
      BY <1>4, <3>1
  <2>2. Leads(<<OneShot!Try("sslInitialize", {"ssl"}, <<>>)>>, {S}, {T})
    <3>. HIDE DEF S, T
    <3>1. Leads(<<OneShot!Try("sslInitialize", {"ssl"}, <<>>)>>, {S}, {S \cup {"ssl"}})
      BY <1>2, TryLeads
    <3>. QED
      BY <1>4, <3>1
  <2>. HIDE DEF S, T
  <2>. QED
    BY <2>1, <2>2, LeadsPair
<1>. HIDE DEF S, T
<1>9. Leads(b, {T}, {T})
  BY <1>2, <1>4, ResolveLeads
<1>10. Leads(c, {T}, {U})
  BY <1>2, OpenLeads
<1>. HIDE DEF U
<1>11. Leads(d, {U}, {U}) /\ Leads(<<OneShot!Do("connect", <<s1>>)>>, {U}, {U})
  BY <1>2, TimeoutLeads, DoLeads
<1>12. Leads(<<OneShot!Try("sslCreateContext", {"context"}, <<s1>>)>>, {U}, {V})
  BY <1>2, TryLeads
<1>. HIDE DEF V
<1>13. Leads(<<OneShot!Try("sslContextCreateConnection", {"connection"}, <<"context", s1>>)>>, {V}, {W})
  BY <1>3, TryLeads
<1>. HIDE DEF W, J, r
<1>14. Leads(e, {U}, J)
  <2>. DEFINE e1 == OneShot!Do("connect", <<s1>>)
              e2 == OneShot!Try("sslCreateContext", {"context"}, <<s1>>)
              e3 == OneShot!Try("sslContextCreateConnection", {"connection"}, <<"context", s1>>)
              e4 == OneShot!Transfer
              D(call) == OneShot!Do(call, r)
  <2>1. Leads(<<e1, e2>>, {U}, {V})
    BY <1>11, <1>12, LeadsPair
  <2>2. Leads(<<e3, e4>>, {V}, J)
    BY <1>7, <1>13, LeadsPair
  <2>3. Leads(<<D("host name"), D("verify option"), D("io mode"), D("handshake"),
                D("format"), D("write"), D("recv")>>, J, J)
    <3>1. \A call : Leads(<<D(call)>>, J, J)
      BY <1>6
    <3>. HIDE DEF D
    <3>. QED
      BY <3>1, LeadsSeven
  <2>4. e = <<e1, e2, e3, e4, D("host name"), D("verify option"), D("io mode"), D("handshake"),
              D("format"), D("write"), D("recv")>>
    OBVIOUS
  <2>. HIDE DEF e, e1, e2, e3, e4, D
  <2>5. Leads(<<e1, e2>> \o <<e3, e4>>, {U}, J)
    BY <2>1, <2>2, LeadsJoined
  <2>. QED
    BY <2>3, <2>4, <2>5, LeadsEleven
<1>. HIDE DEF a, b, c, d, e
<1>15. Leads(a \o b, {{}}, {T})
  BY <1>8, <1>9, LeadsJoined
<1>16. Leads(a \o b \o c, {{}}, {U})
  BY <1>10, <1>15, LeadsJoined
<1>17. Leads(a \o b \o c \o d, {{}}, {U})
  BY <1>11, <1>16, LeadsJoined
<1>18. Leads(a \o b \o c \o d \o e, {{}}, J)
  BY <1>14, <1>17, LeadsJoined
<1>. QED
  BY <1>1, <1>5, <1>18, SoundIs

-----------------------------------------------------------------------------
(* The one-shot scenarios, one by one: several sockets; and all of them. *)

\* Six sequences laid end to end.
LEMMA FlattenSix ==
  ASSUME NEW q, IsSeq(q), Len(q) = 6, \A i \in 1..6 : IsSeq(q[i])
  PROVE  OneShot!FlattenSeq(q) = q[1] \o q[2] \o q[3] \o q[4] \o q[5] \o q[6]
<1>1. Len(q) > 0 /\ \A i \in 1..Len(q) : IsSeq(q[i])
  OBVIOUS
<1>2. PICK f : /\ OneShot!FlattenSeq(q) = f[Len(q)]
               /\ \A i \in 1..Len(q) : f[i] = IF i = 1 THEN q[i] ELSE f[i - 1] \o q[i]
  BY <1>1, FlattenedIs
<1>3. /\ f[1] = q[1] /\ f[2] = f[1] \o q[2] /\ f[3] = f[2] \o q[3] /\ f[4] = f[3] \o q[4]
      /\ f[5] = f[4] \o q[5] /\ f[6] = f[5] \o q[6]
  <2>1. \A i \in 1..6 : f[i] = IF i = 1 THEN q[i] ELSE f[i - 1] \o q[i]
    BY <1>2
  <2>2. 1 \in 1..6 /\ f[1] = q[1]
    BY <2>1
  <2>3. f[2] = f[1] \o q[2]
    <3>1. 2 \in 1..6 /\ 2 # 1 /\ 2 - 1 = 1
      OBVIOUS
    <3>2. f[2] = f[2 - 1] \o q[2]
      BY ONLY <2>1, <3>1
    <3>. QED
      BY <3>1, <3>2
  <2>4. f[3] = f[2] \o q[3]
    <3>1. 3 \in 1..6 /\ 3 # 1 /\ 3 - 1 = 2
      OBVIOUS
    <3>2. f[3] = f[3 - 1] \o q[3]
      BY ONLY <2>1, <3>1
    <3>. QED
      BY <3>1, <3>2
  <2>5. f[4] = f[3] \o q[4]
    <3>1. 4 \in 1..6 /\ 4 # 1 /\ 4 - 1 = 3
      OBVIOUS
    <3>2. f[4] = f[4 - 1] \o q[4]
      BY ONLY <2>1, <3>1
    <3>. QED
      BY <3>1, <3>2
  <2>6. f[5] = f[4] \o q[5]
    <3>1. 5 \in 1..6 /\ 5 # 1 /\ 5 - 1 = 4
      OBVIOUS
    <3>2. f[5] = f[5 - 1] \o q[5]
      BY ONLY <2>1, <3>1
    <3>. QED
      BY <3>1, <3>2
  <2>7. f[6] = f[5] \o q[6]
    <3>1. 6 \in 1..6 /\ 6 # 1 /\ 6 - 1 = 5
      OBVIOUS
    <3>2. f[6] = f[6 - 1] \o q[6]
      BY ONLY <2>1, <3>1
    <3>. QED
      BY <3>1, <3>2
  <2>. QED
    BY <2>2, <2>3, <2>4, <2>5, <2>6, <2>7
<1>. QED
  BY <1>2, <1>3

\* The sockets open before each of them.
LEMMA OpenedAre ==
  OneShot!Opened(0) = <<>> /\ OneShot!Opened(1) = <<s1>> /\ OneShot!Opened(2) = <<s1, s2>>
  /\ OneShot!Opened(3) = <<s1, s2, s3>> /\ OneShot!ExchangeUndo = <<s1, s2, s3>>
<1>. DEFINE q == <<s1, s2, s3>>
            S == {s1, s2, s3}
<1>1. q \in Seq(S) /\ Len(q) = 3 /\ q[1] = s1 /\ q[2] = s2 /\ q[3] = s3
  OBVIOUS
<1>. HIDE DEF q, S
<1>2. \A n \in 0..3 : /\ SubSeq(q, 1, n) \in Seq(S) /\ Len(SubSeq(q, 1, n)) = n
                      /\ \A i \in 1..n : SubSeq(q, 1, n)[i] = q[i]
  <2>. TAKE n \in 0..3
  <2>0. q \in Seq(S) /\ Len(q) = 3
    BY <1>1
  <2>1. 1 \in 1..Len(q) + 1 /\ n \in 0..Len(q) /\ \A i \in 1..n : i \in 1..Len(q)
    BY ONLY <2>0, n \in 0..3
  <2>2. SubSeq(q, 1, n) \in Seq(S)
    BY ONLY <2>0, <2>1, n \in 0..3
  <2>3. Len(SubSeq(q, 1, n)) = n
    BY ONLY <2>0, <2>1, n \in 0..3
  <2>4. \A i \in 1..n : SubSeq(q, 1, n)[i] = q[i]
    BY ONLY <2>0, <2>1, n \in 0..3
  <2>. QED
    BY <2>2, <2>3, <2>4
<1>3. SubSeq(q, 1, 0) = <<>>
  BY <1>2
<1>4. SubSeq(q, 1, 1) = <<s1>>
  <2>. DEFINE t == <<s1>>
              o == SubSeq(q, 1, 1)
  <2>1. t \in Seq(S) /\ Len(t) = 1 /\ t[1] = s1
    BY DEF S
  <2>2. o \in Seq(S) /\ Len(o) = 1 /\ o[1] = s1
    BY <1>1, <1>2
  <2>. HIDE DEF t, o
  <2>3. o = t
    <3>1. \A i \in 1..1 : o[i] = t[i]
      BY <2>1, <2>2
    <3>. QED
      BY <2>1, <2>2, <3>1, SeqEqual
  <2>. QED
    BY <2>3 DEF t, o
<1>5. SubSeq(q, 1, 2) = <<s1, s2>>
  <2>. DEFINE t == <<s1, s2>>
              o == SubSeq(q, 1, 2)
  <2>1. t \in Seq(S) /\ Len(t) = 2 /\ t[1] = s1 /\ t[2] = s2
    BY DEF S
  <2>2. o \in Seq(S) /\ Len(o) = 2 /\ o[1] = s1 /\ o[2] = s2
    BY <1>1, <1>2
  <2>. HIDE DEF t, o
  <2>3. o = t
    <3>1. \A i \in 1..2 : o[i] = t[i]
      BY <2>1, <2>2
    <3>. QED
      BY <2>1, <2>2, <3>1, SeqEqual
  <2>. QED
    BY <2>3 DEF t, o
<1>6. SubSeq(q, 1, 3) = q
  <2>. DEFINE o == SubSeq(q, 1, 3)
  <2>1. o \in Seq(S) /\ Len(o) = 3 /\ \A i \in 1..3 : o[i] = q[i]
    BY <1>2
  <2>. HIDE DEF o
  <2>2. o = q
    BY <1>1, <2>1, SeqEqual
  <2>. QED
    BY <2>2 DEF o
<1>7. \A n : OneShot!Opened(n) = SubSeq(q, 1, n)
  BY DEF OneShot!Opened, q
<1>8. OneShot!ExchangeUndo = SubSeq(q, 1, 3)
  BY <1>1 DEF OneShot!ExchangeUndo, OneShot!Opened, q
<1>. QED
  BY <1>3, <1>4, <1>5, <1>6, <1>7, <1>8 DEF q

\* They are closed front to back.
LEMMA OpenedClear ==
  /\ Clears(<<>>, {}) /\ Clears(<<s1>>, {s1}) /\ Clears(<<s1, s2>>, {s1, s2})
  /\ Clears(<<s1, s2, s3>>, {s1, s2, s3})
<1>1. Clears(<<s2>>, {s2}) /\ Clears(<<s3>>, {s3})
  BY SocketUndone
<1>2. Clears(<<s1>> \o <<s2>>, {s2} \cup {s1})
  BY <1>1, SocketsAre, ClearsSocket
<1>3. Clears(<<s2>> \o <<s3>>, {s3} \cup {s2})
  BY <1>1, SocketsAre, ClearsSocket
<1>4. Clears(<<s1>> \o (<<s2>> \o <<s3>>), ({s3} \cup {s2}) \cup {s1})
  <2>. DEFINE H == {s3} \cup {s2}
              q == <<s2>> \o <<s3>>
  <2>1. Clears(q, H) /\ s1 \notin H
    BY <1>3, SocketsAre
  <2>. HIDE DEF H, q
  <2>2. Clears(<<s1>> \o q, H \cup {s1})
    BY <2>1, ClearsSocket
  <2>. QED
    BY <2>2 DEF H, q
<1>5. <<s1, s2>> = <<s1>> \o <<s2>> /\ <<s2, s3>> = <<s2>> \o <<s3>>
  BY PairJoined
<1>6. <<s1, s2, s3>> = <<s1>> \o <<s2, s3>>
  OBVIOUS
<1>7. {s2} \cup {s1} = {s1, s2} /\ ({s3} \cup {s2}) \cup {s1} = {s1, s2, s3}
  OBVIOUS
<1>8. Clears(<<s1, s2>>, {s1, s2})
  BY <1>2, <1>5, <1>7
<1>9. Clears(<<s1, s2, s3>>, {s1, s2, s3})
  BY <1>4, <1>5, <1>6, <1>7
<1>. QED
  BY <1>8, <1>9, NothingUndone, SocketUndone

\* ConcurrentTcpBurst.
LEMMA BurstSound == Sound(OneShot!ConcurrentTcpBurst)
<1>. DEFINE D == DOMAIN <<s1, s2, s3>>
            Opening(i) == OneShot!ConnectResolvedTcp(OneShot!Socket(i), OneShot!Opened(i - 1))
            u == OneShot!ExchangeUndo
            t == <<OneShot!Do("format", u), OneShot!Do("send", u), OneShot!Do("recv", u)>>
            a == [i \in D |-> Opening(i)]
            b == [i \in D |-> t]
            H1 == {s1}
            H2 == {s1, s2}
            H3 == {s1, s2, s3}
<1>1. OneShot!ConcurrentTcpBurst = OneShot!Scenario(OneShot!FlattenSeq(a \o b), OneShot!Opened(3), "nothing")
  <2>1. Len(<<s1, s2, s3>>) = 3
    OBVIOUS
  <2>. QED
    BY <2>1 DEF OneShot!ConcurrentTcpBurst
<1>2. D = 1..3
  OBVIOUS
<1>3. /\ Leads(Opening(1), {{}}, {H1}) /\ Leads(Opening(2), {H1}, {H2}) /\ Leads(Opening(3), {H2}, {H3})
  <2>1. Leads(Opening(1), {{}}, {H1})
    <3>1. 1 - 1 = 0
      OBVIOUS
    <3>. QED
      BY <3>1, SocketIs, OpenedAre, FirstConnectLeads
  <2>2. Leads(Opening(2), {H1}, {H2})
    <3>1. 2 - 1 = 1 /\ s2 \notin H1 /\ H1 \cup {s2} = H2 /\ "addrinfo" \notin H1
      BY SocketsAre, SocketPlain
    <3>2. Clears(<<s1>>, H1)
      BY OpenedClear
    <3>. HIDE DEF H1, H2
    <3>3. Leads(OneShot!ConnectResolvedTcp(s2, <<s1>>), {H1}, {H1 \cup {s2}})
      BY <3>1, <3>2, ConnectLeads
    <3>. QED
      BY <3>1, <3>3, SocketIs, OpenedAre
  <2>3. Leads(Opening(3), {H2}, {H3})
    <3>1. 3 - 1 = 2 /\ s3 \notin H2 /\ H2 \cup {s3} = H3 /\ "addrinfo" \notin H2
      BY SocketsAre, SocketPlain
    <3>. DEFINE o == <<s1, s2>>
    <3>2. Clears(o, H2)
      BY OpenedClear
    <3>. HIDE DEF H2, H3, o
    <3>3. Leads(OneShot!ConnectResolvedTcp(s3, o), {H2}, {H2 \cup {s3}})
      BY <3>1, <3>2, ConnectLeads
    <3>. QED
      BY <3>1, <3>3, SocketIs, OpenedAre DEF o
  <2>. QED
    BY <2>1, <2>2, <2>3
<1>4. Undoes(u, H3)
  BY OpenedAre, OpenedClear, ClearsUndoes
<1>5. Leads(t, {H3}, {H3})
  <2>. HIDE DEF u, H3
  <2>. QED
    BY <1>4, DoLeads, LeadsThree
<1>. HIDE DEF D, Opening, t, H1, H2, H3
<1>6. a \in Seq({Opening(i) : i \in 1..3}) /\ Len(a) = 3 /\ a[1] = Opening(1) /\ a[2] = Opening(2)
        /\ a[3] = Opening(3)
  BY <1>2
<1>7. b \in Seq({t}) /\ Len(b) = 3 /\ b[1] = t /\ b[2] = t /\ b[3] = t
  BY <1>2
<1>. HIDE DEF a, b
<1>. DEFINE q == a \o b
<1>8. /\ IsSeq(q) /\ Len(q) = 6 /\ q[1] = Opening(1) /\ q[2] = Opening(2) /\ q[3] = Opening(3)
      /\ q[4] = t /\ q[5] = t /\ q[6] = t
  <2>1. IsSeq(a) /\ IsSeq(b)
    BY <1>6, <1>7 DEF IsSeq
  <2>2. /\ Len(a \o b) = Len(a) + Len(b) /\ IsSeq(a \o b)
        /\ \A i \in 1..Len(a) : (a \o b)[i] = a[i]
        /\ \A i \in 1..Len(b) : (a \o b)[Len(a) + i] = b[i]
    BY <2>1, JoinedIs
  <2>. HIDE DEF q
  <2>3. /\ Len(q) = 6 /\ IsSeq(q) /\ \A i \in 1..3 : q[i] = a[i]
        /\ \A i \in 1..3 : q[3 + i] = b[i]
    BY <1>6, <1>7, <2>2 DEF q
  <2>4. q[3 + 1] = b[1] /\ q[3 + 2] = b[2] /\ q[3 + 3] = b[3] /\ q[1] = a[1] /\ q[2] = a[2] /\ q[3] = a[3]
    BY <2>3
  <2>. QED
    BY <1>6, <1>7, <2>3, <2>4
<1>. HIDE DEF q
<1>9. \A i \in 1..6 : IsSeq(q[i])
  <2>1. IsSeq(Opening(1)) /\ IsSeq(Opening(2)) /\ IsSeq(Opening(3)) /\ IsSeq(t)
    BY <1>3, <1>5 DEF Leads
  <2>2. \A i \in 1..6 : i = 1 \/ i = 2 \/ i = 3 \/ i = 4 \/ i = 5 \/ i = 6
    OBVIOUS
  <2>. QED
    BY <1>8, <2>1, <2>2
<1>10. OneShot!FlattenSeq(q) = Opening(1) \o Opening(2) \o Opening(3) \o t \o t \o t
  BY <1>8, <1>9, FlattenSix
<1>. DEFINE p1 == Opening(1)
            p2 == Opening(2)
            p3 == Opening(3)
<1>11. Leads(p1, {{}}, {H1}) /\ Leads(p2, {H1}, {H2}) /\ Leads(p3, {H2}, {H3})
  BY <1>3
<1>12. OneShot!FlattenSeq(q) = p1 \o p2 \o p3 \o t \o t \o t
  BY <1>10
<1>. HIDE DEF p1, p2, p3
<1>13. Leads(p1 \o p2, {{}}, {H2})
  BY <1>11, LeadsJoined
<1>14. Leads(p1 \o p2 \o p3, {{}}, {H3})
  BY <1>11, <1>13, LeadsJoined
<1>15. Leads(p1 \o p2 \o p3 \o t, {{}}, {H3})
  BY <1>5, <1>14, LeadsJoined
<1>16. Leads(p1 \o p2 \o p3 \o t \o t, {{}}, {H3})
  BY <1>5, <1>15, LeadsJoined
<1>17. Leads(p1 \o p2 \o p3 \o t \o t \o t, {{}}, {H3})
  BY <1>5, <1>16, LeadsJoined
<1>18. \A H \in {H3} : Undoes(OneShot!Opened(3), H)
  BY <1>4, OpenedAre
<1>. QED
  BY <1>1, <1>12, <1>17, <1>18, SoundIs DEF q

\* A scenario that starts gives everything back.
LEMMA StepsAreSound ==
  ASSUME NEW n \in OneShot!Scenarios \cup {"unknown"}, ~OneShot!Skipped(n), NEW ph
  PROVE  Sound(OneShot!Steps(n, ph))
<1>1. n \in {"dns_resolve", "plain_tcp_connect", "tcp_idle_hold", "http_get", "https_get",
             "connection_test_global_ip", "udp_socket_only", "udp_socket_setsockopt",
             "udp_setsockopt_one", "udp_sendto_only", "udp_connect_send_only", "udp_echo",
             "tcp_multi_connect", "manual_bsd_lifecycle"}
  BY DEF OneShot!Scenarios, OneShot!Skipped
<1>2. CASE n = "dns_resolve"
  BY <1>2, DnsSound DEF OneShot!Steps
<1>3. CASE n = "plain_tcp_connect"
  BY <1>3, TcpSound DEF OneShot!Steps
<1>4. CASE n = "tcp_idle_hold"
  BY <1>4, TcpSound DEF OneShot!Steps
<1>5. CASE n = "http_get"
  BY <1>5, TcpSound DEF OneShot!Steps
<1>6. CASE n = "https_get"
  BY <1>6, TlsSound DEF OneShot!Steps
<1>7. CASE n = "connection_test_global_ip"
  BY <1>7, TlsSound DEF OneShot!Steps
<1>8. CASE n = "udp_socket_only"
  BY <1>8, UdpSound DEF OneShot!Steps
<1>9. CASE n = "udp_socket_setsockopt"
  BY <1>9, UdpSound DEF OneShot!Steps
<1>10. CASE n = "udp_setsockopt_one"
  BY <1>10, UdpSound DEF OneShot!Steps
<1>11. CASE n = "udp_sendto_only"
  BY <1>11, UdpSound DEF OneShot!Steps
<1>12. CASE n = "udp_connect_send_only"
  BY <1>12, UdpSound DEF OneShot!Steps
<1>13. CASE n = "udp_echo"
  BY <1>13, UdpSound DEF OneShot!Steps
<1>14. CASE n = "tcp_multi_connect"
  BY <1>14, BurstSound DEF OneShot!Steps
<1>15. CASE n = "manual_bsd_lifecycle"
  BY <1>15, ManualSound DEF OneShot!Steps
<1>. QED
  BY <1>1, <1>2, <1>3, <1>4, <1>5, <1>6, <1>7, <1>8, <1>9, <1>10, <1>11, <1>12, <1>13, <1>14, <1>15

\* And it is a sequence of steps.
LEMMA StepsAreSeq ==
  ASSUME NEW n \in OneShot!Scenarios \cup {"unknown"}, ~OneShot!Skipped(n), NEW ph
  PROVE  IsSeq(OneShot!Steps(n, ph).steps)
  BY StepsAreSound DEF Sound, Leads

-----------------------------------------------------------------------------
(* The one-shot scenarios: what is held, and what is released. *)

\* A step of the one-shot scenarios or none.
OneShotStepped == OneShot!Next \/ UNCHANGED oneShotVars

\* The types of the one-shot scenarios, and that what runs is one that can.
OneShotTyped ==
  /\ OneShot!TypeOK
  /\ at > 0 => name \in OneShot!Scenarios \cup {"unknown"} /\ ~OneShot!Skipped(name)

\* The types hold at the start.
LEMMA OneShotInitTyped == OneShot!Init => OneShotTyped
<1>. SUFFICES ASSUME OneShot!Init PROVE OneShotTyped
  OBVIOUS
<1>1. name = "none" /\ at = 0 /\ oneShotOutcome = "success" /\ replies = {} /\ failed = FALSE
  BY DEF OneShot!Init
<1>2. phases \in OneShot!ManualPhases
  BY DEF OneShot!Init
<1>3. ~(at > 0)
  BY <1>1
<1>4. at \in Nat /\ failed \in BOOLEAN /\ name \in OneShot!Scenarios \cup {"none", "unknown"}
  BY <1>1
<1>5. /\ oneShotOutcome \in {"none", "success", "failed", "skipped"}
      /\ replies \subseteq {"empty", "other", "right"} /\ (oneShotOutcome = "skipped" => at = 0)
  BY <1>1
<1>. QED
  BY <1>2, <1>3, <1>4, <1>5 DEF OneShotTyped, OneShot!TypeOK

\* Every step keeps them: no scenario goes on beyond the completion of its last step.
LEMMA OneShotTypedNext == OneShotTyped /\ OneShotStepped => OneShotTyped'
<1>. SUFFICES ASSUME OneShotTyped, OneShotStepped PROVE OneShotTyped'
  OBVIOUS
<1>. USE DEF OneShotTyped, OneShot!TypeOK
<1>1. CASE UNCHANGED <<name, at, phases>> /\ oneShotOutcome' \in {"none", "success", "failed"}
           /\ (oneShotOutcome' = "skipped" => oneShotOutcome = "skipped")
           /\ replies' = replies /\ failed' \in BOOLEAN
  <2>1. OneShot!Current' = OneShot!Current
    BY <1>1 DEF OneShot!Current
  <2>. QED
    BY <1>1, <2>1
<1>2. CASE UNCHANGED oneShotVars
  <2>1. OneShot!Current' = OneShot!Current
    BY <1>2 DEF OneShot!Current, oneShotVars
  <2>. QED
    BY <1>2, <2>1 DEF oneShotVars
<1>3. CASE OneShot!CallFails
  BY <1>1, <1>3 DEF OneShot!CallFails
<1>4. CASE OneShot!Complete
  <2>1. oneShotOutcome' \in {"success", "failed"}
    BY <1>4 DEF OneShot!Complete
  <2>. QED
    BY <1>1, <1>4, <2>1 DEF OneShot!Complete
<1>5. CASE OneShot!Release
  <2>1. CASE UNCHANGED <<oneShotOutcome, failed>>
    <3>1. OneShot!Current' = OneShot!Current
      BY <1>5 DEF OneShot!Current, OneShot!Release
    <3>. QED
      BY <1>5, <2>1, <3>1 DEF OneShot!Release
  <2>2. CASE oneShotOutcome' = "failed" /\ failed' = TRUE
    BY <1>1, <1>5, <2>2 DEF OneShot!Release
  <2>. QED
    BY <1>5, <2>1, <2>2 DEF OneShot!Release
<1>6. CASE OneShot!Return
  BY <1>6 DEF OneShot!Return
<1>7. CASE OneShot!RunScenario
  <2>1. PICK n \in OneShot!Scenarios \cup {"unknown"} :
          /\ name' = n
          /\ oneShotOutcome' = (IF OneShot!Skipped(n) THEN "skipped" ELSE "none")
          /\ at' = IF OneShot!Skipped(n) THEN 0 ELSE 1
    BY <1>7 DEF OneShot!RunScenario, OneShot!Start
  <2>2. replies' = {} /\ failed' = FALSE /\ phases' = phases
    BY <1>7 DEF OneShot!RunScenario
  <2>3. at' > 0 => ~OneShot!Skipped(n)
    BY <2>1
  <2>4. at' > 0 => at' <= Len((OneShot!Current').steps) + 1
    <3>1. ASSUME at' > 0 PROVE at' <= Len((OneShot!Current').steps) + 1
      <4>1. OneShot!Current' = OneShot!Steps(n, phases)
        BY <2>1, <2>2 DEF OneShot!Current
      <4>2. Len(OneShot!Steps(n, phases).steps) \in Nat
        BY <2>3, <3>1, StepsAreSeq, SeqLen
      <4>3. at' = 1
        BY <2>1, <3>1
      <4>. QED
        BY <4>1, <4>2, <4>3
    <3>. QED
      BY <3>1
  <2>. QED
    BY <2>1, <2>2, <2>3, <2>4
<1>8. CASE OneShot!CallSucceeds
  <2>1. at > 0 /\ oneShotOutcome = "none" /\ at <= Len(OneShot!Current.steps)
    BY <1>8 DEF OneShot!CallSucceeds, OneShot!Running
  <2>2. at' = at + 1 /\ UNCHANGED <<name, oneShotOutcome, failed, phases>>
    BY <1>8 DEF OneShot!CallSucceeds
  <2>3. OneShot!Current' = OneShot!Current
    BY <2>2 DEF OneShot!Current
  <2>4. Len(OneShot!Current.steps) \in Nat
    <3>1. IsSeq(OneShot!Current.steps)
      BY <2>1, StepsAreSeq DEF OneShot!Current
    <3>. QED
      BY <3>1, SeqLen
  <2>5. replies' \subseteq {"empty", "other", "right"}
    <3>1. replies' \in {replies \cup {r} : r \in {"empty", "other", "right"}} \/ replies' = replies
      BY <1>8 DEF OneShot!CallSucceeds
    <3>. QED
      BY <3>1
  <2>6. at' <= Len((OneShot!Current').steps) + 1 /\ at' \in Nat
    BY <2>1, <2>2, <2>3, <2>4
  <2>. QED
    BY <2>1, <2>2, <2>5, <2>6
<1>. QED
  BY <1>2, <1>3, <1>4, <1>5, <1>6, <1>7, <1>8 DEF OneShotStepped, OneShot!Next

\* Before step i of a scenario H may be held: it came there through steps that go
\* on to an end where everything is given back.
Placed(sc, i, H) ==
  \E J, h : Through(h, sc.steps, {{}}, J) /\ (\A K \in J : Undoes(sc.release, K)) /\ H \in h[i]

\* What is held, and what the releases that wait make of it.
OneShotPlace ==
  /\ at = 0 => held = {} /\ queue = <<>>
  /\ at > 0 /\ oneShotOutcome = "none" =>
       /\ queue \in {<<>>, <<"addrinfo">>}
       /\ \E G : Placed(OneShot!Current, at, G) /\ Frees(queue, held, G)
  /\ at > 0 /\ oneShotOutcome # "none" => Frees(queue, held, {})

\* A call is made with what may be held there.
LEMMA CallFine ==
  ASSUME OneShotTyped, OneShotPlace, OneShot!Running, at <= Len(OneShot!Current.steps)
  PROVE  /\ \E K : \A G \in K : Placed(OneShot!Current, at + 1, G)
         /\ \E K : /\ \A G \in K : Placed(OneShot!Current, at + 1, G)
                   /\ Fine(OneShot!Current.steps[at], held, K)
<1>. DEFINE sc == OneShot!Current
<1>1. at > 0 /\ queue = <<>> /\ oneShotOutcome = "none"
  BY DEF OneShot!Running
<1>2. PICK G : Placed(sc, at, G) /\ Frees(queue, held, G)
  BY <1>1 DEF OneShotPlace
<1>3. G = held
  BY <1>1, <1>2, FreesDone
<1>4. PICK J : \E h : Through(h, sc.steps, {{}}, J) /\ (\A K \in J : Undoes(sc.release, K)) /\ G \in h[at]
  BY <1>2 DEF Placed
<1>5. PICK h : Through(h, sc.steps, {{}}, J) /\ (\A K \in J : Undoes(sc.release, K)) /\ G \in h[at]
  BY <1>4
<1>6. at \in 1..Len(sc.steps)
  <2>1. at \in Nat
    BY DEF OneShotTyped, OneShot!TypeOK
  <2>2. Len(sc.steps) \in Nat
    <3>1. IsSeq(OneShot!Current.steps)
      BY <1>1, StepsAreSeq DEF OneShotTyped, OneShot!Current
    <3>. QED
      BY <3>1, SeqLen
  <2>. QED
    BY <1>1, <2>1, <2>2
<1>7. Fine(sc.steps[at], held, h[at + 1])
  BY <1>3, <1>5, <1>6 DEF Through
<1>8. \A K \in h[at + 1] : Placed(sc, at + 1, K)
  BY <1>5 DEF Placed
<1>. QED
  BY <1>7, <1>8

\* Nothing is held at the start.
LEMMA OneShotInitPlace == OneShot!Init => OneShotPlace
<1>. SUFFICES ASSUME OneShot!Init PROVE OneShotPlace
  OBVIOUS
<1>1. at = 0 /\ held = {} /\ queue = <<>>
  BY DEF OneShot!Init
<1>. QED
  BY <1>1 DEF OneShotPlace

\* Every step goes on within what its scenario may hold, and every return leaves nothing.
LEMMA OneShotPlaceNext == OneShotTyped /\ OneShotPlace /\ OneShotStepped => OneShotPlace'
<1>. SUFFICES ASSUME OneShotTyped, OneShotPlace, OneShotStepped PROVE OneShotPlace'
  OBVIOUS
<1>0. at \in Nat
  BY DEF OneShotTyped, OneShot!TypeOK
<1>1. CASE UNCHANGED oneShotVars
  <2>1. OneShot!Current' = OneShot!Current
    BY <1>1 DEF OneShot!Current, oneShotVars
  <2>2. UNCHANGED <<at, held, queue, oneShotOutcome>>
    BY <1>1 DEF oneShotVars
  <2>. QED
    BY <2>1, <2>2 DEF OneShotPlace
<1>2. CASE OneShot!RunScenario
  <2>1. PICK n \in OneShot!Scenarios \cup {"unknown"} :
          /\ name' = n
          /\ oneShotOutcome' = (IF OneShot!Skipped(n) THEN "skipped" ELSE "none")
          /\ at' = IF OneShot!Skipped(n) THEN 0 ELSE 1
    BY <1>2 DEF OneShot!RunScenario, OneShot!Start
  <2>2. phases' = phases /\ held' = {} /\ queue' = <<>>
    BY <1>2 DEF OneShot!RunScenario, OneShotPlace
  <2>3. CASE OneShot!Skipped(n)
    BY <2>1, <2>2, <2>3 DEF OneShotPlace
  <2>4. CASE ~OneShot!Skipped(n)
    <3>. DEFINE sc == OneShot!Steps(n, phases)
    <3>1. (OneShot!Current)' = sc /\ at' = 1 /\ oneShotOutcome' = "none"
      BY <2>1, <2>2, <2>4 DEF OneShot!Current
    <3>2. Sound(sc)
      BY <2>4, StepsAreSound
    <3>. HIDE DEF sc
    <3>3. PICK J : Leads(sc.steps, {{}}, J) /\ \A H \in J : Undoes(sc.release, H)
      BY <3>2 DEF Sound
    <3>4. PICK h : Through(h, sc.steps, {{}}, J)
      BY <3>3 DEF Leads
    <3>5. {} \in h[1]
      BY <3>4 DEF Through
    <3>6. Placed(sc, 1, {})
      BY <3>3, <3>4, <3>5 DEF Placed
    <3>7. Frees(<<>>, {}, {})
      BY FreesNone
    <3>8. Placed((OneShot!Current)', at', {}) /\ Frees(queue', held', {}) /\ queue' \in {<<>>, <<"addrinfo">>}
      BY <2>2, <3>1, <3>6, <3>7
    <3>9. (at' = 0) = FALSE /\ (oneShotOutcome' # "none") = FALSE
      BY <3>1
    <3>. QED
      BY <3>8, <3>9 DEF OneShotPlace
  <2>. QED
    BY <2>3, <2>4
<1>3. CASE OneShot!CallSucceeds
  <2>1. OneShot!Running /\ at <= Len(OneShot!Current.steps)
    BY <1>3 DEF OneShot!CallSucceeds
  <2>2. at' = at + 1 /\ UNCHANGED <<name, oneShotOutcome, failed, phases>> /\ at' > 0 /\ oneShotOutcome = "none"
    BY <1>0, <1>3, <2>1 DEF OneShot!CallSucceeds, OneShot!Running
  <2>3. OneShot!Current' = OneShot!Current
    BY <2>2 DEF OneShot!Current
  <2>. DEFINE step == OneShot!Current.steps[at]
  <2>4. PICK gained \in {step.gets} \cup {g \in {{}} : "descriptor" \in step.gets} :
          held' = (held \ step.moves) \cup gained
    BY <1>3 DEF OneShot!CallSucceeds
  <2>5. queue' = step.after
    BY <1>3 DEF OneShot!CallSucceeds
  <2>6. PICK K : (\A G \in K : Placed(OneShot!Current, at + 1, G)) /\ Fine(OneShot!Current.steps[at], held, K)
    BY <2>1, CallFine
  <2>7. Fine(step, held, K)
    BY <2>6
  <2>. HIDE DEF step
  <2>8. step.after \in {<<>>, <<"addrinfo">>} /\ \E G \in K : Frees(step.after, held', G)
    BY <2>4, <2>7 DEF Fine
  <2>9. PICK G \in K : Frees(queue', held', G)
    BY <2>5, <2>8
  <2>10. Placed((OneShot!Current)', at', G) /\ queue' \in {<<>>, <<"addrinfo">>}
    BY <2>2, <2>3, <2>5, <2>6, <2>8, <2>9
  <2>11. (at' = 0) = FALSE /\ (oneShotOutcome' # "none") = FALSE
    BY <2>2
  <2>. QED
    BY <2>9, <2>10, <2>11 DEF OneShotPlace
<1>4. CASE OneShot!CallFails
  <2>. DEFINE step == OneShot!Current.steps[at]
  <2>1. /\ OneShot!Running /\ at <= Len(OneShot!Current.steps) /\ step.fails
        /\ queue' = OneShot!Owned(step.undo) \o OneShot!Scopes
        /\ oneShotOutcome' = "failed" /\ held' = held /\ at' = at
    BY <1>4 DEF OneShot!CallFails
  <2>2. PICK K : (\A G \in K : Placed(OneShot!Current, at + 1, G)) /\ Fine(OneShot!Current.steps[at], held, K)
    BY <2>1, CallFine
  <2>3. Fine(step, held, K)
    BY <2>2
  <2>. HIDE DEF step
  <2>4. Undoes(step.undo, held)
    BY <2>1, <2>3 DEF Fine
  <2>5. OneShot!Owned(step.undo) = OwnedBy(held, step.undo) /\ OneShot!Scopes = ScopesOf(held)
    BY DEF OneShot!Owned, OwnedBy, OneShot!Scopes, ScopesOf
  <2>6. Frees(queue', held', {})
    BY <2>1, <2>4, <2>5 DEF Undoes
  <2>7. (at' = 0) = FALSE /\ (oneShotOutcome' = "none") = FALSE
    BY <2>1 DEF OneShot!Running
  <2>. QED
    BY <2>6, <2>7 DEF OneShotPlace
<1>5. CASE OneShot!Complete
  <2>. DEFINE sc == OneShot!Current
  <2>1. /\ OneShot!Running /\ at > Len(sc.steps)
        /\ queue' = OneShot!Owned(sc.release) \o OneShot!Scopes
        /\ oneShotOutcome' # "none" /\ held' = held /\ at' = at
    BY <1>5 DEF OneShot!Complete
  <2>2. at > 0 /\ queue = <<>> /\ oneShotOutcome = "none"
    BY <2>1 DEF OneShot!Running
  <2>3. PICK G : Placed(sc, at, G) /\ Frees(queue, held, G)
    BY <2>2 DEF OneShotPlace
  <2>4. G = held
    BY <2>2, <2>3, FreesDone
  <2>5. PICK J : \E h : Through(h, sc.steps, {{}}, J) /\ (\A K \in J : Undoes(sc.release, K)) /\ G \in h[at]
    BY <2>3 DEF Placed
  <2>6. PICK h : Through(h, sc.steps, {{}}, J) /\ (\A K \in J : Undoes(sc.release, K)) /\ G \in h[at]
    BY <2>5
  <2>7. at = Len(sc.steps) + 1
    <3>1. Len(sc.steps) \in Nat
      <4>1. IsSeq(OneShot!Current.steps)
        BY <2>2, StepsAreSeq DEF OneShotTyped, OneShot!Current
      <4>. QED
        BY <4>1, SeqLen
    <3>2. at <= Len(sc.steps) + 1
      BY <2>2 DEF OneShotTyped, OneShot!TypeOK
    <3>. HIDE DEF sc
    <3>. QED
      BY <1>0, <2>1, <3>1, <3>2
  <2>8. Undoes(sc.release, held)
    BY <2>4, <2>6, <2>7 DEF Through
  <2>. HIDE DEF sc
  <2>9. OneShot!Owned(sc.release) = OwnedBy(held, sc.release) /\ OneShot!Scopes = ScopesOf(held)
    BY DEF OneShot!Owned, OwnedBy, OneShot!Scopes, ScopesOf
  <2>10. Frees(queue', held', {})
    BY <2>1, <2>8, <2>9 DEF Undoes
  <2>11. (at' = 0) = FALSE /\ (oneShotOutcome' = "none") = FALSE
    BY <2>1, <2>2
  <2>. QED
    BY <2>10, <2>11 DEF OneShotPlace
<1>6. CASE OneShot!Release
  <2>1. /\ queue # <<>> /\ held' = held \ {Head(queue)} /\ queue' = Tail(queue)
        /\ UNCHANGED <<name, at, replies, phases>>
    BY <1>6 DEF OneShot!Release
  <2>2. at > 0
    BY <1>0, <2>1 DEF OneShotPlace
  <2>3. OneShot!Current' = OneShot!Current
    BY <2>1 DEF OneShot!Current
  <2>4. CASE oneShotOutcome = "none"
    <3>1. queue = <<"addrinfo">>
      BY <2>1, <2>2, <2>4 DEF OneShotPlace
    <3>2. PICK G : Placed(OneShot!Current, at, G) /\ Frees(queue, held, G)
      BY <2>2, <2>4 DEF OneShotPlace
    <3>3. Frees(queue', held', G)
      BY <2>1, <3>2, FreesHead
    <3>4. queue' = <<>> /\ Head(queue) # "tmem"
      BY <2>1, <3>1
    <3>5. oneShotOutcome' = "none"
      BY <1>6, <2>4, <3>4 DEF OneShot!Release
    <3>6. Placed((OneShot!Current)', at', G) /\ queue' \in {<<>>, <<"addrinfo">>}
      BY <2>1, <2>3, <3>2, <3>4
    <3>7. (at' = 0) = FALSE /\ (oneShotOutcome' # "none") = FALSE
      BY <2>1, <2>2, <3>5
    <3>. QED
      BY <3>3, <3>6, <3>7 DEF OneShotPlace
  <2>5. CASE oneShotOutcome # "none"
    <3>1. Frees(queue, held, {})
      BY <2>2, <2>5 DEF OneShotPlace
    <3>2. Frees(queue', held', {})
      BY <2>1, <3>1, FreesHead
    <3>3. oneShotOutcome' # "none"
      BY <1>6, <2>5 DEF OneShot!Release
    <3>4. (at' = 0) = FALSE /\ (oneShotOutcome' = "none") = FALSE
      BY <2>1, <2>2, <3>3
    <3>. QED
      BY <3>2, <3>4 DEF OneShotPlace
  <2>. QED
    BY <2>4, <2>5
<1>7. CASE OneShot!Return
  <2>1. at > 0 /\ queue = <<>> /\ oneShotOutcome # "none" /\ at' = 0 /\ UNCHANGED <<held, queue>>
    BY <1>7 DEF OneShot!Return
  <2>2. Frees(queue, held, {})
    BY <2>1 DEF OneShotPlace
  <2>3. held = {}
    BY <2>1, <2>2, FreesDone
  <2>. QED
    BY <2>1, <2>3 DEF OneShotPlace
<1>. QED
  BY <1>1, <1>2, <1>3, <1>4, <1>5, <1>6, <1>7 DEF OneShotStepped, OneShot!Next

\* So what is released is held, and nothing that is held still works on it.
LEMMA ReleasesHeld == OneShotTyped /\ OneShotPlace => OneShot!ReleasesAreHeld
<1>. SUFFICES ASSUME OneShotTyped, OneShotPlace, queue # <<>> PROVE Head(queue) \in held
  BY DEF OneShot!ReleasesAreHeld
<1>1. at > 0
  <2>1. at \in Nat
    BY DEF OneShotTyped, OneShot!TypeOK
  <2>. QED
    BY <2>1 DEF OneShotPlace
<1>2. \E G : Frees(queue, held, G)
  BY <1>1 DEF OneShotPlace
<1>. QED
  BY <1>2, FreesHead

\* And users go first.
LEMMA UsersFirst == OneShotTyped /\ OneShotPlace /\ OneShotStepped => OneShot!ReleasedUsersFirst
<1>. SUFFICES ASSUME OneShotTyped, OneShotPlace, OneShotStepped,
                     NEW used \in held \ held', NEW user \in held'
              PROVE  ~OneShot!Uses(user, used)
  BY DEF OneShot!ReleasedUsersFirst
<1>0. held' # held
  OBVIOUS
<1>1. CASE OneShot!CallSucceeds
  <2>. DEFINE step == OneShot!Current.steps[at]
  <2>1. PICK gained \in {step.gets} \cup {g \in {{}} : "descriptor" \in step.gets} :
          held' = (held \ step.moves) \cup gained
    BY <1>1 DEF OneShot!CallSucceeds
  <2>2. OneShot!Running /\ at <= Len(OneShot!Current.steps)
    BY <1>1 DEF OneShot!CallSucceeds
  <2>3. PICK K : (\A G \in K : Placed(OneShot!Current, at + 1, G)) /\ Fine(OneShot!Current.steps[at], held, K)
    BY <2>2, CallFine
  <2>4. Fine(step, held, K)
    BY <2>3
  <2>. HIDE DEF step
  <2>. QED
    BY <2>1, <2>4 DEF Fine
<1>2. CASE OneShot!Release
  <2>1. queue # <<>> /\ held' = held \ {Head(queue)}
    BY <1>2 DEF OneShot!Release
  <2>2. at > 0
    <3>1. at \in Nat
      BY DEF OneShotTyped, OneShot!TypeOK
    <3>. QED
      BY <2>1, <3>1 DEF OneShotPlace
  <2>3. \E G : Frees(queue, held, G)
    BY <2>2 DEF OneShotPlace
  <2>4. used = Head(queue) /\ user \in held \ {Head(queue)}
    BY <2>1
  <2>. QED
    BY <2>1, <2>3, <2>4, FreesHead
<1>3. CASE \/ UNCHANGED oneShotVars \/ OneShot!RunScenario \/ OneShot!CallFails
           \/ OneShot!Complete \/ OneShot!Return
  BY <1>0, <1>3 DEF oneShotVars, OneShot!RunScenario, OneShot!CallFails, OneShot!Complete, OneShot!Return
<1>. QED
  BY <1>1, <1>2, <1>3 DEF OneShotStepped, OneShot!Next

-----------------------------------------------------------------------------
(* The one-shot scenarios: what a success says. *)

\* No call of the run has failed unless it says so.
OneShotUnfailed == at > 0 /\ oneShotOutcome # "failed" => ~failed

\* The scenarios that fetch something: they end with a receive.
Fetching == {"dns_resolve", "plain_tcp_connect", "http_get", "https_get"}

\* When such a scenario has made all its calls, something was received.
OneShotReplied == at > 0 /\ name \in Fetching /\ at > Len(OneShot!Current.steps) => replies # {}

\* A sequence of steps of which the last is a receive.
EndsInReply(q) == IsSeq(q) /\ Len(q) > 0 /\ q[Len(q)].call \in {"recv", "collect"}

\* Steps before them change nothing about the last.
LEMMA EndJoined == ASSUME NEW a, NEW b, IsSeq(a), EndsInReply(b) PROVE EndsInReply(a \o b)
<1>1. IsSeq(a \o b)
  BY SeqJoined DEF EndsInReply
<1>2. PICK S : a \in Seq(S)
  BY DEF IsSeq
<1>3. PICK T : b \in Seq(T)
  BY DEF IsSeq, EndsInReply
<1>4. a \in Seq(S \cup T) /\ b \in Seq(S \cup T)
  BY <1>2, <1>3
<1>5. Len(b) > 0 /\ Len(a) \in Nat /\ Len(b) \in Nat
  BY <1>4 DEF EndsInReply
<1>6. Len(a \o b) = Len(a) + Len(b) /\ (a \o b)[Len(a) + Len(b)] = b[Len(b)]
  BY <1>4, <1>5
<1>. QED
  BY <1>1, <1>5, <1>6 DEF EndsInReply

\* One receive.
LEMMA EndCalled == \A u : EndsInReply(<<OneShot!Do("recv", u)>>)
<1>. SUFFICES ASSUME NEW u PROVE EndsInReply(<<OneShot!Do("recv", u)>>)
  OBVIOUS
<1>. DEFINE x == OneShot!Do("recv", u)
<1>1. x.call = "recv"
  BY DEF OneShot!Do, OneShot!Try
<1>. HIDE DEF x
<1>2. IsSeq(<<x>>)
  BY SeqOne
<1>3. Len(<<x>>) = 1 /\ <<x>>[1] = x
  OBVIOUS
<1>. DEFINE q == <<x>>
<1>4. IsSeq(q) /\ Len(q) = 1 /\ q[1] = x
  BY <1>2, <1>3
<1>. HIDE DEF q
<1>5. EndsInReply(q)
  BY <1>1, <1>4 DEF EndsInReply
<1>. QED
  BY <1>5 DEF q, x

\* The scenarios that fetch something end so.
LEMMA FetchesEnd ==
  ASSUME NEW n \in Fetching, NEW ph
  PROVE  EndsInReply(OneShot!Steps(n, ph).steps)
<1>. DEFINE r == OneShot!SslReleases
            a == OneShot!ConnectResolvedTcp(s1, <<>>)
<1>1. IsSeq(a)
  BY FirstConnectLeads DEF Leads
<1>2. EndsInReply(OneShot!DnsResolve.steps)
  <2>. DEFINE x == OneShot!Try("getaddrinfo", {"addrinfo"}, <<>>)
              y == [OneShot!Do("collect", <<>>) EXCEPT !.after = <<"addrinfo">>, !.fails = FALSE]
  <2>1. OneShot!DnsResolve.steps = <<x, y>>
    BY DEF OneShot!DnsResolve, OneShot!Scenario
  <2>2. y.call = "collect"
    BY DEF OneShot!Do, OneShot!Try
  <2>. HIDE DEF x, y
  <2>. DEFINE q == <<x, y>>
  <2>3. q \in Seq({x, y}) /\ Len(q) = 2 /\ q[2] = y
    OBVIOUS
  <2>. HIDE DEF q
  <2>4. EndsInReply(q)
    BY <2>2, <2>3 DEF EndsInReply, IsSeq
  <2>. QED
    BY <2>1, <2>4 DEF q
<1>3. EndsInReply(OneShot!PlainTcpConnect.steps)
  <2>. DEFINE x == OneShot!Do("send", <<s1>>)
              y == OneShot!Do("recv", <<s1>>)
  <2>1. OneShot!PlainTcpConnect.steps = a \o <<x, y>>
    BY SocketIs DEF OneShot!PlainTcpConnect, OneShot!Scenario
  <2>2. EndsInReply(<<y>>)
    BY EndCalled
  <2>. HIDE DEF a, x, y
  <2>3. <<x, y>> = <<x>> \o <<y>> /\ IsSeq(<<x>>)
    BY PairJoined, SeqOne
  <2>. QED
    BY <1>1, <2>1, <2>2, <2>3, EndJoined
<1>4. EndsInReply(OneShot!HttpGet.steps)
  <2>. DEFINE w == OneShot!Do("format", <<s1>>)
              x == OneShot!Do("send", <<s1>>)
              y == OneShot!Do("recv", <<s1>>)
  <2>1. OneShot!HttpGet.steps = a \o <<w, x, y>>
    BY SocketIs DEF OneShot!HttpGet, OneShot!Scenario
  <2>2. y.call = "recv"
    BY DEF OneShot!Do, OneShot!Try
  <2>. HIDE DEF a, w, x, y
  <2>3. IsSeq(<<w, x, y>>) /\ Len(<<w, x, y>>) = 3 /\ <<w, x, y>>[3] = y
    BY SeqThree
  <2>4. EndsInReply(<<w, x, y>>)
    BY <2>2, <2>3 DEF EndsInReply
  <2>. QED
    BY <1>1, <2>1, <2>4, EndJoined
<1>5. EndsInReply(OneShot!VerifiedHttpsGet("some").steps)
  <2>. DEFINE x == OneShot!Try("socketInitialize", {"service"}, <<>>)
              y == OneShot!Try("sslInitialize", {"ssl"}, <<>>)
              b == OneShot!Resolve(<<>>)
              c == <<OneShot!OpenSocket(s1, <<>>)>>
              d == OneShot!SetSocketTimeouts(<<s1>>)
              z == OneShot!Do("recv", r)
              e == << OneShot!Do("connect", <<s1>>),
                      OneShot!Try("sslCreateContext", {"context"}, <<s1>>),
                      OneShot!Try("sslContextCreateConnection", {"connection"}, <<"context", s1>>),
                      OneShot!Transfer,
                      OneShot!Do("host name", r), OneShot!Do("verify option", r),
                      OneShot!Do("io mode", r), OneShot!Do("handshake", r),
                      OneShot!Do("format", r), OneShot!Do("write", r), z >>
  <2>1. OneShot!VerifiedHttpsGet("some").steps = <<x, y>> \o b \o c \o d \o e
    BY SocketIs DEF OneShot!VerifiedHttpsGet, OneShot!Scenario
  <2>2. IsSeq(b) /\ IsSeq(d)
    <3>1. \A p, q : IsSeq(<<p, q>>)
      BY PairJoined, SeqOne, SeqJoined
    <3>. QED
      BY <3>1 DEF OneShot!Resolve, OneShot!SetSocketTimeouts
  <2>3. IsSeq(<<x, y>>) /\ IsSeq(c)
    BY PairJoined, SeqOne, SeqJoined
  <2>4. z.call = "recv"
    BY DEF OneShot!Do, OneShot!Try
  <2>5. EndsInReply(e)
    <3>. HIDE DEF z, r
    <3>1. \A e1, e2, e3, e4, e5, e6, e7, e8, e9, e10 :
            EndsInReply(<<e1, e2, e3, e4, e5, e6, e7, e8, e9, e10, z>>)
      <4>. SUFFICES ASSUME NEW e1, NEW e2, NEW e3, NEW e4, NEW e5, NEW e6, NEW e7, NEW e8, NEW e9, NEW e10
                    PROVE  EndsInReply(<<e1, e2, e3, e4, e5, e6, e7, e8, e9, e10, z>>)
        OBVIOUS
      <4>. DEFINE q == <<e1, e2, e3, e4, e5, e6, e7, e8, e9, e10, z>>
      <4>1. q \in Seq({e1, e2, e3, e4, e5, e6, e7, e8, e9, e10, z}) /\ Len(q) = 11 /\ q[11] = z
        OBVIOUS
      <4>. HIDE DEF q
      <4>. QED
        BY <2>4, <4>1 DEF EndsInReply, IsSeq
    <3>. QED
      BY <3>1
  <2>. HIDE DEF x, y, b, c, d, e
  <2>6. IsSeq(<<x, y>> \o b \o c \o d)
    BY <2>2, <2>3, SeqJoined
  <2>. QED
    BY <2>1, <2>5, <2>6, EndJoined
<1>6. CASE n = "dns_resolve"
  BY <1>2, <1>6 DEF OneShot!Steps
<1>7. CASE n = "plain_tcp_connect"
  BY <1>3, <1>7 DEF OneShot!Steps
<1>8. CASE n = "http_get"
  BY <1>4, <1>8 DEF OneShot!Steps
<1>9. CASE n = "https_get"
  BY <1>5, <1>9 DEF OneShot!Steps
<1>. QED
  BY <1>6, <1>7, <1>8, <1>9 DEF Fetching

\* The echo wants its own payload and the address must parse; who fetches wants something.
LEMMA RepliesWanted ==
  ASSUME NEW n, NEW ph
  PROVE  /\ n \in {"udp_echo", "connection_test_global_ip"} => OneShot!Steps(n, ph).wants = "right"
         /\ n \in Fetching => OneShot!Steps(n, ph).wants = "some"
<1>1. CASE n = "udp_echo"
  <2>1. OneShot!Steps("udp_echo", ph) = OneShot!UdpEcho
    BY DEF OneShot!Steps
  <2>2. OneShot!UdpEcho.wants = "right"
    BY DEF OneShot!UdpEcho, OneShot!UdpExchange, OneShot!Scenario
  <2>. QED
    BY <1>1, <2>1, <2>2 DEF Fetching
<1>2. CASE n = "connection_test_global_ip"
  <2>1. OneShot!Steps("connection_test_global_ip", ph) = OneShot!VerifiedHttpsGet("right")
    BY DEF OneShot!Steps
  <2>2. OneShot!VerifiedHttpsGet("right").wants = "right"
    BY DEF OneShot!VerifiedHttpsGet, OneShot!Scenario
  <2>. QED
    BY <1>2, <2>1, <2>2 DEF Fetching
<1>3. CASE n = "dns_resolve"
  <2>1. OneShot!Steps("dns_resolve", ph) = OneShot!DnsResolve
    BY DEF OneShot!Steps
  <2>2. OneShot!DnsResolve.wants = "some"
    BY DEF OneShot!DnsResolve, OneShot!Scenario
  <2>. QED
    BY <1>3, <2>1, <2>2
<1>4. CASE n = "plain_tcp_connect"
  <2>1. OneShot!Steps("plain_tcp_connect", ph) = OneShot!PlainTcpConnect
    BY DEF OneShot!Steps
  <2>2. OneShot!PlainTcpConnect.wants = "some"
    BY DEF OneShot!PlainTcpConnect, OneShot!Scenario
  <2>. QED
    BY <1>4, <2>1, <2>2
<1>5. CASE n = "http_get"
  <2>1. OneShot!Steps("http_get", ph) = OneShot!HttpGet
    BY DEF OneShot!Steps
  <2>2. OneShot!HttpGet.wants = "some"
    BY DEF OneShot!HttpGet, OneShot!Scenario
  <2>. QED
    BY <1>5, <2>1, <2>2
<1>6. CASE n = "https_get"
  <2>1. OneShot!Steps("https_get", ph) = OneShot!VerifiedHttpsGet("some")
    BY DEF OneShot!Steps
  <2>2. OneShot!VerifiedHttpsGet("some").wants = "some"
    BY DEF OneShot!VerifiedHttpsGet, OneShot!Scenario
  <2>. QED
    BY <1>6, <2>1, <2>2
<1>. QED
  BY <1>1, <1>2, <1>3, <1>4, <1>5, <1>6 DEF Fetching

\* Nothing has failed at the start.
LEMMA OneShotInit == OneShot!Init => OneShotUnfailed /\ OneShotReplied /\ OneShot!SuccessEarned
  BY DEF OneShot!Init, OneShotUnfailed, OneShotReplied, OneShot!SuccessEarned

\* A call that failed makes the outcome a failure.
LEMMA OneShotUnfailedNext == OneShotUnfailed /\ OneShotStepped => OneShotUnfailed'
  BY DEF OneShotStepped, OneShot!Next, OneShotUnfailed, OneShot!RunScenario, OneShot!CallSucceeds,
     OneShot!CallFails, OneShot!Complete, OneShot!Release, OneShot!Return, oneShotVars, OneShot!Running

\* The last call of such a scenario brings a reply.
LEMMA OneShotRepliedNext == OneShotTyped /\ OneShotReplied /\ OneShotStepped => OneShotReplied'
<1>. SUFFICES ASSUME OneShotTyped, OneShotReplied, OneShotStepped, at' > 0, name' \in Fetching,
                     at' > Len((OneShot!Current').steps)
              PROVE  replies' # {}
  BY DEF OneShotReplied
<1>1. CASE UNCHANGED <<name, at, replies, phases>>
  <2>1. OneShot!Current' = OneShot!Current
    BY <1>1 DEF OneShot!Current
  <2>. QED
    BY <1>1, <2>1 DEF OneShotReplied
<1>2. CASE OneShot!CallSucceeds
  <2>1. /\ at > 0 /\ at <= Len(OneShot!Current.steps) /\ at' = at + 1 /\ UNCHANGED <<name, phases>>
        /\ replies' \in IF OneShot!Current.steps[at].call \in {"recv", "collect"}
                        THEN {replies \cup {r} : r \in {"empty", "other", "right"}} ELSE {replies}
    BY <1>2 DEF OneShot!CallSucceeds, OneShot!Running
  <2>2. OneShot!Current' = OneShot!Current /\ EndsInReply(OneShot!Current.steps)
    BY <2>1, FetchesEnd DEF OneShot!Current
  <2>3. Len(OneShot!Current.steps) \in Nat /\ at \in Nat
    BY <2>2, SeqLen DEF EndsInReply, OneShotTyped, OneShot!TypeOK
  <2>4. at = Len(OneShot!Current.steps)
    BY <2>1, <2>2, <2>3
  <2>5. OneShot!Current.steps[at].call \in {"recv", "collect"}
    BY <2>2, <2>4 DEF EndsInReply
  <2>. QED
    BY <2>1, <2>5
<1>3. CASE OneShot!RunScenario
  <2>1. at' = 1
    BY <1>3 DEF OneShot!RunScenario, OneShot!Start
  <2>2. EndsInReply((OneShot!Current').steps)
    BY FetchesEnd DEF OneShot!Current
  <2>3. Len((OneShot!Current').steps) \in Nat /\ Len((OneShot!Current').steps) > 0
    BY <2>2, SeqLen DEF EndsInReply
  <2>. QED
    BY <2>1, <2>3
<1>. QED
  BY <1>1, <1>2, <1>3 DEF OneShotStepped, OneShot!Next, OneShot!CallFails, OneShot!Complete,
     OneShot!Release, OneShot!Return, oneShotVars

\* So a success has no failed call behind it, and the replies it wants.
LEMMA OneShotSuccessNext ==
  OneShotUnfailed /\ OneShotReplied /\ OneShot!SuccessEarned /\ OneShotStepped => OneShot!SuccessEarned'
<1>. SUFFICES ASSUME OneShotUnfailed, OneShotReplied, OneShot!SuccessEarned, OneShotStepped,
                     oneShotOutcome' = "success", at' > 0
              PROVE  /\ ~failed'
                     /\ name' \in {"udp_echo", "connection_test_global_ip"} => replies' = {"right"}
                     /\ name' \in Fetching => replies' # {} /\ "empty" \notin replies'
  BY DEF OneShot!SuccessEarned, Fetching
<1>1. CASE UNCHANGED <<name, at, oneShotOutcome, replies, failed>>
  BY <1>1 DEF OneShot!SuccessEarned, Fetching
<1>2. CASE OneShot!Complete
  <2>1. /\ OneShot!Judged /\ at > 0 /\ oneShotOutcome = "none" /\ at > Len(OneShot!Current.steps)
        /\ UNCHANGED <<name, replies, failed>>
    BY <1>2 DEF OneShot!Complete, OneShot!Running
  <2>2. /\ name \in {"udp_echo", "connection_test_global_ip"} => OneShot!Current.wants = "right"
        /\ name \in Fetching => OneShot!Current.wants = "some"
    BY RepliesWanted DEF OneShot!Current
  <2>3. ~failed
    BY <2>1 DEF OneShotUnfailed
  <2>4. OneShot!Current.wants = "right" => replies = {"right"}
    BY <2>1 DEF OneShot!Judged
  <2>5. OneShot!Current.wants = "some" => "empty" \notin replies
    BY <2>1 DEF OneShot!Judged
  <2>6. name \in Fetching => replies # {}
    BY <2>1 DEF OneShotReplied
  <2>. QED
    BY <2>1, <2>2, <2>3, <2>4, <2>5, <2>6
<1>3. CASE OneShot!Release
  <2>1. UNCHANGED <<name, at, replies>> /\ UNCHANGED <<oneShotOutcome, failed>>
    BY <1>3 DEF OneShot!Release
  <2>. QED
    BY <1>1, <2>1
<1>. QED
  BY <1>1, <1>2, <1>3 DEF OneShotStepped, OneShot!Next, OneShot!RunScenario, OneShot!CallSucceeds,
     OneShot!CallFails, OneShot!Return, oneShotVars, OneShot!Running

-----------------------------------------------------------------------------
(* The workload and the transfers: what is released at their end. *)

\* The open sockets of a UDP workload are among its descriptors, and none is left at the end.
UdpReleasing ==
  /\ open \subseteq descriptors
  /\ udpPc = "init" => descriptors = {} /\ exited
  /\ udpPc = "done" => descriptors = {} /\ exited

\* Every step of the workload keeps to it.
LEMMA UdpReleasingNext ==
  ASSUME NEW b \in BOOLEAN, UdpReleasing, UdpStepped(b)
  PROVE  UdpReleasing'
<1>. USE DEF UdpReleasing
<1>1. CASE Udp(b)!Initialize
  BY <1>1 DEF Udp!Initialize, Udp!sockets
<1>2. CASE Udp(b)!OpenSocket
  BY <1>2 DEF Udp!OpenSocket, Udp!Fail
<1>3. CASE Udp(b)!VerifyPostRouteRejection
  BY <1>3 DEF Udp!VerifyPostRouteRejection, Udp!Fail, Udp!sockets
<1>4. CASE Udp(b)!Send
  <2>1. udpPc' # "init" /\ udpPc' # "done"
    <3>1. Udp(b)!AfterSend => udpPc' \in {"noReply", "echo", "send"}
      BY DEF Udp!AfterSend
    <3>2. Udp(b)!AfterSend \/ udpPc' = "writable" \/ Udp(b)!Fail
      BY <1>4 DEF Udp!Send
    <3>. QED
      BY <3>1, <3>2 DEF Udp!Fail
  <2>2. UNCHANGED <<open, descriptors>>
    BY <1>4 DEF Udp!Send
  <2>. QED
    BY <2>1, <2>2
<1>5. CASE Udp(b)!AwaitWritable
  BY <1>5 DEF Udp!AwaitWritable, Udp!Fail, Udp!sockets
<1>6. CASE Udp(b)!AwaitEcho
  BY <1>6 DEF Udp!AwaitEcho, Udp!Fail, Udp!sockets
<1>7. CASE Udp(b)!ReceiveEcho
  BY <1>7 DEF Udp!ReceiveEcho, Udp!Fail, Udp!sockets
<1>8. CASE Udp(b)!AwaitNoReply
  BY <1>8 DEF Udp!AwaitNoReply, Udp!Fail, Udp!sockets
<1>9. CASE Udp(b)!AwaitTerminal
  BY <1>9 DEF Udp!AwaitTerminal, Udp!Fail, Udp!sockets
<1>10. CASE Udp(b)!VerifyTerminalSend
  BY <1>10 DEF Udp!VerifyTerminalSend, Udp!Fail
<1>11. CASE Udp(b)!Finish
  BY <1>11 DEF Udp!Finish, Udp!CloseDescriptors
<1>12. CASE Udp(b)!Tick \/ Udp(b)!Environment
  <2>1. UNCHANGED <<udpPc, descriptors, exited>>
    BY <1>12 DEF Udp!Tick, Udp!Environment
  <2>2. open' = open
    BY <1>12 DEF Udp!Tick, Udp!Environment, Udp!Transmit, Udp!HangUp, Udp!EchoArrives, Udp!sockets
  <2>. QED
    BY <2>1, <2>2
<1>13. CASE UNCHANGED udpVars
  BY <1>13 DEF udpVars
<1>. QED
  BY <1>1, <1>2, <1>3, <1>4, <1>5, <1>6, <1>7, <1>8, <1>9, <1>10, <1>11, <1>12, <1>13, UdpCases

\* A transfer ends with its socket closed and its service left.
HttpReleasing == httpPc = "done" => httpSocket # "open" /\ ~httpService

\* Every step of a transfer keeps to it.
LEMMA HttpReleasingNext ==
  ASSUME NEW u \in BOOLEAN, HttpHolds(u), HttpReleasing, HttpStepped(u)
  PROVE  HttpReleasing'
<1>1. CASE Http(u)!Initialize \/ Http(u)!Connect \/ Http(u)!SetTimeouts
  BY <1>1 DEF HttpReleasing, Http!Initialize, Http!Connect, Http!SetTimeouts, Http!Fail
<1>2. CASE Http(u)!FormatRequest
  BY <1>2 DEF HttpReleasing, Http!FormatRequest, Http!Fail
<1>3. CASE Http(u)!SendAll
  BY <1>3 DEF HttpReleasing, Http!SendAll, Http!Fail
<1>4. CASE Http(u)!NextPiece
  BY <1>4 DEF HttpReleasing, Http!NextPiece, Http!Fail
<1>5. CASE Http(u)!Receive
  <2>1. httpPc' \in {"recv", "close"}
    BY <1>5, HttpReceived DEF Http!HeaderPiece, Http!BodyPiece, Http!Fail, Http!Receive
  <2>. QED
    BY <2>1 DEF HttpReleasing
<1>6. CASE Http(u)!EndOfStream \/ Http(u)!ReceiveFails
  BY <1>6 DEF HttpReleasing, Http!EndOfStream, Http!ReceiveFails, Http!Fail
<1>7. CASE Http(u)!Close
  BY <1>7 DEF HttpReleasing, Http!Close, Http!ServiceAfter
<1>8. CASE UNCHANGED httpVars
  BY <1>8 DEF HttpReleasing, httpVars
<1>. QED
  BY <1>1, <1>2, <1>3, <1>4, <1>5, <1>6, <1>7, <1>8, HttpCases

-----------------------------------------------------------------------------
(* The scenarios together. *)

\* Which steps of its parts a step of the whole is.
LEMMA SocketSteps ==
  ASSUME [MCNext]_all
  PROVE  /\ scenario' = scenario /\ [Next]_vars
         /\ scenario = "bsd udp" => UdpStepped(FALSE)
         /\ scenario # "bsd udp" => UdpStepped(TRUE)
         /\ scenario = "download" => HttpStepped(FALSE)
         /\ scenario = "upload" => HttpStepped(TRUE)
         /\ OneShotStepped /\ MetricStepped
         /\ scenario = "malformed packet" => PacketStepped(TRUE)
         /\ scenario # "malformed packet" => PacketStepped(FALSE)
<1>1. CASE UNCHANGED all
  BY <1>1 DEF all, UdpStepped, HttpStepped, OneShotStepped, MetricStepped, PacketStepped
<1>2. CASE TcpStep(Next)
  BY <1>2 DEF TcpStep, UdpStepped, HttpStepped, OneShotStepped,
     MetricStepped, PacketStepped
<1>3. CASE scenario = "bsd udp" /\ UdpStep(Udp(FALSE)!Next)
  BY <1>3 DEF UdpStep, UdpStepped, HttpStepped, OneShotStepped,
     MetricStepped, PacketStepped
<1>4. CASE scenario = "bsd udp burst" /\ UdpStep(Udp(TRUE)!Next)
  BY <1>4 DEF UdpStep, UdpStepped, HttpStepped, OneShotStepped,
     MetricStepped, PacketStepped
<1>5. CASE scenario = "download" /\ HttpStep(Http(FALSE)!Next)
  BY <1>5 DEF HttpStep, UdpStepped, HttpStepped, OneShotStepped,
     MetricStepped, PacketStepped
<1>6. CASE scenario = "upload" /\ HttpStep(Http(TRUE)!Next)
  BY <1>6 DEF HttpStep, UdpStepped, HttpStepped, OneShotStepped,
     MetricStepped, PacketStepped
<1>7. CASE OneShotStep(OneShot!Next)
  BY <1>7 DEF OneShotStep, UdpStepped, HttpStepped, OneShotStepped,
     MetricStepped, PacketStepped
<1>8. CASE \/ scenario = "packet" /\ PacketStep(Packets(FALSE)!Next)
           \/ scenario = "malformed packet" /\ PacketStep(Packets(TRUE)!Next)
  BY <1>8 DEF PacketStep, UdpStepped, HttpStepped, OneShotStepped,
     MetricStepped, PacketStepped
<1>9. CASE MetricStep(Metrics!Next)
  BY <1>9 DEF MetricStep, UdpStepped, HttpStepped, OneShotStepped,
     MetricStepped, PacketStepped
<1>. QED
  BY <1>1, <1>2, <1>3, <1>4, <1>5, <1>6, <1>7, <1>8, <1>9 DEF MCNext

\* The invariant of each scenario, and of all.
TcpHolds == TypeOK /\ Entered /\ Opened /\ Progress /\ Collected /\ FailureHasCause

UdpsHold ==
  /\ scenario = "bsd udp" => UdpHolds(FALSE)
  /\ scenario # "bsd udp" => UdpHolds(TRUE) /\ mode = "EchoReply"
  /\ UdpReleasing

HttpsHold ==
  /\ scenario = "download" => HttpHolds(FALSE)
  /\ scenario = "upload" => HttpHolds(TRUE)
  /\ IsHttp => HttpReleasing

PacketsAllHold ==
  /\ scenario = "malformed packet" => PacketsHold(TRUE)
  /\ scenario # "malformed packet" => PacketsHold(FALSE)

OneShotHolds == OneShotUnfailed /\ OneShotReplied /\ OneShot!SuccessEarned /\ OneShotTyped /\ OneShotPlace

SocketsHold == TcpHolds /\ UdpsHold /\ HttpsHold /\ PacketsAllHold /\ OneShotHolds /\ MetricsHold

\* The invariants hold at the start.
LEMMA SocketsInit == MCInit => SocketsHold
<1>. SUFFICES ASSUME MCInit PROVE SocketsHold
  OBVIOUS
<1>1. TcpHolds
  <2>1. Entered /\ Opened
    BY DEF MCInit, Init, Entered, Opened
  <2>. QED
    BY <2>1, InitType, InitOutcome DEF MCInit, TcpHolds
<1>2. UdpsHold
  <2>0. UdpReleasing
    BY DEF MCInit, Udp!Init, UdpReleasing
  <2>1. CASE scenario = "bsd udp"
    <3>1. Udp(FALSE)!Init
      BY <2>1 DEF MCInit
    <3>2. UdpHolds(FALSE)
      BY <3>1, UdpInitHolds
    <3>. QED
      BY <2>0, <2>1, <3>2 DEF UdpsHold
  <2>2. CASE scenario # "bsd udp"
    <3>1. Udp(TRUE)!Init /\ mode = "EchoReply"
      BY <2>2 DEF MCInit
    <3>2. UdpHolds(TRUE)
      BY <3>1, UdpInitHolds
    <3>. QED
      BY <2>0, <2>2, <3>1, <3>2 DEF UdpsHold
  <2>. QED
    BY <2>1, <2>2
<1>3. HttpsHold
  <2>1. Http(FALSE)!Init
    BY DEF MCInit
  <2>2. Http(TRUE)!Init
    BY <2>1 DEF Http!Init, Http!Answers
  <2>3. HttpHolds(FALSE)
    BY <2>1, HttpInitHolds
  <2>4. HttpHolds(TRUE)
    BY <2>2, HttpInitHolds
  <2>5. HttpReleasing
    BY <2>1 DEF Http!Init, HttpReleasing
  <2>. QED
    BY <2>3, <2>4, <2>5 DEF HttpsHold
<1>4. OneShotHolds
  BY OneShotInit, OneShotInitTyped, OneShotInitPlace DEF MCInit, OneShotHolds
<1>5. PacketsAllHold
  <2>1. CASE scenario = "malformed packet"
    <3>1. Packets(TRUE)!Init
      BY <2>1 DEF MCInit
    <3>2. PacketsHold(TRUE)
      BY <3>1, PacketInitHolds
    <3>. QED
      BY <2>1, <3>2 DEF PacketsAllHold
  <2>2. CASE scenario # "malformed packet"
    <3>1. Packets(FALSE)!Init
      BY <2>2 DEF MCInit
    <3>2. PacketsHold(FALSE)
      BY <3>1, PacketInitHolds
    <3>. QED
      BY <2>2, <3>2 DEF PacketsAllHold
  <2>. QED
    BY <2>1, <2>2
<1>6. MetricsHold
  BY MetricInit DEF MCInit
<1>. QED
  BY <1>1, <1>2, <1>3, <1>4, <1>5, <1>6 DEF SocketsHold

\* Every step keeps them.
LEMMA SocketsNext == SocketsHold /\ [MCNext]_all => SocketsHold'
<1>. SUFFICES ASSUME SocketsHold, [MCNext]_all PROVE SocketsHold'
  OBVIOUS
<1>0. scenario' = scenario
  BY SocketSteps
<1>1. TcpHolds'
  <2>1. TypeOK /\ Entered /\ Opened /\ Progress /\ Collected /\ FailureHasCause /\ [Next]_vars
    BY SocketSteps DEF SocketsHold, TcpHolds
  <2>. QED
    BY <2>1, NextType, NextEntered, NextOpened, NextProgress, NextCollected, NextCause DEF TcpHolds
<1>2. UdpsHold'
  <2>1. CASE scenario = "bsd udp"
    <3>1. UdpHolds(FALSE) /\ UdpReleasing /\ UdpStepped(FALSE)
      BY <2>1, SocketSteps DEF SocketsHold, UdpsHold
    <3>2. UdpHolds(FALSE)' /\ UdpReleasing'
      BY <3>1, UdpHoldsNext, UdpReleasingNext
    <3>. QED
      BY <1>0, <2>1, <3>2 DEF UdpsHold
  <2>2. CASE scenario # "bsd udp"
    <3>1. UdpHolds(TRUE) /\ UdpReleasing /\ UdpStepped(TRUE) /\ mode = "EchoReply"
      BY <2>2, SocketSteps DEF SocketsHold, UdpsHold
    <3>2. UdpHolds(TRUE)' /\ UdpReleasing' /\ mode' = mode
      BY <3>1, UdpHoldsNext, UdpReleasingNext, UdpModeStays
    <3>. QED
      BY <1>0, <2>2, <3>1, <3>2 DEF UdpsHold
  <2>. QED
    BY <2>1, <2>2
<1>3. HttpsHold'
  <2>1. ASSUME scenario = "download" PROVE HttpHolds(FALSE)' /\ HttpReleasing'
    <3>1. HttpHolds(FALSE) /\ HttpReleasing /\ HttpStepped(FALSE)
      BY <2>1, SocketSteps DEF SocketsHold, HttpsHold, IsHttp
    <3>. QED
      BY <3>1, HttpHoldsNext, HttpReleasingNext
  <2>2. ASSUME scenario = "upload" PROVE HttpHolds(TRUE)' /\ HttpReleasing'
    <3>1. HttpHolds(TRUE) /\ HttpReleasing /\ HttpStepped(TRUE)
      BY <2>2, SocketSteps DEF SocketsHold, HttpsHold, IsHttp
    <3>. QED
      BY <3>1, HttpHoldsNext, HttpReleasingNext
  <2>. QED
    BY <1>0, <2>1, <2>2 DEF HttpsHold, IsHttp
<1>4. OneShotHolds'
  <2>1. OneShotUnfailed /\ OneShotReplied /\ OneShot!SuccessEarned /\ OneShotTyped /\ OneShotPlace
          /\ OneShotStepped
    BY SocketSteps DEF SocketsHold, OneShotHolds
  <2>. QED
    BY <2>1, OneShotUnfailedNext, OneShotRepliedNext, OneShotSuccessNext, OneShotTypedNext, OneShotPlaceNext
       DEF OneShotHolds
<1>5. PacketsAllHold'
  <2>1. CASE scenario = "malformed packet"
    <3>1. PacketsHold(TRUE) /\ PacketStepped(TRUE)
      BY <2>1, SocketSteps DEF SocketsHold, PacketsAllHold
    <3>2. PacketsHold(TRUE)'
      BY <3>1, PacketsHoldNext
    <3>. QED
      BY <1>0, <2>1, <3>2 DEF PacketsAllHold
  <2>2. CASE scenario # "malformed packet"
    <3>1. PacketsHold(FALSE) /\ PacketStepped(FALSE)
      BY <2>2, SocketSteps DEF SocketsHold, PacketsAllHold
    <3>2. PacketsHold(FALSE)'
      BY <3>1, PacketsHoldNext
    <3>. QED
      BY <1>0, <2>2, <3>2 DEF PacketsAllHold
  <2>. QED
    BY <2>1, <2>2
<1>6. MetricsHold'
  BY SocketSteps, MetricsHoldNext DEF SocketsHold
<1>. QED
  BY <1>1, <1>2, <1>3, <1>4, <1>5, <1>6 DEF SocketsHold

\* So they hold in every state.
LEMMA SocketsAlwaysHold == MCSpec => []SocketsHold
  BY SocketsInit, SocketsNext, PTL DEF MCSpec

\* The TCP exchange reports success for the expected reply.
LEMMA TcpSuccess == TcpHolds => SuccessEarned
<1>. SUFFICES ASSUME TypeOK, Progress, Collected, outcome = "success" PROVE IsPrefix(ExpectedReply, stream)
  BY DEF SuccessEarned, Progress, TcpHolds
<1>1. reply = ExpectedReply
  BY DEF Progress
<1>. QED
  BY <1>1, Expected, PrefixPointwise DEF Collected, TypeOK

\* Success is reported only for what happened: a TCP reply at the head of the stream, an echo
\* or a closure of every datagram, a request sent whole, one-shot calls of which none failed
\* with the reply their scenario wants.  Two successes say less: the body of a transfer whose
\* header came in pieces is larger than expected by the earlier pieces (scenarios.cpp:946), and
\* tcp_multi_connect needs no reply (scenarios.cpp:1579).
THEOREM SuccessIsAlwaysEarned == MCSpec => []SuccessIsEarned
<1>1. SocketsHold => SuccessIsEarned
  <2>. SUFFICES ASSUME SocketsHold PROVE SuccessIsEarned
    OBVIOUS
  <2>1. SuccessEarned
    BY TcpSuccess DEF SocketsHold
  <2>2. scenario = "bsd udp" => Udp(FALSE)!SuccessEarned /\ Udp(FALSE)!TerminalEarned
    BY DEF SocketsHold, UdpsHold, UdpHolds
  <2>3. scenario = "bsd udp burst" => Udp(TRUE)!SuccessEarned
    BY DEF SocketsHold, UdpsHold, UdpHolds
  <2>4. scenario = "download" => Http(FALSE)!SuccessEarned /\ Http(FALSE)!UploadComplete
    BY HttpReports DEF SocketsHold, HttpsHold
  <2>5. scenario = "upload" => Http(TRUE)!SuccessEarned /\ Http(TRUE)!UploadComplete
    BY HttpReports DEF SocketsHold, HttpsHold
  <2>6. OneShot!SuccessEarned
    BY DEF SocketsHold, OneShotHolds
  <2>. QED
    BY <2>1, <2>2, <2>3, <2>4, <2>5, <2>6 DEF SuccessIsEarned
<1>. QED
  BY <1>1, SocketsAlwaysHold, PTL

\* It calls unexpected only a reply that is.
LEMMA TcpMismatch == TcpHolds => MismatchIsReal
<1>. SUFFICES ASSUME TypeOK, Progress, Collected, outcome = "unexpected reply",
                     IsPrefix(ExpectedReply, stream)
              PROVE  FALSE
  BY DEF MismatchIsReal, TcpHolds
<1>1. Len(reply) = ReplySize /\ reply # ExpectedReply /\ reply \in Seq(Byte)
  BY DEF Progress, TypeOK
<1>2. \A i \in 1..ReplySize : ExpectedReply[i] = stream[i]
  <2>1. Len(ExpectedReply) <= Len(stream) /\ stream \in Seq(Byte)
    BY DEF IsPrefix, TypeOK
  <2>. QED
    BY <2>1, ReplyAtHead
<1>3. \A i \in 1..Len(reply) : reply[i] = ExpectedReply[i]
  BY <1>1, <1>2 DEF Collected
<1>. QED
  BY <1>1, <1>3, Expected, SeqEqual

\* Every variable of the socket scenarios keeps its type, so that no counter of the transfers,
\* the packets and the figures leaves its width, for every value of the constants.
THEOREM TypesAreCorrect == MCSpec => []TypesOK
<1>1. SocketsHold => TypesOK
  <2>. SUFFICES ASSUME SocketsHold PROVE TypesOK
    OBVIOUS
  <2>1. TypeOK
    BY DEF SocketsHold, TcpHolds
  <2>2. scenario = "bsd udp" => Udp(FALSE)!TypeOK
    BY DEF SocketsHold, UdpsHold, UdpHolds
  <2>3. scenario = "bsd udp burst" => Udp(TRUE)!TypeOK
    BY DEF SocketsHold, UdpsHold, UdpHolds
  <2>4. scenario = "download" => Http(FALSE)!TypeOK
    BY DEF SocketsHold, HttpsHold, HttpHolds
  <2>5. scenario = "upload" => Http(TRUE)!TypeOK
    BY DEF SocketsHold, HttpsHold, HttpHolds
  <2>6. scenario = "packet" => Packets(FALSE)!TypeOK
    <3>1. ASSUME scenario = "packet" PROVE Packets(FALSE)!TypeOK
      <4>1. PacketTypes(FALSE)
        BY <3>1 DEF SocketsHold, PacketsAllHold, PacketsHold
      <4>. QED
        BY <4>1, PacketTyped
    <3>. QED
      BY <3>1
  <2>7. OneShot!TypeOK
    BY DEF SocketsHold, OneShotHolds, OneShotTyped
  <2>8. Metrics!TypeOK
    BY MetricsTyped DEF SocketsHold
  <2>. QED
    BY <2>1, <2>2, <2>3, <2>4, <2>5, <2>6, <2>7, <2>8 DEF TypesOK
<1>. QED
  BY <1>1, SocketsAlwaysHold, PTL

\* What is reported is real: a failure has its cause and a mismatch is one; a count is off by
\* the earlier pieces of the header alone; RecordEcho and the percentiles of the histogram give
\* the figures of the round trips; and what wctl submits proves right unless it is to be malformed.
THEOREM ReportsAreAlwaysReal == MCSpec => []ReportsAreReal
<1>1. SocketsHold => ReportsAreReal
  <2>. SUFFICES ASSUME SocketsHold PROVE ReportsAreReal
    OBVIOUS
  <2>1. MismatchIsReal /\ FailureHasCause
    BY TcpMismatch DEF SocketsHold, TcpHolds
  <2>2. scenario = "download" => Http(FALSE)!FailureHasCause /\ Http(FALSE)!CountShortByEarlierPieces
    BY HttpReports DEF SocketsHold, HttpsHold
  <2>3. scenario = "upload" => Http(TRUE)!FailureHasCause /\ Http(TRUE)!CountShortByEarlierPieces
    BY HttpReports DEF SocketsHold, HttpsHold
  <2>4. Metrics!FiguresExact /\ Metrics!PercentilesConservative
    BY FiguresAreExact, PercentilesAreConservative DEF SocketsHold
  <2>5. scenario = "packet" => Packets(FALSE)!SubmittedAsMeant
    BY PacketMeant DEF SocketsHold, PacketsAllHold
  <2>6. scenario = "malformed packet" => Packets(TRUE)!SubmittedAsMeant
    BY PacketMeant DEF SocketsHold, PacketsAllHold
  <2>. QED
    BY <2>1, <2>2, <2>3, <2>4, <2>5, <2>6 DEF ReportsAreReal
<1>. QED
  BY <1>1, SocketsAlwaysHold, PTL

\* No step ends a wait for silence with something to read or on a closed flow, takes anything
\* but the echo of its own datagram for the echo, or turns that away; and none releases what is
\* not held, or what something that is still held works on, on any way out of any scenario.
THEOREM StepsAreAlwaysAllowed == MCSpec => StepsAreAllowed
<1>. DEFINE Allowed ==
       /\ Udp(FALSE)!TimeoutEarned
       /\ scenario = "packet" => Packets(FALSE)!AnsweredByEcho /\ Packets(FALSE)!EchoAccepted
       /\ OneShot!ReleasesAreHeld /\ OneShot!ReleasedUsersFirst
<1>1. SocketsHold /\ [MCNext]_all => Allowed
  <2>. SUFFICES ASSUME SocketsHold, [MCNext]_all PROVE Allowed
    OBVIOUS
  <2>1. Udp(FALSE)!TimeoutEarned
    <3>1. CASE scenario = "bsd udp"
      <4>1. UdpHolds(FALSE) /\ UdpStepped(FALSE)
        BY <3>1, SocketSteps DEF SocketsHold, UdpsHold
      <4>. QED
        BY <4>1, UdpTimeoutEarned
    <3>2. CASE scenario # "bsd udp"
      BY <3>2 DEF SocketsHold, UdpsHold, Udp!TimeoutEarned
    <3>. QED
      BY <3>1, <3>2
  <2>2. ASSUME scenario = "packet" PROVE Packets(FALSE)!AnsweredByEcho /\ Packets(FALSE)!EchoAccepted
    <3>1. PacketsHold(FALSE) /\ PacketStepped(FALSE)
      BY <2>2, SocketSteps DEF SocketsHold, PacketsAllHold
    <3>. QED
      BY <3>1, PacketAnswers
  <2>3. OneShotTyped /\ OneShotPlace /\ OneShotStepped
    BY SocketSteps DEF SocketsHold, OneShotHolds
  <2>4. OneShot!ReleasesAreHeld /\ OneShot!ReleasedUsersFirst
    BY <2>3, ReleasesHeld, UsersFirst
  <2>. QED
    BY <2>1, <2>2, <2>4
<1>2. MCSpec => [][Allowed]_all
  BY <1>1, SocketsAlwaysHold, PTL DEF MCSpec
<1>. QED
  BY <1>2 DEF StepsAreAllowed

\* When a scenario is at its end its sockets, its sessions and the service are
\* given back, whichever way it came there.
NothingLeft ==
  /\ ReleasedOnce
  /\ IsUdp => Udp(TRUE)!SocketsReleased
  /\ IsHttp => Http(TRUE)!ReleasedAtEnd
  /\ OneShot!NothingCarriedOver

\* A scenario that is at its end has given back its sockets, its sessions and the service,
\* whichever call failed and whatever its peers did.
THEOREM NothingIsEverLeft == MCSpec => []NothingLeft
<1>1. SocketsHold => NothingLeft
  <2>. SUFFICES ASSUME SocketsHold PROVE NothingLeft
    OBVIOUS
  <2>1. ReleasedOnce
    BY DEF SocketsHold, TcpHolds, Entered, Opened, ReleasedOnce
  <2>2. Udp(TRUE)!SocketsReleased
    BY DEF SocketsHold, UdpsHold, UdpReleasing, Udp!SocketsReleased
  <2>3. IsHttp => Http(TRUE)!ReleasedAtEnd
    BY DEF SocketsHold, HttpsHold, HttpReleasing, Http!ReleasedAtEnd
  <2>4. OneShot!NothingCarriedOver
    BY DEF SocketsHold, OneShotHolds, OneShotPlace, OneShot!NothingCarriedOver
  <2>. QED
    BY <2>1, <2>2, <2>3, <2>4 DEF NothingLeft
<1>. QED
  BY <1>1, SocketsAlwaysHold, PTL
=============================================================================
