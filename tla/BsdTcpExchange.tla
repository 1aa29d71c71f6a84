--------------------------- MODULE BsdTcpExchange ---------------------------
(***************************************************************************)
(* The TCP exchange of the toolbox over a blocking bsd:s socket            *)
(* (toolbox/src/bsd_system_tcp_scenario.cpp): connect, send the request in *)
(* as many sends as it takes, poll once, collect a reply of known size in  *)
(* as many recvs as it takes, compare, close.                              *)
(*                                                                         *)
(* The connection and its peer are external: the peer answers what it      *)
(* likes once the request is complete, in pieces, and may close or reset   *)
(* at any point.  Any call may fail.                                       *)
(***************************************************************************)
EXTENDS Naturals, SequencesExt

CONSTANTS
  RequestSize,   \* request_length
  ReplySize,     \* sizeof(ExpectedReply) - 1
  MaxSent        \* bound: bytes the peer sends

ASSUME SizeAssumption ==
  RequestSize \in Nat \ {0} /\ ReplySize \in Nat \ {0} /\ MaxSent \in Nat

\* Bytes are numbers: i is the i-th byte of the reply that is expected, 0 any other.
ExpectedReply == [i \in 1..ReplySize |-> i]
Byte == 0..ReplySize

VARIABLES
  pc,          \* where it is, see Pcs
  initialized, \* BsdSocketScope::initialized_
  service,     \* external: socketInitialize is in force
  sent,        \* SendAll's offset
  reply,       \* the bytes collected; its length is the offset
  outcome,     \* "none", "success", "failed" or "unexpected reply"
  socket,      \* external: "none", "open" or "closed"
  closes,      \* external: close calls on the descriptor
  stream,      \* external: all the peer has sent
  peerClosed,  \* external: the peer's end of stream is behind it
  reset,       \* external: the connection is gone
  callFailed   \* history: a call failed or timed out

peer == <<stream, peerClosed, reset>>
vars == <<pc, initialized, service, sent, reply, outcome, socket, closes, peer, callFailed>>

Pcs == {"init", "socket", "timeouts", "connect", "send", "poll", "recv", "compare", "close", "done"}

Init ==
  /\ pc = "init" /\ initialized = FALSE /\ service = FALSE /\ sent = 0 /\ reply = <<>>
  /\ outcome = "none" /\ socket = "none" /\ closes = 0
  /\ stream = <<>> /\ peerClosed = FALSE /\ reset = FALSE /\ callFailed = FALSE

-----------------------------------------------------------------------------
(* The peer and the connection. *)

PeerSends ==
  /\ sent = RequestSize /\ ~peerClosed /\ ~reset /\ Len(stream) < MaxSent
  /\ \E b \in {0} \cup ({Len(stream) + 1} \cap Byte) : stream' = Append(stream, b)
  /\ UNCHANGED <<peerClosed, reset>>

PeerCloses == ~peerClosed /\ ~reset /\ peerClosed' = TRUE /\ UNCHANGED <<stream, reset>>
ConnectionLost == ~reset /\ reset' = TRUE /\ UNCHANGED <<stream, peerClosed>>

Environment ==
  /\ pc \in {"send", "poll", "recv"}
  /\ PeerSends \/ PeerCloses \/ ConnectionLost
  /\ UNCHANGED <<pc, initialized, service, sent, reply, outcome, socket, closes, callFailed>>

-----------------------------------------------------------------------------
(* The scenario.  Finish is the destructor of BsdSocketScope. *)

\* Every failure after the socket is open closes it and returns.
Fail(why) == pc' = "close" /\ outcome' = why

Initialize ==
  /\ pc = "init"
  /\ \/ initialized' = TRUE /\ service' = TRUE /\ pc' = "socket" /\ UNCHANGED <<outcome, callFailed>>
     \/ pc' = "done" /\ outcome' = "failed" /\ callFailed' = TRUE /\ UNCHANGED <<initialized, service>>
  /\ UNCHANGED <<sent, reply, socket, closes, peer>>

OpenSocket ==
  /\ pc = "socket"
  /\ \/ socket' = "open" /\ pc' = "timeouts" /\ UNCHANGED <<outcome, callFailed>>
     \/ pc' = "done" /\ outcome' = "failed" /\ callFailed' = TRUE /\ UNCHANGED socket
  /\ service' = (service /\ pc' # "done")
  /\ UNCHANGED <<initialized, sent, reply, closes, peer>>

SetTimeouts ==
  /\ pc = "timeouts"
  /\ \/ pc' = "connect" /\ UNCHANGED <<outcome, callFailed>>
     \/ Fail("failed") /\ callFailed' = TRUE
  /\ UNCHANGED <<initialized, service, sent, reply, socket, closes, peer>>

\* connect, then getsockname, whose answer must make sense.
Connect ==
  /\ pc = "connect"
  /\ \/ pc' = "send" /\ UNCHANGED <<outcome, callFailed>>
     \/ Fail("failed") /\ callFailed' = TRUE
  /\ UNCHANGED <<initialized, service, sent, reply, socket, closes, peer>>

\* The offset after a send that ended at n.
OffsetAfter(n) == n

\* One turn of SendAll; a send may take a part of what is left.
SendAll ==
  /\ pc = "send"
  /\ \/ /\ ~reset
        /\ \E n \in sent + 1..RequestSize :
             /\ sent' = OffsetAfter(n)
             /\ pc' = IF sent' = RequestSize THEN "poll" ELSE "send"
        /\ UNCHANGED <<outcome, callFailed>>
     \/ Fail("failed") /\ callFailed' = TRUE /\ UNCHANGED sent
  /\ UNCHANGED <<initialized, service, reply, socket, closes, peer>>

\* What poll may report now: data or the end of the stream to be read, the end
\* of the connection, or both.
Revents ==
  {e \in {"POLLIN"} : stream # <<>> \/ peerClosed}
    \cup {e \in {"POLLHUP"} : peerClosed}
    \cup {e \in {"POLLERR"} : reset}

Readable(revents) == "POLLERR" \notin revents /\ "POLLIN" \in revents

PollReply ==
  /\ pc = "poll"
  /\ \/ /\ Revents # {}
        /\ IF Readable(Revents) THEN pc' = "recv" /\ UNCHANGED outcome ELSE Fail("failed")
        /\ UNCHANGED callFailed
     \/ \* an error, or the deadline passes
        Fail("failed") /\ callFailed' = TRUE
  /\ UNCHANGED <<initialized, service, sent, reply, socket, closes, peer>>

Collect(bytes) == reply \o bytes

\* Faulty variant: a byte more than there is room for.
RoomOver == ReplySize + 1
Room == ReplySize

\* One turn of the recv loop: some bytes, the end of the stream, or an error
\* (the deadline of SO_RCVTIMEO included).
ReceiveReply ==
  /\ pc = "recv"
  /\ \/ \E n \in Len(reply) + 1..Len(stream) :
          /\ n <= Room
          /\ reply' = Collect(SubSeq(stream, Len(reply) + 1, n))
          /\ pc' = IF Len(reply') < ReplySize THEN "recv" ELSE "compare"
          /\ UNCHANGED <<outcome, callFailed>>
     \/ /\ peerClosed /\ Len(reply) = Len(stream)
        /\ Fail("failed") /\ UNCHANGED <<reply, callFailed>>
     \/ Fail("failed") /\ callFailed' = TRUE /\ UNCHANGED reply
  /\ UNCHANGED <<initialized, service, sent, socket, closes, peer>>

IsExpected == reply = ExpectedReply

CompareReply ==
  /\ pc = "compare"
  /\ IF IsExpected THEN pc' = "close" /\ UNCHANGED outcome ELSE Fail("unexpected reply")
  /\ UNCHANGED <<initialized, service, sent, reply, socket, closes, peer, callFailed>>

ServiceAfter == service /\ ~initialized

\* close, whose result matters only if all went well; then socketExit.
Close ==
  /\ pc = "close" /\ closes' = closes + 1 /\ pc' = "done"
  /\ \/ /\ socket' = "closed" /\ outcome' = (IF outcome = "none" THEN "success" ELSE outcome)
        /\ UNCHANGED callFailed
     \/ /\ outcome' = (IF outcome = "none" THEN "failed" ELSE outcome)
        /\ callFailed' = TRUE /\ UNCHANGED socket
  /\ service' = ServiceAfter
  /\ UNCHANGED <<initialized, sent, reply, peer>>

Exchange ==
  Initialize \/ OpenSocket \/ SetTimeouts \/ Connect \/ SendAll \/ PollReply \/ ReceiveReply
    \/ CompareReply \/ Close

Next == Exchange \/ Environment
Spec == Init /\ [][Next]_vars

\* The worker runs; each of its calls returns, by its deadline at the latest.
FairSpec == Spec /\ WF_vars(Exchange)

-----------------------------------------------------------------------------
TypeOK ==
  /\ pc \in Pcs /\ initialized \in BOOLEAN /\ service \in BOOLEAN /\ sent \in 0..RequestSize
  /\ reply \in Seq(Byte) /\ Len(reply) <= ReplySize
  /\ outcome \in {"none", "success", "failed", "unexpected reply"}
  /\ socket \in {"none", "open", "closed"} /\ closes \in Nat
  /\ stream \in Seq(Byte) /\ peerClosed \in BOOLEAN /\ reset \in BOOLEAN /\ callFailed \in BOOLEAN

\* "validates the controlled harness reply ... and closes the socket"
\* (toolbox/README.md): success means that the whole request went out, the
\* reply stands at the head of what the peer sent, and the socket is closed.
SuccessEarned ==
  outcome = "success" =>
    sent = RequestSize /\ IsPrefix(ExpectedReply, stream) /\ socket = "closed"

\* In any cut of the stream into pieces, a reply is called unexpected only if
\* the peer's bytes differ.
MismatchIsReal == outcome = "unexpected reply" => ~IsPrefix(ExpectedReply, stream)

\* A failure has a cause: a call failed, the connection was lost, or the peer
\* closed before the reply was complete.  A peer that answers and closes at
\* once is no failure.
FailureHasCause ==
  outcome = "failed" => callFailed \/ reset \/ (peerClosed /\ Len(stream) < ReplySize)

\* However it ends, a descriptor that was opened was closed once, and the
\* service was left if it was entered.
ReleasedOnce ==
  pc = "done" => closes = (IF socket = "none" THEN 0 ELSE 1) /\ ~service
=============================================================================
