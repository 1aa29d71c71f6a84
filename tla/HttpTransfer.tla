---------------------------- MODULE HttpTransfer ----------------------------
(***************************************************************************)
(* The download and upload tests of the toolbox                            *)
(* (toolbox/src/scenarios.cpp, RunConnectionTest): an HTTP/1.0 request     *)
(* over a blocking socket, a body sent chunk by chunk or a response read   *)
(* to the end of the stream, whose header is looked for in a bounded       *)
(* buffer while it may arrive in any number of pieces.                     *)
(*                                                                         *)
(* The server is external: it answers with some header, status and body    *)
(* and may stop anywhere.  A header is its size, the blank line included.  *)
(***************************************************************************)
EXTENDS Naturals

CONSTANTS
  Upload,       \* spec.upload
  BodyBytes,    \* spec.body_bytes
  RequestSize,  \* request_size
  BufferBytes,  \* ConnectionTestBufferBytes
  HeaderLimit,  \* MaximumHttpHeaderBytes
  Word,         \* 2^w of size_t, for its wrapping subtraction
  HeaderSizes,  \* bound: sizes of the server's headers
  BodySizes     \* bound: sizes of the bodies it sends

\* What a module that instantiates this one assumes.
Parameters ==
  /\ Upload \in BOOLEAN
  /\ {BodyBytes, RequestSize, BufferBytes, HeaderLimit, Word} \subseteq Nat \ {0}
  /\ HeaderSizes \subseteq Nat \ {0} /\ BodySizes \subseteq Nat
  /\ \A n \in HeaderSizes \cup BodySizes : n < Word

Answers == [header : HeaderSizes, body : BodySizes, status : {"200", "other", "invalid"}]

VARIABLES
  pc,              \* where it is, see Pcs
  service,         \* SocketScope::m_initialized, socketInitialize is in force
  socket,          \* external: "none", "open" or "closed"
  remaining,       \* upload: body bytes not handed to SendAll yet
  sent,            \* SendAll: bytes of the piece sent
  size,            \* SendAll: size of the piece
  header,          \* header.size()
  received_header,
  body_bytes,      \* response.body_bytes
  success,
  cause,           \* why it failed: "none", "call", "long", "invalid", "early" or "verdict"
  answer,          \* external: what the server sends
  got,             \* external: bytes of the answer that recv returned
  uploaded,        \* external: bytes that send took
  before           \* history: header bytes that came in earlier pieces than its end

vars == <<pc, service, socket, remaining, sent, size, header, received_header, body_bytes,
          success, cause, answer, got, uploaded, before>>

client == <<service, socket, remaining, sent, size, uploaded>>
response == <<header, received_header, body_bytes, got, before>>

Pcs == {"init", "connect", "timeouts", "format", "send", "recv", "close", "done"}

Init ==
  /\ pc = "init" /\ service = FALSE /\ socket = "none"
  /\ remaining = 0 /\ sent = 0 /\ size = 0 /\ uploaded = 0
  /\ header = 0 /\ received_header = FALSE /\ body_bytes = 0 /\ got = 0 /\ before = 0
  /\ success = FALSE /\ cause = "none" /\ answer \in Answers

\* A return; the socket is closed on the way if there is one, then SocketScope
\* gives the service back.
Fail(why) == pc' = "close" /\ cause' = why

Initialize ==
  /\ pc = "init"
  /\ \/ service' = TRUE /\ pc' = "connect" /\ UNCHANGED cause
     \/ Fail("call") /\ UNCHANGED service
  /\ UNCHANGED <<socket, remaining, sent, size, uploaded, response, success, answer>>

\* ConnectResolvedTcp leaves no socket behind when it fails.
Connect ==
  /\ pc = "connect"
  /\ \/ socket' = "open" /\ pc' = "timeouts" /\ UNCHANGED cause
     \/ Fail("call") /\ UNCHANGED socket
  /\ UNCHANGED <<service, remaining, sent, size, uploaded, response, success, answer>>

SetTimeouts ==
  /\ pc = "timeouts"
  /\ \/ pc' = "format" /\ UNCHANGED cause
     \/ Fail("call")
  /\ UNCHANGED <<client, response, success, answer>>

\* The request is made of constants that fit its buffer.
FormatRequest ==
  /\ pc = "format" /\ pc' = "send"
  /\ size' = RequestSize /\ remaining' = IF Upload THEN BodyBytes ELSE 0
  /\ UNCHANGED <<service, socket, sent, uploaded, response, success, cause, answer>>

\* std::min
Least(a, b) == IF a < b THEN a ELSE b

\* The next piece of the upload, out of one payload buffer.
Chunk == Least(remaining, BufferBytes)

\* What is left once a chunk is handed to SendAll.
Left == remaining - Chunk

\* The offset after a send that took n bytes.
OffsetAfter(n) == sent + n

\* What the server has been given, counted to one more than the upload is long.
Taken(n) == Least(uploaded + n, RequestSize + BodyBytes + 1)

SendAll ==
  /\ pc = "send" /\ sent < size
  /\ \/ /\ \E n \in 1..size - sent : sent' = OffsetAfter(n) /\ uploaded' = Taken(n)
        /\ UNCHANGED <<pc, cause>>
     \/ Fail("call") /\ UNCHANGED <<sent, uploaded>>
  /\ UNCHANGED <<service, socket, remaining, size, response, success, answer>>

\* A piece is sent: an upload goes on with its next chunk, then comes the answer.
NextPiece ==
  /\ pc = "send" /\ sent = size
  /\ \/ /\ remaining > 0
        /\ size' = Chunk /\ remaining' = Left /\ sent' = 0 /\ UNCHANGED pc
     \/ remaining = 0 /\ pc' = "recv" /\ UNCHANGED <<sent, size, remaining>>
  /\ UNCHANGED <<service, socket, uploaded, response, success, cause, answer>>

\* The bytes of the buffer that the header buffer takes: the rest is dropped.
Copied(received) == Least(HeaderLimit - header, received)

\* header.find: the end of the header is among the bytes kept.
HeaderFound == header' >= answer.header

\* "HTTP/1.", a blank and three digits at their places.
StatusParses == answer.status # "invalid"

\* What the piece that ends the header adds to the body: header_end counts from
\* the start of the header and not from the start of the piece.
\* Faulty variant: the end of the header is one byte early.
BodyOfFirstEarly(received) == (received + Word - answer.header + 1) % Word
BodyOfFirst(received) == (received + Word - answer.header) % Word

\* recv returned some bytes while the header was not complete.
HeaderPiece(received) ==
  /\ ~received_header
  /\ header' = header + Copied(received)
  /\ \/ /\ HeaderFound /\ StatusParses
        /\ received_header' = TRUE
        /\ body_bytes' = BodyOfFirst(received)
        /\ UNCHANGED <<pc, cause, before>>
     \/ /\ HeaderFound /\ ~StatusParses /\ Fail("invalid")
        /\ UNCHANGED <<received_header, body_bytes, before>>
     \/ /\ ~HeaderFound /\ header' = HeaderLimit /\ Fail("long")
        /\ UNCHANGED <<received_header, body_bytes, before>>
     \/ /\ ~HeaderFound /\ header' # HeaderLimit /\ before' = before + received
        /\ UNCHANGED <<pc, cause, received_header, body_bytes>>

BodyPiece(received) ==
  /\ received_header
  /\ body_bytes' = (body_bytes + received) % Word
  /\ UNCHANGED <<pc, cause, header, received_header, before>>

\* One turn of ReceiveHttpResponse with data.
Receive ==
  /\ pc = "recv"
  /\ \E n \in 1..Least(BufferBytes, answer.header + answer.body - got) :
       got' = got + n /\ (HeaderPiece(n) \/ BodyPiece(n))
  /\ UNCHANGED <<client, success, answer>>

ExpectedBytes == IF Upload THEN 0 ELSE BodyBytes

\* The end of the stream, orderly wherever the server stopped.
Verdict == answer.status = "200" /\ body_bytes = ExpectedBytes

EndOfStream ==
  /\ pc = "recv"
  /\ \/ /\ received_header
        /\ pc' = "close" /\ success' = Verdict
        /\ cause' = IF success' THEN "none" ELSE "verdict"
     \/ ~received_header /\ Fail("early") /\ UNCHANGED success
  /\ UNCHANGED <<client, response, answer>>

\* recv failed, the receive timeout included.
ReceiveFails ==
  /\ pc = "recv" /\ Fail("call")
  /\ UNCHANGED <<client, response, success, answer>>

\* The destructor of SocketScope.
ServiceAfter == FALSE

Close ==
  /\ pc = "close" /\ pc' = "done"
  /\ socket' = IF socket = "open" THEN "closed" ELSE socket
  /\ service' = ServiceAfter
  /\ UNCHANGED <<remaining, sent, size, uploaded, response, success, cause, answer>>

Next ==
  \/ Initialize \/ Connect \/ SetTimeouts \/ FormatRequest \/ SendAll \/ NextPiece
  \/ Receive \/ EndOfStream \/ ReceiveFails \/ Close

Spec == Init /\ [][Next]_vars

\* The client runs on; a blocking call comes back at the latest with its timeout.
FairSpec == Spec /\ WF_vars(Next)

-----------------------------------------------------------------------------
TypeOK ==
  /\ pc \in Pcs /\ service \in BOOLEAN /\ socket \in {"none", "open", "closed"}
  /\ remaining \in 0..BodyBytes /\ size \in 0..RequestSize + BodyBytes /\ sent \in 0..size
  /\ header \in 0..HeaderLimit /\ received_header \in BOOLEAN /\ body_bytes \in 0..Word - 1
  /\ success \in BOOLEAN /\ cause \in {"none", "call", "long", "invalid", "early", "verdict"}
  /\ answer \in Answers /\ got \in 0..answer.header + answer.body
  /\ uploaded \in 0..RequestSize + BodyBytes + 1 /\ before \in 0..got

\* The bytes of the body that recv returned.
BodyReceived == got - answer.header

\* The count is short by exactly the header bytes that came in earlier pieces,
\* modulo the word: nothing else in the cut of the stream, and no byte dropped
\* from the full header buffer, disturbs it (ReceiveHttpResponse).
CountShortByEarlierPieces ==
  received_header => body_bytes = (BodyReceived + Word - before) % Word

\* A transfer that says it succeeded saw status 200 and, when the header came in
\* one piece, a body of the expected size (RunConnectionTest).  When it came in
\* several, the body is larger than expected by exactly the header bytes of the
\* earlier pieces, modulo the word: scenarios.cpp:946 leaves them out of the count
\* that 1043 compares, so a body of the wrong size passes.
SuccessEarned ==
  success => /\ answer.status = "200"
             /\ (BodyReceived + Word - before) % Word = ExpectedBytes
             /\ before = 0 => BodyReceived = ExpectedBytes

\* An upload that says it succeeded handed over the request and the whole body.
UploadComplete == success => uploaded = RequestSize + (IF Upload THEN BodyBytes ELSE 0)

\* A transfer that ran to the end of a right answer whose header came in one
\* piece succeeds: it fails only for a cause.
FailureHasCause ==
  pc = "done" /\ ~success =>
    \/ cause = "call"
    \/ cause = "early" /\ got < answer.header
    \/ cause = "long" /\ (answer.header > HeaderLimit \/ got < answer.header)
    \/ cause = "invalid" /\ answer.status = "invalid"
    \/ cause = "verdict" /\ (answer.status # "200" \/ BodyReceived # ExpectedBytes \/ before > 0)

\* The socket is closed and the socket service given back on every return.
ReleasedAtEnd == pc = "done" => socket # "open" /\ ~service

\* The count that the throughput is reported from is the body that arrived:
\* "Fetches 30MiB ... and reports end-to-end throughput" (scenarios.cpp:1467).
CountIsBody == pc = "done" /\ received_header => body_bytes = BodyReceived
=============================================================================
