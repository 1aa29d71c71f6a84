--------------------------- MODULE MessageDecode ---------------------------
(***************************************************************************)
(* How net-probe reads the requests and replies it observes                *)
(* (net-probe/src/mitm_trace.cpp): the raw data of a HIPC message is taken *)
(* for a root CMIF message, a domain one or a close, by its size and its   *)
(* first words, and the trace says what was found.                         *)
(*                                                                         *)
(* The messages are written by the client's and the service's libraries    *)
(* and are external.  A message is a run of 32-bit words in a buffer that  *)
(* is used again for the next one, so the words after it are those of an   *)
(* earlier message.  Payloads are whole words; previews are left out.      *)
(***************************************************************************)
EXTENDS Integers, Sequences

CONSTANTS
  Objects,       \* domain object ids, above 0
  Commands,      \* command ids
  Results,       \* result values of replies
  Payloads,      \* payloads of a message: sequences of words
  Starts,        \* where the HIPC header ends: index of the first data word
  ObjectSlots,   \* std::size(ResponseDecodeDetails::out_object_ids)
  MaxReturned,   \* bound: objects one reply returns
  BufferWords,   \* words in a message buffer
  MaxMessages    \* bound: messages traced

\* What a module that instantiates this one assumes.  A domain header counts the
\* ids of a message in 8 bits.
Parameters ==
  /\ Objects \subseteq Nat \ {0} /\ Commands \subseteq Nat /\ Results \subseteq Nat
  /\ Payloads \subseteq Seq(Nat) /\ Starts \subseteq Nat
  /\ {ObjectSlots, MaxReturned, BufferWords, MaxMessages} \subseteq Nat
  /\ ObjectSlots < 256 /\ MaxReturned < 256

VARIABLES
  buffer,    \* the words of the message buffer
  hipc,      \* the HIPC header: where the data words start and how many there are
  sent,      \* history: what the sender meant
  info,      \* what the trace says of it
  phase,     \* "idle", "sent" or "traced"
  messages   \* messages so far

vars == <<buffer, hipc, sent, info, phase, messages>>

InHeaderMagic == 1229145683      \* "SFCI"
OutHeaderMagic == 1329809491     \* "SFCO"
Close == 2                       \* CmifCommandType_Close, CmifDomainRequestType_Close
SendMessage == 1                 \* CmifDomainRequestType_SendMessage
HeaderWords == 4                 \* words in each of the four headers

Replies == {"root_reply", "domain_reply"}
Aligned(start) == ((start + 3) \div 4) * 4
Nothing == [valid |-> FALSE, domain |-> FALSE, close |-> FALSE, value |-> 0, object |-> 0,
            objects |-> <<>>, returned |-> 0, payload |-> <<>>]

-----------------------------------------------------------------------------
(* The senders (external). *)

Meaning(kind, value, object, objects, payload) ==
  [value |-> value, object |-> object, objects |-> objects, payload |-> payload, kind |-> kind]

\* A message with these raw data words; its count includes the 16 bytes of alignment.
Write(start, raw, meaning) ==
  /\ messages < MaxMessages /\ phase # "sent"
  /\ Aligned(start) + Len(raw) <= BufferWords
  /\ buffer' = [i \in DOMAIN buffer |->
                  IF i \in Aligned(start) .. (Aligned(start) + Len(raw) - 1)
                  THEN raw[i - Aligned(start) + 1] ELSE buffer[i]]
  /\ hipc' = [start |-> start, count |-> Len(raw) + 4]
  /\ sent' = meaning
  /\ messages' = messages + 1
  /\ phase' = "sent"
  /\ UNCHANGED info

\* The header of a command (CmifInHeader) or of a reply (CmifOutHeader).
Header(magic, value) == <<magic, 0, value, 0>>
DomainIn(type, ids, size, object) == <<type + 256 * ids + 65536 * size, object, 0, 0>>

\* A command to the root object; table holds the sizes of its pointer buffers.
RootRequest(start, c, payload, table) ==
  Write(start, Header(InHeaderMagic, c) \o payload \o table,
        Meaning("root", c, 0, <<>>, payload))

\* A command to a domain object, with the ids of the objects it passes.
DomainRequest(start, c, o, payload, ids) ==
  Write(start, DomainIn(SendMessage, Len(ids), 16 + 4 * Len(payload), o)
               \o Header(InHeaderMagic, c) \o payload \o ids,
        Meaning("domain", c, o, <<>>, payload))

DomainClose(start, o) ==
  Write(start, DomainIn(Close, 0, 0, o), Meaning("domain_close", 0, o, <<>>, <<>>))

\* A session's close has a type of its own and no data words.
RootClose(start) ==
  /\ messages < MaxMessages /\ phase # "sent"
  /\ hipc' = [start |-> start, count |-> 0]
  /\ sent' = Meaning("root_close", 0, 0, <<>>, <<>>)
  /\ messages' = messages + 1
  /\ phase' = "sent"
  /\ UNCHANGED <<buffer, info>>

RootReply(start, r, payload) ==
  Write(start, Header(OutHeaderMagic, r) \o payload, Meaning("root_reply", r, 0, <<>>, payload))

\* The ids of the objects a reply returns follow its payload.
DomainReply(start, r, payload, ids) ==
  Write(start, <<Len(ids), 0, 0, 0>> \o Header(OutHeaderMagic, r) \o payload \o ids,
        Meaning("domain_reply", r, 0, ids, payload))

-----------------------------------------------------------------------------
(* The trace. *)

\* Faulty variant: without the check for 16 bytes the size of no data wraps, the
\* end wraps too, and what stands in the buffer is taken for the message.
RawWrapped ==
  IF Aligned(hipc.start) + hipc.count - 4 > BufferWords THEN <<>>
  ELSE [i \in 1 .. (IF hipc.count < 4 THEN BufferWords - Aligned(hipc.start) ELSE hipc.count - 4)
          |-> buffer[Aligned(hipc.start) + i - 1]]

\* GetRequestRawData, GetResponseRawData: the words of the message, none if it
\* has less than 16 bytes of data or leaves the buffer.
Raw ==
  IF hipc.count < 4 \/ Aligned(hipc.start) + hipc.count - 4 > BufferWords THEN <<>>
  ELSE [i \in 1 .. (hipc.count - 4) |-> buffer[Aligned(hipc.start) + i - 1]]

\* Word i from the start of the raw data.  Only what the sizes below allow is read.
Word(i) == buffer[Aligned(hipc.start) + i - 1]
IsRoot == Len(Raw) >= HeaderWords
IsDomain == Len(Raw) >= 2 * HeaderWords
Type == Word(1) % 256                  \* CmifDomainInHeader::type
DataSize == Word(1) \div 65536         \* CmifDomainInHeader::data_size

RootRequestValid == IsRoot /\ Word(1) = InHeaderMagic
RootCloseFound == IsRoot /\ Word(1) = Close /\ Len(Raw) = HeaderWords
DomainRequestValid == IsDomain /\ Type = SendMessage /\ Word(5) = InHeaderMagic
DomainCloseFound == IsDomain /\ Type = Close

\* The payload in GetRequestDecodeDetails: of a domain command what its data_size
\* says, of a root command all that follows the header.
RequestPayload ==
  IF DomainRequestValid /\ DataSize >= 16 /\ 4 * Len(Raw) >= 16 + DataSize
  THEN SubSeq(Raw, 9, 4 + (DataSize \div 4))
  ELSE IF RootRequestValid THEN SubSeq(Raw, 5, Len(Raw)) ELSE <<>>

\* ParseRequestInfo: the first of the four that holds.
RequestInfo ==
  LET found == [Nothing EXCEPT !.valid = TRUE, !.payload = RequestPayload] IN
  IF Raw = <<>> THEN Nothing
  ELSE IF RootRequestValid THEN [found EXCEPT !.value = Word(3)]
  ELSE IF RootCloseFound THEN [found EXCEPT !.close = TRUE]
  ELSE IF DomainRequestValid
       THEN [found EXCEPT !.domain = TRUE, !.object = Word(2), !.value = Word(7)]
  ELSE IF DomainCloseFound THEN [found EXCEPT !.domain = TRUE, !.close = TRUE, !.object = Word(2)]
  ELSE [Nothing EXCEPT !.payload = RequestPayload]

RootReplyValid == IsRoot /\ Word(1) = OutHeaderMagic
DomainReplyValid == IsDomain /\ Word(5) = OutHeaderMagic

\* The out_object_ids of GetResponseDecodeDetails: the last words, if they fit.
ReturnedIds ==
  IF /\ DomainReplyValid /\ Word(1) \in 1..ObjectSlots
     /\ Len(Raw) >= 2 * HeaderWords + Word(1)
  THEN SubSeq(Raw, Len(Raw) - Word(1) + 1, Len(Raw)) ELSE <<>>

\* The payload in GetResponseDecodeDetails: a second header that looks right wins.
ReplyPayload ==
  IF DomainReplyValid THEN SubSeq(Raw, 9, Len(Raw) - Len(ReturnedIds))
  ELSE IF RootReplyValid THEN SubSeq(Raw, 5, Len(Raw)) ELSE <<>>

\* ParseResponseInfo, with the decoded ids and payload.
ResponseInfo ==
  LET found == [Nothing EXCEPT !.valid = TRUE, !.payload = ReplyPayload,
                               !.objects = ReturnedIds] IN
  IF Raw = <<>> THEN Nothing
  ELSE IF RootReplyValid THEN [found EXCEPT !.value = Word(3)]
  ELSE IF DomainReplyValid
       THEN [found EXCEPT !.domain = TRUE, !.value = Word(7), !.returned = Word(1)]
  ELSE Nothing

\* GetSelectedKindText of the record.
SelectedKind ==
  IF ~info.valid THEN "invalid"
  ELSE IF info.close THEN (IF info.domain THEN "domain_close" ELSE "root_close")
  ELSE (IF info.domain THEN "domain" ELSE "root")

\* OnForwardRequestTrace reads a message and writes its record.
Record(decoded) ==
  /\ phase = "sent"
  /\ phase' = "traced"
  /\ info' = decoded
  /\ UNCHANGED <<buffer, hipc, sent, messages>>

TraceRequest == sent.kind \notin Replies /\ Record(RequestInfo)
TraceReply == sent.kind \in Replies /\ Record(ResponseInfo)

Ids == UNION {[1..n -> Objects] : n \in 0..MaxReturned}

Init ==
  /\ buffer = [i \in 0 .. (BufferWords - 1) |-> 0]
  /\ hipc = [start |-> 0, count |-> 0]
  /\ sent = Meaning("none", 0, 0, <<>>, <<>>)
  /\ info = Nothing /\ phase = "idle" /\ messages = 0

Send(start, payload) ==
  \/ RootClose(start)
  \/ \E o \in Objects : DomainClose(start, o)
  \/ \E c \in Commands, table \in {<<>>, <<7>>} : RootRequest(start, c, payload, table)
  \/ \E c \in Commands, o \in Objects, ids \in Ids : DomainRequest(start, c, o, payload, ids)
  \/ \E r \in Results : RootReply(start, r, payload)
  \/ \E r \in Results, ids \in Ids : DomainReply(start, r, payload, ids)

Next == (\E start \in Starts, payload \in Payloads : Send(start, payload)) \/ TraceRequest \/ TraceReply

Spec == Init /\ [][Next]_vars

-----------------------------------------------------------------------------

(* The values of the variables; no more ids are kept than out_object_ids has   *)
(* places for.                                                                *)
TypeOK ==
  /\ buffer \in [0 .. (BufferWords - 1) -> Nat]
  /\ hipc.start \in Starts \cup {0} /\ hipc.count \in 0 .. (BufferWords + 4)
  /\ info.object \in Objects \cup {0} /\ info.returned \in 0..MaxReturned
  /\ Len(info.objects) <= ObjectSlots /\ Len(info.payload) <= BufferWords
  /\ phase \in {"idle", "sent", "traced"}
  /\ messages \in 0..MaxMessages

Read(kind) == phase = "traced" /\ sent.kind = kind
HasPrefix(s, t) == Len(t) <= Len(s) /\ SubSeq(s, 1, Len(t)) = t

(* A command is traced as what was sent: its kind, its command id and its   *)
(* object, with the payload of a domain command exactly and that of a root  *)
(* command at the front, whatever stood in the buffer before               *)
(* (GetRequestDecodeDetails, ParseRequestInfo).                            *)
RequestReadBack ==
  /\ Read("root") =>
       /\ SelectedKind = "root" /\ info.value = sent.value
       /\ HasPrefix(info.payload, sent.payload)
  /\ Read("domain") =>
       /\ SelectedKind = "domain" /\ info.value = sent.value
       /\ info.object = sent.object /\ info.payload = sent.payload

(* A close is not read back: it is traced as no command, neither of id 0 nor  *)
(* one left in the buffer, but not as what it was either.  The close of a      *)
(* session leaves an invalid record.  The close of a domain object is as long  *)
(* as a root header and its first word is Close, so RootCloseFound comes       *)
(* before DomainCloseFound and the object's id is lost: a root_close of no     *)
(* object, where docs/contracts/trace-format.md:295-303 has a domain_close.    *)
CloseTracedAs ==
  /\ Read("root_close") => SelectedKind = "invalid" /\ info = Nothing
  /\ Read("domain_close") => SelectedKind = "root_close" /\ info.object = 0 /\ info.payload = <<>>

(* A reply is traced with its result, and a domain reply with the ids of the *)
(* objects it returned, of which RememberReturnedDomainObjects takes the      *)
(* paths: all of them, or none when they do not fit in out_object_ids.        *)
ReplyReadBack ==
  /\ Read("root_reply") =>
       info.valid /\ ~info.domain /\ info.value = sent.value /\ info.objects = <<>>
  /\ Read("domain_reply") =>
       /\ info.valid /\ info.domain /\ info.value = sent.value
       /\ info.returned = Len(sent.objects)
       /\ info.objects = (IF Len(sent.objects) <= ObjectSlots THEN sent.objects ELSE <<>>)

(* The payload of a reply is the one the service sent; it has the ids behind  *)
(* it when they were not decoded, and is cut when it starts like a header.    *)
ReplyPayloadReadBack ==
  /\ Read("domain_reply") =>
       info.payload = sent.payload \o
         (IF Len(sent.objects) <= ObjectSlots THEN <<>> ELSE sent.objects)
  /\ Read("root_reply") /\ ~HasPrefix(sent.payload, <<OutHeaderMagic>>) => info.payload = sent.payload
=============================================================================
