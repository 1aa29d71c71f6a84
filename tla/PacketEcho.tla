----------------------------- MODULE PacketEcho -----------------------------
(***************************************************************************)
(* The inner-packet scenario (toolbox/src/wgnx_packet_scenario.cpp): a UDP *)
(* datagram with headers and checksums of its own making is submitted to   *)
(* wgnx:ctl, whose receive queue is polled until a valid echo of it comes  *)
(* or the deadline.                                                        *)
(*                                                                         *)
(* A word has two digits of base Digit instead of two bytes; a packet is   *)
(* the words that differ between packets.  wgnx:ctl and the network are    *)
(* external: packets wait in the service's queue from run to run, and may  *)
(* be lost, repeated, late, altered or somebody else's.                    *)
(***************************************************************************)
EXTENDS Integers, Sequences

CONSTANTS
  Digit,      \* base of a digit, 256
  Token,      \* bound: the random words a run may draw
  Malformed,  \* WgnxSubmitMalformedIpv4Checksum
  Timeout,    \* ticks to the deadline
  MaxQueue    \* bound: packets that wait

Base == Digit * Digit
Word == 0..Base - 1

\* What a module that instantiates this one assumes.
Parameters ==
  /\ Digit \in Nat /\ Digit > 1 /\ Digit % 2 = 0
  /\ Token \subseteq Word /\ Malformed \in BOOLEAN /\ {Timeout, MaxQueue} \subseteq Nat

VARIABLES
  pc,        \* "idle", "submit", "poll", "ok", "failed"
  token,     \* random part of the payload
  outgoing,  \* the packet that was submitted
  left,      \* ticks left to the deadline
  queue,     \* external: packets that wctl has received
  sent       \* external: packets that went out, of this run and earlier ones

vars == <<pc, token, outgoing, left, queue, sent>>

Here == 1       \* WgnxTunnelSourceIpv4 and its port
There == 2      \* WgnxUdpEchoDestinationIpv4 and its port

-----------------------------------------------------------------------------
(* AddChecksumBytes, FinishChecksum. *)

Fold[sum \in Nat] == IF sum < Base THEN sum ELSE Fold[(sum % Base) + (sum \div Base)]
Checksum(sum) == Base - 1 - Fold[sum]

\* The sum of the words of each header; the UDP checksum is over a pseudo header too.
Ipv4(p) == p.id + p.src + p.dst
Udp(p) == p.src + p.dst + p.sport + p.dport + p.payload

NonZero(sum) == IF sum = 0 THEN Base - 1 ELSE sum

\* BuildUdpPacket.
BuildUdpPacket(from, to, payload, id) ==
  LET p == [id |-> id, src |-> from, dst |-> to, sport |-> from, dport |-> to, payload |-> payload]
  IN [header_sum |-> Checksum(Ipv4(p)), udp_sum |-> NonZero(Checksum(Udp(p))),
      id |-> id, src |-> from, dst |-> to, sport |-> from, dport |-> to, payload |-> payload]

SumsValid(p) ==
  /\ Checksum(Ipv4(p) + p.header_sum) = 0
  /\ p.udp_sum # 0 /\ Checksum(Udp(p) + p.udp_sum) = 0

ValidateUdpReply(p, payload) ==
  /\ SumsValid(p)
  /\ p.src = There /\ p.dst = Here /\ p.sport = There /\ p.dport = Here
  /\ p.payload = payload

\* The high digit of the header checksum is inverted.
Inverted(p) == [p EXCEPT !.header_sum = (Digit - 1 - (@ \div Digit)) * Digit + (@ % Digit)]

-----------------------------------------------------------------------------
Init ==
  /\ pc = "idle" /\ token = 0 /\ left = 0 /\ queue = <<>> /\ sent = {}
  /\ outgoing = BuildUdpPacket(Here, There, 0, 0)

\* Up to the submission: any of the calls before it may fail.  A token that was
\* drawn for a packet is not drawn again (sixteen random bytes).
Start ==
  /\ pc \in {"idle", "ok", "failed"}
  /\ \/ \E t \in Token \ {p.payload : p \in sent}, id \in Token :
          /\ pc' = "submit" /\ token' = t
          /\ outgoing' = LET p == BuildUdpPacket(Here, There, t, id) IN IF Malformed THEN Inverted(p) ELSE p
     \/ pc' = "failed" /\ UNCHANGED <<token, outgoing>>
  /\ UNCHANGED <<left, queue, sent>>

\* With the malformed header the run ends here, on the status MalformedPacket.
Submit ==
  /\ pc = "submit"
  /\ \/ pc' = "failed" /\ UNCHANGED <<left, sent>>
     \/ Malformed /\ pc' = "ok" /\ UNCHANGED <<left, sent>>
     \/ ~Malformed /\ pc' = "poll" /\ left' = Timeout /\ sent' = sent \cup {outgoing}
  /\ UNCHANGED <<token, outgoing, queue>>

InTime == left > 0

\* ReceiveInnerIpv4Packet: the first packet of the queue; a packet that is not
\* the echo is ignored at once, an empty queue is slept on.
Poll ==
  /\ pc = "poll" /\ InTime
  /\ \/ pc' = "failed" /\ UNCHANGED <<left, queue>>
     \/ queue = <<>> /\ left' = left - 1 /\ UNCHANGED <<pc, queue>>
     \/ /\ queue # <<>> /\ queue' = Tail(queue)
        /\ pc' = IF ValidateUdpReply(Head(queue), token) THEN "ok" ELSE "poll"
        /\ UNCHANGED left
  /\ UNCHANGED <<token, outgoing, sent>>

\* Faulty variant: a packet that was ignored puts the deadline off.
ExpiredIfEmpty == left = 0 /\ queue = <<>>
Expired == left = 0

TimedOut == pc = "poll" /\ Expired /\ pc' = "failed" /\ UNCHANGED <<token, outgoing, left, queue, sent>>

Tick == pc = "poll" /\ left > 0 /\ left' = left - 1 /\ UNCHANGED <<pc, token, outgoing, queue, sent>>

\* External: the echo of anything that was ever sent, whole or with one word
\* altered, or a datagram for another port.
Echo(p) == BuildUdpPacket(There, Here, p.payload, p.id)
Deliver ==
  /\ Len(queue) < MaxQueue
  /\ \E p \in sent :
       \E q \in {Echo(p), [Echo(p) EXCEPT !.dport = 3]} \cup
                {[Echo(p) EXCEPT !.payload = w] : w \in Word} \cup {[Echo(p) EXCEPT !.udp_sum = w] : w \in Word} :
         queue' = Append(queue, q)
  /\ UNCHANGED <<pc, token, outgoing, left, sent>>

Run == Start \/ Submit \/ Poll \/ TimedOut
Next == Run \/ Tick \/ Deliver

Spec == Init /\ [][Next]_vars
\* The scenario's thread is scheduled and time passes.
FairSpec == Spec /\ WF_vars(Submit) /\ WF_vars(Poll) /\ WF_vars(TimedOut) /\ WF_vars(Tick)

-----------------------------------------------------------------------------
Packet == [header_sum : Word, udp_sum : Word, id : Token \cup {0}, src : 1..2, dst : 1..2,
           sport : 1..2, dport : 1..3, payload : Word]

TypeOK ==
  /\ pc \in {"idle", "submit", "poll", "ok", "failed"}
  /\ token \in Token \cup {0} /\ left \in 0..Timeout
  /\ outgoing \in Packet /\ queue \in Seq(Packet) /\ sent \subseteq Packet

\* In every step: a run succeeds only by an echo of its own datagram, whatever
\* earlier runs left in the queue and whatever happened to a packet on its way.
AnsweredByEcho ==
  pc = "poll" /\ pc' = "ok" =>
    Head(queue).payload = outgoing.payload /\ Head(queue).src = There /\ Head(queue).dport = Here

\* In every step: a whole echo that is polled in time is accepted, also when its
\* checksum came to zero and is sent as all ones.
EchoAccepted ==
  pc = "poll" /\ queue # <<>> /\ queue' = Tail(queue) /\ Head(queue) = Echo(outgoing) => pc' = "ok"

\* The packet of the malformed variant has a wrong header checksum, every other a
\* right one: the status that is asked for means what it says.
SubmittedAsMeant ==
  pc = "submit" => (Checksum(Ipv4(outgoing) + outgoing.header_sum) = 0) = ~Malformed
=============================================================================
