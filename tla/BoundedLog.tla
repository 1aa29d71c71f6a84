----------------------------- MODULE BoundedLog -----------------------------
(***************************************************************************)
(* What net-probe's logger promises its callers, without threads, ring     *)
(* indices, events or files: a family of bounded queues that never block a *)
(* caller, that lose the oldest entry when they overflow, and that count   *)
(* every loss until it is reported.  Entry n of a queue is the n-th entry  *)
(* that queue accepted.  ProbeLogger implements this module.               *)
(***************************************************************************)
EXTENDS Integers, Sequences

CONSTANTS
  Queues,     \* the text queue and the binary queues
  Capacity,   \* how many entries a queue holds
  Rejectable  \* the queue that accounts for entries no queue can hold

VARIABLES
  contents,    \* contents[q]: the queued entries of q, oldest first
  accepted,    \* accepted[q]: how many entries q ever accepted
  unreported   \* unreported[q]: losses of q not yet reported

vars == <<contents, accepted, unreported>>

Init ==
  /\ contents = [q \in Queues |-> <<>>]
  /\ accepted = [q \in Queues |-> 0]
  /\ unreported = [q \in Queues |-> 0]

\* A queue with room keeps everything; a full one loses its oldest entry.
Accept(q) ==
  /\ accepted' = [accepted EXCEPT ![q] = @ + 1]
  /\ \/ /\ Len(contents[q]) < Capacity[q]
        /\ contents' = [contents EXCEPT ![q] = Append(@, accepted[q] + 1)]
        /\ UNCHANGED unreported
     \/ /\ Len(contents[q]) = Capacity[q]
        /\ contents' = [contents EXCEPT ![q] = Append(Tail(@), accepted[q] + 1)]
        /\ unreported' = [unreported EXCEPT ![q] = @ + 1]

\* An entry no queue can hold is lost at once, and counted.
Reject ==
  /\ unreported' = [unreported EXCEPT ![Rejectable] = @ + 1]
  /\ UNCHANGED <<contents, accepted>>

\* The consumer removes some prefix of every queue.
Take ==
  /\ DOMAIN contents' = Queues
  /\ \A q \in Queues : \E n \in 0..Len(contents[q]) :
        contents'[q] = SubSeq(contents[q], n + 1, Len(contents[q]))
  /\ UNCHANGED <<accepted, unreported>>

\* Some of the losses counted so far are reported; none is invented.
Report ==
  /\ DOMAIN unreported' = Queues
  /\ \A q \in Queues : unreported'[q] \in 0..unreported[q]
  /\ UNCHANGED <<contents, accepted>>

Next == (\E q \in Queues : Accept(q)) \/ Reject \/ Take \/ Report

Spec == Init /\ [][Next]_vars
=============================================================================
