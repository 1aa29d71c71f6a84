--------------------------- MODULE MCProbeLogger ---------------------------
(* Small instances of ProbeLogger for TLC. *)
EXTENDS ProbeLogger, TLC

\* Rings of two slots and batches smaller than, and equal to, a ring: a pass
\* of the flush thread leaves entries behind, and rings wrap and overflow.
MCCapacity == [q \in Queues |-> 2]
MCBatchSize == [q \in Queues |-> IF q = Text THEN 1 ELSE 2]

\* For liveness: the two entries that follow the banner overflow the line
\* ring between the last pass of the flush thread and its exit test.
LiveCapacity == [q \in Queues |-> IF q = Text THEN 1 ELSE 2]
LiveBatchSize == [q \in Queues |-> 1]

Symmetry == Permutations(Producers)
=============================================================================
