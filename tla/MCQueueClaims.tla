---------------------------- MODULE MCQueueClaims ----------------------------
(* Instances of Queue for TLC, of any capacity. *)
EXTENDS QueueClaims, TLC

CONSTANT MaxBatch    \* longest array passed to enqueue_batch

\* Every array up to the bound; the callers keep the items distinct.
Batches == UNION {[1 .. n -> Items \cup {NULL}] : n \in 0 .. MaxBatch}

\* The null array too.
BatchesOrNull == Batches \cup {NULL}

Symmetry == Permutations(Threads) \cup Permutations(Items)
=============================================================================
