------------------------------- MODULE MCShm -------------------------------
(* Instances of ShmPipeline for TLC. *)
EXTENDS ShmProps, TLC

Symmetry == Permutations(Threads)
=============================================================================
