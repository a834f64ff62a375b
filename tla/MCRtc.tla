------------------------------- MODULE MCRtc -------------------------------
(* Instances of RtcApp for TLC. *)
EXTENDS RtcProps, TLC

Symmetry == Permutations(Threads)
=============================================================================
