------------------------------ MODULE MCQueue ------------------------------
(* Instances of Queue for TLC, of the capacities the code is meant for. *)
EXTENDS QueueProps, MCQueueClaims
=============================================================================
