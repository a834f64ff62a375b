---------------------------- MODULE MCLifecycle ----------------------------
(* Instances of StageLifecycle for TLC. *)
EXTENDS LifecycleProps
=============================================================================
