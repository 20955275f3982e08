---------------------------- MODULE MCNodeRuntime ----------------------------
(* Instances of NodeRuntime for TLC. *)
EXTENDS NodeRuntime
=============================================================================
