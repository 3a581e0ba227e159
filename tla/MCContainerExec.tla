---------------------------- MODULE MCContainerExec ----------------------------
(* Instances of ContainerExec for TLC. *)
EXTENDS ContainerExec
=============================================================================
