--------------------------- MODULE MCBinaryUpdate ---------------------------
(***************************************************************************)
(* The agent's update with two versions that serve and one that does not    *)
(* come up at all.                                                          *)
(***************************************************************************)
EXTENDS BinaryUpdate
=============================================================================
