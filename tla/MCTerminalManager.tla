------------------------- MODULE MCTerminalManager -------------------------
(* Instance of TerminalManager for TLC. *)
EXTENDS TerminalManager, TLC

Same == Permutations(Callers) \cup Permutations(Owners)
=============================================================================
