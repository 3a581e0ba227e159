------------------------- MODULE MCTerminalSession -------------------------
(***************************************************************************)
(* TerminalSession with a window smaller than the stream, so that it is      *)
(* trimmed, and a pty that fills up with a single Input.                    *)
(***************************************************************************)
EXTENDS TerminalSession, TLC

ClientSymmetry == Permutations(Pollers) \cup Permutations(Closers)
=============================================================================
