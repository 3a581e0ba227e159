--------------------------- MODULE MCComposeUpdate ---------------------------
(***************************************************************************)
(* ComposeUpdate on two services of two images each, of which the second    *)
(* image of one does not stay up.                                           *)
(***************************************************************************)
EXTENDS ComposeUpdate

CONSTANTS web, db

MCServices == {web, db}
MCBeside == {web}
MCBroken == {<<web, 2>>}
=============================================================================
