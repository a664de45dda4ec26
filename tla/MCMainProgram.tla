--------------------------- MODULE MCMainProgram ---------------------------
(***************************************************************************)
(* MainProgram on a small instance.                                        *)
(***************************************************************************)
EXTENDS MainProgram
=============================================================================
