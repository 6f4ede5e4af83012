--------------------------- MODULE MCTrinoStatement ---------------------------
(***************************************************************************)
(* TrinoStatement for TLC: three pages of rows, a deadline of two timeouts *)
(* and a bit, so that the last request is cut short; nothing is bounded    *)
(* beyond the constants.                                                   *)
(***************************************************************************)
EXTENDS TrinoStatement
=============================================================================
