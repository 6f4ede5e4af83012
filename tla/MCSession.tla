------------------------------ MODULE MCSession ------------------------------
(* Session with three carets in the pool at once. *)
EXTENDS Session
=============================================================================
