----------------------------- MODULE MCConnections -----------------------------
(* Connections with one command at a time, as a modal dialog leaves it. *)
EXTENDS Connections
=============================================================================
