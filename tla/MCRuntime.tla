------------------------------ MODULE MCRuntime ------------------------------
(* Runtime with a few windows, three faults and two further versions. *)
EXTENDS Runtime
=============================================================================
