---------------------------- MODULE MCMemoryCache ----------------------------
(* MemoryCache with two threads, three keys and room for two of them. *)
EXTENDS MemoryCache

(* The next-state relation treats the members of each set alike. *)
MCSymmetry ==
  Permutations(Threads) \cup Permutations(Keys) \cup Permutations(Values)
=============================================================================
