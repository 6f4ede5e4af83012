--------------------------- MODULE MCCatalogReader ---------------------------
(* CatalogReader with two requests, under every assignment of identities. *)
EXTENDS CatalogReader, TLC

MCSymmetry == Permutations(Requests) \cup Permutations(Identities) \cup Permutations(Relations)
=============================================================================
