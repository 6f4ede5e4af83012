------------------------------ MODULE MCAuthor ------------------------------
(* Small instances of Answers: what of SQL is written in which statement. *)
EXTENDS Answers

MCRelationNames == <<"t1", "t2", "t3", "t4">>
MCAliasNames == <<"x1", "x2", "x3", "x4", "x5", "x6">>
MCCteNames == <<"w1", "w2">>

Everything == {"expressions", "aliases", "joins", "bodies", "filters", "tails"}
Up(length, blocks, relations, items, phrases) ==
  [tokens |-> length, levels |-> blocks, relations |-> relations, items |-> items, phrases |-> phrases]

(* Queries with every phrase; statements with long heads and plain queries in them. *)
MCPlan ==
  "SELECT" :> Up(11, 3, 3, 3, Everything)
  @@ "WITH" :> Up(22, 3, 3, 3, {})
  @@ "EXPLAIN" :> Up(8, 2, 1, 1, Everything)
  @@ "UPDATE" :> Up(14, 2, 2, 3, {"filters"})
  @@ "DELETE" :> Up(12, 2, 2, 2, {"filters"})
  @@ "INSERT" :> Up(15, 2, 3, 2, {"joins", "bodies", "filters"})
  @@ "TABLE" :> Up(4, 1, 1, 1, {})
  @@ "CREATE" :> Up(12, 1, 1, 1, {})

(* Queries with few phrases, for a habit that needs only those, and for bodies side by side. *)
HabitPlan == "SELECT" :> Up(12, 2, 2, 2, {"bodies", "joins"}) @@ "WITH" :> Up(14, 2, 2, 2, {"bodies"})
BodiesPlan == "SELECT" :> Up(12, 3, 1, 4, {"expressions"})
=============================================================================
