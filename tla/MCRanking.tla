------------------------------ MODULE MCRanking ------------------------------
(* Small calls of Ranking: few candidates of every sort, and long lists with  *)
(* many duplicates.                                                           *)
EXTENDS Ranking

C(kind, match, position, local, restricted, length, fold, spelling) ==
  [kind |-> kind, match |-> match, at |-> 1, position |-> position, local |-> local,
   restricted |-> restricted, length |-> length, fold |-> fold, spelling |-> spelling]

(* Columns of one name in two spellings, one withheld; columns that tie with them. *)
Columns ==
  {C("COLUMN", match, 0, FALSE, restricted, 2, fold, spelling) :
     match \in {"exact", "substring"}, restricted \in BOOLEAN, fold \in {1, 2}, spelling \in {"id", "ID"}}

(* A relation by every road that leads to it, a column it is joined by, and other names. *)
Relations ==
  {C("TABLE", "word", position, FALSE, restricted, 4, 2, "name") : position \in {0, 1}, restricted \in BOOLEAN}
  \union {C("JOIN", "word", position, FALSE, restricted, 9, 3, "clause") : position \in {0, 1}, restricted \in BOOLEAN}
  \union {C("COLUMN", "word", position, FALSE, FALSE, 4, 2, "name") : position \in {0, 60}}
  \union {C("CTE", "word", 0, TRUE, FALSE, 4, 2, "name"), C("KEYWORD", "word", 0, FALSE, FALSE, 4, 4, "WORD"),
          C("SCHEMA", "folded", 0, FALSE, FALSE, 4, 5, "name"), C("TABLE", "initials", 0, FALSE, FALSE, 7, 6, "other")}

(* What clauses suggest, and a list to which kinds were added before the relations. *)
Orders ==
  {<<"TABLE", "SCHEMA", "KEYWORD">>, <<"TABLE", "FUNCTION">>, <<"COLUMN", "FUNCTION">>, <<"COLUMN", "TABLE">>,
   <<"SCHEMA", "FUNCTION", "TABLE">>}

UpTo(n, S) == UNION {[1 .. k -> S] : k \in 0 .. n}

Few(candidates, kinds, limits) ==
  [candidates : UpTo(3, candidates), kinds : kinds, limit : limits]

(* Ten columns in the order of their declaration, each named like the first or not. *)
Many ==
  {[candidates |-> [i \in 1 .. 10 |-> C("COLUMN", "exact", i, FALSE, i \in withheld, 2, IF i \in named THEN i ELSE 1, "c")],
    kinds |-> <<"COLUMN">>, limit |-> limit] :
     named \in SUBSET (4 .. 10), withheld \in {{}, {1}, {1, 4}}, limit \in {1, 2, 3, 5}}

MCRequests ==
  Few(Columns, {<<"COLUMN">>}, {-1, 0, 1, 2, NoLimit}) \union Few(Relations, Orders, {2}) \union Many
=============================================================================
