------------------------------- MODULE Scopes -------------------------------
(* The relations visible at a caret (scope_of in engine/analyse.py): the       *)
(* relation lists of a statement, its derived tables and CTEs with the columns *)
(* they output, and the chain of query levels around the caret.                *)
(* A range is [lo, hi], both inside it; a relation is [alias, path, source,    *)
(* columns, stars], its alias "" where it has none; a level of scope carries   *)
(* the relations of its own and all that are visible, its parents' included.   *)
(* A caret that is nowhere, NoCaret, asks about a body from outside.           *)
EXTENDS Clauses

CONSTANT MaxNesting   \* how many levels of subquery are followed
ASSUME MaxNestingIsCount == MaxNesting \in Nat \ {0}

RelationClauses == {FROM, JOIN, UPDATE, DELETE_FROM, INSERT_INTO, TABLE}
RelationWords == {"FROM", "JOIN", "UPDATE", "TABLE", "LATERAL"}
JoinQualifiers == {"LEFT", "RIGHT", "FULL", "INNER", "OUTER", "CROSS", "NATURAL", "LATERAL",
                   "ANTI", "SEMI", "ASOF", "GLOBAL", "ANY", "ALL"}
FunctionSources == {FROM, JOIN, USING}
CteModifiers == {"MATERIALIZED", "NOT"}
QueryWords == {"SELECT", "WITH", "VALUES", "TABLE"}
NoCaret == [at |-> 0, on |-> FALSE]

Relation(alias, path, source, outputs) ==
  [alias |-> alias, path |-> path, source |-> source, columns |-> outputs.columns, stars |-> outputs.stars]
NoOutputs == [columns |-> <<>>, stars |-> <<>>]
Label(relation) ==
  IF relation.alias # "" THEN relation.alias ELSE IF relation.path # <<>> THEN Last(relation.path) ELSE ""

(* Whether token i starts at or before the caret: right behind an opening paren one may start there. *)
Reached(ts, c, i) == i <= c.at \/ (i = c.at + 1 /\ c.on /\ Mark(ts, c.at, "(") /\ ~ts[c.at].s)

-----------------------------------------------------------------------------
(* Relation lists. *)

CannotName(n) == n # <<>> /\ ~CanBeAName(n)
ReadAlias(ts, i, hi) ==
  LET Is(j) == j <= hi /\ IsIdent(ts, j)
      none == [alias |-> "", next |-> i]
  IN  CASE ~Is(i) -> none
        [] Is(i) /\ Word(ts, i, "AS") -> IF Is(i + 1) THEN [alias |-> ts[i + 1].v, next |-> i + 2] ELSE none
        [] OTHER -> IF ts[i].v \in ReservedUpper \/ CannotName(ClauseStartingAt(ts, i, hi)) THEN none
                    ELSE [alias |-> ts[i].v, next |-> i + 1]

(* The column list that may follow an alias: the first name of each of its items. *)
ReadDeclaredColumns(ts, i, hi) ==
  LET close == MatchingParen(ts, i, hi)
      names == {j \in i + 1 .. close - 1 : IsIdent(ts, j)}
      commas == {j \in i + 1 .. close - 1 : Mark(ts, j, ",") /\ ts[j].d = ts[i].d + 1}
      First(j) == j \in names /\ \A k \in names : k < j => \E m \in commas : k < m /\ m < j
      columns == SelectSeq([k \in 1 .. close - i |-> i + k - 1], First)
  IN  IF i <= hi /\ Mark(ts, i, "(")
      THEN [columns |-> [k \in DOMAIN columns |-> ts[columns[k]].v], next |-> close + 1]
      ELSE [columns |-> <<>>, next |-> i]

(* The last token of the dotted path that starts at i. *)
PathEnd(ts, i, hi) ==
  LET End[j \in 1 .. Len(ts)] == IF j + 2 <= hi /\ Mark(ts, j + 1, ".") /\ IsIdent(ts, j + 2) THEN End[j + 2] ELSE j
  IN  End[i]
PathFrom(ts, i, end) == [k \in 1 .. (end - i) \div 2 + 1 |-> ts[i + 2 * (k - 1)].v]

(* The relation that starts at j, or none where it is a call without a column *)
(* list or is still being typed, and where the reading goes on.                *)
Source(alias, declared) ==
  [found |-> IF alias.alias = "" \/ declared.columns = <<>> THEN <<>>
             ELSE << Relation(alias.alias, <<>>, "subquery", [columns |-> declared.columns, stars |-> <<>>]) >>,
   next |-> declared.next]
Aliased(ts, path, called, alias, hi) ==
  IF called THEN Source(alias, ReadDeclaredColumns(ts, alias.next, hi))
  ELSE [found |-> << Relation(alias.alias, path, "table", NoOutputs) >>, next |-> alias.next]
ReadRelation(ts, j, hi, c, clause) ==
  LET end == PathEnd(ts, j, hi)
      called == clause \in FunctionSources /\ end < hi /\ Mark(ts, end + 1, "(")
      last == IF end < hi /\ Mark(ts, end + 1, ".") THEN end + 1 ELSE end
      typing == j <= c.at /\ ~EndsBefore(c, last)
  IN  IF ~called /\ typing THEN [found |-> <<>>, next |-> last + 1]
      ELSE Aliased(ts, PathFrom(ts, j, end), called,
                   ReadAlias(ts, IF called THEN MatchingParen(ts, end + 1, hi) + 1 ELSE last + 1, hi), hi)

(* Whether a relation list ends at j. *)
Governs(n, clause) == n # <<>> /\ ReadsAsAClause(n, clause)
ListEndsAt(ts, j, hi, clause) ==
  \/ j > hi
  \/ Governs(ClauseStartingAt(ts, j, hi), clause)
  \/ ~Mark(ts, j, ",") /\ ~IsIdent(ts, j)
  \/ PlainWord(ts, j) \in ReservedUpper \ JoinQualifiers

(* The relations from j to the next clause, and where the reading stopped. *)
RECURSIVE ReadRelationList(_, _, _, _, _), ReadOn(_, _, _, _, _)
ReadRelationList(ts, j, hi, c, clause) ==
  IF ListEndsAt(ts, j, hi, clause) THEN [found |-> <<>>, next |-> j]
  ELSE IF Mark(ts, j, ",") \/ ts[j].v \in JoinQualifiers THEN ReadRelationList(ts, j + 1, hi, c, clause)
  ELSE ReadOn(ts, ReadRelation(ts, j, hi, c, clause), hi, c, clause)
Also(item, rest) == [found |-> item.found \o rest.found, next |-> rest.next]
ReadOn(ts, item, hi, c, clause) == Also(item, ReadRelationList(ts, item.next, hi, c, clause))

(* The groups the author has not closed that start no query: their depth is not a query's. *)
UnclosedCalls(ts, lo, hi) ==
  {i \in lo .. hi : Mark(ts, i, "(") /\ MatchingParen(ts, i, hi) = hi + 1 /\ ~OpensAQuery(ts, i, hi)}

(* USING brings a relation in only where no column list follows it. *)
IntroducesRelations(ts, name, after, hi) ==
  IF name = USING THEN ~(after <= hi /\ Mark(ts, after, "(")) ELSE name \in RelationClauses

(* Which relations the column list, the source and the rest of an INSERT can see. *)
SeenAround(ts, source, hi, c, writtenTo, relations) ==
  CASE source > hi -> writtenTo \o relations
    [] source <= hi /\ Reached(ts, c, source) -> relations
    [] OTHER -> writtenTo
AroundAnInsertTarget(ts, lo, hi, c, writtenTo, relations) ==
  LET here == {i \in lo .. hi : ts[i].d = ts[lo].d}
      target == MinOf({i \in here : ClauseStartingAt(ts, i, hi) = INSERT_INTO}, hi + 1)
      sources == {i \in here : ClauseStartingAt(ts, i, hi) = SELECT}
                 \union {i + 1 : i \in {j \in here : j > target /\ Mark(ts, j, "(") /\ OpensAQuery(ts, j, hi)}}
  IN  SeenAround(ts, MinOf(sources, hi + 1), hi, c, writtenTo, relations)

(* The tokens of a query itself: those no deeper than its first, unclosed calls apart. *)
OwnTokens(ts, lo, hi, unclosed) ==
  {i \in lo .. hi : ts[i].d - Cardinality({j \in unclosed : j < i}) <= ts[lo].d}

(* The relations each clause of a range introduces, an INSERT's target apart. *)
RECURSIVE FromClauses(_, _, _, _, _), FromClause(_, _, _, _, _, _), FromList(_, _, _, _, _, _)
FromClauses(ts, i, hi, c, own) ==
  IF i > hi THEN [target |-> <<>>, rest |-> <<>>]
  ELSE IF i \notin own THEN FromClauses(ts, i + 1, hi, c, own)
  ELSE FromClause(ts, ClauseStartingAt(ts, i, hi), i, hi, c, own)
FromClause(ts, n, i, hi, c, own) ==
  IF n = <<>> \/ ~IntroducesRelations(ts, n, i + Len(n), hi) THEN FromClauses(ts, i + 1, hi, c, own)
  ELSE FromList(ts, n, ReadRelationList(ts, i + Len(n), hi, c, n), hi, c, own)
Listing(n, found, later) ==
  IF n = INSERT_INTO THEN [later EXCEPT !.target = found \o @] ELSE [later EXCEPT !.rest = found \o @]
FromList(ts, n, list, hi, c, own) == Listing(n, list.found, FromClauses(ts, list.next, hi, c, own))

Visible(ts, lo, hi, c, found) ==
  IF found.target = <<>> THEN found.rest ELSE AroundAnInsertTarget(ts, lo, hi, c, found.target, found.rest)
RelationsIn(ts, lo, hi, c) ==
  Visible(ts, lo, hi, c, FromClauses(ts, lo, hi, c, OwnTokens(ts, lo, hi, UnclosedCalls(ts, lo, hi))))

-----------------------------------------------------------------------------
(* Bodies in parentheses, and what each outputs. *)

SubqueryBodies(ts, lo, hi) ==
  {[lo |-> i + 1, hi |-> MatchingParen(ts, i, hi) - 1] :
     i \in {j \in lo .. hi - 1 : /\ Mark(ts, j, "(")
                                 /\ ts[j].d = BaseDepth(ts, lo, hi)
                                 /\ IsIdent(ts, j + 1) /\ ts[j + 1].v \in QueryWords}}

InsideARelationList(ts, comma, lo) ==
  LET At(i) == ClauseStartingAt(ts, i, comma - 1)
  IN  At(MaxOf({i \in lo .. comma - 1 : ts[i].d = ts[comma].d /\ At(i) # <<>>}, 0)) \in RelationClauses

(* The bodies in a relation's place, in the order they are written. *)
DerivedTables(ts, lo, hi) ==
  LET Introduced(body) ==
        LET before == body.lo - 2
        IN  /\ before >= lo
            /\ \/ PlainWord(ts, before) \in RelationWords
               \/ Mark(ts, before, ",") /\ InsideARelationList(ts, before, lo)
      Earlier(a, b) == a.lo < b.lo
  IN  SetToSortSeq({body \in SubqueryBodies(ts, lo, hi) : Introduced(body)}, Earlier)

(* A mistake in IsLateral: every body in a relation's place sees those around it. *)
AlwaysLateral(ts, body) == TRUE

(* LATERAL is looked for right before the body's paren, which a space hides. *)
IsLateral(ts, body) == ~ts[body.lo - 1].s /\ Word(ts, body.lo - 2, "LATERAL")

(* A mistake in Bind: a CTE's name is taken for a table's. *)
LeftUnbound(relation, ctes) == relation

(* A relation named like a declared CTE is that CTE. *)
Bind(relation, ctes) ==
  IF Len(relation.path) = 1 /\ relation.path[1] \in DOMAIN ctes
  THEN [ctes[relation.path[1]] EXCEPT !.alias = relation.alias, !.path = relation.path, !.source = "cte"]
  ELSE relation

(* A select item without the DISTINCT, DISTINCT ON (...) or ALL in front of it. *)
WithoutQuantifier(item) ==
  LET opening == MinOf({i \in 3 .. Len(item) : Mark(item, i, "(")}, 0)
  IN  IF item = <<>> \/ PlainWord(item, 1) \notin {"DISTINCT", "ALL"} THEN item
      ELSE IF Word(item, 2, "ON") /\ opening > 0
           THEN SubSeq(item, MatchingParen(item, opening, Len(item)) + 1, Len(item))
           ELSE Tail(item)

IsAnImplicitAlias(item) ==
  LET n == Len(item)
  IN  /\ n >= 2 /\ IsIdent(item, n) /\ PlainWord(item, n) \notin ReservedUpper
      /\ \/ Mark(item, n - 1, ")")
         \/ IsIdent(item, n - 1) /\ PlainWord(item, n - 1) \notin ReservedUpper
         \/ item[n - 1].t \in {"number", "string"}

IsACall(item) ==
  Len(item) >= 2 /\ IsIdent(item, 1) /\ PlainWord(item, 1) \notin ReservedUpper /\ Mark(item, 2, "(")

(* The name a select item outputs, or the relations its star stands for; an expression has neither. *)
OutputOf(tokens, relations) ==
  LET item == WithoutQuantifier(tokens)
      n == Len(item)
      Labelled(relation) == Label(relation) = item[n - 2].v
      Named(name) == [columns |-> <<name>>, stars |-> <<>>]
      Starred(found) == [columns |-> <<>>, stars |-> found]
  IN  CASE n = 0 -> NoOutputs
        [] n > 0 /\ Op(item, n, "*") ->
             Starred(IF n >= 3 /\ Mark(item, n - 1, ".") THEN SelectSeq(relations, Labelled) ELSE relations)
        [] n >= 2 /\ Word(item, n - 1, "AS") -> Named(item[n].v)
        [] n = 1 /\ IsIdent(item, 1) -> IF PlainWord(item, 1) \in ReservedUpper THEN NoOutputs ELSE Named(item[1].v)
        [] n >= 2 /\ IsAnImplicitAlias(item) -> Named(item[n].v)
        [] n >= 2 /\ ~IsAnImplicitAlias(item) /\ IsACall(item) -> Named(item[1].v)
        [] n >= 2 /\ IsIdent(item, n) /\ Mark(item, n - 1, ".") -> Named(item[n].v)
        [] OTHER -> NoOutputs

SplitItems(ts, lo, hi) ==
  LET commas == {i \in lo .. hi : Mark(ts, i, ",") /\ ts[i].d = BaseDepth(ts, lo, hi)} \union {lo - 1, hi + 1}
      Next(i) == MinOf({j \in commas : j > i}, hi + 1)
      starts == SetToSortSeq({i \in commas : i <= hi /\ Next(i) > i + 1}, LAMBDA a, b : a < b)
  IN  [k \in DOMAIN starts |-> SubSeq(ts, starts[k] + 1, Next(starts[k]) - 1)]

Joined(outputs) ==
  LET Add(acc, o) == [columns |-> acc.columns \o o.columns, stars |-> acc.stars \o o.stars]
  IN  FoldLeft(Add, NoOutputs, outputs)

AfterClause(ts, lo, hi, name, depth) ==
  LET Behind(first) == IF first = 0 THEN 0 ELSE first + Len(name)
  IN  Behind(MinOf({i \in lo .. hi : ts[i].d = depth /\ ClauseStartingAt(ts, i, hi) = name}, 0))

NoCtes == [ctes |-> << >>, bodies |-> << >>]
RECURSIVE ReadCtes(_, _, _, _), CtesBehind(_, _, _, _), CtesFrom(_, _, _, _, _, _), CtesAfter(_, _, _, _, _, _),
          RelationsOf(_, _, _, _, _, _), DerivedFrom(_, _, _, _, _), DerivedRelation(_, _, _, _, _, _),
          SelectOutputs(_, _, _, _, _), OutputsFrom(_, _, _, _, _, _)

(* The CTEs of a leading WITH, and what each of their bodies can see: those    *)
(* before it, and itself where it is RECURSIVE.  A body is known by its range  *)
(* from the very next token on, which is no body's start where a space follows *)
(* the paren (the key is then negative).                                       *)
ReadCtes(ts, lo, hi, remaining) ==
  IF remaining <= 0 THEN NoCtes
  ELSE CtesBehind(ts, AfterClause(ts, lo, hi, WITH_, BaseDepth(ts, lo, hi)), hi, remaining)
CtesBehind(ts, start, hi, remaining) ==
  LET recursive == Word(ts, start, "RECURSIVE")
  IN  IF start = 0 THEN NoCtes
      ELSE CtesFrom(ts, IF recursive THEN start + 1 ELSE start, hi, recursive, NoCtes, remaining)

(* The paren of the body that follows AS at i, behind MATERIALIZED or NOT MATERIALIZED. *)
BodyParen(ts, i) ==
  LET Opening[j \in 1 .. Len(ts) + 2] == IF IsIdent(ts, j) /\ ts[j].v \in CteModifiers THEN Opening[j + 1] ELSE j
  IN  Opening[i + 1]
Declaring(columns, outputs) == IF columns # <<>> THEN [columns |-> columns, stars |-> <<>>] ELSE outputs
WithCte(acc, name, outputs) == (name :> Relation("", <<name>>, "cte", outputs)) @@ acc.ctes
CtesFrom(ts, i, hi, recursive, acc, remaining) ==
  LET declared == ReadDeclaredColumns(ts, i + 1, hi)
      opening == BodyParen(ts, declared.next)
      close == MatchingParen(ts, opening, hi)
      key == <<IF ts[opening].s THEN -opening ELSE opening + 1, close - 1>>
      More(ctes) == [ctes |-> ctes, bodies |-> (key :> (IF recursive THEN ctes ELSE acc.ctes)) @@ acc.bodies]
  IN  IF \/ i > hi \/ ~IsIdent(ts, i)
         \/ declared.next > hi \/ ~Word(ts, declared.next, "AS")
         \/ opening > hi \/ ~Mark(ts, opening, "(")
      THEN acc
      ELSE CtesAfter(ts, close, hi, recursive,
                     More(WithCte(acc, ts[i].v, Declaring(declared.columns,
                            SelectOutputs(ts, opening + 1, close - 1, acc.ctes, remaining)))), remaining)
CtesAfter(ts, close, hi, recursive, acc, remaining) ==
  IF close + 1 <= hi /\ Mark(ts, close + 1, ",") THEN CtesFrom(ts, close + 2, hi, recursive, acc, remaining) ELSE acc

(* The relations of one block, then its derived tables with what they output. *)
Bound(found, ctes) == [i \in DOMAIN found |-> Bind(found[i], ctes)]
RelationsOf(ts, lo, hi, c, ctes, remaining) ==
  Bound(RelationsIn(ts, lo, hi, c), ctes) \o DerivedFrom(ts, DerivedTables(ts, lo, hi), hi, ctes, remaining)
DerivedFrom(ts, bodies, hi, ctes, remaining) ==
  [i \in DOMAIN bodies |-> DerivedRelation(ts, bodies[i], ReadAlias(ts, bodies[i].hi + 2, hi), hi, ctes, remaining)]
DerivedRelation(ts, body, alias, hi, ctes, remaining) ==
  Relation(alias.alias, <<>>, "subquery",
           Declaring(ReadDeclaredColumns(ts, alias.next, hi).columns,
                     SelectOutputs(ts, body.lo, body.hi, ctes, remaining)))

(* The columns a select body outputs, and the relations whose columns its stars stand for. *)
SelectOutputs(ts, lo, hi, ctes, remaining) ==
  IF remaining <= 0 THEN NoOutputs
  ELSE OutputsFrom(ts, AfterClause(ts, lo, hi, SELECT, BaseDepth(ts, lo, hi)), lo, hi,
                   ReadCtes(ts, lo, hi, remaining - 1).ctes @@ ctes, remaining)
SelectEnd(ts, start, hi) ==
  MinOf({i \in start .. hi : ts[i].d = ts[start].d /\ ClauseStartingAt(ts, i, hi) = FROM}, hi + 1) - 1
OutputsOf(items, relations) == Joined([i \in DOMAIN items |-> OutputOf(items[i], relations)])
OutputsFrom(ts, start, lo, hi, ctes, remaining) ==
  IF start = 0 \/ start > hi THEN NoOutputs
  ELSE OutputsOf(SplitItems(ts, start, SelectEnd(ts, start, hi)), RelationsOf(ts, lo, hi, NoCaret, ctes, remaining - 1))

-----------------------------------------------------------------------------
(* Levels. *)

(* One query level.  Its relations and what it outputs follow from the tokens   *)
(* alone; visible adds those of the levels around it.                          *)
Level(relations, parent, ctes, projection) ==
  [relations |-> relations, visible |-> relations \o parent, ctes |-> ctes, projection |-> projection]
HoldingBodies(ts, lo, hi, c) == {b \in SubqueryBodies(ts, lo, hi) : Reached(ts, c, b.lo) /\ c.at <= b.hi}
IsDerived(ts, lo, hi, body) == body \in Range(DerivedTables(ts, lo, hi)) /\ ~IsLateral(ts, body)

RECURSIVE ScopeLevel(_, _, _, _, _, _, _), ScopeAround(_, _, _, _, _, _, _), ScopeInside(_, _, _, _, _, _, _, _)

(* The level that holds the caret.  A CTE's body sees the CTEs before it and   *)
(* nothing else; a derived table's neither the relations around it, unless     *)
(* LATERAL asks for them; an expression's sees all that is visible around it.  *)
ScopeLevel(ts, branch, c, ctes, parent, cteBodies, remaining) ==
  ScopeAround(ts, branch, c, Level(RelationsOf(ts, branch.lo, branch.hi, c, ctes, MaxNesting), parent, ctes,
                                   SelectOutputs(ts, branch.lo, branch.hi, ctes, MaxNesting)),
              HoldingBodies(ts, branch.lo, branch.hi, c), cteBodies, remaining)
ScopeAround(ts, branch, c, here, holding, cteBodies, remaining) ==
  LET body == CHOOSE b \in holding : TRUE
      ofCte == <<body.lo, body.hi>> \in DOMAIN cteBodies
  IN  IF remaining = 0 \/ holding = {} THEN here
      ELSE ScopeInside(ts, body, c, ReadCtes(ts, body.lo, body.hi, remaining - 1),
                       IF ofCte THEN cteBodies[<<body.lo, body.hi>>] ELSE here.ctes,
                       IF ofCte \/ IsDerived(ts, branch.lo, branch.hi, body) THEN <<>> ELSE here.visible,
                       cteBodies, remaining)
ScopeInside(ts, body, c, inner, ctes, parent, cteBodies, remaining) ==
  ScopeLevel(ts, BranchAt(ts, body.lo, body.hi, c), c, inner.ctes @@ ctes, parent, inner.bodies @@ cteBodies, remaining - 1)

ScopeOf(ts, st, c) ==
  ScopeInside(ts, st, c, ReadCtes(ts, st.lo, st.hi, MaxNesting), << >>, <<>>, << >>, MaxNesting + 1)

(* The relations a select-list star stands for. *)
StarRelations(ts, i, scope) ==
  LET Labelled(relation) == Label(relation) = ts[StarQualifier(ts, i)].v
  IN  IF StarQualifier(ts, i) = 0 THEN scope.relations ELSE SelectSeq(scope.visible, Labelled)
=============================================================================
