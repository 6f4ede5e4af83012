------------------------------- MODULE Author -------------------------------
(* An author writes SQL from left to right, then goes back with the caret over *)
(* the finished statement.  Beside the tokens the author keeps what the engine *)
(* has to work out from them: for each gap the query level, the clause and the *)
(* slot of the grammar it is in; for each level its relations, its outputs and *)
(* which of the levels around it it sees.  Here the clause the engine finds is *)
(* held against that, in Answers the rest of what it answers.                  *)
(*                                                                             *)
(* The grammar is the author's, SQL as it is taught: only the answer is the    *)
(* program's.  Names are canonical, the n-th relation is RelationNames[n] and  *)
(* every column is "c".                                                        *)
EXTENDS Clauses

CONSTANTS
  RelationNames,   \* the names of tables, of relations' aliases and of CTEs, in the order of their use
  AliasNames,
  CteNames,
  Plan,     \* for each statement form the author writes, its bounds: [tokens, levels, relations, items, phrases]
  Habits    \* what else the author does: "spaces" follow the paren of a body, a "comma" a derived table

VARIABLES
  tokens,   \* what is written
  gaps,     \* the truth: gaps[1] is before the first token, gaps[i + 1] behind token i
  levels,   \* the query levels
  stack,    \* the open groups, the innermost last
  caret

vars == <<tokens, gaps, levels, stack, caret>>

(* A name is no keyword: the lexer writes those in upper case, and names in lower. *)
Names == Range(RelationNames) \union Range(AliasNames) \union Range(CteNames)
ASSUME NamesAssumption == Names \intersect Keywords = {}

Filters == {WHERE, ON, HAVING}

Top == Last(stack)
Depth == Len(stack) - 1
Here == levels[Top.level]
AtEnd == [at |-> Len(tokens), on |-> tokens # <<>> /\ ~Last(tokens).s]
W(v) == [t |-> "word", v |-> v]
M(v) == [t |-> "punct", v |-> v]
O(v) == [t |-> "op", v |-> v]
Words(phrase) == [i \in DOMAIN phrase |-> W(phrase[i])]
Column == <<W("c")>>
Placed(piece, depth, spaced) ==
  [i \in DOMAIN piece |-> [t |-> piece[i].t, v |-> piece[i].v, d |-> depth, s |-> spaced]]

InACall == Depth > 0 /\ stack[Len(stack) - 1].level = Top.level
Bounds == Plan[IF tokens = <<>> THEN CHOOSE form \in DOMAIN Plan : TRUE ELSE tokens[1].v]
May(phrase) == phrase \in Bounds.phrases
In(clauses, slots) == Top.clause \in clauses /\ Top.slot \in slots
CountAll(F(_)) == FoldLeft(LAMBDA n, level : n + F(level), 0, levels)

(* The labels of a block and of the blocks it sees. *)
Seen(l) == UNION {{r.label : r \in Range(levels[b].relations)} : b \in {l} \union levels[l].sees}

RelationsWritten == CountAll(LAMBDA level : Len(level.relations))
ItemsWritten == CountAll(LAMBDA level : level.items)
CtesWritten == Cardinality(UNION {level.ctes : level \in Range(levels)})
RoomForARelation == RelationsWritten < Bounds.relations /\ RelationsWritten + 1 \in DOMAIN RelationNames

-----------------------------------------------------------------------------
(* Writing. *)

(* The gaps inside a piece are half written and belong to the clause before it. *)
Inside == [Top EXCEPT !.slot = "half"]

Put(piece, spaced, clause, slot) ==
  LET frame == [Top EXCEPT !.clause = clause, !.slot = slot]
  IN  /\ caret = AtEnd
      /\ Len(tokens) + Len(piece) <= Bounds.tokens
      /\ tokens' = tokens \o Placed(piece, Depth, spaced)
      /\ gaps' = gaps \o [i \in 1 .. Len(piece) - 1 |-> Inside] \o <<frame>>
      /\ stack' = Front(stack) \o <<frame>>
      /\ caret' = [at |-> Len(tokens'), on |-> ~spaced]
Write(piece, clause, slot) == Put(piece, TRUE, clause, slot)
Phrase(piece, clause, slot) == Write(piece, clause, slot) /\ UNCHANGED levels

(* An opening paren and what is before it; the frame below goes on as below when it closes. *)
Open(piece, below, frame, spaced) ==
  /\ caret = AtEnd
  /\ Len(tokens) + Len(piece) + 2 <= Bounds.tokens
  /\ tokens' = tokens \o Placed(piece, Depth, TRUE) \o Placed(<<M("(")>>, Depth, spaced)
  /\ gaps' = gaps \o [i \in DOMAIN piece |-> Inside] \o <<frame>>
  /\ stack' = Front(stack) \o <<below, frame>>
  /\ caret' = [at |-> Len(tokens'), on |-> ~spaced]

NewLevel(depth, sees, ctes, branch) ==
  [depth |-> depth, sees |-> sees, relations |-> <<>>, outputs |-> <<>>, ctes |-> ctes,
   clauses |-> {}, items |-> 0, branch |-> branch]

(* A body: a level of its own that sees this one, and what this one sees, where it is lateral or in an expression. *)
OpenBody(piece, slot, sees, others) ==
  LET body == Len(levels) + 1
      seen == IF sees THEN {Top.level} \union Here.sees ELSE {}
  IN  /\ Len(levels) < Bounds.levels
      /\ levels' = Append(others, NewLevel(Depth + 1, seen, Here.ctes, FALSE))
      /\ Open(piece, [Top EXCEPT !.slot = slot, !.body = body],
              [level |-> body, clause |-> Top.clause, slot |-> "begin", body |-> 0], "spaces" \in Habits)

RelationDone == {"named", "aliased", "labelled"}
ItemDone == RelationDone \union {"done", "star", "directed", "counted"}
Complete == Depth = 0 /\ Top.slot \in ItemDone /\ ~In({WITH_, UPDATE, INSERT_INTO, JOIN, CREATE_TABLE}, ItemDone)

Close ==
  /\ Depth > 0 /\ Top.slot \in ItemDone \union {"listed", "constrained"} /\ Top.clause # JOIN
  /\ LET below == stack[Len(stack) - 1]
     IN  /\ caret = AtEnd
         /\ Len(tokens) < Bounds.tokens
         /\ tokens' = tokens \o Placed(<<M(")")>>, Depth - 1, TRUE)
         /\ gaps' = Append(gaps, below)
         /\ stack' = Front(stack)
         /\ caret' = [at |-> Len(tokens'), on |-> FALSE]
  /\ UNCHANGED levels

(* One step to the left: onto the word before the caret, and off it again. *)
Left ==
  /\ Complete /\ caret.at > 0
  /\ caret' = IF ~caret.on THEN [caret EXCEPT !.on = TRUE]
              ELSE [at |-> caret.at - 1, on |-> caret.at > 1 /\ ~tokens[caret.at - 1].s]
  /\ UNCHANGED <<tokens, gaps, levels, stack>>

-----------------------------------------------------------------------------
(* Clauses. *)

WithClause(clause) == [levels EXCEPT ![Top.level].clauses = @ \union {clause}]
Begin(clause) == ~InACall /\ Write(Words(clause), clause, "open") /\ levels' = WithClause(clause)
MayStart(form) == Top.slot \in {"begin", "explained"} /\ (tokens = <<>> => form \in DOMAIN Plan)

(* A block behind this one: the next branch of a set operation, the source of an INSERT. *)
NextBlock(clause, slot, level) ==
  LET frame == [Top EXCEPT !.level = Len(levels) + 1, !.clause = clause, !.slot = slot]
  IN  /\ caret = AtEnd /\ ~InACall
      /\ Len(levels) < Bounds.levels /\ Len(tokens) < Bounds.tokens
      /\ tokens' = tokens \o Placed(Words(clause), Depth, TRUE)
      /\ gaps' = Append(gaps, frame)
      /\ stack' = Append(Front(stack), frame)
      /\ caret' = [at |-> Len(tokens'), on |-> FALSE]
      /\ levels' = Append(levels, level)

BeginSelect == (MayStart("SELECT") \/ In({WITH_}, {"body"}) \/ In({UNION_}, {"branch", "all"})) /\ Begin(SELECT)
BeginSource ==
  /\ In({INSERT_INTO}, {"named", "columns"})
  /\ NextBlock(SELECT, "open", [NewLevel(Depth, {}, {}, FALSE) EXCEPT !.clauses = {SELECT}])
BeginWith == MayStart("WITH") /\ Depth = 0 /\ Len(levels) < Bounds.levels /\ Begin(WITH_)
BeginExplain == tokens = <<>> /\ "EXPLAIN" \in DOMAIN Plan /\ Phrase(<<W("EXPLAIN")>>, EXPLAIN, "explained")
BeginStatement ==
  \E clause \in {UPDATE, DELETE_FROM, INSERT_INTO, TABLE, CREATE_TABLE} :
    /\ Depth = 0 /\ MayStart(clause[1]) /\ Begin(clause)
    /\ Top.slot = "explained" => clause \in Range(Explainable)

BeginFrom == In({SELECT}, {"done", "star", "aliased"}) /\ Begin(FROM)
BeginJoin ==
  /\ May("joins") /\ RoomForARelation
  /\ In({FROM, JOIN}, RelationDone) \/ In({ON, USING}, {"done"})
  /\ Begin(JOIN)
BeginOn == In({JOIN}, RelationDone) /\ Begin(ON)
BeginUsing == In({JOIN}, RelationDone) /\ Begin(USING)
BeginSet == In({UPDATE}, {"named"}) /\ Begin(SET)
BeginWhere == May("filters") /\ (In({FROM, DELETE_FROM}, RelationDone) \/ In({ON, USING, SET}, {"done"})) /\ Begin(WHERE)

Queried == May("tails") /\ Here.outputs # <<>> /\ (In({FROM}, RelationDone) \/ In({ON, USING, WHERE}, {"done"}))
BeginGroupBy == Queried /\ Begin(GROUP_BY)
BeginHaving == In({GROUP_BY}, {"done"}) /\ Begin(HAVING)
(* A star in a body's first branch would stand for the relations of all of them (select_outputs). *)
BeginUnion ==
  /\ Queried \/ In({GROUP_BY, HAVING}, {"done"})
  /\ Depth > 0 => "*" \notin Range(Here.outputs)
  /\ NextBlock(UNION_, "branch", NewLevel(Depth, Here.sees, Here.ctes, TRUE))
UnionAll == In({UNION_}, {"branch"}) /\ Phrase(<<W("ALL")>>, UNION_, "all")
(* The order of a whole set operation is written at the top only. *)
BeginOrderBy ==
  /\ Queried \/ In({GROUP_BY, HAVING}, {"done"})
  /\ Here.branch => Depth = 0
  /\ Begin(ORDER_BY)
Direction == In({ORDER_BY}, {"done"}) /\ Phrase(<<W("DESC")>>, ORDER_BY, "directed")
Limit ==
  /\ Queried \/ In({ORDER_BY}, {"done", "directed"})
  /\ Here.branch => Depth = 0
  /\ Begin(LIMIT)
Count == In({LIMIT}, {"open"}) /\ Phrase(<<[t |-> "number", v |-> "1"]>>, LIMIT, "counted")

-----------------------------------------------------------------------------
(* Common table expressions: a body sees those before it. *)

NameCte ==
  In({WITH_}, {"open"}) /\ CtesWritten + 1 \in DOMAIN CteNames
  /\ Phrase(<<W(CteNames[CtesWritten + 1])>>, WITH_, "cte")
CteBody ==
  LET cte == [name |-> CteNames[CtesWritten + 1], of |-> Len(levels) + 1]
  IN  In({WITH_}, {"cte"}) /\ CtesWritten + 1 \in DOMAIN CteNames
      /\ OpenBody(<<W("AS")>>, "body", FALSE, [levels EXCEPT ![Top.level].ctes = @ \union {cte}])
NextCte == In({WITH_}, {"body"}) /\ Len(levels) < Bounds.levels /\ Phrase(<<M(",")>>, WITH_, "open")

(* Select lists. *)
Outputs(names) == [levels EXCEPT ![Top.level].outputs = @ \o names, ![Top.level].items = @ + 1]
Call(name, inside) == Open(<<W(name)>>, [Top EXCEPT !.slot = "done"], [Top EXCEPT !.slot = inside], FALSE)
SelectItem ==
  /\ In({SELECT}, {"open"}) /\ ~InACall /\ ItemsWritten < Bounds.items
  /\ \/ Write(Column, SELECT, "done") /\ levels' = Outputs(<<"c">>)
     \/ Write(<<O("*")>>, SELECT, "star") /\ levels' = Outputs(<<"*">>)
Expression ==
  /\ May("expressions") /\ In({SELECT}, {"open"}) /\ ~InACall /\ ItemsWritten < Bounds.items
  /\ \/ Call("f", "open") /\ levels' = Outputs(<<"f">>)
     \/ Call("CAST", "casting") /\ levels' = Outputs(<<"">>)
     \/ Write(<<W("CASE")>>, SELECT, "case") /\ levels' = Outputs(<<"">>)
     \/ OpenBody(<<>>, "done", TRUE, Outputs(<<"">>))
Argument == In({SELECT}, {"open"}) /\ InACall /\ Phrase(Column, SELECT, "done")
CastOperand == In({SELECT}, {"casting"}) /\ Phrase(Column, SELECT, "cast")
CastAs == In({SELECT}, {"cast"}) /\ Phrase(<<W("AS")>>, SELECT, "typing")
CastType == In({SELECT}, {"typing"}) /\ Phrase(<<W("int")>>, SELECT, "done")
Distinct == May("expressions") /\ In({SELECT}, {"open"}) /\ ~InACall /\ Here.outputs = <<>> /\ PlainWord(tokens, Len(tokens)) = "SELECT"
            /\ Phrase(<<W("DISTINCT")>>, SELECT, "open")
SelectAlias ==
  /\ May("aliases")
  /\ In({SELECT}, {"done"}) /\ ~InACall
  /\ Write(<<W("AS"), W("y")>>, SELECT, "aliased")
  /\ levels' = [levels EXCEPT ![Top.level].outputs = Append(Front(@), "y")]
NextItem ==
  /\ (In({SELECT}, {"done", "star", "aliased"}) /\ ~InACall) \/ In({GROUP_BY, ORDER_BY}, {"done"})
  /\ ItemsWritten < Bounds.items
  /\ Phrase(<<M(",")>>, Top.clause, "open")
OrderItem ==
  /\ In({GROUP_BY, ORDER_BY}, {"open"}) /\ Write(Column, Top.clause, "done")
  /\ levels' = [levels EXCEPT ![Top.level].items = @ + 1]

(* CASE WHEN c = 1 THEN c END, a step at a time. *)
Case ==
  \/ In({SELECT}, {"case"}) /\ Phrase(<<W("WHEN")>>, SELECT, "when")
  \/ In({SELECT}, {"when"}) /\ Phrase(<<W("c"), O("="), [t |-> "number", v |-> "1"]>>, SELECT, "held")
  \/ In({SELECT}, {"held"}) /\ Phrase(<<W("THEN")>>, SELECT, "then")
  \/ In({SELECT}, {"then"}) /\ Phrase(Column, SELECT, "chosen")
  \/ In({SELECT}, {"chosen"}) /\ Phrase(<<W("END")>>, SELECT, "done")

(* Relations: a table, a CTE in view, a derived table. *)
Related(name, of) ==
  [levels EXCEPT ![Top.level].relations = Append(@, [label |-> name, of |-> of, at |-> Len(tokens) + 1])]
Table ==
  LET name == RelationNames[RelationsWritten + 1]
  IN  /\ In({FROM, JOIN, UPDATE, DELETE_FROM, INSERT_INTO, TABLE}, {"open"}) /\ RoomForARelation
      /\ Write(<<W(name)>>, Top.clause, "named") /\ levels' = Related(name, 0)
Cte ==
  /\ In({FROM, JOIN}, {"open"}) /\ RoomForARelation
  /\ \E cte \in Here.ctes : /\ \A r \in Range(Here.relations) : r.label # cte.name
                            /\ Write(<<W(cte.name)>>, Top.clause, "named") /\ levels' = Related(cte.name, cte.of)
DerivedTable ==
  /\ May("bodies")
  /\ In({FROM, JOIN}, {"open"}) /\ RoomForARelation
  /\ OpenBody(<<>>, "derived", FALSE, levels) \/ OpenBody(<<W("LATERAL")>>, "derived", TRUE, levels)
DerivedAlias ==
  LET name == AliasNames[RelationsWritten + 1]
  IN  /\ In({FROM, JOIN}, {"derived"}) /\ RelationsWritten + 1 \in DOMAIN AliasNames
      /\ Write(<<W(name)>>, Top.clause, "labelled") /\ levels' = Related(name, Top.body)
RelationAlias ==
  LET name == AliasNames[RelationsWritten]
      n == Len(Here.relations)
  IN  /\ May("aliases") /\ In({FROM, JOIN}, {"named"}) /\ RelationsWritten \in DOMAIN AliasNames
      /\ Write(<<W(name)>>, Top.clause, "aliased") \/ Write(<<W("AS"), W(name)>>, Top.clause, "aliased")
      /\ levels' = [levels EXCEPT ![Top.level].relations[n].label = name]
NextRelation ==
  /\ May("joins")
  /\ In({FROM}, IF "comma" \in Habits THEN RelationDone ELSE {"named", "aliased"})
  /\ RoomForARelation /\ Phrase(<<M(",")>>, FROM, "open")

(* Predicates: an operand, then a comparison, a word that needs nothing more, or a subquery. *)
Operand ==
  /\ In(Filters \union {SET}, {"open"}) /\ ItemsWritten < Bounds.items
  /\ Write(Column, Top.clause, "operand") /\ levels' = [levels EXCEPT ![Top.level].items = @ + 1]
Compare == In(Filters \union {SET}, {"operand"}) /\ Phrase(<<O("=")>>, Top.clause, "compared")
RightOperand ==
  /\ In(Filters \union {SET}, {"compared"})
  /\ Phrase(<<[t |-> "number", v |-> "1"]>>, Top.clause, "done") \/ OpenBody(<<>>, "done", TRUE, levels)
(* A column of a relation in view, and a value whose quote is still open. *)
Qualified ==
  /\ May("filters") /\ In(Filters, {"compared"})
  /\ \E label \in Seen(Top.level) : Phrase(<<W(label), M("."), W("c")>>, Top.clause, "done")
OpenQuote ==
  /\ In(Filters \union {SET}, {"compared"})
  /\ Put(<<[t |-> "open string", v |-> "q"]>>, FALSE, Top.clause, "quoted") /\ UNCHANGED levels
IsNull == In(Filters, {"operand"}) /\ Phrase(<<W("IS"), W("NULL")>>, Top.clause, "done")
InSubquery == In(Filters, {"operand"}) /\ OpenBody(<<W("IN")>>, "done", TRUE, levels)
Connect == In(Filters, {"done"}) /\ ItemsWritten < Bounds.items /\ Phrase(<<W("AND")>>, Top.clause, "open")

(* INSERT INTO t1 ( c ), JOIN t1 USING ( c ) and CREATE TABLE t1 ( c int NOT NULL ). *)
Group(piece, slot, inside) ==
  Open(piece, [Top EXCEPT !.slot = slot], [Top EXCEPT !.slot = inside], FALSE) /\ UNCHANGED levels
ColumnList ==
  \/ In({INSERT_INTO}, {"named"}) /\ Group(<<>>, "columns", "column")
  \/ In({USING}, {"open"}) /\ Group(<<>>, "done", "column")
  \/ In({INSERT_INTO, USING}, {"column"}) /\ Phrase(Column, Top.clause, "listed")
Definitions ==
  \/ In({CREATE_TABLE}, {"open"})
     /\ Open(<<W("t1")>>, [Top EXCEPT !.slot = "defined"], [Top EXCEPT !.slot = "name"], FALSE) /\ levels' = Related("t1", 0)
  \/ In({CREATE_TABLE}, {"name"}) /\ Phrase(Column, CREATE_TABLE, "typing")
  \/ In({CREATE_TABLE}, {"typing"}) /\ Phrase(<<W("int")>>, CREATE_TABLE, "done")
  \/ In({CREATE_TABLE}, {"done"}) /\ Phrase(<<W("NOT"), W("NULL")>>, CREATE_TABLE, "constrained")
  \/ In({CREATE_TABLE}, {"done", "constrained"}) /\ Phrase(<<M(",")>>, CREATE_TABLE, "name")

-----------------------------------------------------------------------------
Init ==
  /\ tokens = <<>> /\ caret = [at |-> 0, on |-> FALSE]
  /\ levels = <<NewLevel(0, {}, {}, FALSE)>>
  /\ gaps = <<[level |-> 1, clause |-> <<>>, slot |-> "begin", body |-> 0]>>
  /\ stack = gaps

Clausal ==
  \/ BeginSelect \/ BeginSource \/ BeginWith \/ BeginExplain \/ BeginStatement \/ BeginFrom \/ BeginJoin \/ BeginOn
  \/ BeginUsing \/ BeginSet \/ BeginWhere \/ BeginGroupBy \/ BeginHaving \/ BeginUnion \/ UnionAll
  \/ BeginOrderBy \/ Direction \/ Limit \/ Count
Listed ==
  \/ NameCte \/ CteBody \/ NextCte \/ SelectItem \/ Expression \/ Argument \/ CastOperand \/ CastAs \/ CastType \/ Distinct
  \/ SelectAlias \/ NextItem \/ OrderItem \/ Case \/ ColumnList \/ Definitions
Relational == Table \/ Cte \/ DerivedTable \/ DerivedAlias \/ RelationAlias \/ NextRelation
Predicate == Operand \/ Compare \/ RightOperand \/ Qualified \/ OpenQuote \/ IsNull \/ InSubquery \/ Connect
Next == Clausal \/ Listed \/ Relational \/ Predicate \/ Close \/ Left
Spec == Init /\ [][Next]_vars

-----------------------------------------------------------------------------
(* What the author knows at the caret: the gap it is in, or the one before the word it is on. *)
Truth == gaps[IF caret.on /\ IsIdent(tokens, caret.at) THEN caret.at ELSE caret.at + 1]

(* The clause that governs the caret (clause_at) is the one the author is in, *)
(* through parens, bodies, CASE and CAST, and wherever the caret goes back to. *)
ClauseAgrees == ClauseAt(tokens, StatementAt(tokens, caret), caret) = Truth.clause
=============================================================================
