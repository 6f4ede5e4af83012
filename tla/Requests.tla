------------------------------ MODULE Requests ------------------------------
(* From the analysis to a request (engine/request.py), and from a request to   *)
(* the words it puts on offer (the keyword family of resolve.py) and to what   *)
(* the text alone answers (engine/local.py).                                   *)
EXTENDS Scopes

NotARelation == {"PROCEDURE", "SEQUENCE"}
KindsOf(clause) == Range(Get(clause).suggests)
WordTyped(ts, c) == c.on /\ IsIdent(ts, c.at)
Singles(words) == {<<w>> : w \in words}

(* What the position wants next. *)
Expecting(ts, st, c, clause) ==
  LET predicate == CasePosition(ts, c) = "WHEN" \/ Get(clause).operators # {}
  IN  CASE AfterCast(ts, c) -> "type"
        [] ~AfterCast(ts, c) /\ AfterAs(ts, c) -> "alias"
        [] ~AfterAs(ts, c) /\ ~AfterOperand(ts, c) -> "operand"
        [] OTHER -> IF predicate /\ ~PredicateComplete(ts, st, c) THEN "operator" ELSE "connective"

CaseContinuations == "start" :> {P("WHEN")} @@ "WHEN" :> {P("THEN")}
                     @@ "THEN" :> {P("WHEN"), P("ELSE"), P("END")} @@ "ELSE" :> {P("END")}

(* The words that finish what is half written at the caret, and whether they are all. *)
Casting(ts, c) == InsideACastAwaitingAs(ts, c) /\ AfterOperand(ts, c)
Opening(ts, c, clause) == WordTyped(ts, c) /\ clause.beforeTheItem # <<>> /\ AtTheClauseStart(ts, c, clause.name)
BranchOpen(ts, st, c, where) == ~AfterOperand(ts, c) \/ (where = "WHEN" /\ ~PredicateComplete(ts, st, c))
Continued(ts, st, c, clause, half, where) ==
  IF half # {} THEN [words |-> half, only |-> TRUE]
  ELSE IF Casting(ts, c) THEN [words |-> {AS}, only |-> TRUE]
  ELSE IF Opening(ts, c, clause) THEN [words |-> Range(clause.beforeTheItem), only |-> FALSE]
  ELSE IF clause.opensAGroup # <<>> /\ DepthAt(ts, c) > 0 THEN [words |-> Range(clause.opensAGroup), only |-> TRUE]
  ELSE IF where = "" \/ (where # "start" /\ BranchOpen(ts, st, c, where)) THEN [words |-> {}, only |-> FALSE]
  ELSE [words |-> CaseContinuations[where], only |-> where # "start" \/ AfterOperand(ts, c)]
ContinuesAt(ts, st, c, clause) ==
  Continued(ts, st, c, Get(clause), ContinuesAKeyword(ts, c), CasePosition(ts, c))

ContinuedKinds(continues, otherwise) ==
  IF continues.words = {} THEN otherwise
  ELSE IF continues.only THEN <<"KEYWORD">> ELSE <<"KEYWORD">> \o otherwise

(* The kinds a clause admits: its own before an item, keywords behind a finished one. *)
ClauseKinds(clause, scope, expecting, inside) ==
  LET kinds == Get(clause).suggests
      relation == "TABLE" \in Range(kinds)
  IN  CASE expecting = "alias" -> <<"ALIAS">>
        [] expecting = "type" -> <<"TYPE">>
        [] clause = <<>> /\ expecting \notin {"alias", "type"} -> <<"SNIPPET", "KEYWORD">>
        [] clause = INSERT_INTO /\ inside /\ expecting \notin {"alias", "type"} -> <<"COLUMN">>
        [] OTHER ->
             IF inside /\ NotARelation \intersect Range(kinds) # {} THEN <<>>
             ELSE IF Continuations(clause, <<>>, {}) = {} THEN kinds
             ELSE IF relation /\ expecting = "connective" THEN <<"KEYWORD">>
             ELSE IF relation THEN (IF scope.relations # <<>> THEN Append(kinds, "KEYWORD") ELSE kinds)
             ELSE IF expecting = "operand" THEN kinds
             ELSE IF expecting = "operator" THEN <<"OPERATOR", "KEYWORD">> ELSE <<"KEYWORD">>

NamesARelation(segment, scope) ==
  segment \in DOMAIN scope.ctes \/ \E i \in DOMAIN scope.visible : Label(scope.visible[i]) = segment

(* Behind a dot: columns of a relation in scope, else what the namespace (schema, table) holds. *)
QualifiedKinds(qualifier, scope, clause) ==
  LET Named(kind) == kind \in NotARelation
      named == SelectSeq(Get(clause).suggests, Named)
  IN  IF NamesARelation(qualifier[1], scope) THEN <<"COLUMN">>
      ELSE IF named # <<>> /\ Len(qualifier) < 2 THEN named
      ELSE IF Len(qualifier) + 1 > 2 THEN <<"COLUMN">> ELSE <<"COLUMN", "TABLE">>

KindsFor(clause, qualifier, scope, expecting, inside) ==
  IF qualifier = <<>> \/ expecting = "type" THEN ClauseKinds(clause, scope, expecting, inside)
  ELSE QualifiedKinds(qualifier, scope, clause)

ExpansionFirst(starOf) == IF starOf # <<>> THEN <<"EXPANSION">> ELSE <<>>
ValuesFirst(comparand, expecting, qualifier) ==
  IF comparand # <<>> /\ expecting = "operand" /\ qualifier = <<>> THEN <<"VALUE">> ELSE <<>>

Quiet(clause, scope) ==
  [kinds |-> <<>>, clause |-> clause, scope |-> scope, qualifier |-> <<>>, expecting |-> "operand",
   continues |-> {}, itemWords |-> {}, statement |-> <<>>, written |-> {}, tail |-> FALSE,
   starOf |-> <<>>, typed |-> FALSE]

(* Inside a literal: the values of the column it is compared with, or nothing. *)
InsideALiteral(quiet, comparand) ==
  IF comparand # <<>> THEN [quiet EXCEPT !.kinds = <<"VALUE">>] ELSE quiet

(* Inside a column definition: no name, a type, or the constraints not yet in the item. *)
DefiningAColumn(quiet, where, held) ==
  LET unspent == {w \in Range(Get(quiet.clause).definesColumns) : ~(Range(w) \subseteq held)}
  IN  CASE where = "type" -> [quiet EXCEPT !.kinds = <<"TYPE">>, !.expecting = "type"]
        [] where = "constraint" /\ unspent # {} -> [quiet EXCEPT !.kinds = <<"KEYWORD">>, !.continues = unspent]
        [] OTHER -> quiet

(* Everywhere else. *)
StarredAt(ts, star, scope) == IF star = 0 THEN <<>> ELSE StarRelations(ts, star, scope)
Filtered(kinds, tail) == IF tail THEN SelectSeq(kinds, LAMBDA kind : kind = "KEYWORD") ELSE kinds
KindsAt(ts, c, continues, request) ==
  IF request.clause = <<>> /\ continues.words = {} /\ StatementHasBegun(StatementAt(ts, c), c) THEN <<>>
  ELSE Filtered(ContinuedKinds(continues,
         ExpansionFirst(request.starOf) \o ValuesFirst(ComparandAt(ts, c).path, request.expecting, request.qualifier)
         \o KindsFor(request.clause, request.qualifier, request.scope, request.expecting, DepthAt(ts, c) > 0)), request.tail)
WithKinds(request, kinds) == [request EXCEPT !.kinds = kinds]
WithContinues(ts, c, continues, request) ==
  WithKinds([request EXCEPT !.continues = continues.words], KindsAt(ts, c, continues, request))
Asked(ts, st, c, quiet) ==
  WithContinues(ts, c, ContinuesAt(ts, st, c, quiet.clause),
    [quiet EXCEPT !.qualifier = Qualifier(ts, c), !.expecting = Expecting(ts, st, c, quiet.clause),
                  !.itemWords = WordsInItem(ts, c), !.statement = StatementForm(ts, st, c),
                  !.written = ClausesWritten(ts, st, c), !.tail = InSetOperationTail(ts, st, c),
                  !.starOf = StarredAt(ts, StarAt(ts, c), quiet.scope), !.typed = WordTyped(ts, c)])

Derive(ts, st, c, quiet, defines) ==
  IF InLiteral(ts, c) THEN InsideALiteral(quiet, ComparandAt(ts, c).path)
  ELSE IF OpensANameList(ts, c, quiet.clause) THEN [quiet EXCEPT !.typed = WordTyped(ts, c)]
  ELSE IF defines # "" THEN DefiningAColumn([quiet EXCEPT !.typed = WordTyped(ts, c)], defines, WordsInItem(ts, c))
  ELSE Asked(ts, st, c, quiet)
DeriveAt(ts, st, c, clause) ==
  Derive(ts, st, c, Quiet(clause, ScopeOf(ts, st, c)), DefinesAColumn(ts, st, c, clause))
DeriveIn(ts, st, c) == DeriveAt(ts, st, c, ClauseAt(ts, st, c))
DeriveRequest(ts, c) == DeriveIn(ts, StatementAt(ts, c), c)

-----------------------------------------------------------------------------
(* The keywords on offer. *)

(* A choice is made when the words of one of its options are all written; it settles those before it. *)
Unchosen(words, written) ==
  LET Made(sequence) == {i \in DOMAIN sequence : \E choice \in sequence[i] : Range(choice) \subseteq written}
      settled == UNION {UNION {s[i] : i \in 1 .. MaxOf(Made(s), 0)} : s \in Range(EXCLUSIVE)}
  IN  words \ settled

OnlyWhereAnItemBegins(words, request) ==
  IF request.expecting # "connective" THEN words ELSE {w \in words : ~Get(w).opensAnItem}

GovernsASetOperation(words, request) ==
  IF ~request.tail THEN words
  ELSE {w \in words : w \in Range(Get(request.clause).followedBy) \union SetOperationTail}

(* The alias word is spent once the last relation, or the item, has an alias. *)
UnspentAlias(words, request) ==
  LET clause == Get(request.clause)
      relations == request.scope.relations
      spent == IF "TABLE" \in Range(clause.suggests)
               THEN relations = <<>> \/ Last(relations).alias # ""
               ELSE clause.aliasesWith[1] \in request.itemWords \/ "*" \in request.itemWords
  IN  IF clause.aliasesWith \notin words THEN words
      ELSE IF ~spent /\ clause.opensAGroup # <<>> THEN {clause.aliasesWith}
      ELSE IF spent THEN words \ {clause.aliasesWith} ELSE words

(* What the clause's own list has left to offer. *)
WordsLeft(request) ==
  LET following == Continuations(request.clause, request.statement, request.written)
  IN  UnspentAlias(GovernsASetOperation(OnlyWhereAnItemBegins(
        Unchosen(following, request.itemWords), request), request), request)

(* Where the list has nothing left, every keyword of the language is offered. *)
KeywordsFor(request) ==
  LET clause == request.clause
  IN  CASE request.continues # {} -> {}
        [] request.continues = {} /\ clause = <<>> -> Range(StatementStart)
        [] request.continues = {} /\ clause # <<>> /\ request.expecting = "operator" -> Range(Get(clause).afterOperand)
        [] OTHER -> IF WordsLeft(request) # {} THEN WordsLeft(request) ELSE Singles(Keywords)

-----------------------------------------------------------------------------
(* What the text alone answers. *)

AliasClauses == {FROM, JOIN, UPDATE, DELETE_FROM}
SelectListClauses == {GROUP_BY, ORDER_BY, HAVING}

(* The name the relation just written may be abbreviated to, where it has no alias yet. *)
AliasSuggestions(request) ==
  LET relations == request.scope.relations
  IN  IF request.typed \/ relations = <<>> THEN {}
      ELSE IF Last(relations).alias # "" \/ Last(relations).path = <<>> THEN {} ELSE {Last(Last(relations).path)}

SelectList(request) ==
  IF request.expecting = "operand" THEN Range(request.scope.projection.columns) ELSE {}

LocalCandidates(request) ==
  LET Answer(continues, aliasFor, columns) == [continues |-> continues, aliasFor |-> aliasFor, columns |-> columns]
      naming == request.clause \in AliasClauses /\ request.expecting \in {"alias", "connective"}
  IN  IF request.kinds = <<>> THEN Answer({}, {}, {})
      ELSE IF request.continues # {} THEN Answer(request.continues, {}, {})
      ELSE IF naming THEN Answer({}, AliasSuggestions(request), {})
      ELSE IF request.expecting # "alias" /\ request.clause \in SelectListClauses
           THEN Answer({}, {}, SelectList(request))
      ELSE Answer({}, {}, {})

(* Every word on offer at the caret. *)
Offered(request) ==
  LocalCandidates(request).continues
  \union (IF "KEYWORD" \in Range(request.kinds) THEN KeywordsFor(request) ELSE {})
=============================================================================
