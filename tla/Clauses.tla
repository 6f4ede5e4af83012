------------------------------ MODULE Clauses ------------------------------
(* Which clause governs a caret and what has been written of it already: the   *)
(* part of engine/analyse.py that reads clause names out of the tokens.        *)
(* "None" is the empty phrase where a clause name is returned.                 *)
EXTENDS Positions

ByFirstWord(names) == [w \in {n[1] : n \in names} |-> {n \in names : n[1] = w}]
NamesByFirstWord == ByFirstWord(ClauseNames)
NamesUnder(word, table) == IF word \in DOMAIN table THEN table[word] ELSE {}
Longest(names) == IF names = {} THEN <<>> ELSE CHOOSE n \in names : \A m \in names : Len(m) <= Len(n)

(* count unquoted words in a row from i. *)
IdentRun(ts, i, hi, count) == i + count - 1 <= hi /\ \A j \in i .. i + count - 1 : ts[j].t = "word"

(* The longest clause name that starts at i; it ends at i + its length - 1. *)
ClauseStartingAt(ts, i, hi) ==
  Longest({n \in NamesUnder(PlainWord(ts, i), NamesByFirstWord) :
             IdentRun(ts, i, hi, Len(n)) /\ \A k \in DOMAIN n : ts[i + k - 1].v = n[k]})

(* A word that opens a statement and is not reserved may be a name its author chose. *)
CanBeAName(name) == name \in Range(StatementStart) /\ name[1] \notin ReservedUpper
ReadsAsAClause(name, after) ==
  \/ after = <<>>
  \/ ~CanBeAName(name)
  \/ name \in Continuations(after, <<>>, {})

-----------------------------------------------------------------------------
(* The clause at the caret. *)

(* Of two clauses the one that ends nearer to the caret, the longer of two that end together. *)
Supersedes(n, i, best, c) ==
  /\ n # <<>> /\ EndsBefore(c, i + Len(n) - 1)
  /\ ReadsAsAClause(n, best.name)
  /\ \/ i + Len(n) - 1 > best.end
     \/ i + Len(n) - 1 = best.end /\ Len(n) > Len(best.name)
Passing(n, i, best, c) == IF Supersedes(n, i, best, c) THEN [name |-> n, end |-> i + Len(n) - 1] ELSE best

(* The last clause at one depth to the left of the caret: Best[i] is that of lo .. i. *)
BestOf(ts, lo, hi, c, depth) ==
  LET Best[i \in 0 .. Len(ts)] ==
        IF i < lo THEN [name |-> <<>>, end |-> 0]
        ELSE IF ts[i].d = depth THEN Passing(ClauseStartingAt(ts, i, hi), i, Best[i - 1], c) ELSE Best[i - 1]
  IN  Best
ScanForClause(ts, lo, hi, c, depth) == BestOf(ts, lo, hi, c, depth)[MinOf({c.at, hi}, 0)].name

(* The governing clause: at the caret's depth, or the nearest shallower one that has any. *)
ClauseInGroup(ts, st, c, depth) ==
  IF \E j \in st.lo .. st.hi : ts[j].d = depth /\ ts[j].t = "word" /\ EndsBefore(c, j)
  THEN ScanForClause(ts, MaxOf({GroupStart(ts, c, depth), st.lo}, 0), st.hi, c, depth)
  ELSE <<>>
FirstOf(name, otherwise) == IF name # <<>> THEN name ELSE otherwise
ClauseFrom(ts, st, c) ==
  LET From[depth \in -1 .. DepthAt(ts, c)] ==
        IF depth < 0 THEN <<>> ELSE FirstOf(ClauseInGroup(ts, st, c, depth), From[depth - 1])
  IN  From
ClauseAt(ts, st, c) == ClauseFrom(ts, st, c)[DepthAt(ts, c)]

(* The words in a row that end at the caret, without the one being typed. *)
WordsBefore(ts, c) ==
  LET Run[i \in 0 .. Len(ts)] == IF PlainWord(ts, i) = "" THEN <<>> ELSE Run[i - 1] \o <<ts[i].v>>
  IN  Run[Finished(ts, c)]

AtTheClauseStart(ts, c, clause) == IsSuffix(clause, WordsBefore(ts, c))

-----------------------------------------------------------------------------
(* Half-written phrases. *)

Continues == << <<"IS">>, <<"IS", "NOT">>, <<"NULLS">> >>
ContinuesWith == << {<<"NULL">>, <<"NOT", "NULL">>, <<"TRUE">>, <<"FALSE">>, <<"DISTINCT", "FROM">>},
                    {<<"NULL">>, <<"TRUE">>, <<"FALSE">>, <<"DISTINCT", "FROM">>},
                    {<<"FIRST">>, <<"LAST">>} >>

(* The heads of phrases of several words that are no phrase themselves, and their rests. *)
Phrases == UNION {PhrasesOf(clause) : clause \in Range(AllClauses)} \union Range(StatementStart)
HalfWrittenHeads == UNION {{SubSeq(p, 1, k) : k \in 1 .. Len(p) - 1} : p \in Phrases} \ Phrases
HalfWrittenClauses ==
  [head \in HalfWrittenHeads |->
     {SubSeq(p, Len(head) + 1, Len(p)) : p \in {q \in Phrases : IsStrictPrefix(head, q)}}]

(* The rests of the half-written phrase to the left of the caret, the longest head's. *)
RestsOf(head) ==
  IF head = <<>> THEN {}
  ELSE IF head \in Range(Continues) THEN ContinuesWith[CHOOSE i \in DOMAIN Continues : Continues[i] = head]
  ELSE HalfWrittenClauses[head]
LongestHead(written) ==
  LET LastWords(k) == SubSeq(written, Len(written) - k + 1, Len(written))
  IN  LastWords(MaxOf({k \in 1 .. MinOf({4, Len(written)}, 0) :
                         LastWords(k) \in Range(Continues) \union HalfWrittenHeads}, 0))
ContinuesAKeyword(ts, c) == RestsOf(LongestHead(WordsBefore(ts, c)))

-----------------------------------------------------------------------------
(* Lists of names, and of column definitions. *)

(* Whether the caret's paren opens a list of names being defined. *)
ListsNames(ts, c, clause) ==
  LET start == GroupStart(ts, c, DepthAt(ts, c))
      introducer == PlainWord(ts, start - 2)
      alias == clause.aliasesWith
  IN  /\ DepthAt(ts, c) > 0 /\ start > 1
      /\ introducer # ""
      /\ clause.name # <<>> /\ alias # <<>>
      /\ \A i \in start .. c.at : PlainWord(ts, i) # clause.name[1]
      /\ IF clause.opensAGroup # <<>>
         THEN introducer # alias[1]
         ELSE introducer = alias[1] \/ PlainWord(ts, start - 3) = alias[1]
OpensANameList(ts, c, clause) == ListsNames(ts, c, Get(clause))

(* The first paren behind the last clause of that name, or 0. *)
ParenBehind(ts, st, c, after) ==
  IF after = 0 THEN 0 ELSE MinOf({i \in after .. st.hi : i <= c.at /\ Mark(ts, i, "(")}, 0)
DefinitionParen(ts, st, c, name) ==
  ParenBehind(ts, st, c, MaxOf({i + Len(name) : i \in {j \in st.lo .. st.hi :
                                  EndsBefore(c, j) /\ ClauseStartingAt(ts, j, st.hi) = name}}, 0))

(* The caret's place in the definition whose paren is opening: name, type or constraint; "" outside it. *)
PlaceInDefinition(ts, c, opening) ==
  LET depth == ts[opening].d + 1
      here == {i \in opening + 1 .. Finished(ts, c) : ts[i].d = depth}
      comma == MaxOf({i \in here : Mark(ts, i, ",")}, 0)
      words == Cardinality({i \in here : i > comma /\ IsIdent(ts, i)})
  IN  IF opening = 0 \/ DepthAt(ts, c) # depth THEN ""
      ELSE CASE words = 0 -> "name" [] words = 1 -> "type" [] OTHER -> "constraint"
DefinesAColumn(ts, st, c, clause) ==
  IF Get(clause).definesColumns = <<>> THEN "" ELSE PlaceInDefinition(ts, c, DefinitionParen(ts, st, c, clause))

-----------------------------------------------------------------------------
(* Predicates. *)

IsComparison(ts, i) == ts[i].t = "op" /\ ts[i].v \in Comparisons
IsClauseWord(ts, i) == PlainWord(ts, i) # "" /\ IsClause(<<ts[i].v>>)

(* Whether the group that closes at i compares something: the last thing in it that decides. *)
GroupIsAPredicate(ts, close) ==
  LET last == MaxOf({i \in MatchingOpen(ts, close) + 1 .. close - 1 :
                       IsComparison(ts, i) \/ PlainWord(ts, i) \in PredicateKeywords \/ IsClauseWord(ts, i)}, 0)
  IN  last > 0 /\ ~IsClauseWord(ts, last)

(* Whether the predicate at the caret is finished: something armed it since the last connective. *)
PredicateComplete(ts, st, c) ==
  LET here == {i \in st.lo .. st.hi : i <= c.at /\ ts[i].d = DepthAt(ts, c)}
      disarmed == MaxOf({i \in here : PlainWord(ts, i) \in {"AND", "OR"} \/ IsClauseWord(ts, i)}, 0)
  IN  \E i \in here : /\ i > disarmed
                      /\ \/ IsComparison(ts, i)
                         \/ Mark(ts, i, ")") /\ GroupIsAPredicate(ts, i)
                         \/ PlainWord(ts, i) \in PredicateKeywords

-----------------------------------------------------------------------------
(* The branch of a set operation, and what is written in it. *)

SetOperatorsIn(ts, lo, hi) ==
  {i \in lo .. hi : IsIdent(ts, i) /\ ts[i].v \in SetOperators /\ ts[i].d = BaseDepth(ts, lo, hi)}

BranchAt(ts, lo, hi, c) ==
  LET cuts == SetOperatorsIn(ts, lo, hi)
  IN  [lo |-> MaxOf({i \in cuts : i <= c.at}, lo - 1) + 1, hi |-> MinOf({i \in cuts : i > c.at}, hi + 1) - 1]

SetOperationTail == {ORDER_BY, LIMIT, OFFSET, FETCH}

(* Whether the caret is in the clauses that close a whole set operation. *)
InSetOperationTail(ts, st, c) ==
  LET last == MaxOf(SetOperatorsIn(ts, st.lo, st.hi), 0)
      base == BaseDepth(ts, st.lo, st.hi)
      tails == {i \in last + 1 .. st.hi : ts[i].d = base /\ ClauseStartingAt(ts, i, st.hi) \in SetOperationTail}
      Behind(first) == first > 0 /\ c.at >= first + Len(ClauseStartingAt(ts, first, st.hi)) - 1
  IN  last > 0 /\ Behind(MinOf(tails, 0))

(* Two mistakes in ClausesWritten: only what is left of the caret is read; the branches are read as one. *)
ClausesWrittenBefore(ts, st, c) ==
  LET branch == BranchAt(ts, st.lo, st.hi, c)
  IN  {ClauseStartingAt(ts, i, branch.hi) :
         i \in {j \in branch.lo .. branch.hi : j <= c.at /\ ts[j].d = DepthAt(ts, c)}} \ {<<>>}
ClausesWrittenAnywhere(ts, st, c) ==
  {ClauseStartingAt(ts, i, st.hi) : i \in {j \in st.lo .. st.hi : ts[j].d = DepthAt(ts, c)}} \ {<<>>}

(* The clauses of the caret's branch at its own depth, on both sides of it. *)
TakeClause(acc, i, n) ==
  IF i < acc.next \/ n = <<>> \/ ~ReadsAsAClause(n, acc.after) THEN acc
  ELSE [found |-> acc.found \union {n}, after |-> n, next |-> i + Len(n)]
ClausesIn(ts, branch, depth) ==
  LET Taken[i \in 0 .. Len(ts)] ==
        IF i < branch.lo THEN [found |-> {}, after |-> <<>>, next |-> 0]
        ELSE IF ts[i].d = depth THEN TakeClause(Taken[i - 1], i, ClauseStartingAt(ts, i, branch.hi)) ELSE Taken[i - 1]
  IN  Taken
ClausesWritten(ts, st, c) ==
  LET branch == BranchAt(ts, st.lo, st.hi, c)
  IN  ClausesIn(ts, branch, DepthAt(ts, c))[branch.hi].found

(* The words of the caret's own list item: back to a comma, or to its clause and that word too. *)
WordsInItem(ts, c) ==
  LET here == {i \in 1 .. c.at : ts[i].d = DepthAt(ts, c)}
      comma == MaxOf({i \in here : Mark(ts, i, ",")}, 0)
      head == MaxOf({i \in here : ClauseStartingAt(ts, i, Len(ts)) # <<>>}, 1)
      item == {i \in here : i > comma /\ i >= head}
  IN  {ts[i].v : i \in {j \in item : PlainWord(ts, j) # "" \/ (Op(ts, j, "*") /\ StarIsAnItem(ts, j))}}

FormOf(written) ==
  LET Written(name) == name \in written
      starts == SelectSeq(StatementStart, Written)
      NotWith(name) == name # WITH_
      others == SelectSeq(starts, NotWith)
  IN  IF starts = <<>> THEN <<>> ELSE IF others # <<>> THEN others[1] ELSE WITH_
StatementForm(ts, st, c) == FormOf(ClausesWritten(ts, st, c))

(* A group whose very next token starts a statement is a query; a space hides it. *)
OpensAQuery(ts, i, hi) == ~ts[i].s /\ ClauseStartingAt(ts, i + 1, hi) \in Range(StatementStart)

(* A mistake in SelectListEnd: it runs on past the paren that closes the caret's query. *)
SelectListEndUnclamped(ts, c) ==
  LET st == StatementAt(ts, c)
      whole == BranchAt(ts, st.lo, st.hi, c)
      next == MinOf({i \in whole.lo .. whole.hi : /\ ts[i].d = DepthAt(ts, c)
                                                 /\ i > c.at
                                                 /\ ClauseStartingAt(ts, i, whole.hi) \notin {<<>>, SELECT}}, whole.hi + 1)
  IN  MaxOf({next - 1, c.at}, c.at)

(* The gap where a FROM belongs: behind the select list of the caret's own query. *)
NextClause(ts, c, lo, hi) ==
  LET base == BaseDepth(ts, lo, hi)
  IN  MinOf({i \in lo .. hi : /\ ts[i].d = base
                              /\ i > c.at
                              /\ ClauseStartingAt(ts, i, hi) \notin {<<>>, SELECT}}, hi + 1)
SelectListEnd(ts, c) ==
  LET st == StatementAt(ts, c)
      whole == BranchAt(ts, st.lo, st.hi, c)
      InAQuery(depth) == LET start == GroupStart(ts, c, depth)
                         IN  start > whole.lo /\ OpensAQuery(ts, start - 1, whole.hi)
      From(start) == NextClause(ts, c, start, MinOf({whole.hi, MatchingParen(ts, start - 1, whole.hi) - 1}, 0))
      Next(depth) == IF depth = 0 THEN NextClause(ts, c, whole.lo, whole.hi) ELSE From(GroupStart(ts, c, depth))
  IN  MaxOf({Next(MaxOf({d \in 1 .. DepthAt(ts, c) : InAQuery(d)}, 0)) - 1, c.at}, c.at)
=============================================================================
