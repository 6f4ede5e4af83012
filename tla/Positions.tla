----------------------------- MODULE Positions -----------------------------
(* Where a caret sits in a token stream: the questions of engine/analyse.py    *)
(* that look at the tokens around the caret and at nothing else.               *)
(*                                                                             *)
(* A token is [t, v, d, s]: its type, its word or mark (a keyword in upper     *)
(* case, a name in lower), the paren depth it carries, an opening paren that   *)
(* of its outside, and whether a space follows it.  Space is no token here, so *)
(* the two skips over it are the identity; only the places that look at the    *)
(* very next token without skipping read s.  A caret is [at, on]: the number   *)
(* of tokens that start before it, and whether it touches the last of them     *)
(* (the word there is still being typed) or lies in the space behind it.       *)
EXTENDS Dialect

IsIdent(ts, i) == i \in DOMAIN ts /\ ts[i].t \in {"word", "quoted"}
Mark(ts, i, v) == i \in DOMAIN ts /\ ts[i].t = "punct" /\ ts[i].v = v
Op(ts, i, v) == i \in DOMAIN ts /\ ts[i].t = "op" /\ ts[i].v = v
Word(ts, i, v) == IsIdent(ts, i) /\ ts[i].v = v
(* The word at i, or "" where it is not an unquoted one. *)
PlainWord(ts, i) == IF i \in DOMAIN ts /\ ts[i].t = "word" THEN ts[i].v ELSE ""

MaxOf(S, otherwise) == IF S = {} THEN otherwise ELSE CHOOSE x \in S : \A y \in S : y <= x
MinOf(S, otherwise) == IF S = {} THEN otherwise ELSE CHOOSE x \in S : \A y \in S : x <= y

(* The last token that is finished: the word under the caret is not. *)
Finished(ts, c) == IF c.on /\ IsIdent(ts, c.at) THEN c.at - 1 ELSE c.at
(* The tokens whose end lies strictly before the caret. *)
EndsBefore(c, i) == i < c.at \/ (i = c.at /\ ~c.on)

DepthAt(ts, c) ==
  IF c.at = 0 THEN 0 ELSE ts[c.at].d + (IF Mark(ts, c.at, "(") THEN 1 ELSE 0)

InLiteral(ts, c) == c.at > 0 /\ ts[c.at].t = "open string"

(* The statement the caret is in: every semicolon separates two. *)
StatementAt(ts, c) ==
  LET semicolons == {i \in DOMAIN ts : Mark(ts, i, ";")}
  IN  [lo |-> MaxOf({i \in semicolons : i <= c.at}, 0) + 1,
       hi |-> MinOf({i \in semicolons : i > c.at}, Len(ts) + 1) - 1]

StatementHasBegun(st, c) == \E i \in st.lo .. st.hi : EndsBefore(c, i)

(* The dotted path to the left of the caret, without the word being typed. *)
Qualifier(ts, c) ==
  LET Segments[i \in 0 .. Len(ts)] ==
        IF Mark(ts, i, ".") /\ IsIdent(ts, i - 1)
        THEN (IF i >= 2 THEN Segments[i - 2] ELSE <<>>) \o <<ts[i - 1].v>>
        ELSE <<>>
  IN  Segments[Finished(ts, c)]

-----------------------------------------------------------------------------
(* Operands, stars, aliases, casts. *)

LiteralKeywords == {"NULL", "TRUE", "FALSE", "CURRENT_DATE", "CURRENT_TIME", "CURRENT_TIMESTAMP",
                    "CURRENT_USER", "SESSION_USER", "LOCALTIME", "LOCALTIMESTAMP", "DEFAULT"}
ClosesItem == {"ASC", "DESC", "FIRST", "LAST", "END"}
Comparisons == {"=", "<", ">", "<=", ">=", "<>", "!="}
PredicateKeywords == {"IS", "IN", "LIKE", "ILIKE", "BETWEEN", "SIMILAR", "EXISTS"}
SetOperators == {"UNION", "INTERSECT", "EXCEPT"}

(* A star is an item after a comma, a dot, a paren or a keyword; after a name it multiplies. *)
StarIsAnItem(ts, i) ==
  \/ i = 1
  \/ ts[i - 1].t = "punct" /\ ts[i - 1].v \in {",", ".", "("}
  \/ ts[i - 1].t = "word" /\ ts[i - 1].v \in Keywords

(* A mistake in AfterOperand: a closed group is not seen as an operand. *)
AfterBareOperand(ts, c) ==
  LET i == Finished(ts, c)
  IN  /\ i > 0
      /\ \/ ts[i].t \in {"number", "string", "param"}
         \/ Op(ts, i, "*") /\ StarIsAnItem(ts, i)
         \/ /\ IsIdent(ts, i)
            /\ ts[i].v \in ClosesItem \union LiteralKeywords \/ ts[i].t = "quoted" \/ ts[i].v \notin Keywords

AfterOperand(ts, c) ==
  LET i == Finished(ts, c)
  IN  /\ i > 0
      /\ \/ ts[i].t \in {"number", "string", "param"}
         \/ Mark(ts, i, ")")
         \/ Op(ts, i, "*") /\ StarIsAnItem(ts, i)
         \/ /\ IsIdent(ts, i)
            /\ ts[i].v \in ClosesItem \union LiteralKeywords \/ ts[i].t = "quoted" \/ ts[i].v \notin Keywords

(* The paren whose group encloses token i, and the name written before it. *)
CallOpening(ts, i) == MaxOf({j \in 1 .. i - 1 : Mark(ts, j, "(") /\ ts[j].d = ts[i].d - 1}, 0)
EnclosingCall(ts, i) ==
  LET opening == CallOpening(ts, i)
  IN  IF opening > 1 /\ IsIdent(ts, opening - 1) THEN ts[opening - 1].v ELSE ""

(* The select-list star the caret is on, or 0. *)
StarAt(ts, c) ==
  IF c.on /\ Op(ts, c.at, "*") /\ StarIsAnItem(ts, c.at) /\ EnclosingCall(ts, c.at) = "" THEN c.at ELSE 0

(* The name that qualifies the star at i, or 0. *)
StarQualifier(ts, i) == IF Mark(ts, i - 1, ".") /\ IsIdent(ts, i - 2) THEN i - 2 ELSE 0

AfterAs(ts, c) == Word(ts, Finished(ts, c), "AS")
AfterCast(ts, c) == AfterAs(ts, c) /\ EnclosingCall(ts, Finished(ts, c)) = "CAST"
InsideACastAwaitingAs(ts, c) ==
  LET i == Finished(ts, c) IN i > 0 /\ EnclosingCall(ts, i) = "CAST" /\ ~Word(ts, i, "AS")

(* The paren the closing one at i closes, or 0. *)
MatchingOpen(ts, i) == MaxOf({j \in 1 .. i - 1 : Mark(ts, j, "(") /\ ts[j].d = ts[i].d}, 0)

(* The type a CAST(x AS t) that ends at i names, or <<>>: all the words behind its own AS. *)
FunctionalCastType(ts, i) ==
  LET opened == MatchingOpen(ts, i)
      as == MaxOf({j \in opened + 1 .. i - 1 : ts[j].d = ts[i].d + 1 /\ Word(ts, j, "AS")}, 0)
  IN  IF Mark(ts, i, ")") /\ opened > 1 /\ Word(ts, opened - 1, "CAST") /\ as > 0
      THEN [j \in 1 .. i - 1 - as |-> ts[as + j].v]
      ELSE <<>>

(* What stands to the left of the comparison the caret completes: a dotted path or a cast's type. *)
ComparandAt(ts, c) ==
  LET RightEdge[i \in 0 .. Len(ts)] ==
        IF Mark(ts, i, ".") THEN RightEdge[IF IsIdent(ts, i - 1) THEN i - 2 ELSE i - 1] ELSE i
      under == c.on /\ c.at > 0 /\ ts[c.at].t \in {"word", "quoted", "string", "open string"}
      mark == RightEdge[IF under THEN c.at - 1 ELSE c.at]
      Path[i \in -1 .. Len(ts)] ==
        IF ~IsIdent(ts, i) THEN <<>>
        ELSE (IF Mark(ts, i - 1, ".") THEN Path[i - 2] ELSE <<>>) \o <<ts[i].v>>
  IN  IF mark < 2 \/ ts[mark].t # "op" \/ ts[mark].v \notin Comparisons
      THEN [path |-> <<>>, type |-> <<>>]
      ELSE LET type == FunctionalCastType(ts, mark - 1)
           IN  [path |-> IF type = <<>> THEN Path[mark - 1] ELSE <<>>, type |-> type]

(* Which part of a CASE at its own depth the caret is in, or "". *)
CasePosition(ts, c) ==
  LET depth == DepthAt(ts, c)
      words == {i \in 1 .. c.at : ts[i].t = "word" /\ ts[i].d = depth}
      Pending(i) == Cardinality({j \in words : j > i /\ ts[j].v = "END"})
                    - Cardinality({j \in words : j > i /\ ts[j].v = "CASE"})
      (* The nearest CASE with no END of its own; those nearer all have one. *)
      open == MaxOf({i \in words : ts[i].v = "CASE" /\ Pending(i) = 0}, 0)
      branches == {i \in words : i > open /\ ts[i].v \in {"WHEN", "THEN", "ELSE"} /\ Pending(i) = 0}
  IN  IF open = 0 THEN "" ELSE IF branches = {} THEN "start" ELSE ts[MaxOf(branches, 0)].v

(* The paren that closes the one at i, or hi + 1. *)
MatchingParen(ts, i, hi) ==
  MinOf({j \in i + 1 .. hi : Mark(ts, j, ")") /\ ts[j].d = ts[i].d}, hi + 1)

(* A mistake in GroupStart: any group at that depth is the caret's. *)
AnyGroupStart(ts, c, depth) ==
  IF depth <= 0 THEN 1 ELSE MinOf({i \in 1 .. c.at : Mark(ts, i, "(") /\ ts[i].d = depth - 1}, 0) + 1

(* Where the caret's own group begins at a depth, or 1. *)
GroupStart(ts, c, depth) ==
  IF depth <= 0 THEN 1 ELSE MaxOf({i \in 1 .. c.at : Mark(ts, i, "(") /\ ts[i].d = depth - 1}, 0) + 1

BaseDepth(ts, lo, hi) == MinOf({ts[i].d : i \in lo .. hi}, 0)
=============================================================================
