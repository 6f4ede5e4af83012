------------------------------ MODULE Answers ------------------------------
(* Wherever the author's caret is, the engine is asked: its answer (Requests)  *)
(* is held against what the author knows.                                      *)
EXTENDS Author, Requests

VARIABLE answer   \* the engine's, to the request at the caret

InitAsked == Init /\ answer = DeriveRequest(tokens, caret)
Ask == answer' = DeriveRequest(tokens', caret')
NextAsked == Next /\ Ask
Asking == InitAsked /\ [][NextAsked]_<<vars, answer>>

-----------------------------------------------------------------------------
(* The columns of a body: its named items, and under a star those of all its relations. *)
RECURSIVE ColumnsOf(_), ColumnsRead(_)
ColumnsOf(body) ==
  LET level == levels[body]
      Under(r) == IF r.of = 0 THEN {r.label} ELSE ColumnsOf(r.of)
  IN  (Range(level.outputs) \ {"*", ""})
      \union (IF "*" \in Range(level.outputs) THEN UNION {Under(r) : r \in Range(level.relations)} ELSE {})
ColumnsRead(relation) ==
  IF relation.source = "table" THEN {Label(relation)}
  ELSE Range(relation.columns) \union UNION {ColumnsRead(star) : star \in Range(relation.stars)}

(* Positions at which the program claims nothing: on a relation that is still  *)
(* being typed, on a word that opens the next block, in a paren whose first    *)
(* word is not written yet.                                                    *)
TypingARelation == caret.on /\ \E level \in Range(levels) : \E r \in Range(level.relations) : r.at = caret.at
OnASeam == caret.on /\ Truth.level # gaps[caret.at + 1].level
NotABodyYet == Truth.slot = "begin" /\ caret = AtEnd

-----------------------------------------------------------------------------
(* Properties. *)

(* The relations in view at the caret (scope_of) are those SQL's block         *)
(* structure gives it: the block's own, the outer ones where the body is       *)
(* lateral or in an expression, none through a derived table or a CTE; and of  *)
(* the CTEs those written before.  So it is for an author without Habits: a    *)
(* comma behind a derived table ends the reading of the list, and a space      *)
(* behind a body's paren hides the body.  MCAuthorScopes shows the former.     *)
ScopeAgrees ==
  ~TypingARelation /\ ~OnASeam /\ ~NotABodyYet =>
    /\ {Label(r) : r \in Range(answer.scope.visible)} \ {""} = Seen(Truth.level)
    /\ DOMAIN answer.scope.ctes = {cte.name : cte \in levels[Truth.level].ctes}

(* What a derived table or a CTE in view outputs (select_outputs) is what the  *)
(* author selected in its body, stars followed down to the tables.             *)
OutputsAgree ==
  ~TypingARelation =>
    \A r \in Range(answer.scope.visible) : \A level \in Range(levels) : \A mention \in Range(level.relations) :
      Label(r) = mention.label /\ mention.of > 0 => ColumnsRead(r) = ColumnsOf(mention.of)

(* The kinds asked for (derive_request) follow the slot of the grammar: names  *)
(* where an item is due and none behind a finished one, a type in a cast and a *)
(* definition, values beside a comparison and alone in an open quote, columns  *)
(* behind the dot of any relation in view.  An alias is suggested for the      *)
(* relation just written, where that is the last in scope, and for none that   *)
(* has one.                                                                    *)
Kinds == Range(answer.kinds)
NameKinds == {"COLUMN", "FUNCTION", "TABLE", "SCHEMA"}
(* The last relation in scope is the last one written: alias and AS go by the former (_alias_suggestions). *)
LastIsLast == In({FROM, JOIN}, {"named"}) => Label(Last(answer.scope.relations)) = Last(Here.relations).label
OperandSlots == {"compared", "when", "then", "casting", "column"}
KindsAgree ==
  LET slot == Truth.slot
      clause == Truth.clause
  IN  /\ slot \in OperandSlots \/ (slot = "open" /\ clause \in Filters \union {SELECT, SET, GROUP_BY})
             => "COLUMN" \in Kinds
      /\ slot = "open" /\ clause \in {FROM, JOIN, UPDATE, DELETE_FROM, INSERT_INTO, TABLE} => "TABLE" \in Kinds
      /\ slot \in ItemDone \union {"held", "chosen", "cast", "operand", "body", "cte"} => Kinds \intersect NameKinds = {}
      /\ slot = "typing" <=> "TYPE" \in Kinds
      /\ slot # "half" => (slot \in {"compared", "quoted"} <=> "VALUE" \in Kinds)
      /\ slot = "quoted" => Kinds = {"VALUE"}
      /\ Mark(tokens, Finished(tokens, caret), ".") => Kinds = {"COLUMN"}
      /\ caret = AtEnd /\ clause \in {FROM, JOIN} /\ slot \in RelationDone /\ LastIsLast /\ ~answer.typed =>
           LocalCandidates(answer).aliasFor = IF slot = "named" THEN {Last(Here.relations).label} ELSE {}

(* What a select list is, read from elsewhere: by the clauses that may name    *)
(* its columns (_select_list), by a star in it (star_relations), and for the   *)
(* FROM it has not got (select_list_end), which goes behind the list of the    *)
(* caret's own query whatever stands around it.                                *)
SelectListAgrees ==
  LET level == levels[Truth.level]
      end == SelectListEnd(tokens, caret)
  IN  /\ Truth.slot = "open" /\ Truth.clause \in SelectListClauses /\ ~level.branch =>
           LocalCandidates(answer).columns = Range(level.outputs) \ {"*", ""}
      /\ StarAt(tokens, caret) # 0 =>
           {Label(r) : r \in Range(answer.starOf)} \ {""} = {r.label : r \in Range(level.relations)}
      /\ Truth.clause = SELECT /\ (answer.typed => tokens[caret.at].v \notin Keywords) =>
           /\ gaps[end + 1].level = Truth.level /\ gaps[end + 1].clause = SELECT
           /\ \A i \in end + 2 .. Len(gaps) : gaps[i].level = Truth.level => gaps[i].clause # SELECT

(* A clause its query holds already, on either side of the caret, is not       *)
(* offered to it again (clauses_written), as long as the clause before the     *)
(* caret has any word left to offer.                                           *)
NoClauseTwice ==
  /\ Truth.slot \in ItemDone /\ ~answer.typed
  /\ DepthAt(tokens, caret) = levels[Truth.level].depth
  /\ WordsLeft(answer) # {}
  => \A word \in Offered(answer) \intersect ClauseNames :
       ~Get(word).repeats => word \notin levels[Truth.level].clauses

(* No other body is at this depth, for clauses_written reads all of one depth as one. *)
Alone == Depth = 0 \/ \A l \in DOMAIN levels : levels[l].depth = Depth => l = Top.level
(* The keywords at the head of what is being written. *)
Heading ==
  LET piece == SubSeq(tokens', Len(tokens) + 1, Len(tokens'))
      n == MaxOf({k \in DOMAIN piece : \A i \in 1 .. k : piece[i].t = "word" /\ piece[i].v \in Keywords}, 0)
  IN  [i \in 1 .. n |-> piece[i].v]
(* A word is due and no item; EXPLAIN comes as a snippet, and only WITH offers what opens a group. *)
WordDue ==
  /\ Heading \notin {<<>>, EXPLAIN} /\ Truth.slot # "open"
  /\ Truth.slot = "begin" /\ Depth > 0 => Truth.clause = WITH_

(* The author goes on with a keyword, and it was on offer (_keywords). *)
GoesOnAsOffered ==
  Len(tokens') > Len(tokens) /\ WordDue /\ (Heading = AS => LastIsLast) => Heading \in Offered(answer)

(* Whatever has been written, no word of the grammar is withheld from a query  *)
(* that is alone at its depth.  AS is left to KindsAgree where the last        *)
(* relation in scope is not the last one written.                              *)
WrittenWordOffered == [][Alone => GoesOnAsOffered]_<<vars, answer>>

(* The same beside other bodies, as the words of clauses_written have it: only *)
(* the clauses of the caret's own branch count.  The code breaks it: the FROM  *)
(* of one body withholds FROM from the next (MCAuthorWithheld).                *)
NoWordWithheld == [][GoesOnAsOffered]_<<vars, answer>>
=============================================================================
