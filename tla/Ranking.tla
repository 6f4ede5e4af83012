------------------------------- MODULE Ranking -------------------------------
(***************************************************************************)
(* engine/rank.py: the candidates that match are scored, ordered, freed of *)
(* duplicates and cut to a limit.  Rendering is spared: only a shortlist   *)
(* is rendered, chosen by what is known before, and it grows while the     *)
(* duplicates found in it leave fewer suggestions than were asked for.     *)
(*                                                                         *)
(* A list of suggestions is the set of places of its candidates: the order *)
(* is Ahead, which is total.  Scores are in tenths.                        *)
(***************************************************************************)
EXTENDS Integers, Sequences, FiniteSets

CONSTANTS
  Requests,       \* what rank may be called with: [candidates, kinds, limit]
  NoLimit         \* limit=None

VARIABLES
  asked,          \* the call
  take,           \* how many the next shortlist is to hold
  shortlist,      \* the places last rendered
  found,          \* the places of the suggestions made of them
  done

vars == <<asked, take, shortlist, found, done>>

(* How a text matches the prefix, and what that is worth. *)
Tier == [none |-> 0, exact |-> 1000, folded |-> 700, word |-> 550, initials |-> 400, substring |-> 250]

(* A candidate is what of it the ranking looks at: how it matches the prefix (and where the match
   begins), its length, and what it is rendered to: a text, of which `fold` is the place in the
   alphabet and `spelling` the case. *)
Candidate ==
  [kind : STRING, match : DOMAIN Tier, at : Nat, position : Nat, local : BOOLEAN,
   restricted : BOOLEAN, length : Nat, fold : Nat, spelling : STRING]

ASSUME RequestsAssumption ==
  /\ NoLimit \notin Int
  /\ \A q \in Requests : /\ q.candidates \in Seq(Candidate)
                         /\ q.kinds \in Seq(STRING)
                         /\ q.limit \in Int \union {NoLimit}

-----------------------------------------------------------------------------
(* Scores. *)

KindStep == 50
LocalBonus == 300
JoinBonus == 120
MaxPositionPenalty == 50

(* A keyword matches from its beginning or not at all. *)
Matched(c) ==
  /\ c.match # "none"
  /\ c.kind = "KEYWORD" => c.match \in {"exact", "folded"}

(* The later a substring begins, the less it is worth. *)
Strength(c) == Tier[c.match] - (IF c.match = "substring" THEN 5 * c.at ELSE 0)

Among(kind, kinds) == \E k \in DOMAIN kinds : kinds[k] = kind

(* What a kind counts as: a CTE is a relation, a join whatever the position wants. *)
CountsAs(kind, kinds) ==
  IF Among(kind, kinds) THEN kind
  ELSE IF kind = "CTE" THEN "TABLE"
  ELSE IF kind = "JOIN" THEN (IF Among("TABLE", kinds) THEN "TABLE" ELSE "COLUMN")
  ELSE kind

(* A step for each kind from there on; a kind named twice has the place it was named at last. *)
KindBonus(kind, kinds) ==
  LET onwards == {l \in DOMAIN kinds : \A k \in DOMAIN kinds : kinds[k] = CountsAs(kind, kinds) => k <= l}
  IN  IF Among(CountsAs(kind, kinds), kinds) THEN Cardinality(onwards) * KindStep ELSE 0

Penalty(position) == IF position < MaxPositionPenalty THEN position ELSE MaxPositionPenalty

Score(c, kinds) ==
  Strength(c) + KindBonus(c.kind, kinds) - Penalty(c.position)
  + (IF c.local THEN LocalBonus ELSE 0) + (IF c.kind = "JOIN" THEN JoinBonus ELSE 0)

-----------------------------------------------------------------------------
(* The order. *)

Prepared(q) == {i \in DOMAIN q.candidates : Matched(q.candidates[i])}

(* A mistake in Better: a restricted candidate is not told apart. *)
BetterWhatever(q, i, j) ==
  LET c == q.candidates[i]
      d == q.candidates[j]
      s == Score(c, q.kinds)
      t == Score(d, q.kinds)
  IN  s > t \/ (s = t /\ c.length < d.length)

(* _order(i) < _order(j): what is known without rendering. *)
Better(q, i, j) ==
  LET c == q.candidates[i]
      d == q.candidates[j]
      s == Score(c, q.kinds)
      t == Score(d, q.kinds)
  IN  \/ ~c.restricted /\ d.restricted
      \/ c.restricted = d.restricted /\ s > t
      \/ c.restricted = d.restricted /\ s = t /\ c.length < d.length

(* The sort: by rendered text among equals, and stable. *)
Ahead(q, i, j) ==
  \/ Better(q, i, j)
  \/ /\ ~Better(q, j, i)
     /\ \/ q.candidates[i].fold < q.candidates[j].fold
        \/ q.candidates[i].fold = q.candidates[j].fold /\ i < j

SameSuggestion(c, d) == c.kind = d.kind /\ c.fold = d.fold /\ c.spelling = d.spelling

-----------------------------------------------------------------------------
(* _shortlist and _finish. *)

(* Whatever is as good as the take-th best: nobody of whom `take` others are better. *)
Shortlist(q, n) ==
  IF n <= 0 THEN {}
  ELSE IF n >= Cardinality(Prepared(q)) THEN Prepared(q)
  ELSE {i \in Prepared(q) : Cardinality({j \in Prepared(q) : Better(q, j, i)}) < n}

(* Of equal suggestions the first is kept. *)
Kept(q, S) ==
  {i \in S : ~\E j \in S : Ahead(q, j, i) /\ SameSuggestion(q.candidates[j], q.candidates[i])}

Cut(q, K, n) == {i \in K : Cardinality({j \in K : Ahead(q, j, i)}) < n}

Finish(q, S, n) == Cut(q, Kept(q, S), n)

-----------------------------------------------------------------------------
(* rank *)

(* A negative limit is clamped. *)
Wanted(limit) == IF limit < 0 THEN 0 ELSE limit

Init ==
  /\ asked \in Requests
  /\ take = IF asked.limit = NoLimit THEN 0 ELSE Wanted(asked.limit)
  /\ shortlist = {} /\ found = {} /\ done = FALSE

RankAll ==
  /\ ~done /\ asked.limit = NoLimit
  /\ shortlist' = Prepared(asked)
  /\ found' = Kept(asked, Prepared(asked))
  /\ done' = TRUE
  /\ UNCHANGED <<asked, take>>

(* A mistake in Suffices: one shortlist, short or not, is the answer. *)
AlwaysSuffices(q, S, F) == TRUE

Suffices(q, S, F) ==
  Cardinality(F) >= Wanted(q.limit) \/ Cardinality(S) >= Cardinality(Prepared(q))

Grown(q, n) ==
  LET more == IF 4 * n > 1 THEN 4 * n ELSE 1
  IN  IF more < Cardinality(Prepared(q)) THEN more ELSE Cardinality(Prepared(q))

Round ==
  /\ ~done /\ asked.limit # NoLimit
  /\ shortlist' = Shortlist(asked, take)
  /\ found' = Finish(asked, shortlist', Wanted(asked.limit))
  /\ done' = Suffices(asked, shortlist', found')
  /\ take' = IF done' THEN take ELSE Grown(asked, take)
  /\ UNCHANGED asked

Next == RankAll \/ Round
Spec == Init /\ [][Next]_vars

-----------------------------------------------------------------------------

(* Every variable has its type. *)
TypeOK ==
  /\ asked \in Requests
  /\ take \in Nat
  /\ shortlist \subseteq Prepared(asked)
  /\ found \subseteq shortlist
  /\ done \in BOOLEAN

(* What is answered from shortlists is what rendering everything and cutting would have answered,
   ties at the cut, duplicates in the shortlist and a limit of zero or below included. *)
ExactlyTheFullRanking ==
  done => found = IF asked.limit = NoLimit THEN Kept(asked, Prepared(asked))
                  ELSE Finish(asked, Prepared(asked), Wanted(asked.limit))

(* Where two relations share a column name and one may be read, the suggestion that is kept is the
   one that may be accepted, and no suggestion that may not precedes one that may. *)
ReadableFirst ==
  done => \A i \in found : asked.candidates[i].restricted =>
            \A j \in Prepared(asked) : ~asked.candidates[j].restricted =>
              ~SameSuggestion(asked.candidates[i], asked.candidates[j]) /\ ~Ahead(asked, i, j)
=============================================================================
