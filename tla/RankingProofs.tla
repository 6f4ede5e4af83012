---------------------------- MODULE RankingProofs ----------------------------
(***************************************************************************)
(* The shortlist is exact, for any candidates and any limit.  What makes   *)
(* it so is that a shortlist is closed under Ahead: whoever is ahead of a  *)
(* member is one.  So a suggestion kept in it is kept among all, at the    *)
(* same place; and once it yields as many as were wanted, or is            *)
(* everything, nobody outside has a place left.                            *)
(***************************************************************************)
EXTENDS Ranking, FiniteSetTheorems, TLAPS

Closed(q, S) ==
  S \subseteq Prepared(q) /\ \A i \in S : \A j \in Prepared(q) : Ahead(q, j, i) => j \in S

Answer(q) ==
  IF q.limit = NoLimit THEN Kept(q, Prepared(q)) ELSE Finish(q, Prepared(q), Wanted(q.limit))

IInv == TypeOK /\ (done => found = Answer(asked))

-----------------------------------------------------------------------------

(* What is compared is made of integers. *)
LEMMA Comparable ==
  ASSUME NEW q \in Requests, NEW i \in Prepared(q)
  PROVE  /\ i \in Int
         /\ Score(q.candidates[i], q.kinds) \in Int
         /\ q.candidates[i].length \in Int
         /\ q.candidates[i].fold \in Int
         /\ q.candidates[i].restricted \in BOOLEAN
<1>1. q.candidates \in Seq(Candidate) /\ q.kinds \in Seq(STRING) /\ i \in 1 .. Len(q.candidates)
  BY RequestsAssumption DEF Prepared
<1> DEFINE c == q.candidates[i]
<1>2. c \in Candidate
  BY <1>1
<1>3. /\ c.length \in Int /\ c.fold \in Int /\ c.restricted \in BOOLEAN /\ c.local \in BOOLEAN
      /\ c.position \in Nat /\ c.at \in Nat /\ c.match \in DOMAIN Tier
  BY <1>2 DEF Candidate
<1> HIDE DEF c
<1>4. Strength(c) \in Int
  BY <1>3 DEF Strength, Tier
<1>5. KindBonus(c.kind, q.kinds) \in Int
  <2> DEFINE onwards == {l \in DOMAIN q.kinds : \A k \in DOMAIN q.kinds : q.kinds[k] = CountsAs(c.kind, q.kinds) => k <= l}
  <2>1. onwards \in SUBSET (1 .. Len(q.kinds)) /\ Len(q.kinds) \in Nat
    BY <1>1
  <2>2. Cardinality(onwards) \in Nat
    <3>1. IsFiniteSet(1 .. Len(q.kinds))
      BY <2>1, FS_Interval
    <3>2. IsFiniteSet(onwards)
      BY <2>1, <3>1, FS_Subset
    <3>3. QED
      BY <3>2, FS_CardinalityType
  <2> HIDE DEF onwards
  <2>3. QED
    BY <2>2 DEF KindBonus, KindStep, onwards
<1>6. QED
  <2>1. Penalty(c.position) \in Int
    BY <1>3 DEF Penalty, MaxPositionPenalty
  <2>2. Score(c, q.kinds) \in Int
    BY <1>4, <1>5, <2>1 DEF Score, LocalBonus, JoinBonus
  <2>3. QED
    BY <1>1, <1>3, <2>2 DEF c

(* Of two places one is ahead of the other. *)
LEMMA AheadIsTotal ==
  ASSUME NEW q \in Requests, NEW i \in Prepared(q), NEW j \in Prepared(q), i # j
  PROVE  Ahead(q, i, j) \/ Ahead(q, j, i)
BY Comparable DEF Ahead, Better

(* Who is better than somebody ahead of i is better than i. *)
LEMMA BetterThanAhead ==
  ASSUME NEW q \in Requests, NEW i \in Prepared(q), NEW j \in Prepared(q), NEW k \in Prepared(q),
         Better(q, k, j), Ahead(q, j, i)
  PROVE  Better(q, k, i)
BY Comparable DEF Ahead, Better

(* Any set of places is finite. *)
LEMMA PlacesAreFinite ==
  ASSUME NEW q \in Requests, NEW S \in SUBSET Prepared(q)
  PROVE  IsFiniteSet(S) /\ Cardinality(S) \in Nat
<1>1. Prepared(q) \subseteq 1 .. Len(q.candidates) /\ Len(q.candidates) \in Nat
  BY RequestsAssumption DEF Prepared
<1>2. QED
  <2>1. IsFiniteSet(1 .. Len(q.candidates))
    BY <1>1, FS_Interval
  <2>2. IsFiniteSet(S)
    BY <1>1, <2>1, FS_Subset
  <2>3. QED
    BY <2>2, FS_CardinalityType

LEMMA WantedIsNat == ASSUME NEW n \in Int PROVE Wanted(n) \in Nat
BY DEF Wanted

-----------------------------------------------------------------------------

LEMMA ShortlistIsClosed ==
  ASSUME NEW q \in Requests, NEW n \in Nat
  PROVE  Closed(q, Shortlist(q, n))
<1> DEFINE P == Prepared(q)
           Betters(i) == {j \in P : Better(q, j, i)}
<1>1. Shortlist(q, n) \subseteq P
  BY DEF Shortlist
<1>2. ASSUME NEW i \in Shortlist(q, n), NEW j \in P, Ahead(q, j, i) PROVE j \in Shortlist(q, n)
  <2>1. CASE n <= 0 \/ n >= Cardinality(P)
    BY <1>2, <2>1 DEF Shortlist
  <2>2. CASE ~(n <= 0) /\ ~(n >= Cardinality(P))
    <3>1. i \in P /\ Cardinality(Betters(i)) < n
      BY <1>2, <2>2 DEF Shortlist
    <3>2. Betters(j) \in SUBSET Betters(i)
      BY <1>2, <3>1, BetterThanAhead
    <3>3. /\ IsFiniteSet(Betters(i)) /\ Cardinality(Betters(i)) \in Nat
          /\ Cardinality(Betters(j)) \in Nat
      BY PlacesAreFinite
    <3>4. Cardinality(Betters(j)) <= Cardinality(Betters(i))
      BY <3>2, <3>3, FS_Subset
    <3>5. Cardinality(Betters(j)) < n
      BY <3>1, <3>3, <3>4
    <3>6. QED
      BY <1>2, <2>2, <3>5 DEF Shortlist
  <2>3. QED
    BY <2>1, <2>2
<1>3. QED
  BY <1>1, <1>2 DEF Closed

(* What is kept among the members of a closed set is what is kept among all. *)
LEMMA KeptInClosed ==
  ASSUME NEW q \in Requests, NEW S, Closed(q, S)
  PROVE  Kept(q, S) = Kept(q, Prepared(q)) \intersect S
BY DEF Closed, Kept

(* And it has the same place in the order. *)
LEMMA CutInClosed ==
  ASSUME NEW q \in Requests, NEW S, Closed(q, S), NEW n \in Nat
  PROVE  Finish(q, S, n) = Finish(q, Prepared(q), n) \intersect S
<1> DEFINE K == Kept(q, Prepared(q))
           L == Kept(q, S)
<1>1. L = K \intersect S /\ K \subseteq Prepared(q)
  BY KeptInClosed DEF Kept
<1> HIDE DEF K, L
<1>2. ASSUME NEW i \in L PROVE {j \in L : Ahead(q, j, i)} = {j \in K : Ahead(q, j, i)}
  BY <1>1, <1>2 DEF Closed
<1>3. Cut(q, L, n) = Cut(q, K, n) \intersect S
  BY <1>1, <1>2 DEF Cut
<1>4. QED
  BY <1>3 DEF Finish, K, L

(* A closed set that is everything, or has as many as are wanted, yields the answer. *)
LEMMA ClosedAnswers ==
  ASSUME NEW q \in Requests, NEW S, Closed(q, S), NEW n \in Nat,
         Cardinality(Finish(q, S, n)) >= n \/ Cardinality(S) >= Cardinality(Prepared(q))
  PROVE  Finish(q, S, n) = Finish(q, Prepared(q), n)
<1> DEFINE P == Prepared(q)
           F == Finish(q, S, n)
<1>1. S \in SUBSET P /\ P \in SUBSET P
  BY DEF Closed
<1>2. /\ IsFiniteSet(P) /\ Cardinality(P) \in Nat /\ Cardinality(S) \in Nat
  BY <1>1, PlacesAreFinite
<1>3. CASE Cardinality(S) >= Cardinality(P)
  <2>1. Cardinality(S) = Cardinality(P)
    BY <1>1, <1>2, <1>3, FS_Subset
  <2>2. S = P
    BY <1>1, <1>2, <2>1, FS_Subset
  <2>3. QED
    BY <2>2
<1>4. CASE Cardinality(F) >= n
  <2>1. ASSUME NEW i \in Finish(q, P, n), i \notin S PROVE FALSE
    <3> DEFINE Before == {j \in Kept(q, P) : Ahead(q, j, i)}
    <3>1. i \in P /\ Cardinality(Before) < n
      BY <2>1 DEF Finish, Cut, Kept
    <3>2. F \subseteq S /\ F \subseteq Kept(q, P)
      <4>1. F = Finish(q, P, n) \intersect S
        BY CutInClosed
      <4>2. Finish(q, P, n) \subseteq Kept(q, P)
        BY DEF Finish, Cut
      <4>3. QED
        BY <4>1, <4>2
    <3>3. \A j \in S : Ahead(q, j, i)
      BY <1>1, <2>1, <3>1, AheadIsTotal DEF Closed
    <3>4. F \in SUBSET Before
      BY <3>2, <3>3
    <3>5. Before \in SUBSET P
      BY DEF Kept
    <3>6. /\ IsFiniteSet(Before) /\ Cardinality(Before) \in Nat /\ Cardinality(F) \in Nat
      BY <1>1, <3>2, <3>5, PlacesAreFinite
    <3>7. Cardinality(F) <= Cardinality(Before)
      BY <3>4, <3>6, FS_Subset
    <3>8. QED
      BY <1>4, <3>1, <3>6, <3>7
  <2>2. QED
    BY <2>1, CutInClosed
<1>5. QED
  BY <1>3, <1>4

-----------------------------------------------------------------------------

LEMMA InitIInv == Init => IInv
<1> SUFFICES ASSUME Init PROVE IInv
  OBVIOUS
<1>1. take \in Nat
  BY RequestsAssumption, WantedIsNat DEF Init
<1>2. QED
  BY <1>1 DEF Init, IInv, TypeOK

LEMMA NextIInv == IInv /\ [Next]_vars => IInv'
<1> SUFFICES ASSUME IInv, [Next]_vars PROVE IInv'
  OBVIOUS
<1>0. /\ asked \in Requests /\ take \in Nat /\ asked.limit \in Int \union {NoLimit}
  BY RequestsAssumption DEF IInv, TypeOK
<1>1. CASE RankAll
  <2>1. Kept(asked, Prepared(asked)) \subseteq Prepared(asked)
    BY DEF Kept
  <2>2. QED
    BY <1>0, <1>1, <2>1 DEF RankAll, IInv, TypeOK, Answer
<1>2. CASE Round
  <2> DEFINE n == Wanted(asked.limit)
             S == Shortlist(asked, take)
             F == Finish(asked, S, n)
  <2>1. n \in Nat
    BY <1>0, <1>2, WantedIsNat DEF Round
  <2>2. Closed(asked, S)
    BY <1>0, ShortlistIsClosed
  <2>3. S \subseteq Prepared(asked) /\ F \subseteq S
    BY <2>2 DEF Closed, Finish, Cut, Kept
  <2>4. shortlist' = S /\ found' = F /\ asked' = asked
    BY <1>2 DEF Round
  <2>5. done' \in BOOLEAN
    BY <1>2 DEF Round, Suffices
  <2>6. take' \in Nat
    <3>1. Cardinality(Prepared(asked)) \in Nat
      BY <1>0, PlacesAreFinite
    <3>2. QED
      BY <1>0, <1>2, <3>1 DEF Round, Grown
  <2>7. ASSUME done' PROVE F = Answer(asked)
    <3>1. Suffices(asked, S, F)
      BY <1>2, <2>4, <2>7 DEF Round
    <3>2. F = Finish(asked, Prepared(asked), n)
      BY <1>0, <2>1, <2>2, <3>1, ClosedAnswers DEF Suffices
    <3>3. QED
      BY <1>2, <3>2 DEF Round, Answer
  <2> HIDE DEF S, F
  <2>8. TypeOK'
    BY <1>0, <2>3, <2>4, <2>5, <2>6 DEF TypeOK
  <2>9. QED
    BY <2>4, <2>7, <2>8 DEF IInv
<1>3. CASE UNCHANGED vars
  BY <1>3 DEF vars, IInv, TypeOK
<1>4. QED
  BY <1>1, <1>2, <1>3 DEF Next

-----------------------------------------------------------------------------

(* Every variable has its type, whatever rank is called with. *)
THEOREM TypeCorrect == Spec => []TypeOK
<1>1. IInv => TypeOK
  BY DEF IInv
<1>2. QED
  BY <1>1, InitIInv, NextIInv, PTL DEF Spec

(* Rendering a shortlist answers what rendering everything would, for any candidates, kinds and limit. *)
THEOREM ShortlistIsExact == Spec => []ExactlyTheFullRanking
<1>1. IInv => ExactlyTheFullRanking
  BY DEF IInv, ExactlyTheFullRanking, Answer
<1>2. QED
  BY <1>1, InitIInv, NextIInv, PTL DEF Spec

(* Of two candidates that read the same, the one the role may not use is never the one that is kept. *)
THEOREM ReadableIsKept == Spec => []ReadableFirst
<1>1. IInv => ReadableFirst
  <2> SUFFICES ASSUME IInv, done, NEW i \in found, asked.candidates[i].restricted,
                      NEW j \in Prepared(asked), ~asked.candidates[j].restricted
               PROVE  ~SameSuggestion(asked.candidates[i], asked.candidates[j]) /\ ~Ahead(asked, i, j)
    BY DEF ReadableFirst
  <2>1. asked \in Requests /\ i \in Kept(asked, Prepared(asked))
    BY DEF IInv, TypeOK, Answer, Finish, Cut
  <2>2. i \in Prepared(asked) /\ ~(Ahead(asked, j, i) /\ SameSuggestion(asked.candidates[j], asked.candidates[i]))
    BY <2>1 DEF Kept
  <2>3. Better(asked, j, i) /\ ~Better(asked, i, j)
    BY DEF Better
  <2>4. Ahead(asked, j, i) /\ ~Ahead(asked, i, j)
    BY <2>3 DEF Ahead
  <2>5. QED
    BY <2>2, <2>4 DEF SameSuggestion
<1>2. QED
  BY <1>1, InitIInv, NextIInv, PTL DEF Spec

(* No round is in vain: a shortlist that did not suffice is followed by a longer one, so that the
   rounds are no more than there are candidates. *)
THEOREM EveryRoundReachesFurther == Spec => [][Round /\ ~done' => take' > take]_vars
<1>1. IInv /\ [Next]_vars => [Round /\ ~done' => take' > take]_vars
  <2> SUFFICES ASSUME IInv, Round, ~done' PROVE take' > take
    OBVIOUS
  <2> DEFINE p == Cardinality(Prepared(asked))
  <2>1. asked \in Requests /\ take \in Nat /\ p \in Nat
    BY PlacesAreFinite DEF IInv, TypeOK
  <2>2. ~(Cardinality(Shortlist(asked, take)) >= p)
    BY DEF Round, Suffices
  <2>3. take < p
    <3>1. CASE take <= 0
      <4>1. Shortlist(asked, take) = {}
        BY <3>1 DEF Shortlist
      <4>2. p # 0
        BY <2>2, <4>1, FS_EmptySet
      <4>3. QED
        BY <2>1, <3>1, <4>2
    <3>2. CASE ~(take <= 0) /\ take >= p
      <4>1. Shortlist(asked, take) = Prepared(asked)
        BY <3>2 DEF Shortlist
      <4>2. QED
        BY <2>1, <2>2, <4>1
    <3>3. QED
      BY <2>1, <3>1, <3>2
  <2>4. QED
    BY <2>1, <2>3 DEF Round, Grown
<1>2. QED
  BY <1>1, InitIInv, NextIInv, PTL DEF Spec
=============================================================================
