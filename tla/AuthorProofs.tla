---------------------------- MODULE AuthorProofs ----------------------------
(* Proofs about Author: the clause the engine finds at a caret is the one the  *)
(* author is in, for every plan, every choice of names and every statement the *)
(* author can write, however long and however deeply nested.                   *)
(*                                                                             *)
(* The engine scans the group of the caret for the last clause written before  *)
(* it, and where the group has none goes on outwards.  The proof follows the   *)
(* author from left to right.  What is found at a gap is decided by what is    *)
(* written before it, so whatever is added behind leaves it as it was; a piece *)
(* that begins no clause stays under the one before it; the words of a clause  *)
(* take over from it; an opening paren is under the clause around it, and the  *)
(* closing one goes back to it.  Hence Right, which the invariant follows from.*)
EXTENDS Author, FiniteSetTheorems, SequenceTheorems, WellFoundedInduction, TLAPS

-----------------------------------------------------------------------------
(* The table of clauses. *)

(* The clauses a part of the table names. *)
NamesIn(s) == {s[i].name : i \in DOMAIN s}

(* An entry of the table is the clause it is named for. *)
LEMMA ClauseIsNamed ==
  ASSUME NEW n, NEW f
  PROVE  Clause(n, f).name = n
  BY DEF Clause

(* A list that is written out holds what is written. *)
LEMMA Listed2 ==
  ASSUME NEW a, NEW b
  PROVE  <<a, b>> \in Seq({a, b}) /\ Range(<<a, b>>) = {a, b}
  BY DEF Range
(* Likewise of three, *)
LEMMA Listed3 ==
  ASSUME NEW a, NEW b, NEW c
  PROVE  <<a, b, c>> \in Seq({a, b, c}) /\ Range(<<a, b, c>>) = {a, b, c}
  BY DEF Range
(* of four, *)
LEMMA Listed4 ==
  ASSUME NEW a, NEW b, NEW c, NEW d
  PROVE  <<a, b, c, d>> \in Seq({a, b, c, d}) /\ Range(<<a, b, c, d>>) = {a, b, c, d}
  BY DEF Range
(* of five, *)
LEMMA Listed5 ==
  ASSUME NEW a, NEW b, NEW c, NEW d, NEW e
  PROVE  <<a, b, c, d, e>> \in Seq({a, b, c, d, e}) /\ Range(<<a, b, c, d, e>>) = {a, b, c, d, e}
  BY DEF Range
(* of six, *)
LEMMA Listed6 ==
  ASSUME NEW a, NEW b, NEW c, NEW d, NEW e, NEW f
  PROVE  <<a, b, c, d, e, f>> \in Seq({a, b, c, d, e, f}) /\ Range(<<a, b, c, d, e, f>>) = {a, b, c, d, e, f}
  BY DEF Range
(* and of seven. *)
LEMMA Listed7 ==
  ASSUME NEW a, NEW b, NEW c, NEW d, NEW e, NEW f, NEW g
  PROVE  <<a, b, c, d, e, f, g>> \in Seq({a, b, c, d, e, f, g}) /\ Range(<<a, b, c, d, e, f, g>>) = {a, b, c, d, e, f, g}
  BY DEF Range

(* A part of the table holds the clauses it is written with. *)
LEMMA PartsAreLists ==
  /\ QueryClauses \in Seq(Range(QueryClauses)) /\ ManipulationClauses \in Seq(Range(ManipulationClauses))
  /\ JoinClauses \in Seq(Range(JoinClauses)) /\ FilterClauses \in Seq(Range(FilterClauses))
  /\ ShapeClauses \in Seq(Range(ShapeClauses)) /\ AssignmentClauses \in Seq(Range(AssignmentClauses))
  /\ SetClauses \in Seq(Range(SetClauses)) /\ DefinitionClauses \in Seq(Range(DefinitionClauses))
  /\ LateClauses \in Seq(Range(LateClauses))
<1> DEFINE Is(s) == s \in Seq(Range(s))
<1>1. \A a, b : Is(<<a, b>>)
  BY Listed2
<1>2. \A a, b, c : Is(<<a, b, c>>)
  BY Listed3
<1>3. \A a, b, c, d : Is(<<a, b, c, d>>)
  BY Listed4
<1>4. \A a, b, c, d, e : Is(<<a, b, c, d, e>>)
  BY Listed5
<1>5. \A a, b, c, d, e, f : Is(<<a, b, c, d, e, f>>)
  BY Listed6
<1>6. Is(QueryClauses) /\ Is(ManipulationClauses) /\ Is(JoinClauses) /\ Is(FilterClauses) /\ Is(LateClauses)
  <2> HIDE DEF Is
  <2>1. Is(QueryClauses)
    BY <1>2, Zenon DEF QueryClauses
  <2>2. Is(ManipulationClauses)
    BY <1>2, Zenon DEF ManipulationClauses
  <2>3. Is(JoinClauses)
    BY <1>2, Zenon DEF JoinClauses
  <2>4. Is(FilterClauses)
    BY <1>2, Zenon DEF FilterClauses
  <2>5. Is(LateClauses)
    BY <1>2, Zenon DEF LateClauses
  <2>6. QED
    BY <2>1, <2>2, <2>3, <2>4, <2>5
<1>7. Is(ShapeClauses) /\ Is(AssignmentClauses) /\ Is(SetClauses) /\ Is(DefinitionClauses)
  <2> HIDE DEF Is
  <2>1. Is(ShapeClauses)
    BY <1>5, Zenon DEF ShapeClauses
  <2>2. Is(AssignmentClauses)
    BY <1>1, Zenon DEF AssignmentClauses
  <2>3. Is(SetClauses)
    BY <1>3, Zenon DEF SetClauses
  <2>4. Is(DefinitionClauses)
    BY <1>4, Zenon DEF DefinitionClauses
  <2>5. QED
    BY <2>1, <2>2, <2>3, <2>4
<1>8. QED
  BY <1>6, <1>7

(* The entries of the parts the table is put together from. *)
Parts == Range(QueryClauses) \union Range(ManipulationClauses) \union Range(JoinClauses) \union Range(FilterClauses)
         \union Range(ShapeClauses) \union Range(AssignmentClauses) \union Range(SetClauses)
         \union Range(DefinitionClauses) \union Range(LateClauses)

(* The entries of the table are those of its parts. *)
LEMMA EntriesOfAll == Range(AllClauses) = Parts
<1> DEFINE Is(s, R) == s \in Seq(Parts) /\ Range(s) = R
<1>1. \A s, t, R, Q : Is(s, R) /\ Is(t, Q) => Is(s \o t, R \union Q)
  BY RangeConcatenation, ConcatProperties
<1>2. ASSUME NEW s, s \in Seq(Range(s)), Range(s) \subseteq Parts PROVE Is(s, Range(s))
  BY <1>2, SeqMonotonic
<1>3. /\ Is(QueryClauses, Range(QueryClauses)) /\ Is(ManipulationClauses, Range(ManipulationClauses))
      /\ Is(JoinClauses, Range(JoinClauses)) /\ Is(FilterClauses, Range(FilterClauses))
      /\ Is(ShapeClauses, Range(ShapeClauses)) /\ Is(AssignmentClauses, Range(AssignmentClauses))
      /\ Is(SetClauses, Range(SetClauses)) /\ Is(DefinitionClauses, Range(DefinitionClauses))
      /\ Is(LateClauses, Range(LateClauses))
  <2>1. /\ Range(QueryClauses) \subseteq Parts /\ Range(ManipulationClauses) \subseteq Parts
        /\ Range(JoinClauses) \subseteq Parts /\ Range(FilterClauses) \subseteq Parts
        /\ Range(ShapeClauses) \subseteq Parts /\ Range(AssignmentClauses) \subseteq Parts
        /\ Range(SetClauses) \subseteq Parts /\ Range(DefinitionClauses) \subseteq Parts
        /\ Range(LateClauses) \subseteq Parts
    BY DEF Parts
  <2> HIDE DEF Is
  <2>2. QED
    BY <1>2, <2>1, PartsAreLists
<1> HIDE DEF Is
<1>4. Is(AllClauses, Range(QueryClauses) \union Range(ManipulationClauses) \union Range(JoinClauses) \union Range(FilterClauses)
         \union Range(ShapeClauses) \union Range(AssignmentClauses) \union Range(SetClauses)
         \union Range(DefinitionClauses) \union Range(LateClauses))
  BY <1>1, <1>3, Zenon DEF AllClauses
<1>5. QED
  BY <1>4 DEF Is, Parts

(* The clauses each part of the table names. *)
LEMMA NamesOfParts ==
  /\ NamesIn(QueryClauses) = {WITH_, SELECT, FROM}
  /\ NamesIn(ManipulationClauses) = {DELETE_FROM, INSERT_INTO, UPDATE}
  /\ NamesIn(JoinClauses) = {JOIN, ON, USING}
  /\ NamesIn(FilterClauses) = {WHERE, GROUP_BY, HAVING}
  /\ NamesIn(ShapeClauses) = {WINDOW, ORDER_BY, PARTITION_BY, LIMIT, OFFSET, FETCH}
  /\ NamesIn(AssignmentClauses) = {SET, VALUES}
  /\ NamesIn(SetClauses) = {UNION_, INTERSECT, EXCEPT_, EXPLAIN}
  /\ NamesIn(DefinitionClauses) = {DROP_TABLE, DROP_VIEW, TRUNCATE, ALTER_TABLE, CREATE_TABLE}
  /\ NamesIn(LateClauses) = {TABLE, TRUNCATE_TABLE, CALL}
<1>1. NamesIn(QueryClauses) = {WITH_, SELECT, FROM}
  BY ClauseIsNamed DEF NamesIn, QueryClauses
<1>2. NamesIn(ManipulationClauses) = {DELETE_FROM, INSERT_INTO, UPDATE}
  BY ClauseIsNamed DEF NamesIn, ManipulationClauses
<1>3. NamesIn(JoinClauses) = {JOIN, ON, USING}
  BY ClauseIsNamed DEF NamesIn, JoinClauses
<1>4. NamesIn(FilterClauses) = {WHERE, GROUP_BY, HAVING}
  BY ClauseIsNamed DEF NamesIn, FilterClauses
<1>5. NamesIn(ShapeClauses) = {WINDOW, ORDER_BY, PARTITION_BY, LIMIT, OFFSET, FETCH}
  BY ClauseIsNamed DEF NamesIn, ShapeClauses
<1>6. NamesIn(AssignmentClauses) = {SET, VALUES}
  BY ClauseIsNamed DEF NamesIn, AssignmentClauses
<1>7. NamesIn(SetClauses) = {UNION_, INTERSECT, EXCEPT_, EXPLAIN}
  BY ClauseIsNamed DEF NamesIn, SetClauses, SetOperation
<1>8. NamesIn(DefinitionClauses) = {DROP_TABLE, DROP_VIEW, TRUNCATE, ALTER_TABLE, CREATE_TABLE}
  BY ClauseIsNamed DEF NamesIn, DefinitionClauses
<1>9. NamesIn(LateClauses) = {TABLE, TRUNCATE_TABLE, CALL}
  BY ClauseIsNamed DEF NamesIn, LateClauses
<1>10. QED
  BY <1>1, <1>2, <1>3, <1>4, <1>5, <1>6, <1>7, <1>8, <1>9

(* The names of the table: what can be read back as a clause. *)
LEMMA TheNames ==
  ClauseNames = {WITH_, SELECT, FROM, DELETE_FROM, INSERT_INTO, UPDATE, JOIN, ON, USING, WHERE, GROUP_BY, HAVING,
                 WINDOW, ORDER_BY, PARTITION_BY, LIMIT, OFFSET, FETCH, SET, VALUES, UNION_, INTERSECT, EXCEPT_,
                 EXPLAIN, DROP_TABLE, DROP_VIEW, TRUNCATE, ALTER_TABLE, CREATE_TABLE, TABLE, TRUNCATE_TABLE, CALL}
<1>1. ClauseNames = {entry.name : entry \in Range(AllClauses)}
  BY DEF ClauseNames, ByName, Indexed, NamesOf, Range
<1>2. \A s : {entry.name : entry \in Range(s)} = NamesIn(s)
  BY DEF NamesIn, Range
<1>3. ClauseNames = NamesIn(QueryClauses) \union NamesIn(ManipulationClauses) \union NamesIn(JoinClauses)
         \union NamesIn(FilterClauses) \union NamesIn(ShapeClauses) \union NamesIn(AssignmentClauses)
         \union NamesIn(SetClauses) \union NamesIn(DefinitionClauses) \union NamesIn(LateClauses)
  <2>1. ClauseNames = {entry.name : entry \in Parts}
    BY <1>1, EntriesOfAll
  <2>2. \A S, T : {entry.name : entry \in S \union T} = {entry.name : entry \in S} \union {entry.name : entry \in T}
    OBVIOUS
  <2>3. QED
    BY <1>2, <2>1, <2>2 DEF Parts
<1>4. QED
  BY <1>3, NamesOfParts

(* The clauses the author writes, and those among them whose first word a name may be. *)
Used == {SELECT, WITH_, EXPLAIN, UPDATE, DELETE_FROM, INSERT_INTO, TABLE, CREATE_TABLE, FROM, JOIN, ON, USING,
         SET, WHERE, GROUP_BY, HAVING, UNION_, ORDER_BY, LIMIT}
Openers == {EXPLAIN, UPDATE, DELETE_FROM, INSERT_INTO}
(* The words that begin a clause. *)
FirstWords == {name[1] : name \in ClauseNames}

(* The words that can begin a clause, one by one. *)
LEMMA TheFirstWords ==
  FirstWords = {"WITH", "SELECT", "FROM", "DELETE", "INSERT", "UPDATE", "JOIN", "ON", "USING", "WHERE", "GROUP", "HAVING",
                "WINDOW", "ORDER", "PARTITION", "LIMIT", "OFFSET", "FETCH", "SET", "VALUES", "UNION", "INTERSECT", "EXCEPT",
                "EXPLAIN", "DROP", "TRUNCATE", "ALTER", "CREATE", "TABLE", "CALL"}
<1>1. /\ WITH_[1] = "WITH" /\ SELECT[1] = "SELECT" /\ FROM[1] = "FROM" /\ DELETE_FROM[1] = "DELETE"
      /\ INSERT_INTO[1] = "INSERT" /\ UPDATE[1] = "UPDATE" /\ JOIN[1] = "JOIN" /\ ON[1] = "ON" /\ USING[1] = "USING"
      /\ WHERE[1] = "WHERE" /\ GROUP_BY[1] = "GROUP" /\ HAVING[1] = "HAVING" /\ WINDOW[1] = "WINDOW"
      /\ ORDER_BY[1] = "ORDER" /\ PARTITION_BY[1] = "PARTITION" /\ LIMIT[1] = "LIMIT" /\ OFFSET[1] = "OFFSET"
      /\ FETCH[1] = "FETCH" /\ SET[1] = "SET" /\ VALUES[1] = "VALUES" /\ UNION_[1] = "UNION"
      /\ INTERSECT[1] = "INTERSECT" /\ EXCEPT_[1] = "EXCEPT" /\ EXPLAIN[1] = "EXPLAIN" /\ DROP_TABLE[1] = "DROP"
      /\ DROP_VIEW[1] = "DROP" /\ TRUNCATE[1] = "TRUNCATE" /\ ALTER_TABLE[1] = "ALTER" /\ CREATE_TABLE[1] = "CREATE"
      /\ TABLE[1] = "TABLE" /\ TRUNCATE_TABLE[1] = "TRUNCATE" /\ CALL[1] = "CALL"
  BY DEF WITH_, SELECT, FROM, DELETE_FROM, INSERT_INTO, UPDATE, JOIN, ON, USING, WHERE, GROUP_BY, HAVING, WINDOW, ORDER_BY,
         PARTITION_BY, LIMIT, OFFSET, FETCH, SET, VALUES, UNION_, INTERSECT, EXCEPT_, EXPLAIN, DROP_TABLE, DROP_VIEW,
         TRUNCATE, ALTER_TABLE, CREATE_TABLE, TABLE, TRUNCATE_TABLE, CALL, P
<1>2. QED
  BY <1>1, TheNames, SMTT(60) DEF FirstWords

(* One word or two, and no other clause begins with the first of them. *)
LEMMA UsedAreTold ==
  ASSUME NEW clause \in Used
  PROVE  /\ clause \in ClauseNames
         /\ clause # <<>>
         /\ Len(clause) \in {1, 2} /\ DOMAIN clause = 1 .. Len(clause)
         /\ \A name \in ClauseNames : name[1] = clause[1] => name = clause
         /\ clause[1] # ""
         /\ Len(clause) = 2 => clause[2] \notin FirstWords \/ clause[2] \in {"FROM", "TABLE"}
<1> USE DEF Used
<1>1. clause \in ClauseNames
  BY TheNames
<1> DEFINE Fine(p) == p # <<>> /\ Len(p) \in {1, 2} /\ DOMAIN p = 1 .. Len(p) /\ p[1] # ""
<1>2. Fine(clause)
  <2>1. ASSUME NEW v, NEW w, v # "" PROVE Fine(<<v>>) /\ Fine(<<v, w>>)
    <3>1. Len(<<v>>) = 1 /\ Len(<<v, w>>) = 2 /\ Len(<<>>) = 0
      OBVIOUS
    <3>2. <<v>> # <<>> /\ <<v, w>> # <<>>
      BY <3>1
    <3>3. DOMAIN <<v>> = 1 .. 1 /\ DOMAIN <<v, w>> = 1 .. 2
      OBVIOUS
    <3>4. <<v>>[1] = v /\ <<v, w>>[1] = v
      OBVIOUS
    <3>5. QED
      BY <2>1, <3>1, <3>2, <3>3, <3>4
  <2>2. \E v, w : v # "" /\ clause \in {<<v>>, <<v, w>>}
    BY DEF WITH_, SELECT, FROM, DELETE_FROM, INSERT_INTO, UPDATE, JOIN, ON, USING, WHERE, GROUP_BY, HAVING, ORDER_BY,
         LIMIT, SET, UNION_, EXPLAIN, CREATE_TABLE, TABLE, P
  <2> HIDE DEF Fine
  <2>3. QED
    BY <2>1, <2>2
<1>3. Len(clause) = 2 => clause[2] \notin FirstWords \/ clause[2] \in {"FROM", "TABLE"}
  BY TheFirstWords DEF WITH_, SELECT, FROM, DELETE_FROM, INSERT_INTO, UPDATE, JOIN, ON, USING, WHERE, GROUP_BY, HAVING, ORDER_BY,
         LIMIT, SET, UNION_, EXPLAIN, CREATE_TABLE, TABLE, P
<1>4. ASSUME NEW name \in ClauseNames, name[1] = clause[1] PROVE name = clause
  BY <1>4, TheNames, SMTT(60) DEF WITH_, SELECT, FROM, DELETE_FROM, INSERT_INTO, UPDATE, JOIN, ON, USING, WHERE, GROUP_BY, HAVING, WINDOW, ORDER_BY,
         PARTITION_BY, LIMIT, OFFSET, FETCH, SET, VALUES, UNION_, INTERSECT, EXCEPT_, EXPLAIN, DROP_TABLE, DROP_VIEW,
         TRUNCATE, ALTER_TABLE, CREATE_TABLE, TABLE, TRUNCATE_TABLE, CALL, P
<1>5. QED
  BY <1>1, <1>2, <1>3, <1>4

(* Words the author writes that begin no clause. *)
Quiet == {"c", "f", "y", "int", "t1", "CAST", "CASE", "WHEN", "THEN", "END", "AS", "ALL", "DESC", "DISTINCT", "IS", "NULL",
          "IN", "AND", "NOT", "LATERAL"}

(* A name is no word that begins a clause: those are keywords, and names are none (NamesAssumption). *)
LEMMA NamesAreQuiet == (Quiet \union Names) \intersect FirstWords = {}
<1>1. Quiet \intersect FirstWords = {}
  BY TheFirstWords DEF Quiet
<1>2. FirstWords \subseteq Keywords
  <2> SUFFICES ASSUME NEW name \in ClauseNames PROVE name[1] \in Keywords
    BY DEF FirstWords
  <2>1. PICK entry \in Range(AllClauses) : entry.name = name
    BY DEF ClauseNames, ByName, Indexed, NamesOf, Range
  <2>2. 1 \in DOMAIN name
    BY TheNames DEF WITH_, SELECT, FROM, DELETE_FROM, INSERT_INTO, UPDATE, JOIN, ON, USING, WHERE, GROUP_BY, HAVING, WINDOW, ORDER_BY,
         PARTITION_BY, LIMIT, OFFSET, FETCH, SET, VALUES, UNION_, INTERSECT, EXCEPT_, EXPLAIN, DROP_TABLE, DROP_VIEW,
         TRUNCATE, ALTER_TABLE, CREATE_TABLE, TABLE, TRUNCATE_TABLE, CALL, P
  <2>3. name[1] \in Range(name)
    BY <2>2 DEF Range
  <2>4. name \in PhrasesOf(entry) \union Range(entry.afterOperand) \union Range(entry.opensAGroup)
           \union Range(entry.definesColumns) \union Range(entry.beforeTheItem)
    BY <2>1 DEF PhrasesOf
  <2>5. name[1] \in Spoken
    BY <2>1, <2>3, <2>4 DEF Spoken
  <2>6. QED
    BY <2>5 DEF Keywords
<1>3. QED
  BY <1>1, <1>2, NamesAssumption

(* A clause that opens no statement, or whose first word is reserved, reads as a clause anywhere. *)
LEMMA OthersAreNoNames ==
  ASSUME NEW clause \in Used \ Openers
  PROVE  ~CanBeAName(clause)
<1>1. clause # SET => clause[1] \in ReservedUpper
  BY DEF Used, Openers, ReservedUpper, WITH_, SELECT, FROM, DELETE_FROM, INSERT_INTO, UPDATE, JOIN, ON, USING, WHERE, GROUP_BY,
         HAVING, ORDER_BY, LIMIT, SET, UNION_, EXPLAIN, CREATE_TABLE, TABLE, P
<1>2. SET \notin Range(StatementStart)
  <2> DEFINE others == << DROP_TABLE, DROP_VIEW, TRUNCATE, ALTER_TABLE, CALL, CREATE_TABLE, TABLE >>
             S == Range(Explainable) \union Range(others)
  <2>1. Explainable \in Seq(Range(Explainable)) /\ Range(Explainable) = {SELECT, WITH_, INSERT_INTO, UPDATE, DELETE_FROM}
    <3>1. /\ Explainable \in Seq({SELECT, WITH_, INSERT_INTO, UPDATE, DELETE_FROM})
          /\ Range(Explainable) = {SELECT, WITH_, INSERT_INTO, UPDATE, DELETE_FROM}
      BY Listed5 DEF Explainable
    <3>2. QED
      BY <3>1, Zenon
  <2>2. others \in Seq(Range(others)) /\ Range(others) = {DROP_TABLE, DROP_VIEW, TRUNCATE, ALTER_TABLE, CALL, CREATE_TABLE, TABLE}
    <3>1. /\ others \in Seq({DROP_TABLE, DROP_VIEW, TRUNCATE, ALTER_TABLE, CALL, CREATE_TABLE, TABLE})
          /\ Range(others) = {DROP_TABLE, DROP_VIEW, TRUNCATE, ALTER_TABLE, CALL, CREATE_TABLE, TABLE}
      BY Listed7
    <3> HIDE DEF others
    <3>2. QED
      BY <3>1, Zenon
  <2> HIDE DEF others
  <2>3. Explainable \in Seq(S) /\ others \in Seq(S)
    BY <2>1, <2>2, SeqMonotonic
  <2>4. Range(Explainable \o others) = Range(Explainable) \union Range(others)
    BY <2>3, RangeConcatenation
  <2>5. StatementStart = Explainable \o others
    BY DEF StatementStart, others
  <2>6. SET[1] \notin {name[1] : name \in Range(StatementStart)}
    BY <2>1, <2>2, <2>4, <2>5 DEF SELECT, WITH_, INSERT_INTO, UPDATE, DELETE_FROM, DROP_TABLE, DROP_VIEW, TRUNCATE, ALTER_TABLE, CALL,
       CREATE_TABLE, TABLE, SET, P
  <2>7. QED
    BY <2>6
<1>3. QED
  BY <1>1, <1>2 DEF CanBeAName

(* What EXPLAIN explains reads as a clause behind it. *)
LEMMA ExplainedRead ==
  ASSUME NEW clause \in Range(Explainable)
  PROVE  ReadsAsAClause(clause, EXPLAIN)
<1>1. ASSUME NEW entry \in Range(AllClauses), entry.name = EXPLAIN PROVE entry.followedBy = Explainable
  <2>1. PICK s \in {QueryClauses, ManipulationClauses, JoinClauses, FilterClauses, ShapeClauses, AssignmentClauses, SetClauses,
                    DefinitionClauses, LateClauses} : entry \in Range(s)
    BY EntriesOfAll DEF Parts
  <2>2. EXPLAIN \in NamesIn(s)
    BY <1>1, <2>1 DEF NamesIn, Range
  <2>3. s = SetClauses
    <3>1. EXPLAIN \notin NamesIn(QueryClauses) \union NamesIn(ManipulationClauses) \union NamesIn(JoinClauses)
         \union NamesIn(FilterClauses) \union NamesIn(ShapeClauses) \union NamesIn(AssignmentClauses)
         \union NamesIn(DefinitionClauses) \union NamesIn(LateClauses)
      BY NamesOfParts, SMTT(60) DEF WITH_, SELECT, FROM, DELETE_FROM, INSERT_INTO, UPDATE, JOIN, ON, USING, WHERE, GROUP_BY, HAVING, WINDOW, ORDER_BY,
         PARTITION_BY, LIMIT, OFFSET, FETCH, SET, VALUES, EXPLAIN, DROP_TABLE, DROP_VIEW,
         TRUNCATE, ALTER_TABLE, CREATE_TABLE, TABLE, TRUNCATE_TABLE, CALL, P
    <3>2. QED
      BY <2>1, <2>2, <3>1
  <2> DEFINE last == Clause(EXPLAIN, [suggests |-> <<"SNIPPET", "KEYWORD">>, followedBy |-> Explainable])
  <2>4. last.followedBy = Explainable
    BY DEF Clause, NoFields
  <2>5. Range(SetClauses) = {SetOperation(UNION_), SetOperation(INTERSECT), SetOperation(EXCEPT_), last}
    BY Listed4, Zenon DEF SetClauses
  <2>6. SetOperation(UNION_).name = UNION_ /\ SetOperation(INTERSECT).name = INTERSECT /\ SetOperation(EXCEPT_).name = EXCEPT_
    BY ClauseIsNamed DEF SetOperation
  <2>7. EXPLAIN \notin {UNION_, INTERSECT, EXCEPT_}
    BY DEF UNION_, INTERSECT, EXCEPT_, EXPLAIN, P
  <2> HIDE DEF last
  <2>8. QED
    BY <1>1, <2>1, <2>3, <2>4, <2>5, <2>6, <2>7
<1>2. EXPLAIN \in ClauseNames
  BY TheNames
<1>3. Get(EXPLAIN) \in Range(AllClauses) /\ Get(EXPLAIN).name = EXPLAIN
  <2>1. \E i \in DOMAIN AllClauses : AllClauses[i].name = EXPLAIN
    BY <1>2 DEF ClauseNames, ByName, Indexed, NamesOf, Range
  <2>2. Get(EXPLAIN) = AllClauses[CHOOSE i \in DOMAIN AllClauses : AllClauses[i].name = EXPLAIN]
    BY <1>2 DEF Get, LookedUp, ClauseNames, ByName, Indexed
  <2>3. QED
    BY <2>1, <2>2 DEF Range
<1>4. Get(EXPLAIN).followedBy = Explainable
  BY <1>1, <1>3
<1>5. \A word : Admits(word, <<>>, {})
  BY DEF Admits, Fits
<1>6. clause \in Continuations(EXPLAIN, <<>>, {})
  BY <1>2, <1>4, <1>5, Zenon DEF Continuations, ContinuationsOf, IsClause
<1>7. QED
  BY <1>6 DEF ReadsAsAClause

(* A set of numbers that is not empty has a least one. *)
LEMMA Least ==
  ASSUME NEW T \in SUBSET Nat, T # {}
  PROVE  \E x \in T : \A y \in T : x <= y
<1> DEFINE R == OpToRel(<, Nat)
<1>1. IsWellFoundedOn(R, Nat)
  BY NatLessThanWellFounded, Zenon
<1>2. \A x, y \in Nat : y < x => <<y, x>> \in R
  BY DEF OpToRel
<1> HIDE DEF R
<1>3. PICK x \in T : \A y \in T : ~(<<y, x>> \in R)
  BY <1>1, WFMin
<1>4. x \in Nat /\ \A y \in T : y \in Nat
  OBVIOUS
<1>5. \A y \in T : ~(y < x)
  BY <1>2, <1>3, <1>4
<1>6. QED
  BY <1>3, <1>4, <1>5

(* Induction up to a bound, said of the set of numbers that have a property. *)
LEMMA UpTo ==
  ASSUME NEW n \in Nat, NEW T, 0 \in T,
         \A i \in 1 .. n : i - 1 \in T => i \in T
  PROVE  0 .. n \subseteq T
<1> DEFINE Missing == {i \in 0 .. n : i \notin T}
<1>1. SUFFICES ASSUME Missing # {} PROVE FALSE
  OBVIOUS
<1>2. PICK m \in Missing : \A i \in Missing : m <= i
  <2>1. Missing \in SUBSET Nat
    OBVIOUS
  <2> HIDE DEF Missing
  <2>2. QED
    BY <1>1, <2>1, Least
<1>3. m \in 1 .. n /\ m - 1 \in 0 .. n
  BY <1>2
<1>4. m - 1 \in T
  BY <1>2, <1>3
<1>5. QED
  BY <1>2, <1>3, <1>4

-----------------------------------------------------------------------------
(* Texts, and where a clause is read in them. *)

(* Tokens as the author writes them: of these kinds, spelled with these words and marks. *)
Kinds == {"word", "op", "punct", "number", "open string"}
Spellings == Quiet \union Names \union (UNION {Range(clause) : clause \in Used}) \union {",", ".", "(", ")", "*", "=", "1", "q"}
Token == [t : Kinds, v : Spellings, d : Nat, s : BOOLEAN]

(* The clause name is written at i, to its end. *)
HeadAt(ts, i, clause) ==
  /\ i + Len(clause) - 1 <= Len(ts)
  /\ \A k \in DOMAIN clause : ts[i + k - 1].t = "word" /\ ts[i + k - 1].v = clause[k]
(* A text in which a word that could begin a clause does begin one of those the author writes, in full. *)
Headed(ts) == \A i \in DOMAIN ts : PlainWord(ts, i) \in FirstWords => \E clause \in Used : HeadAt(ts, i, clause)
Written(ts) == ts \in Seq(Token) /\ Headed(ts) /\ \A i \in DOMAIN ts : ~Mark(ts, i, ";")

(* The clause that is read at a token, and a text that begins with another. *)
Starts(ts, i) == ClauseStartingAt(ts, i, Len(ts))
Extends(us, ts) == Len(ts) <= Len(us) /\ \A i \in 1 .. Len(ts) : us[i] = ts[i]

(* Under a word the table keeps the clauses that begin with it. *)
LEMMA FirstWordsAreKeys ==
  \A word : NamesUnder(word, NamesByFirstWord) = {name \in ClauseNames : name[1] = word}
<1>1. DOMAIN NamesByFirstWord = FirstWords
  BY DEF NamesByFirstWord, ByFirstWord, FirstWords
<1>2. \A word \in FirstWords : NamesByFirstWord[word] = {name \in ClauseNames : name[1] = word}
  BY DEF NamesByFirstWord, ByFirstWord, FirstWords
<1>3. \A word : word \notin FirstWords => {name \in ClauseNames : name[1] = word} = {}
  BY DEF FirstWords
<1>4. QED
  BY <1>1, <1>2, <1>3 DEF NamesUnder

(* A head is read as its clause. *)
LEMMA StartsAHead ==
  ASSUME NEW ts \in Seq(Token), NEW i \in 1 .. Len(ts), NEW clause \in Used, HeadAt(ts, i, clause)
  PROVE  Starts(ts, i) = clause
<1>1. Len(ts) \in Nat /\ DOMAIN ts = 1 .. Len(ts)
  BY LenProperties
<1>2. /\ Len(clause) \in {1, 2} /\ DOMAIN clause = 1 .. Len(clause) /\ clause \in ClauseNames
      /\ \A name \in ClauseNames : name[1] = clause[1] => name = clause
  BY UsedAreTold
<1>3. PlainWord(ts, i) = clause[1]
  <2>1. 1 \in DOMAIN clause /\ i + 1 - 1 = i
    BY <1>2
  <2>2. ts[i].t = "word" /\ ts[i].v = clause[1]
    BY <2>1, Zenon DEF HeadAt
  <2>3. QED
    BY <1>1, <2>2 DEF PlainWord
<1>4. NamesUnder(PlainWord(ts, i), NamesByFirstWord) = {clause}
  BY <1>2, <1>3, FirstWordsAreKeys
<1>5. IdentRun(ts, i, Len(ts), Len(clause))
  <2>1. ASSUME NEW j \in i .. i + Len(clause) - 1 PROVE ts[j].t = "word"
    <3>1. j - i + 1 \in DOMAIN clause /\ i + (j - i + 1) - 1 = j
      BY <1>1, <1>2
    <3>2. QED
      BY <3>1 DEF HeadAt
  <2>2. QED
    BY <2>1 DEF IdentRun, HeadAt
<1>6. \A k \in DOMAIN clause : ts[i + k - 1].v = clause[k]
  BY DEF HeadAt
<1> DEFINE read == {n \in NamesUnder(PlainWord(ts, i), NamesByFirstWord) :
                      IdentRun(ts, i, Len(ts), Len(n)) /\ \A k \in DOMAIN n : ts[i + k - 1].v = n[k]}
<1>7. read = {clause}
  BY <1>4, <1>5, <1>6
<1>8. Longest({clause}) = clause
  BY <1>2 DEF Longest
<1>9. Starts(ts, i) = Longest(read)
  BY DEF Starts, ClauseStartingAt
<1> HIDE DEF read
<1>10. QED
  BY <1>7, <1>8, <1>9

(* A word that begins no clause, or no word at all, is read as none. *)
LEMMA StartsNone ==
  ASSUME NEW ts, NEW i, PlainWord(ts, i) \notin FirstWords
  PROVE  Starts(ts, i) = <<>>
<1>1. {name \in ClauseNames : name[1] = PlainWord(ts, i)} = {}
  BY DEF FirstWords
<1>2. NamesUnder(PlainWord(ts, i), NamesByFirstWord) = {}
  BY <1>1, FirstWordsAreKeys
<1>3. QED
  BY <1>2 DEF Starts, ClauseStartingAt, Longest

(* Nothing else is read. *)
LEMMA StartsUsed ==
  ASSUME NEW ts, Written(ts), NEW i \in 1 .. Len(ts), Starts(ts, i) # <<>>
  PROVE  Starts(ts, i) \in Used /\ HeadAt(ts, i, Starts(ts, i))
<1>1. ts \in Seq(Token) /\ DOMAIN ts = 1 .. Len(ts)
  BY LenProperties DEF Written
<1>2. PICK clause \in Used : HeadAt(ts, i, clause)
  BY <1>1, StartsNone DEF Written, Headed
<1>3. QED
  BY <1>1, <1>2, StartsAHead

(* What is written later changes nothing of what is read. *)
LEMMA StartsKept ==
  ASSUME NEW ts, NEW us \in Seq(Token), Written(ts), Extends(us, ts), NEW i \in 1 .. Len(ts)
  PROVE  Starts(us, i) = Starts(ts, i)
<1>1. ts \in Seq(Token) /\ DOMAIN ts = 1 .. Len(ts) /\ Len(ts) \in Nat /\ Len(us) \in Nat /\ DOMAIN us = 1 .. Len(us)
  BY LenProperties DEF Written
<1>2. PlainWord(us, i) = PlainWord(ts, i) /\ i \in 1 .. Len(us)
  <2>1. us[i] = ts[i] /\ i \in 1 .. Len(us)
    BY <1>1 DEF Extends
  <2>2. QED
    BY <1>1, <2>1 DEF PlainWord
<1>3. CASE PlainWord(ts, i) \notin FirstWords
  BY <1>2, <1>3, StartsNone
<1>4. CASE PlainWord(ts, i) \in FirstWords
  <2>1. PICK clause \in Used : HeadAt(ts, i, clause)
    BY <1>1, <1>4 DEF Written, Headed
  <2>2. Len(clause) \in {1, 2} /\ DOMAIN clause = 1 .. Len(clause)
    BY UsedAreTold
  <2>3. HeadAt(us, i, clause)
    BY <1>1, <2>1, <2>2 DEF HeadAt, Extends
  <2>4. QED
    BY <1>1, <1>2, <2>1, <2>3, StartsAHead
<1>5. QED
  BY <1>3, <1>4

-----------------------------------------------------------------------------
(* The scan for the clause of a group. *)

(* One step of the scan: what the last clause is at i, from what it was before. *)
NoClause == [name |-> <<>>, end |-> 0]
BestStep(ts, lo, hi, c, depth, best, i) ==
  IF i < lo THEN NoClause
  ELSE IF ts[i].d = depth THEN Passing(ClauseStartingAt(ts, i, hi), i, best[i - 1], c) ELSE best[i - 1]

(* The scan is a recursive function: each step is as it is written. *)
LEMMA BestIsDefined ==
  ASSUME NEW ts, Len(ts) \in Nat, NEW lo \in Nat \ {0}, NEW hi, NEW c, NEW depth
  PROVE  \A i \in 0 .. Len(ts) : BestOf(ts, lo, hi, c, depth)[i] =
                                 BestStep(ts, lo, hi, c, depth, BestOf(ts, lo, hi, c, depth), i)
<1> DEFINE Step(F, i) == BestStep(ts, lo, hi, c, depth, F, i)
           Defined == {n \in 0 .. Len(ts) : \E F : F = [i \in 0 .. n |-> Step(F, i)]}
<1>1. 0 \in Defined
  <2> DEFINE F == [i \in 0 .. 0 |-> NoClause]
  <2>1. F = [i \in 0 .. 0 |-> Step(F, i)]
    BY DEF BestStep
  <2>2. QED
    BY <2>1
<1>2. ASSUME NEW n \in 1 .. Len(ts), n - 1 \in Defined PROVE n \in Defined
  <2>1. PICK F : F = [i \in 0 .. n - 1 |-> Step(F, i)]
    BY <1>2
  <2> DEFINE G == [i \in 0 .. n |-> IF i = n THEN Step(F, n) ELSE F[i]]
  <2>2. ASSUME NEW i \in 0 .. n PROVE G[i] = Step(G, i)
    <3>1. CASE i = n
      BY <3>1 DEF BestStep
    <3>2. CASE i # n
      <4>1. i \in 0 .. n - 1
        BY <3>2
      <4>2. G[i] = Step(F, i)
        BY <2>1, <3>2, <4>1
      <4>3. i # 0 => G[i - 1] = F[i - 1]
        BY <4>1
      <4>4. QED
        BY <4>2, <4>3 DEF BestStep
    <3>3. QED
      BY <3>1, <3>2
  <2>3. G = [i \in 0 .. n |-> Step(G, i)]
    <3> HIDE DEF Step
    <3>1. QED
      BY <2>2
  <2>4. \E H : H = [i \in 0 .. n |-> Step(H, i)]
    <3> HIDE DEF G, Step
    <3>1. QED
      BY <2>3
  <2>5. QED
    BY <2>4
<1>3. Len(ts) \in Defined
  <2> HIDE DEF Defined
  <2>1. 0 .. Len(ts) \subseteq Defined
    BY <1>1, <1>2, UpTo
  <2>2. QED
    BY <2>1
<1>4. BestOf(ts, lo, hi, c, depth) = [i \in 0 .. Len(ts) |-> Step(BestOf(ts, lo, hi, c, depth), i)]
  BY <1>3 DEF BestOf, BestStep, NoClause
<1> DEFINE B == BestOf(ts, lo, hi, c, depth)
<1> HIDE DEF B
<1>5. \A i \in 0 .. Len(ts) : B[i] = Step(B, i)
  BY <1>4 DEF B
<1>6. QED
  BY <1>5 DEF B

(* Likewise the search outwards. *)
FromStep(ts, st, c, from, depth) ==
  IF depth < 0 THEN <<>> ELSE FirstOf(ClauseInGroup(ts, st, c, depth), from[depth - 1])

(* Each step outwards is as it is written. *)
LEMMA FromIsDefined ==
  ASSUME NEW ts, NEW st, NEW c, DepthAt(ts, c) \in Nat
  PROVE  \A depth \in -1 .. DepthAt(ts, c) : ClauseFrom(ts, st, c)[depth] = FromStep(ts, st, c, ClauseFrom(ts, st, c), depth)
<1> DEFINE top == DepthAt(ts, c)
           Step(F, i) == FromStep(ts, st, c, F, i)
           Defined == {n \in 0 .. top + 1 : \E F : F = [i \in -1 .. n - 1 |-> Step(F, i)]}
<1> HIDE DEF top
<1>0. top \in Nat
  BY DEF top
<1>1. 0 \in Defined
  <2> DEFINE F == [i \in -1 .. -1 |-> <<>>]
  <2>1. F = [i \in -1 .. -1 |-> Step(F, i)]
    BY DEF FromStep
  <2>2. QED
    BY <1>0, <2>1
<1>2. ASSUME NEW n \in 1 .. top + 1, n - 1 \in Defined PROVE n \in Defined
  <2>1. PICK F : F = [i \in -1 .. n - 2 |-> Step(F, i)]
    BY <1>0, <1>2
  <2> DEFINE G == [i \in -1 .. n - 1 |-> IF i = n - 1 THEN Step(F, i) ELSE F[i]]
  <2>2. ASSUME NEW i \in -1 .. n - 1 PROVE G[i] = Step(G, i)
    <3>1. CASE i = n - 1
      <4>1. G[i] = Step(F, i) /\ G[i - 1] = F[i - 1] /\ ~(i < 0)
        BY <1>0, <3>1
      <4>2. QED
        BY <4>1 DEF FromStep
    <3>2. CASE i # n - 1
      <4>1. i \in -1 .. n - 2
        BY <1>0, <3>2
      <4>2. G[i] = Step(F, i)
        BY <2>1, <3>2, <4>1
      <4>3. ~(i < 0) => G[i - 1] = F[i - 1]
        BY <1>0, <4>1
      <4>4. QED
        BY <4>2, <4>3 DEF FromStep
    <3>3. QED
      BY <3>1, <3>2
  <2>3. G = [i \in -1 .. n - 1 |-> Step(G, i)]
    <3> HIDE DEF Step
    <3>1. QED
      BY <2>2
  <2>4. \E H : H = [i \in -1 .. n - 1 |-> Step(H, i)]
    <3> HIDE DEF G, Step
    <3>1. QED
      BY <2>3
  <2>5. QED
    BY <2>4
<1>3. top + 1 \in Defined
  <2> HIDE DEF Defined
  <2>1. 0 .. top + 1 \subseteq Defined
    BY <1>0, <1>1, <1>2, UpTo
  <2>2. QED
    BY <1>0, <2>1
<1>4. \E F : F = [i \in -1 .. top |-> Step(F, i)]
  <2>1. \A n \in Defined : \E F : F = [i \in -1 .. n - 1 |-> Step(F, i)]
    OBVIOUS
  <2>2. \A n \in Defined : n = top + 1 => n - 1 = top
    BY <1>0
  <2> HIDE DEF Defined, Step
  <2>3. \A n \in Defined : n = top + 1 => \E F : F = [i \in -1 .. top |-> Step(F, i)]
    BY <2>1, <2>2
  <2>4. QED
    BY <1>3, <2>3
<1>5. ClauseFrom(ts, st, c) = [i \in -1 .. top |-> Step(ClauseFrom(ts, st, c), i)]
  BY <1>4 DEF ClauseFrom, FromStep, top
<1> DEFINE B == ClauseFrom(ts, st, c)
<1> HIDE DEF B
<1>6. \A i \in -1 .. top : B[i] = Step(B, i)
  BY <1>5 DEF B
<1>7. QED
  BY <1>6 DEF B, top

(* A caret, and all of a text as one statement. *)
Caret == [at : Nat, on : BOOLEAN]
Whole(ts) == [lo |-> 1, hi |-> Len(ts)]
(* The scan of all of a text for what governs a caret at one depth. *)
BestIn(ts, lo, c, depth) == BestOf(ts, lo, Len(ts), c, depth)
(* A token that the scan at a depth passes over. *)
Silent(ts, c, depth, i) ==
  \/ ts[i].d # depth
  \/ Starts(ts, i) = <<>>
  \/ ~EndsBefore(c, i + Len(Starts(ts, i)) - 1)

(* The scan at a token: before the group nothing, at its depth what passes there, elsewhere what was before. *)
LEMMA BestAtEach ==
  ASSUME NEW ts, Len(ts) \in Nat, NEW lo \in Nat \ {0}, NEW c, NEW depth, NEW i \in 0 .. Len(ts)
  PROVE  BestIn(ts, lo, c, depth)[i] =
           IF i < lo THEN NoClause
           ELSE IF ts[i].d = depth THEN Passing(Starts(ts, i), i, BestIn(ts, lo, c, depth)[i - 1], c)
           ELSE BestIn(ts, lo, c, depth)[i - 1]
<1>1. BestOf(ts, lo, Len(ts), c, depth)[i] = BestStep(ts, lo, Len(ts), c, depth, BestOf(ts, lo, Len(ts), c, depth), i)
  BY BestIsDefined
<1>2. QED
  BY <1>1, Zenon DEF BestIn, BestStep, Starts

(* What the scan carries is a clause that is written out, or none. *)
LEMMA BestType ==
  ASSUME NEW ts, Written(ts), NEW lo \in Nat \ {0}, NEW c, NEW depth
  PROVE  \A i \in 0 .. Len(ts) : /\ BestIn(ts, lo, c, depth)[i].name \in Used \union {<<>>}
                                 /\ BestIn(ts, lo, c, depth)[i].end \in 0 .. Len(ts)
<1> DEFINE B == BestIn(ts, lo, c, depth)
           T == {i \in 0 .. Len(ts) : B[i].name \in Used \union {<<>>} /\ B[i].end \in 0 .. Len(ts)}
<1>1. Len(ts) \in Nat
  BY LenProperties DEF Written
<1>2. \A i \in 0 .. Len(ts) : B[i] = IF i < lo THEN NoClause
                                     ELSE IF ts[i].d = depth THEN Passing(Starts(ts, i), i, B[i - 1], c) ELSE B[i - 1]
  BY <1>1, BestAtEach
<1> HIDE DEF B
<1>3. NoClause.name = <<>> /\ NoClause.end = 0
  BY DEF NoClause
<1>4. 0 \in T
  BY <1>1, <1>2, <1>3
<1>5. ASSUME NEW i \in 1 .. Len(ts), i - 1 \in T PROVE i \in T
  <2>1. i \in 0 .. Len(ts)
    BY <1>1
  <2>2. CASE B[i] = NoClause
    BY <1>1, <1>3, <2>1, <2>2
  <2>3. CASE B[i] = B[i - 1]
    BY <1>5, <2>1, <2>3
  <2>4. CASE Starts(ts, i) # <<>> /\ B[i] = [name |-> Starts(ts, i), end |-> i + Len(Starts(ts, i)) - 1]
    <3>1. Starts(ts, i) \in Used /\ HeadAt(ts, i, Starts(ts, i))
      BY <2>4, StartsUsed
    <3>2. Len(Starts(ts, i)) \in {1, 2} /\ i + Len(Starts(ts, i)) - 1 <= Len(ts)
      BY <3>1, UsedAreTold DEF HeadAt
    <3>3. QED
      BY <1>1, <2>1, <2>4, <3>1, <3>2
  <2>5. QED
    BY <1>2, <2>1, <2>2, <2>3, <2>4 DEF Passing, Supersedes
<1>6. 0 .. Len(ts) \subseteq T
  <2> HIDE DEF T
  <2>1. QED
    BY <1>1, <1>4, <1>5, UpTo
<1>7. QED
  BY <1>6 DEF B

(* Two scans agree as far as the one text goes if the other only adds to it and the carets part the same words. *)
LEMMA SameScan ==
  ASSUME NEW ts, Written(ts), NEW us \in Seq(Token), Extends(us, ts), NEW lo \in Nat \ {0}, NEW c, NEW e, NEW depth,
         \A j \in 1 .. Len(ts) : ts[j].t = "word" => (EndsBefore(c, j) <=> EndsBefore(e, j))
  PROVE  \A i \in 0 .. Len(ts) : BestIn(ts, lo, c, depth)[i] = BestIn(us, lo, e, depth)[i]
<1> DEFINE A == BestIn(ts, lo, c, depth)
           B == BestIn(us, lo, e, depth)
           T == {i \in 0 .. Len(ts) : A[i] = B[i]}
<1>1. ts \in Seq(Token) /\ Len(ts) \in Nat /\ Len(us) \in Nat
  BY LenProperties DEF Written
<1>2. \A i \in 0 .. Len(ts) : A[i] = IF i < lo THEN NoClause
                                     ELSE IF ts[i].d = depth THEN Passing(Starts(ts, i), i, A[i - 1], c) ELSE A[i - 1]
  BY <1>1, BestAtEach
<1>3. \A i \in 0 .. Len(us) : B[i] = IF i < lo THEN NoClause
                                     ELSE IF us[i].d = depth THEN Passing(Starts(us, i), i, B[i - 1], e) ELSE B[i - 1]
  BY <1>1, BestAtEach
<1> HIDE DEF A, B
<1>4. 0 \in T
  BY <1>1, <1>2, <1>3
<1>5. ASSUME NEW i \in 1 .. Len(ts), i - 1 \in T PROVE i \in T
  <2>1. i \in 0 .. Len(ts) /\ i \in 0 .. Len(us) /\ us[i] = ts[i] /\ A[i - 1] = B[i - 1]
    BY <1>1, <1>5 DEF Extends
  <2>2. Starts(us, i) = Starts(ts, i)
    BY StartsKept
  <2>3. Passing(Starts(ts, i), i, A[i - 1], c) = Passing(Starts(us, i), i, B[i - 1], e)
    <3> DEFINE n == Starts(ts, i)
    <3>1. CASE n = <<>>
      BY <2>1, <2>2, <3>1 DEF Passing, Supersedes
    <3>2. CASE n # <<>>
      <4>1. n \in Used /\ HeadAt(ts, i, n)
        BY <3>2, StartsUsed
      <4>2. Len(n) \in {1, 2} /\ DOMAIN n = 1 .. Len(n)
        BY <4>1, UsedAreTold
      <4>3. i + Len(n) - 1 \in 1 .. Len(ts) /\ ts[i + Len(n) - 1].t = "word"
        <5>1. Len(n) \in DOMAIN n /\ i + Len(n) - 1 >= 1 /\ i + Len(n) - 1 \in Nat
          BY <1>1, <4>2
        <5> HIDE DEF n
        <5>2. ts[i + Len(n) - 1].t = "word" /\ i + Len(n) - 1 <= Len(ts)
          BY <4>1, <5>1 DEF HeadAt
        <5>3. QED
          BY <1>1, <5>1, <5>2
      <4>4. EndsBefore(c, i + Len(n) - 1) <=> EndsBefore(e, i + Len(n) - 1)
        BY <4>3
      <4>5. QED
        BY <2>1, <2>2, <4>4 DEF Passing, Supersedes
    <3>3. QED
      BY <3>1, <3>2
  <2>4. QED
    BY <1>2, <1>3, <2>1, <2>3
<1>6. 0 .. Len(ts) \subseteq T
  <2> HIDE DEF T
  <2>1. QED
    BY <1>1, <1>4, <1>5, UpTo
<1>7. QED
  BY <1>6 DEF A, B

(* What is silent leaves the scan where it was. *)
LEMMA SilentRun ==
  ASSUME NEW ts, Len(ts) \in Nat, NEW lo \in Nat \ {0}, NEW c, NEW depth, NEW a \in Nat, NEW b \in a .. Len(ts),
         \A i \in a + 1 .. b : Silent(ts, c, depth, i)
  PROVE  BestIn(ts, lo, c, depth)[b] = BestIn(ts, lo, c, depth)[a]
<1> DEFINE B == BestIn(ts, lo, c, depth)
           T == {k \in 0 .. b - a : B[a + k] = B[a]}
<1>1. \A i \in 0 .. Len(ts) : B[i] = IF i < lo THEN NoClause
                                     ELSE IF ts[i].d = depth THEN Passing(Starts(ts, i), i, B[i - 1], c) ELSE B[i - 1]
  BY BestAtEach
<1> HIDE DEF B
<1>2. b \in Nat /\ b - a \in Nat /\ 0 \in T
  OBVIOUS
<1>3. ASSUME NEW k \in 1 .. b - a, k - 1 \in T PROVE k \in T
  <2>1. a + k \in a + 1 .. b /\ a + k \in 0 .. Len(ts) /\ a + k - 1 \in 0 .. Len(ts) /\ a + (k - 1) = a + k - 1
    BY <1>2
  <2>2. Silent(ts, c, depth, a + k)
    BY <2>1
  <2>3. B[a + k] = B[a + k - 1]
    <3>1. CASE a + k < lo
      <4>1. B[a + k] = NoClause /\ B[a + k - 1] = NoClause
        BY <1>1, <2>1, <3>1
      <4>2. QED
        BY <4>1
    <3>2. CASE ~(a + k < lo)
      <4>1. ts[a + k].d = depth => Passing(Starts(ts, a + k), a + k, B[a + k - 1], c) = B[a + k - 1]
        BY <2>2 DEF Silent, Passing, Supersedes
      <4>2. QED
        BY <1>1, <2>1, <3>2, <4>1
    <3>3. QED
      BY <3>1, <3>2
  <2>4. QED
    BY <1>3, <2>1, <2>3
<1>4. 0 .. b - a \subseteq T
  <2> HIDE DEF T
  <2>1. QED
    BY <1>2, <1>3, UpTo
<1>5. b - a \in T /\ a + (b - a) = b
  BY <1>2, <1>4
<1>6. QED
  BY <1>5 DEF B

(* A set of numbers with a bound has a greatest one. *)
LEMMA Greatest ==
  ASSUME NEW n \in Nat, NEW T \in SUBSET (1 .. n), T # {}
  PROVE  \E x \in T : \A y \in T : y <= x
<1> DEFINE D == {n - x : x \in T}
<1>1. D \in SUBSET Nat /\ D # {}
  <2>1. ASSUME NEW x \in T PROVE n - x \in Nat
    <3>1. x \in 1 .. n
      OBVIOUS
    <3>2. QED
      BY <3>1
  <2>2. QED
    BY <2>1
<1>2. PICK m \in D : \A y \in D : m <= y
  <2> HIDE DEF D
  <2>1. QED
    BY <1>1, Least
<1>3. PICK x \in T : m = n - x
  BY <1>2
<1>4. ASSUME NEW y \in T PROVE y <= x
  <2>1. n - y \in D
    OBVIOUS
  <2>2. m <= n - y
    BY <1>2, <2>1
  <2>3. QED
    BY <1>3, <2>2
<1>5. QED
  BY <1>4

(* The greatest of a set of numbers up to n is one of them, and none is greater. *)
LEMMA MaxOfPart ==
  ASSUME NEW n \in Nat, NEW T \in SUBSET (1 .. n), NEW otherwise
  PROVE  IF T = {} THEN MaxOf(T, otherwise) = otherwise
         ELSE MaxOf(T, otherwise) \in T /\ \A y \in T : y <= MaxOf(T, otherwise)
  BY Greatest DEF MaxOf

(* A group starts in the text before the caret, or right at it. *)
LEMMA GroupStartType ==
  ASSUME NEW ts, NEW c \in Caret, NEW depth \in Int
  PROVE  GroupStart(ts, c, depth) \in 1 .. c.at + 1
<1> DEFINE T == {i \in 1 .. c.at : Mark(ts, i, "(") /\ ts[i].d = depth - 1}
<1>1. T \in SUBSET (1 .. c.at) /\ c.at \in Nat
  BY DEF Caret
<1>2. MaxOf(T, 0) \in 0 .. c.at
  <2> HIDE DEF T
  <2>1. T = {} => MaxOf(T, 0) = 0
    BY DEF MaxOf
  <2>2. T # {} => MaxOf(T, 0) \in T
    BY <1>1, MaxOfPart
  <2>3. \A x \in T : x \in 0 .. c.at
    BY <1>1
  <2>4. 0 \in 0 .. c.at
    BY <1>1
  <2>5. QED
    BY <2>1, <2>2, <2>3, <2>4
<1>3. QED
  BY <1>1, <1>2 DEF GroupStart

(* The clause of a group is what the scan of the group has found at the caret. *)
Found(ts, c, depth) == BestIn(ts, GroupStart(ts, c, depth), c, depth)[c.at].name

(* In a text with nothing to separate statements the clause of a group is what the scan finds there. *)
LEMMA FoundInGroup ==
  ASSUME NEW ts, Written(ts), NEW c \in Caret, c.at <= Len(ts), NEW depth \in Int
  PROVE  ClauseInGroup(ts, Whole(ts), c, depth) = Found(ts, c, depth)
<1> DEFINE start == GroupStart(ts, c, depth)
           some == \E j \in 1 .. Len(ts) : ts[j].d = depth /\ ts[j].t = "word" /\ EndsBefore(c, j)
<1>1. Len(ts) \in Nat /\ c.at \in Nat /\ start \in Nat \ {0}
  <2>1. Len(ts) \in Nat /\ c.at \in Nat
    BY LenProperties DEF Written, Caret
  <2>2. start \in 1 .. c.at + 1
    BY GroupStartType
  <2> HIDE DEF start
  <2>3. QED
    BY <2>1, <2>2
<1>2. Whole(ts).lo = 1 /\ Whole(ts).hi = Len(ts)
  BY DEF Whole
<1>3. CASE some
  <2> HIDE DEF start
  <2>1. MaxOf({start, 1}, 0) = start /\ MinOf({c.at, Len(ts)}, 0) = c.at
    <3>1. \A x \in {start, 1} : (\A y \in {start, 1} : y <= x) <=> x = start
      BY <1>1
    <3>2. \A x \in {c.at, Len(ts)} : (\A y \in {c.at, Len(ts)} : x <= y) <=> x = c.at
      BY <1>1
    <3>3. QED
      BY <3>1, <3>2 DEF MaxOf, MinOf
  <2>2. QED
    BY <1>2, <1>3, <2>1 DEF ClauseInGroup, ScanForClause, Found, BestIn, start
<1>4. CASE ~some
  <2>1. ASSUME NEW i \in 1 .. c.at PROVE Silent(ts, c, depth, i)
    <3> SUFFICES ASSUME ts[i].d = depth, Starts(ts, i) # <<>>, EndsBefore(c, i + Len(Starts(ts, i)) - 1) PROVE FALSE
      BY DEF Silent
    <3>1. i \in 1 .. Len(ts)
      BY <1>1
    <3>2. Starts(ts, i) \in Used /\ HeadAt(ts, i, Starts(ts, i))
      BY <3>1, StartsUsed
    <3>3. Len(Starts(ts, i)) \in {1, 2} /\ 1 \in DOMAIN Starts(ts, i) /\ i + 1 - 1 = i
      <4>1. Len(Starts(ts, i)) \in {1, 2} /\ DOMAIN Starts(ts, i) = 1 .. Len(Starts(ts, i))
        BY <3>2, UsedAreTold
      <4>2. i \in Nat
        BY <1>1
      <4>3. QED
        BY <4>1, <4>2
    <3>4. ts[i].t = "word"
      BY <3>2, <3>3, Zenon DEF HeadAt
    <3>5. EndsBefore(c, i)
      BY <1>1, <3>1, <3>3 DEF EndsBefore
    <3>6. QED
      BY <1>4, <3>1, <3>4, <3>5
  <2>2. BestIn(ts, start, c, depth)[c.at] = BestIn(ts, start, c, depth)[0]
    <3> HIDE DEF start
    <3>1. \A i \in 0 + 1 .. c.at : Silent(ts, c, depth, i)
      BY <2>1
    <3>2. 0 \in Nat /\ c.at \in 0 .. Len(ts)
      BY <1>1
    <3>3. QED
      BY <1>1, <3>1, <3>2, SilentRun
  <2>3. BestIn(ts, start, c, depth)[0] = NoClause
    <3> HIDE DEF start
    <3>1. 0 \in 0 .. Len(ts) /\ 0 < start
      BY <1>1
    <3>2. QED
      BY <1>1, <3>1, BestAtEach
  <2>4. Found(ts, c, depth) = <<>>
    BY <2>2, <2>3 DEF Found, NoClause
  <2>5. QED
    BY <1>2, <1>4, <2>4 DEF ClauseInGroup
<1>5. QED
  BY <1>3, <1>4

(* Text that is silent and opens no group of this depth changes nothing of what is found. *)
LEMMA SameFound ==
  ASSUME NEW ts, Written(ts), NEW us \in Seq(Token), Extends(us, ts), NEW depth \in Int,
         NEW c \in Caret, c.at <= Len(ts), NEW e \in Caret, c.at <= e.at, e.at <= Len(us),
         \A j \in 1 .. Len(ts) : ts[j].t = "word" => (EndsBefore(c, j) <=> EndsBefore(e, j)),
         \A i \in c.at + 1 .. e.at : Silent(us, e, depth, i) /\ ~(Mark(us, i, "(") /\ us[i].d = depth - 1)
  PROVE  Found(us, e, depth) = Found(ts, c, depth)
<1>1. Len(ts) \in Nat /\ Len(us) \in Nat /\ c.at \in Nat /\ e.at \in Nat /\ DOMAIN ts = 1 .. Len(ts) /\ DOMAIN us = 1 .. Len(us)
  BY LenProperties DEF Written, Caret
<1>2. GroupStart(us, e, depth) = GroupStart(ts, c, depth)
  <2>1. ASSUME NEW i \in 1 .. c.at PROVE Mark(us, i, "(") = Mark(ts, i, "(") /\ us[i] = ts[i]
    BY <1>1 DEF Mark, Extends
  <2>2. {i \in 1 .. e.at : Mark(us, i, "(") /\ us[i].d = depth - 1} = {i \in 1 .. c.at : Mark(ts, i, "(") /\ ts[i].d = depth - 1}
    <3>1. ASSUME NEW i \in 1 .. e.at PROVE i \in 1 .. c.at \/ i \in c.at + 1 .. e.at
      BY <1>1
    <3>2. 1 .. c.at \subseteq 1 .. e.at
      BY <1>1
    <3>3. QED
      BY <2>1, <3>1, <3>2
  <2>3. QED
    BY <2>2 DEF GroupStart
<1> DEFINE lo == GroupStart(ts, c, depth)
<1>3. lo \in Nat \ {0}
  BY <1>1, GroupStartType
<1>4. BestIn(us, lo, e, depth)[e.at] = BestIn(us, lo, e, depth)[c.at]
  <2> DEFINE a == c.at
             b == e.at
  <2>1. a \in Nat /\ b \in a .. Len(us)
    BY <1>1
  <2>2. \A i \in a + 1 .. b : Silent(us, e, depth, i)
    OBVIOUS
  <2> HIDE DEF lo, a, b
  <2>3. BestIn(us, lo, e, depth)[b] = BestIn(us, lo, e, depth)[a]
    BY <1>1, <1>3, <2>1, <2>2, SilentRun
  <2>4. QED
    BY <2>3 DEF a, b
<1>5. BestIn(ts, lo, c, depth)[c.at] = BestIn(us, lo, e, depth)[c.at]
  <2> HIDE DEF lo
  <2>1. QED
    BY <1>1, <1>3, SameScan
<1>6. QED
  BY <1>2, <1>4, <1>5 DEF Found

-----------------------------------------------------------------------------
(* Outwards from the caret's depth. *)

Outer(ts, c) == ClauseFrom(ts, Whole(ts), c)

(* A caret in the text has a depth. *)
LEMMA DepthType ==
  ASSUME NEW ts \in Seq(Token), NEW c \in Caret, c.at <= Len(ts)
  PROVE  DepthAt(ts, c) \in Nat
<1>1. c.at \in Nat /\ (c.at # 0 => ts[c.at] \in Token)
  BY LenProperties, ElementOfSeq DEF Caret
<1>2. QED
  BY <1>1 DEF DepthAt, Token

(* What governs a caret at a depth: the clause of the group there, or else what governs it one out. *)
LEMMA OuterAtEach ==
  ASSUME NEW ts, Written(ts), NEW c \in Caret, c.at <= Len(ts)
  PROVE  /\ Outer(ts, c)[-1] = <<>>
         /\ \A k \in 0 .. DepthAt(ts, c) : Outer(ts, c)[k] = FirstOf(Found(ts, c, k), Outer(ts, c)[k - 1])
<1>1. DepthAt(ts, c) \in Nat
  BY DepthType DEF Written
<1>2. \A k \in -1 .. DepthAt(ts, c) :
        Outer(ts, c)[k] = IF k < 0 THEN <<>> ELSE FirstOf(ClauseInGroup(ts, Whole(ts), c, k), Outer(ts, c)[k - 1])
  BY <1>1, FromIsDefined DEF Outer, FromStep
<1>3. \A k \in 0 .. DepthAt(ts, c) : ClauseInGroup(ts, Whole(ts), c, k) = Found(ts, c, k)
  BY FoundInGroup
<1>4. QED
  BY <1>1, <1>2, <1>3

(* Two carets whose groups find the same have the same clauses around them. *)
LEMMA SameOuter ==
  ASSUME NEW ts, Written(ts), NEW c \in Caret, c.at <= Len(ts),
         NEW us, Written(us), NEW e \in Caret, e.at <= Len(us),
         NEW n \in Nat, n <= DepthAt(ts, c), n <= DepthAt(us, e),
         \A k \in 0 .. n : Found(us, e, k) = Found(ts, c, k)
  PROVE  \A k \in 0 .. n : Outer(us, e)[k] = Outer(ts, c)[k]
<1> DEFINE A == Outer(ts, c)
           B == Outer(us, e)
           T == {k \in 0 .. n : B[k] = A[k]}
<1>1. DepthAt(ts, c) \in Nat /\ DepthAt(us, e) \in Nat
  BY DepthType DEF Written
<1>2. A[-1] = <<>> /\ \A k \in 0 .. DepthAt(ts, c) : A[k] = FirstOf(Found(ts, c, k), A[k - 1])
  BY OuterAtEach
<1>3. B[-1] = <<>> /\ \A k \in 0 .. DepthAt(us, e) : B[k] = FirstOf(Found(us, e, k), B[k - 1])
  BY OuterAtEach
<1> HIDE DEF A, B
<1>4. 0 \in T
  <2>1. 0 \in 0 .. DepthAt(ts, c) /\ 0 \in 0 .. DepthAt(us, e) /\ 0 \in 0 .. n /\ 0 - 1 = -1
    BY <1>1
  <2>2. A[0] = FirstOf(Found(ts, c, 0), A[-1]) /\ B[0] = FirstOf(Found(us, e, 0), B[-1])
    BY <1>2, <1>3, <2>1
  <2>3. QED
    BY <1>2, <1>3, <2>1, <2>2
<1>5. ASSUME NEW k \in 1 .. n, k - 1 \in T PROVE k \in T
  <2>1. k \in 0 .. DepthAt(ts, c) /\ k \in 0 .. DepthAt(us, e) /\ k \in 0 .. n
    BY <1>1
  <2>2. QED
    BY <1>2, <1>3, <1>5, <2>1
<1>6. 0 .. n \subseteq T
  <2> HIDE DEF T
  <2>1. QED
    BY <1>4, <1>5, UpTo
<1>7. QED
  BY <1>6 DEF A, B

(* Nothing separates statements: the caret's is the whole text. *)
LEMMA OneStatement ==
  ASSUME NEW ts, Written(ts), NEW c \in Caret
  PROVE  ClauseAt(ts, StatementAt(ts, c), c) = Outer(ts, c)[DepthAt(ts, c)]
<1>1. {i \in DOMAIN ts : Mark(ts, i, ";")} = {} /\ Len(ts) \in Nat
  BY LenProperties DEF Written
<1>2. StatementAt(ts, c) = Whole(ts)
  <2>1. StatementAt(ts, c) = [lo |-> MaxOf({}, 0) + 1, hi |-> MinOf({}, Len(ts) + 1) - 1]
    BY <1>1 DEF StatementAt
  <2>2. ASSUME NEW n \in Nat PROVE MaxOf({}, 0) + 1 = 1 /\ MinOf({}, n + 1) - 1 = n
    <3>1. MaxOf({}, 0) = 0 /\ MinOf({}, n + 1) = n + 1
      BY DEF MaxOf, MinOf
    <3>2. QED
      BY <3>1
  <2>3. QED
    BY <1>1, <2>1, <2>2 DEF Whole
<1>3. QED
  BY <1>2 DEF ClauseAt, Outer

-----------------------------------------------------------------------------
(* What is written behind a text, and what it leaves as it was. *)

(* The caret in the space behind the g-th token, and at the end of what is written. *)
Gap(g) == [at |-> g, on |-> FALSE]
(* A word carries the depth of the gap before it. *)
Levelled(ts) == \A i \in DOMAIN ts : ts[i].t = "word" => ts[i].d = DepthAt(ts, Gap(i - 1))
Text(ts) == Written(ts) /\ Levelled(ts)
End(ts) == Gap(Len(ts))

(* A gap is a caret on no token: what ends before it is what is written up to it. *)
LEMMA GapType ==
  ASSUME NEW g \in Nat
  PROVE  Gap(g) \in Caret /\ Gap(g).at = g /\ \A i \in Int : EndsBefore(Gap(g), i) <=> i <= g
  BY DEF Gap, Caret, EndsBefore

(* Text that is silent at every depth up to m and opens no group there leaves what is found there. *)
LEMMA OuterKept ==
  ASSUME NEW ts, Written(ts), NEW us, Written(us), Extends(us, ts),
         NEW c \in Caret, c.at <= Len(ts), NEW e \in Caret, c.at <= e.at, e.at <= Len(us),
         \A j \in 1 .. Len(ts) : ts[j].t = "word" => (EndsBefore(c, j) <=> EndsBefore(e, j)),
         NEW m \in Nat, m <= DepthAt(ts, c), m <= DepthAt(us, e),
         \A k \in 0 .. m : \A i \in c.at + 1 .. e.at : Silent(us, e, k, i) /\ ~(Mark(us, i, "(") /\ us[i].d = k - 1)
  PROVE  \A k \in 0 .. m : Outer(us, e)[k] = Outer(ts, c)[k]
<1>1. \A k \in 0 .. m : Found(us, e, k) = Found(ts, c, k)
  <2> TAKE k \in 0 .. m
  <2>0. us \in Seq(Token)
    BY DEF Written
  <2>1. k \in Int /\ us \in Seq(Token)
    BY <2>0
  <2>2. \A i \in c.at + 1 .. e.at : Silent(us, e, k, i) /\ ~(Mark(us, i, "(") /\ us[i].d = k - 1)
    OBVIOUS
  <2>3. QED
    BY <2>1, <2>2, SameFound
<1>2. QED
  BY <1>1, SameOuter

(* The depth at a gap is told by the token before it. *)
LEMMA DepthKept ==
  ASSUME NEW ts \in Seq(Token), NEW us \in Seq(Token), Extends(us, ts), NEW g \in 0 .. Len(ts)
  PROVE  DepthAt(us, Gap(g)) = DepthAt(ts, Gap(g))
<1>1. Len(ts) \in Nat /\ Len(us) \in Nat /\ DOMAIN ts = 1 .. Len(ts) /\ DOMAIN us = 1 .. Len(us) /\ Gap(g).at = g
  BY LenProperties, GapType
<1>2. g # 0 => us[g] = ts[g] /\ Mark(us, g, "(") = Mark(ts, g, "(")
  <2> SUFFICES ASSUME g # 0 PROVE us[g] = ts[g] /\ Mark(us, g, "(") = Mark(ts, g, "(")
    OBVIOUS
  <2>1. us[g] = ts[g] /\ g \in DOMAIN ts /\ g \in DOMAIN us
    BY <1>1 DEF Extends
  <2>2. QED
    BY <2>1 DEF Mark
<1>3. QED
  BY <1>1, <1>2 DEF DepthAt

(* What is found at a gap that is written past is found for good. *)
LEMMA GapsKept ==
  ASSUME NEW ts, Written(ts), NEW us, Written(us), Extends(us, ts), NEW g \in 0 .. Len(ts)
  PROVE  Outer(us, Gap(g))[DepthAt(us, Gap(g))] = Outer(ts, Gap(g))[DepthAt(ts, Gap(g))]
<1>1. ts \in Seq(Token) /\ us \in Seq(Token) /\ Len(ts) \in Nat /\ Len(us) \in Nat
  BY LenProperties DEF Written
<1> DEFINE c == Gap(g)
           m == DepthAt(ts, c)
<1>2. c \in Caret /\ c.at = g
  BY <1>1, GapType
<1>3. DepthAt(us, c) = m /\ m \in Nat
  BY <1>1, <1>2, DepthKept, DepthType
<1> HIDE DEF c, m
<1>4. \A k \in 0 .. m : \A i \in c.at + 1 .. c.at : Silent(us, c, k, i) /\ ~(Mark(us, i, "(") /\ us[i].d = k - 1)
  BY <1>2
<1>5. c.at <= Len(ts) /\ c.at <= c.at /\ c.at <= Len(us) /\ m <= DepthAt(us, c) /\ m <= m
  BY <1>1, <1>2, <1>3 DEF Extends
<1>6. \A k \in 0 .. m : Outer(us, c)[k] = Outer(ts, c)[k]
  BY <1>2, <1>3, <1>4, <1>5, OuterKept DEF m
<1>7. QED
  BY <1>3, <1>6 DEF c, m

(* What is written behind a text. *)
LEMMA Longer ==
  ASSUME NEW ts \in Seq(Token), NEW p \in Seq(Token)
  PROVE  /\ ts \o p \in Seq(Token) /\ Len(ts \o p) = Len(ts) + Len(p) /\ Extends(ts \o p, ts)
         /\ Len(ts) \in Nat /\ Len(p) \in Nat
         /\ DOMAIN (ts \o p) = 1 .. Len(ts) + Len(p) /\ DOMAIN ts = 1 .. Len(ts) /\ DOMAIN p = 1 .. Len(p)
         /\ \A i \in Len(ts) + 1 .. Len(ts) + Len(p) : (ts \o p)[i] = p[i - Len(ts)] /\ i - Len(ts) \in 1 .. Len(p)
<1>1. /\ ts \o p \in Seq(Token) /\ Len(ts \o p) = Len(ts) + Len(p)
      /\ \A i \in 1 .. Len(ts) + Len(p) : (ts \o p)[i] = IF i <= Len(ts) THEN ts[i] ELSE p[i - Len(ts)]
  BY ConcatProperties
<1>2. /\ Len(ts) \in Nat /\ Len(p) \in Nat
      /\ DOMAIN ts = 1 .. Len(ts) /\ DOMAIN p = 1 .. Len(p) /\ DOMAIN (ts \o p) = 1 .. Len(ts \o p)
  BY <1>1, LenProperties
<1>3. Extends(ts \o p, ts)
  BY <1>1, <1>2 DEF Extends
<1>4. ASSUME NEW i \in Len(ts) + 1 .. Len(ts) + Len(p) PROVE (ts \o p)[i] = p[i - Len(ts)] /\ i - Len(ts) \in 1 .. Len(p)
  BY <1>1, <1>2
<1>5. QED
  BY <1>1, <1>2, <1>3, <1>4

(* A token of a text with a piece behind it is of the text or of the piece. *)
LEMMA Halves ==
  ASSUME NEW n \in Nat, NEW m \in Nat, NEW i \in 1 .. n + m
  PROVE  i \in 1 .. n \/ i \in n + 1 .. n + m
  OBVIOUS

(* A head stays one whatever is written behind the text. *)
LEMMA HeadKept ==
  ASSUME NEW ts \in Seq(Token), NEW us \in Seq(Token), Extends(us, ts), NEW i \in 1 .. Len(ts),
         NEW clause \in Used, HeadAt(ts, i, clause)
  PROVE  HeadAt(us, i, clause)
<1>1. Len(ts) \in Nat /\ Len(us) \in Nat
  BY LenProperties
<1>2. Len(clause) \in {1, 2} /\ DOMAIN clause = 1 .. Len(clause)
  BY UsedAreTold
<1>3. ASSUME NEW k \in DOMAIN clause PROVE us[i + k - 1].t = "word" /\ us[i + k - 1].v = clause[k]
  <2>1. i + k - 1 \in 1 .. Len(ts)
    BY <1>1, <1>2 DEF HeadAt
  <2>2. us[i + k - 1] = ts[i + k - 1]
    BY <2>1 DEF Extends
  <2>3. QED
    BY <2>2 DEF HeadAt
<1>4. i + Len(clause) - 1 <= Len(us)
  BY <1>1, <1>2 DEF HeadAt, Extends
<1>5. QED
  BY <1>3, <1>4 DEF HeadAt

(* Heads that were written stay; the new ones are those among the new tokens. *)
LEMMA HeadsOfBoth ==
  ASSUME NEW ts, Written(ts), NEW p \in Seq(Token),
         \A i \in 1 .. Len(p) : ~Mark(p, i, ";"),
         \A i \in Len(ts) + 1 .. Len(ts) + Len(p) :
           PlainWord(ts \o p, i) \in FirstWords => \E clause \in Used : HeadAt(ts \o p, i, clause)
  PROVE  Written(ts \o p)
<1> DEFINE us == ts \o p
<1>0. ts \in Seq(Token)
  BY DEF Written
<1>1. /\ us \in Seq(Token) /\ Len(us) = Len(ts) + Len(p) /\ Extends(us, ts) /\ Len(ts) \in Nat /\ Len(p) \in Nat
      /\ DOMAIN us = 1 .. Len(ts) + Len(p) /\ DOMAIN ts = 1 .. Len(ts) /\ DOMAIN p = 1 .. Len(p)
  BY <1>0, Longer
<1>b. \A i \in Len(ts) + 1 .. Len(ts) + Len(p) : us[i] = p[i - Len(ts)] /\ i - Len(ts) \in 1 .. Len(p)
  BY <1>0, Longer
<1>a. \A i \in Len(ts) + 1 .. Len(ts) + Len(p) :
         PlainWord(us, i) \in FirstWords => \E clause \in Used : HeadAt(us, i, clause)
  OBVIOUS
<1> HIDE DEF us
<1>2. ASSUME NEW i \in DOMAIN us PROVE i \in 1 .. Len(ts) \/ i \in Len(ts) + 1 .. Len(ts) + Len(p)
  BY <1>1, Halves
<1>3. ASSUME NEW i \in DOMAIN us PROVE ~Mark(us, i, ";")
  <2>1. CASE i \in 1 .. Len(ts)
    <3>1. us[i] = ts[i] /\ i \in DOMAIN ts
      BY <1>1, <2>1 DEF Extends
    <3>2. QED
      BY <3>1 DEF Written, Mark
  <2>2. CASE i \in Len(ts) + 1 .. Len(ts) + Len(p)
    <3>1. us[i] = p[i - Len(ts)] /\ i - Len(ts) \in 1 .. Len(p) /\ i - Len(ts) \in DOMAIN p
      BY <1>1, <1>b, <2>2
    <3>2. QED
      BY <3>1 DEF Mark
  <2>3. QED
    BY <1>2, <2>1, <2>2
<1>4. ASSUME NEW i \in DOMAIN us, PlainWord(us, i) \in FirstWords PROVE \E clause \in Used : HeadAt(us, i, clause)
  <2>1. CASE i \in 1 .. Len(ts)
    <3>1. us[i] = ts[i] /\ i \in DOMAIN ts
      BY <1>1, <2>1 DEF Extends
    <3>2. PlainWord(ts, i) \in FirstWords
      BY <1>4, <3>1 DEF PlainWord
    <3>3. PICK clause \in Used : HeadAt(ts, i, clause)
      BY <3>1, <3>2 DEF Written, Headed
    <3>4. QED
      BY <1>0, <1>1, <2>1, <3>3, HeadKept
  <2>2. CASE i \in Len(ts) + 1 .. Len(ts) + Len(p)
    BY <1>4, <1>a, <2>2
  <2>3. QED
    BY <1>2, <2>1, <2>2
<1>5. Written(us)
  BY <1>1, <1>3, <1>4 DEF Written, Headed
<1>6. QED
  BY <1>5 DEF us

(* New tokens at the depth of the text's end, or marks, keep words at the depth of the gap before them. *)
LEMMA LevelsOfBoth ==
  ASSUME NEW ts, Text(ts), NEW p \in Seq(Token),
         \A i \in Len(ts) + 1 .. Len(ts) + Len(p) :
           (ts \o p)[i].t = "word" => (ts \o p)[i].d = DepthAt(ts \o p, Gap(i - 1))
  PROVE  Levelled(ts \o p)
<1> DEFINE us == ts \o p
<1>0. ts \in Seq(Token) /\ Levelled(ts)
  BY DEF Text, Written
<1>1. /\ us \in Seq(Token) /\ Len(us) = Len(ts) + Len(p) /\ Extends(us, ts) /\ Len(ts) \in Nat /\ Len(p) \in Nat
      /\ DOMAIN us = 1 .. Len(ts) + Len(p) /\ DOMAIN ts = 1 .. Len(ts)
  BY <1>0, Longer
<1>a. \A i \in Len(ts) + 1 .. Len(ts) + Len(p) : us[i].t = "word" => us[i].d = DepthAt(us, Gap(i - 1))
  OBVIOUS
<1> HIDE DEF us
<1>2. ASSUME NEW i \in DOMAIN us PROVE i \in 1 .. Len(ts) \/ i \in Len(ts) + 1 .. Len(ts) + Len(p)
  BY <1>1, Halves
<1>3. ASSUME NEW i \in 1 .. Len(ts), us[i].t = "word" PROVE us[i].d = DepthAt(us, Gap(i - 1))
  <2>1. us[i] = ts[i] /\ i \in DOMAIN ts /\ i - 1 \in 0 .. Len(ts)
    BY <1>1 DEF Extends
  <2>2. DepthAt(us, Gap(i - 1)) = DepthAt(ts, Gap(i - 1))
    BY <1>0, <1>1, <2>1, DepthKept
  <2>3. QED
    BY <1>0, <1>3, <2>1, <2>2 DEF Levelled
<1>4. Levelled(us)
  BY <1>2, <1>3, <1>a DEF Levelled
<1>5. QED
  BY <1>4 DEF us

(* Tokens at one depth that begin no clause and open or close no group. *)
Neutral(p, depth) ==
  /\ p \in Seq(Token)
  /\ \A i \in 1 .. Len(p) : /\ p[i].d = depth
                            /\ p[i].t = "word" => p[i].v \notin FirstWords
                            /\ p[i].t = "punct" => p[i].v \notin {"(", ")", ";"}

(* What is no word begins no clause. *)
LEMMA NoWordBeginsNone == "" \notin FirstWords
  BY TheFirstWords

(* A gap at the end of a text or behind it. *)
LEMMA GapsOfBoth ==
  ASSUME NEW n \in Nat, NEW m \in Nat, NEW g \in n .. n + m
  PROVE  g \in Nat /\ (g = n \/ g \in n + 1 .. n + m) /\ g <= n + m /\ n <= g
  OBVIOUS

(* The same for gaps behind a text. *)
LEMMA OuterBehind ==
  ASSUME NEW ts, Written(ts), NEW us, Written(us), Extends(us, ts),
         NEW g \in Nat, Len(ts) <= g, g <= Len(us),
         NEW top \in Nat, top <= DepthAt(ts, End(ts)), top <= DepthAt(us, Gap(g)),
         \A k \in 0 .. top : \A i \in Len(ts) + 1 .. g :
           Silent(us, Gap(g), k, i) /\ ~(Mark(us, i, "(") /\ us[i].d = k - 1)
  PROVE  \A k \in 0 .. top : Outer(us, Gap(g))[k] = Outer(ts, End(ts))[k]
<1> DEFINE e == Gap(g)
           c == End(ts)
<1>1. Len(ts) \in Nat
  BY LenProperties DEF Written
<1>2. c \in Caret /\ c.at = Len(ts) /\ e \in Caret /\ e.at = g
  BY <1>1, GapType DEF End
<1>3. \A j \in 1 .. Len(ts) : EndsBefore(c, j) /\ EndsBefore(e, j)
  <2> TAKE j \in 1 .. Len(ts)
  <2>1. j \in Int /\ j <= Len(ts) /\ j <= g
    BY <1>1
  <2>2. QED
    BY <1>1, <2>1, GapType DEF End
<1>4. /\ c.at <= Len(ts) /\ c.at <= e.at /\ e.at <= Len(us) /\ top <= DepthAt(ts, c) /\ top <= DepthAt(us, e)
      /\ \A j \in 1 .. Len(ts) : ts[j].t = "word" => (EndsBefore(c, j) <=> EndsBefore(e, j))
  BY <1>1, <1>2, <1>3
<1>5. \A k \in 0 .. top : \A i \in c.at + 1 .. e.at : Silent(us, e, k, i) /\ ~(Mark(us, i, "(") /\ us[i].d = k - 1)
  BY <1>2
<1> HIDE DEF e, c
<1>6. \A k \in 0 .. top : Outer(us, e)[k] = Outer(ts, c)[k]
  <2>1. c \in Caret /\ e \in Caret
    BY <1>2
  <2>2. QED
    BY <1>4, <1>5, <2>1, OuterKept
<1>7. QED
  BY <1>6 DEF e, c

(* A piece that begins no clause and opens no group leaves the clauses around its gaps as they were. *)
LEMMA PlainlyWritten ==
  ASSUME NEW ts, Text(ts), NEW p, Neutral(p, DepthAt(ts, End(ts)))
  PROVE  /\ Text(ts \o p)
         /\ \A g \in Len(ts) .. Len(ts) + Len(p) :
              /\ DepthAt(ts \o p, Gap(g)) = DepthAt(ts, End(ts))
              /\ \A k \in 0 .. DepthAt(ts, End(ts)) : Outer(ts \o p, Gap(g))[k] = Outer(ts, End(ts))[k]
<1> DEFINE us == ts \o p
           n == Len(ts)
           m == Len(p)
           D == DepthAt(ts, End(ts))
<1>1. Written(ts) /\ Levelled(ts) /\ ts \in Seq(Token) /\ p \in Seq(Token)
  BY DEF Text, Written, Neutral
<1>2. /\ us \in Seq(Token) /\ Len(us) = n + m /\ Extends(us, ts) /\ n \in Nat /\ m \in Nat
      /\ DOMAIN us = 1 .. n + m /\ DOMAIN ts = 1 .. n /\ DOMAIN p = 1 .. m
  BY <1>1, Longer
<1>3. \A i \in n + 1 .. n + m : us[i] = p[i - n] /\ i - n \in 1 .. m
  BY <1>1, Longer
<1>4. /\ End(ts) \in Caret /\ End(ts).at = n /\ D \in Nat /\ End(ts) = Gap(n)
      /\ \A j \in Int : EndsBefore(End(ts), j) <=> j <= n
  BY <1>1, <1>2, GapType, DepthType DEF End
<1>5. \A i \in 1 .. m : /\ p[i].d = D
                        /\ p[i].t = "word" => p[i].v \notin FirstWords
                        /\ p[i].t = "punct" => p[i].v \notin {"(", ")", ";"}
  BY DEF Neutral
<1>6. \A i \in 1 .. m : ~Mark(p, i, ";")
  BY <1>2, <1>5 DEF Mark
<1> HIDE DEF us, n, m, D
<1>7. ASSUME NEW i \in n + 1 .. n + m
      PROVE  /\ PlainWord(us, i) \notin FirstWords /\ Starts(us, i) = <<>>
             /\ ~Mark(us, i, "(") /\ us[i].d = D
  <2>1. us[i] = p[i - n] /\ i - n \in 1 .. m /\ i \in DOMAIN us
    BY <1>2, <1>3
  <2>2. us[i].d = D /\ (us[i].t = "word" => us[i].v \notin FirstWords) /\ ~Mark(us, i, "(")
    BY <1>5, <2>1 DEF Mark
  <2>3. PlainWord(us, i) \notin FirstWords
    BY <2>2, NoWordBeginsNone DEF PlainWord
  <2>4. QED
    BY <2>2, <2>3, StartsNone
<1>8. Written(us)
  <2>1. \A i \in Len(ts) + 1 .. Len(ts) + Len(p) :
           PlainWord(us, i) \in FirstWords => \E clause \in Used : HeadAt(us, i, clause)
    BY <1>7 DEF n, m
  <2>2. QED
    BY <1>1, <1>6, <2>1, HeadsOfBoth DEF us, m
<1>9. ASSUME NEW g \in n .. n + m PROVE DepthAt(us, Gap(g)) = D
  <2>1. CASE g = n
    <3>1. g \in 0 .. n
      BY <1>2, <2>1
    <3>2. DepthAt(us, Gap(g)) = DepthAt(ts, Gap(g))
      BY <1>1, <1>2, <3>1, DepthKept DEF n
    <3>3. QED
      BY <1>4, <2>1, <3>2 DEF D
  <2>2. CASE g \in n + 1 .. n + m
    <3>1. Gap(g).at = g /\ g # 0
      BY <1>2, <2>2, GapType
    <3>2. us[g].d = D /\ ~Mark(us, g, "(")
      BY <1>7, <2>2
    <3>3. QED
      BY <1>4, <3>1, <3>2 DEF DepthAt
  <2>3. QED
    BY <1>2, <2>1, <2>2, GapsOfBoth
<1>10. Levelled(us)
  <2>1. \A i \in n + 1 .. n + m : i - 1 \in n .. n + m
    BY <1>2
  <2>2. \A i \in n + 1 .. n + m : us[i].t = "word" => us[i].d = DepthAt(us, Gap(i - 1))
    BY <1>7, <1>9, <2>1
  <2>3. QED
    BY <1>1, <2>2, LevelsOfBoth DEF us, n, m
<1>11. ASSUME NEW g \in n .. n + m PROVE \A k \in 0 .. D : Outer(us, Gap(g))[k] = Outer(ts, End(ts))[k]
  <2>1. g \in Nat /\ Len(ts) <= g /\ g <= Len(us) /\ D \in Nat
    BY <1>2, <1>4, GapsOfBoth DEF n
  <2>2. D <= DepthAt(ts, End(ts)) /\ D <= DepthAt(us, Gap(g))
    BY <1>4, <1>9 DEF D
  <2>3. \A k \in 0 .. D : \A i \in Len(ts) + 1 .. g : Silent(us, Gap(g), k, i) /\ ~(Mark(us, i, "(") /\ us[i].d = k - 1)
    <3> TAKE k \in 0 .. D
    <3> TAKE i \in Len(ts) + 1 .. g
    <3>1. i \in n + 1 .. n + m
      BY <1>2, <2>1 DEF n
    <3>2. QED
      BY <1>7, <3>1 DEF Silent
  <2>4. Written(ts) /\ Written(us) /\ Extends(us, ts)
    BY <1>1, <1>2, <1>8
  <2>5. QED
    BY <2>1, <2>2, <2>3, <2>4, OuterBehind
<1>12. QED
  BY <1>8, <1>9, <1>10, <1>11 DEF Text, us, n, m, D

(* The words of a clause, at one depth. *)
Spelled(p, clause, depth) ==
  /\ p \in Seq(Token) /\ Len(p) = Len(clause)
  /\ \A i \in 1 .. Len(p) : p[i].d = depth /\ p[i].t = "word" /\ p[i].v = clause[i]

(* The words of a clause behind a text begin that clause, and its second word none that reaches further. *)
LEMMA SpelledHeads ==
  ASSUME NEW ts, Written(ts), NEW clause \in Used, NEW depth, NEW p, Spelled(p, clause, depth)
  PROVE  /\ Written(ts \o p)
         /\ Starts(ts \o p, Len(ts) + 1) = clause
         /\ Len(clause) = 2 => Starts(ts \o p, Len(ts) + 2) \in {<<>>, FROM, TABLE}
<1> DEFINE us == ts \o p
           n == Len(ts)
           m == Len(p)
<1>1. ts \in Seq(Token) /\ p \in Seq(Token) /\ m = Len(clause)
  BY DEF Written, Spelled
<1>2. /\ us \in Seq(Token) /\ Len(us) = n + m /\ Extends(us, ts) /\ n \in Nat /\ m \in Nat
      /\ DOMAIN us = 1 .. n + m /\ DOMAIN ts = 1 .. n /\ DOMAIN p = 1 .. m
  BY <1>1, Longer
<1>3. \A i \in n + 1 .. n + m : us[i] = p[i - n] /\ i - n \in 1 .. m
  BY <1>1, Longer
<1>4. /\ m \in {1, 2} /\ DOMAIN clause = 1 .. m
      /\ m = 2 => clause[2] \notin FirstWords \/ clause[2] \in {"FROM", "TABLE"}
  BY <1>1, UsedAreTold
<1>5. \A i \in 1 .. m : p[i].t = "word" /\ p[i].v = clause[i]
  BY DEF Spelled
<1>6. \A i \in 1 .. m : ~Mark(p, i, ";")
  BY <1>5 DEF Mark
<1> HIDE DEF us, n, m
<1>7. \A i \in 1 .. m : us[n + i].t = "word" /\ us[n + i].v = clause[i] /\ n + i \in 1 .. Len(us) /\ PlainWord(us, n + i) = clause[i]
  <2> TAKE i \in 1 .. m
  <2>1. n + i \in n + 1 .. n + m /\ n + i - n = i /\ n + i \in 1 .. n + m
    BY <1>2
  <2>2. us[n + i] = p[i]
    <3> DEFINE j == n + i
    <3>1. j \in n + 1 .. n + m /\ j - n = i
      BY <1>2, <2>1
    <3> HIDE DEF j
    <3>2. us[j] = p[j - n]
      BY <1>2, <1>3, <3>1
    <3>3. QED
      BY <3>1, <3>2 DEF j
  <2>3. us[n + i].t = "word" /\ us[n + i].v = clause[i]
    BY <1>5, <2>2
  <2>4. QED
    BY <1>2, <2>1, <2>3 DEF PlainWord
<1>8. HeadAt(us, n + 1, clause)
  <2>1. \A k \in DOMAIN clause : n + 1 + k - 1 = n + k
    BY <1>2, <1>4
  <2>2. n + 1 + m - 1 = n + m
    BY <1>2
  <2>3. ASSUME NEW k \in DOMAIN clause PROVE us[n + 1 + k - 1].t = "word" /\ us[n + 1 + k - 1].v = clause[k]
    <3>1. us[n + k].t = "word" /\ us[n + k].v = clause[k]
      BY <1>4, <1>7
    <3>2. n + 1 + k - 1 = n + k
      BY <2>1
    <3>3. QED
      BY <3>1, <3>2
  <2>4. n + 1 + Len(clause) - 1 <= Len(us)
    BY <1>1, <1>2, <2>2
  <2>5. QED
    BY <2>3, <2>4 DEF HeadAt
<1>9. FROM \in Used /\ TABLE \in Used /\ FROM = <<"FROM">> /\ TABLE = <<"TABLE">>
  BY DEF Used, FROM, TABLE, P
<1>10. ASSUME m = 2, clause[2] \in FirstWords PROVE \E other \in {FROM, TABLE} : HeadAt(us, n + 2, other)
  <2>0. 2 \in 1 .. m
    BY <1>10
  <2>1. us[n + 2].t = "word" /\ us[n + 2].v = clause[2] /\ n + 2 \in 1 .. Len(us)
    BY <1>7, <2>0
  <2>2. PICK other \in {FROM, TABLE} : other = <<clause[2]>>
    BY <1>4, <1>9, <1>10
  <2>3. Len(other) = 1 /\ DOMAIN other = {1} /\ other[1] = clause[2]
    BY <2>2
  <2>4. n + 2 + 1 - 1 = n + 2 /\ n + 2 <= Len(us)
    BY <1>2, <2>1
  <2>5. HeadAt(us, n + 2, other)
    BY <2>1, <2>3, <2>4 DEF HeadAt
  <2>6. QED
    BY <2>5
<1>11. Written(us)
  <2>1. ASSUME NEW i \in n + 1 .. n + m, PlainWord(us, i) \in FirstWords
        PROVE  \E other \in Used : HeadAt(us, i, other)
    <3>1. i = n + 1 \/ (i = n + 2 /\ m = 2)
      BY <1>2, <1>4
    <3>2. CASE i = n + 1
      BY <1>8, <3>2
    <3>3. CASE i = n + 2 /\ m = 2
      <4>1. clause[2] \in FirstWords
        BY <1>7, <2>1, <3>3
      <4>2. QED
        BY <1>9, <1>10, <3>3, <4>1
    <3>4. QED
      BY <3>1, <3>2, <3>3
  <2>2. QED
    BY <1>1, <1>6, <2>1, HeadsOfBoth DEF us, n, m
<1>12. Starts(us, n + 1) = clause
  <2>1. n + 1 \in 1 .. Len(us)
    BY <1>2, <1>4
  <2>2. QED
    BY <1>2, <1>8, <2>1, StartsAHead
<1>13. ASSUME m = 2 PROVE Starts(us, n + 2) \in {<<>>, FROM, TABLE}
  <2>0. n + 2 \in 1 .. Len(us) /\ PlainWord(us, n + 2) = clause[2]
    <3>1. 2 \in 1 .. m
      BY <1>13
    <3>2. QED
      BY <1>7, <3>1
  <2>1. CASE clause[2] \in FirstWords
    <3>1. PICK other \in {FROM, TABLE} : HeadAt(us, n + 2, other)
      BY <1>10, <1>13, <2>1
    <3>2. QED
      BY <1>2, <1>9, <2>0, <3>1, StartsAHead
  <2>2. CASE clause[2] \notin FirstWords
    BY <2>0, <2>2, StartsNone
  <2>3. QED
    BY <2>1, <2>2
<1>14. QED
  BY <1>1, <1>11, <1>12, <1>13 DEF us, n

(* A clause that is written out takes over from what was found at its depth, if it reads as a clause behind it. *)
LEMMA TakesOver ==
  ASSUME NEW ts, Written(ts), NEW clause \in Used, NEW depth \in Int, NEW p, Spelled(p, clause, depth),
         ReadsAsAClause(clause, Found(ts, End(ts), depth))
  PROVE  Found(ts \o p, End(ts \o p), depth) = clause
<1> DEFINE us == ts \o p
           n == Len(ts)
           m == Len(p)
           c == End(ts)
           e == End(us)
           lo == GroupStart(ts, c, depth)
           B == BestIn(us, lo, e, depth)
<1>1. ts \in Seq(Token) /\ p \in Seq(Token) /\ m = Len(clause)
  BY DEF Written, Spelled
<1>2. /\ us \in Seq(Token) /\ Len(us) = n + m /\ Extends(us, ts) /\ n \in Nat /\ m \in Nat
      /\ DOMAIN us = 1 .. n + m /\ DOMAIN ts = 1 .. n /\ DOMAIN p = 1 .. m
  BY <1>1, Longer
<1>3. \A i \in n + 1 .. n + m : us[i] = p[i - n] /\ i - n \in 1 .. m
  BY <1>1, Longer
<1>4. m \in {1, 2} /\ clause # <<>>
  BY <1>1, UsedAreTold
<1>5. \A i \in 1 .. m : p[i].t = "word" /\ p[i].d = depth
  BY DEF Spelled
<1>6. /\ Written(us) /\ Starts(us, n + 1) = clause
      /\ m = 2 => Starts(us, n + 2) \in {<<>>, FROM, TABLE}
  <2>1. /\ Written(ts \o p) /\ Starts(ts \o p, Len(ts) + 1) = clause
        /\ Len(clause) = 2 => Starts(ts \o p, Len(ts) + 2) \in {<<>>, FROM, TABLE}
    BY SpelledHeads, Zenon
  <2>2. QED
    BY <1>1, <2>1
<1>7. /\ c \in Caret /\ c.at = n /\ \A i \in Int : EndsBefore(c, i) <=> i <= n
      /\ e \in Caret /\ e.at = n + m /\ \A i \in Int : EndsBefore(e, i) <=> i <= n + m
  BY <1>2, GapType DEF End
<1>8. lo \in 1 .. n + 1 /\ lo \in Nat \ {0}
  <2>1. lo \in 1 .. c.at + 1
    BY <1>7, GroupStartType
  <2> HIDE DEF lo, c
  <2>2. QED
    BY <1>2, <1>7, <2>1
<1> HIDE DEF us, n, m, c, e
<1>9. \A i \in n + 1 .. n + m : us[i].d = depth /\ us[i].t = "word" /\ ~Mark(us, i, "(")
  BY <1>2, <1>3, <1>5 DEF Mark
<1>10. GroupStart(us, e, depth) = lo
  <2>1. ASSUME NEW i \in 1 .. n PROVE Mark(us, i, "(") = Mark(ts, i, "(") /\ us[i] = ts[i]
    <3>1. us[i] = ts[i] /\ i \in DOMAIN us /\ i \in DOMAIN ts
      BY <1>2 DEF Extends, n
    <3>2. QED
      BY <3>1 DEF Mark
  <2>2. {i \in 1 .. n + m : Mark(us, i, "(") /\ us[i].d = depth - 1} = {i \in 1 .. n : Mark(ts, i, "(") /\ ts[i].d = depth - 1}
    <3>1. \A i \in 1 .. n + m : i \in 1 .. n \/ i \in n + 1 .. n + m
      BY <1>2, Halves
    <3>2. \A i \in 1 .. n : i \in 1 .. n + m
      BY <1>2
    <3>3. QED
      BY <1>9, <2>1, <3>1, <3>2
  <2>3. QED
    BY <1>7, <2>2 DEF GroupStart
<1> DEFINE best == BestIn(ts, lo, c, depth)[n]
<1> HIDE DEF lo
<1>11. B[n] = best
  <2>1. \A j \in 1 .. Len(ts) : ts[j].t = "word" => (EndsBefore(c, j) <=> EndsBefore(e, j))
    BY <1>2, <1>7 DEF n
  <2>2. n \in 0 .. Len(ts)
    BY <1>2 DEF n
  <2>3. \A i \in 0 .. Len(ts) : BestIn(ts, lo, c, depth)[i] = BestIn(us, lo, e, depth)[i]
    BY <1>2, <1>8, <2>1, SameScan
  <2>4. QED
    BY <2>2, <2>3
<1>12. best.name = Found(ts, c, depth) /\ best.end \in 0 .. n
  <2>1. best.end \in 0 .. Len(ts)
    <3>1. n \in 0 .. Len(ts)
      BY <1>2 DEF n
    <3>2. QED
      BY <1>8, <3>1, BestType
  <2>2. QED
    BY <1>7, <2>1 DEF Found, lo, n
<1>13. \A i \in 0 .. n + m : B[i] = IF i < lo THEN NoClause
                                    ELSE IF us[i].d = depth THEN Passing(Starts(us, i), i, B[i - 1], e) ELSE B[i - 1]
  BY <1>2, <1>8, BestAtEach
<1> HIDE DEF B, best
<1>14. B[n + 1] = [name |-> clause, end |-> n + m]
  <2>1. n + 1 \in 0 .. n + m /\ ~(n + 1 < lo) /\ n + 1 - 1 = n /\ n + 1 \in n + 1 .. n + m /\ n + 1 + m - 1 = n + m
    BY <1>2, <1>4, <1>8
  <2>2. B[n + 1] = Passing(clause, n + 1, B[n], e)
    <3>1. B[n + 1] = Passing(Starts(us, n + 1), n + 1, B[n + 1 - 1], e)
      BY <1>2, <1>9, <1>13, <2>1
    <3>2. QED
      BY <1>6, <2>1, <3>1
  <2>3. n + m \in Int /\ n + m <= n + m /\ n + m > best.end
    BY <1>2, <1>4, <1>12
  <2>4. EndsBefore(e, n + m)
    BY <1>7, <2>3
  <2>5. n + 1 + Len(clause) - 1 = n + m
    BY <1>1, <2>1
  <2>6. ReadsAsAClause(clause, best.name)
    BY <1>12 DEF c
  <2>7. Supersedes(clause, n + 1, best, e)
    BY <1>4, <2>3, <2>4, <2>5, <2>6 DEF Supersedes
  <2>8. QED
    BY <1>11, <2>2, <2>5, <2>7 DEF Passing
<1>15. B[n + m] = [name |-> clause, end |-> n + m]
  <2>1. CASE m = 1
    BY <1>14, <2>1
  <2>2. CASE m = 2
    <3>1. n + 2 \in 0 .. n + m /\ ~(n + 2 < lo) /\ n + 2 - 1 = n + 1 /\ n + 2 \in n + 1 .. n + m
      BY <1>2, <1>8, <2>2
    <3>2. B[n + 2] = Passing(Starts(us, n + 2), n + 2, B[n + 1], e)
      <4>1. B[n + 2] = Passing(Starts(us, n + 2), n + 2, B[n + 2 - 1], e)
        BY <1>2, <1>9, <1>13, <3>1
      <4>2. QED
        BY <3>1, <4>1
    <3>3. Starts(us, n + 2) # <<>> => Len(Starts(us, n + 2)) = 1
      <4>1. Len(FROM) = 1 /\ Len(TABLE) = 1
        BY DEF FROM, TABLE, P
      <4>2. QED
        BY <1>6, <2>2, <4>1
    <3>4. ~Supersedes(Starts(us, n + 2), n + 2, B[n + 1], e)
      <4>1. B[n + 1].name = clause /\ B[n + 1].end = n + 2
        BY <1>14, <2>2
      <4>2. n + 2 + 1 - 1 = n + 2 /\ ~(n + 2 > n + 2) /\ ~(1 > Len(clause))
        BY <1>1, <1>2, <2>2
      <4>3. QED
        BY <3>3, <4>1, <4>2 DEF Supersedes
    <3>5. QED
      BY <1>14, <2>2, <3>2, <3>4 DEF Passing
  <2>3. QED
    BY <1>4, <2>1, <2>2
<1>16. Found(us, e, depth) = clause
  BY <1>7, <1>10, <1>15 DEF Found, B
<1>17. QED
  BY <1>16 DEF us, e

(* The words of a clause that reads as one govern from the gap behind them on; the groups around keep theirs. *)
LEMMA ClauseWritten ==
  ASSUME NEW ts, Text(ts), NEW clause \in Used, NEW p, Spelled(p, clause, DepthAt(ts, End(ts))),
         ReadsAsAClause(clause, Found(ts, End(ts), DepthAt(ts, End(ts))))
  PROVE  /\ Text(ts \o p)
         /\ \A g \in Len(ts) .. Len(ts) + Len(p) :
              /\ DepthAt(ts \o p, Gap(g)) = DepthAt(ts, End(ts))
              /\ g < Len(ts) + Len(p) =>
                   \A k \in 0 .. DepthAt(ts, End(ts)) : Outer(ts \o p, Gap(g))[k] = Outer(ts, End(ts))[k]
         /\ \A k \in 0 .. DepthAt(ts, End(ts)) - 1 : Outer(ts \o p, End(ts \o p))[k] = Outer(ts, End(ts))[k]
         /\ Outer(ts \o p, End(ts \o p))[DepthAt(ts, End(ts))] = clause
<1> DEFINE us == ts \o p
           n == Len(ts)
           m == Len(p)
           c == End(ts)
           D == DepthAt(ts, c)
<1>1. ts \in Seq(Token) /\ p \in Seq(Token) /\ m = Len(clause) /\ Written(ts) /\ Levelled(ts)
  BY DEF Text, Written, Spelled
<1>2. /\ us \in Seq(Token) /\ Len(us) = n + m /\ Extends(us, ts) /\ n \in Nat /\ m \in Nat
      /\ DOMAIN us = 1 .. n + m /\ DOMAIN ts = 1 .. n /\ DOMAIN p = 1 .. m
  BY <1>1, Longer
<1>3. \A i \in n + 1 .. n + m : us[i] = p[i - n] /\ i - n \in 1 .. m
  BY <1>1, Longer
<1>4. m \in {1, 2} /\ clause # <<>>
  BY <1>1, UsedAreTold
<1>5. \A i \in 1 .. m : p[i].t = "word" /\ p[i].d = D
  BY DEF Spelled
<1>6. Written(us) /\ Starts(us, n + 1) = clause
  BY <1>1, SpelledHeads, Zenon
<1>7. c \in Caret /\ c.at = n /\ D \in Nat /\ c = Gap(n) /\ \A j \in Int : EndsBefore(c, j) <=> j <= n
  BY <1>1, <1>2, GapType, DepthType DEF End
<1>8. Found(us, End(us), D) = clause
  BY <1>1, <1>7, TakesOver
<1> HIDE DEF us, n, m, c, D
<1>9. \A i \in n + 1 .. n + m : us[i].d = D /\ us[i].t = "word" /\ ~Mark(us, i, "(")
  BY <1>2, <1>3, <1>5 DEF Mark
<1>10. ASSUME NEW g \in n .. n + m PROVE DepthAt(us, Gap(g)) = D
  <2>1. CASE g = n
    <3>1. g \in 0 .. n
      BY <1>2, <2>1
    <3>2. DepthAt(us, Gap(g)) = DepthAt(ts, Gap(g))
      BY <1>1, <1>2, <3>1, DepthKept DEF n
    <3>3. QED
      BY <1>7, <2>1, <3>2 DEF D
  <2>2. CASE g \in n + 1 .. n + m
    <3>1. Gap(g).at = g /\ g # 0
      BY <1>2, <2>2, GapType
    <3>2. us[g].d = D /\ ~Mark(us, g, "(")
      BY <1>9, <2>2
    <3>3. QED
      BY <1>7, <3>1, <3>2 DEF DepthAt
  <2>3. QED
    BY <1>2, <2>1, <2>2, GapsOfBoth
<1>11. Levelled(us)
  <2>1. \A i \in n + 1 .. n + m : i - 1 \in n .. n + m
    BY <1>2
  <2>2. \A i \in n + 1 .. n + m : us[i].t = "word" => us[i].d = DepthAt(us, Gap(i - 1))
    BY <1>9, <1>10, <2>1
  <2>3. QED
    BY <1>1, <2>2, LevelsOfBoth DEF us, n, m
<1>12. ASSUME NEW g \in n .. n + m, NEW top \in Nat, top <= D,
              \A k \in 0 .. top : \A i \in n + 1 .. g : Silent(us, Gap(g), k, i)
       PROVE  \A k \in 0 .. top : Outer(us, Gap(g))[k] = Outer(ts, c)[k]
  <2>1. g \in Nat /\ Len(ts) <= g /\ g <= Len(us)
    BY <1>2, GapsOfBoth DEF n
  <2>2. top <= DepthAt(ts, End(ts)) /\ top <= DepthAt(us, Gap(g))
    BY <1>10, <1>12 DEF D, c
  <2>3. \A k \in 0 .. top : \A i \in Len(ts) + 1 .. g : Silent(us, Gap(g), k, i) /\ ~(Mark(us, i, "(") /\ us[i].d = k - 1)
    <3> TAKE k \in 0 .. top
    <3> TAKE i \in Len(ts) + 1 .. g
    <3>1. i \in n + 1 .. n + m /\ i \in n + 1 .. g
      BY <1>2, <2>1 DEF n
    <3>2. QED
      BY <1>9, <1>12, <3>1
  <2>4. Written(ts) /\ Written(us) /\ Extends(us, ts)
    BY <1>1, <1>2, <1>6
  <2>5. \A k \in 0 .. top : Outer(us, Gap(g))[k] = Outer(ts, End(ts))[k]
    BY <2>1, <2>2, <2>3, <2>4, OuterBehind
  <2>6. QED
    BY <2>5 DEF c
<1>13. ASSUME NEW g \in n .. n + m, g < n + m PROVE \A k \in 0 .. D : Outer(us, Gap(g))[k] = Outer(ts, c)[k]
  <2>1. \A k \in 0 .. D : \A i \in n + 1 .. g : Silent(us, Gap(g), k, i)
    <3> TAKE k \in 0 .. D
    <3> TAKE i \in n + 1 .. g
    <3>1. i = n + 1 /\ i + m - 1 = n + m /\ n + m \in Int /\ ~(n + m <= g) /\ g \in Nat
      BY <1>2, <1>4, <1>13
    <3>2. ~EndsBefore(Gap(g), n + m)
      BY <3>1, GapType
    <3>3. QED
      BY <1>1, <1>6, <3>1, <3>2 DEF Silent
  <2>2. D <= D
    BY <1>7
  <2>3. QED
    BY <1>7, <1>12, <2>1, <2>2
<1>14. \A k \in 0 .. D - 1 : Outer(us, End(us))[k] = Outer(ts, c)[k]
  <2> SUFFICES ASSUME NEW k \in 0 .. D - 1 PROVE Outer(us, End(us))[k] = Outer(ts, c)[k]
    OBVIOUS
  <2>1. D - 1 \in Nat /\ D - 1 <= D /\ n + m \in n .. n + m
    BY <1>2, <1>7
  <2>2. \A j \in 0 .. D - 1 : \A i \in n + 1 .. n + m : Silent(us, Gap(n + m), j, i)
    <3> TAKE j \in 0 .. D - 1
    <3> TAKE i \in n + 1 .. n + m
    <3>1. us[i].d = D /\ D # j
      BY <1>7, <1>9
    <3>2. QED
      BY <3>1 DEF Silent
  <2>3. \A j \in 0 .. D - 1 : Outer(us, Gap(n + m))[j] = Outer(ts, c)[j]
    BY <1>12, <2>1, <2>2
  <2>4. QED
    BY <1>2, <2>3 DEF End
<1>15. Outer(us, End(us))[D] = clause
  <2>1. n + m \in n .. n + m /\ n + m \in Nat /\ End(us) = Gap(n + m) /\ n + m <= Len(us)
    BY <1>2 DEF End
  <2>2. End(us) \in Caret /\ End(us).at <= Len(us) /\ DepthAt(us, End(us)) = D
    BY <1>10, <2>1, GapType
  <2>3. Outer(us, End(us))[D] = FirstOf(Found(us, End(us), D), Outer(us, End(us))[D - 1])
    <3>1. D \in 0 .. D
      BY <1>7
    <3>2. QED
      BY <1>6, <2>2, <3>1, OuterAtEach
  <2>4. QED
    BY <1>4, <1>8, <2>3 DEF FirstOf
<1>16. QED
  BY <1>6, <1>10, <1>11, <1>13, <1>14, <1>15 DEF Text, us, n, m, D, c

(* A paren is no word and separates nothing. *)
LEMMA ParenWritten ==
  ASSUME NEW ts, Text(ts), NEW x \in Token, x.t = "punct", x.v \in {"(", ")"}
  PROVE  /\ Text(ts \o <<x>>)
         /\ Len(ts) \in Nat /\ Len(ts \o <<x>>) = Len(ts) + 1 /\ Extends(ts \o <<x>>, ts)
         /\ (ts \o <<x>>)[Len(ts) + 1] = x /\ Len(ts) + 1 \in DOMAIN (ts \o <<x>>)
         /\ Starts(ts \o <<x>>, Len(ts) + 1) = <<>>
<1> DEFINE p == <<x>>
           us == ts \o p
           n == Len(ts)
<1>1. ts \in Seq(Token) /\ Written(ts) /\ p \in Seq(Token) /\ Len(p) = 1 /\ p[1] = x
  <2>1. ts \in Seq(Token) /\ Written(ts)
    BY DEF Text, Written
  <2>2. <<x>> \in Seq(Token) /\ Len(<<x>>) = 1 /\ <<x>>[1] = x
    <3> DEFINE S == Token
    <3> HIDE DEF S
    <3>1. x \in S
      BY DEF S
    <3>2. <<x>> \in Seq(S)
      BY <3>1
    <3>3. QED
      BY <3>2 DEF S
  <2>3. QED
    BY <2>1, <2>2
<1>2. /\ us \in Seq(Token) /\ Len(us) = n + Len(p) /\ Extends(us, ts) /\ n \in Nat
      /\ DOMAIN us = 1 .. n + Len(p) /\ DOMAIN ts = 1 .. n /\ DOMAIN p = 1 .. Len(p)
  BY <1>1, Longer
<1>3. \A i \in n + 1 .. n + Len(p) : us[i] = p[i - n] /\ i - n \in 1 .. Len(p)
  BY <1>1, Longer
<1>4. \A i \in 1 .. Len(p) : ~Mark(p, i, ";")
  <2> TAKE i \in 1 .. Len(p)
  <2>1. i = 1
    BY <1>1
  <2>2. QED
    BY <1>1, <2>1 DEF Mark
<1> HIDE DEF us, n, p
<1>5. us[n + 1] = x /\ n + 1 \in DOMAIN us /\ n + 1 \in n + 1 .. n + Len(p)
  <2> DEFINE j == n + 1
  <2>1. j \in n + 1 .. n + Len(p) /\ j - n = 1 /\ j \in 1 .. n + Len(p)
    BY <1>1, <1>2
  <2> HIDE DEF j
  <2>2. us[j] = x /\ j \in DOMAIN us
    BY <1>1, <1>2, <1>3, <2>1
  <2>3. QED
    BY <2>1, <2>2 DEF j
<1>6. \A i \in n + 1 .. n + Len(p) : i = n + 1
  BY <1>1, <1>2
<1>7. PlainWord(us, n + 1) \notin FirstWords
  BY <1>5, NoWordBeginsNone DEF PlainWord
<1>8. Written(us)
  <2>1. \A i \in n + 1 .. n + Len(p) : PlainWord(us, i) \in FirstWords => \E clause \in Used : HeadAt(us, i, clause)
    BY <1>6, <1>7
  <2>2. QED
    BY <1>1, <1>4, <2>1, HeadsOfBoth DEF us, n
<1>9. Levelled(us)
  <2>1. \A i \in n + 1 .. n + Len(p) : us[i].t = "word" => us[i].d = DepthAt(us, Gap(i - 1))
    BY <1>5, <1>6
  <2>2. QED
    BY <1>1, <2>1, LevelsOfBoth DEF us, n
<1>10. Starts(us, n + 1) = <<>>
  BY <1>7, StartsNone
<1>11. QED
  BY <1>1, <1>2, <1>5, <1>8, <1>9, <1>10 DEF Text, us, n, p

(* An opening paren begins a group in which nothing is found yet: what governs it is what governs its outside. *)
LEMMA GroupOpened ==
  ASSUME NEW ts, Text(ts), NEW x \in Token, x.t = "punct", x.v = "(", x.d = DepthAt(ts, End(ts))
  PROVE  /\ DepthAt(ts \o <<x>>, End(ts \o <<x>>)) = DepthAt(ts, End(ts)) + 1
         /\ \A k \in 0 .. DepthAt(ts, End(ts)) : Outer(ts \o <<x>>, End(ts \o <<x>>))[k] = Outer(ts, End(ts))[k]
         /\ Outer(ts \o <<x>>, End(ts \o <<x>>))[DepthAt(ts, End(ts)) + 1] = Outer(ts, End(ts))[DepthAt(ts, End(ts))]
<1> DEFINE us == ts \o <<x>>
           n == Len(ts)
           e == End(us)
           D == DepthAt(ts, End(ts))
<1>1. /\ Text(us) /\ n \in Nat /\ Len(us) = n + 1 /\ Extends(us, ts) /\ us[n + 1] = x /\ n + 1 \in DOMAIN us
      /\ Starts(us, n + 1) = <<>>
  BY ParenWritten
<1>2. Written(ts) /\ Written(us) /\ ts \in Seq(Token)
  BY <1>1 DEF Text, Written
<1>3. D \in Nat
  <2>1. End(ts) \in Caret /\ End(ts).at = n
    BY <1>1, GapType DEF End
  <2>2. QED
    BY <1>1, <1>2, <2>1, DepthType
<1> HIDE DEF us, n, D
<1>4. e = Gap(n + 1) /\ n + 1 \in Nat /\ e \in Caret /\ e.at = n + 1
  BY <1>1, GapType DEF End
<1>5. Mark(us, n + 1, "(") /\ us[n + 1].d = D
  BY <1>1 DEF Mark, D
<1>6. DepthAt(us, e) = D + 1
  BY <1>1, <1>4, <1>5 DEF DepthAt
<1>7. \A k \in 0 .. D : Outer(us, e)[k] = Outer(ts, End(ts))[k]
  <2>1. n + 1 \in Nat /\ Len(ts) <= n + 1 /\ n + 1 <= Len(us) /\ D \in Nat
    BY <1>1, <1>3 DEF n
  <2>2. D <= DepthAt(ts, End(ts)) /\ D <= DepthAt(us, Gap(n + 1))
    BY <1>3, <1>4, <1>6 DEF D
  <2>3. \A k \in 0 .. D : \A i \in Len(ts) + 1 .. n + 1 :
          Silent(us, Gap(n + 1), k, i) /\ ~(Mark(us, i, "(") /\ us[i].d = k - 1)
    <3> TAKE k \in 0 .. D
    <3> TAKE i \in Len(ts) + 1 .. n + 1
    <3>1. i = n + 1 /\ k - 1 # D
      BY <1>1, <1>3 DEF n
    <3>2. QED
      BY <1>1, <1>5, <3>1 DEF Silent
  <2>4. \A k \in 0 .. D : Outer(us, Gap(n + 1))[k] = Outer(ts, End(ts))[k]
    BY <1>1, <1>2, <2>1, <2>2, <2>3, OuterBehind
  <2>5. QED
    BY <1>4, <2>4
<1>8. Found(us, e, D + 1) = <<>>
  <2> DEFINE T == {i \in 1 .. e.at : Mark(us, i, "(") /\ us[i].d = D + 1 - 1}
  <2>1. T \in SUBSET (1 .. n + 1) /\ n + 1 \in T
    <3>1. D + 1 - 1 = D /\ n + 1 \in 1 .. n + 1
      BY <1>1, <1>3
    <3>2. QED
      BY <1>4, <1>5, <3>1
  <2>2. GroupStart(us, e, D + 1) = MaxOf(T, 0) + 1
    BY <1>3 DEF GroupStart
  <2> HIDE DEF T
  <2>3. MaxOf(T, 0) = n + 1
    <3> DEFINE m == n + 1
    <3>1. m \in Nat /\ T \in SUBSET (1 .. m) /\ T # {} /\ m \in T
      BY <1>4, <2>1
    <3> HIDE DEF m
    <3>2. MaxOf(T, 0) \in T /\ \A y \in T : y <= MaxOf(T, 0)
      BY <3>1, MaxOfPart
    <3>3. MaxOf(T, 0) \in 1 .. m /\ m <= MaxOf(T, 0)
      BY <3>1, <3>2
    <3>4. QED
      BY <3>1, <3>3 DEF m
  <2>4. GroupStart(us, e, D + 1) = n + 2 /\ n + 2 \in Nat \ {0} /\ n + 1 < n + 2 /\ n + 1 \in 0 .. Len(us) /\ Len(us) \in Nat
    BY <1>1, <2>2, <2>3
  <2>5. BestIn(us, n + 2, e, D + 1)[n + 1] = NoClause
    BY <2>4, BestAtEach
  <2>6. QED
    BY <1>4, <2>4, <2>5 DEF Found, NoClause
<1>9. Outer(us, e)[D + 1] = Outer(ts, End(ts))[D]
  <2> DEFINE K == D + 1
  <2>1. K \in 0 .. DepthAt(us, e) /\ K - 1 = D /\ D \in 0 .. D /\ e.at <= Len(us)
    BY <1>1, <1>3, <1>4, <1>6
  <2>2. Found(us, e, K) = <<>>
    BY <1>8
  <2> HIDE DEF K, e
  <2>3. \A k \in 0 .. DepthAt(us, e) : Outer(us, e)[k] = FirstOf(Found(us, e, k), Outer(us, e)[k - 1])
    BY <1>2, <1>4, <2>1, OuterAtEach
  <2>4. Outer(us, e)[K] = FirstOf(Found(us, e, K), Outer(us, e)[K - 1])
    BY <2>1, <2>3
  <2>5. Outer(us, e)[K] = Outer(us, e)[D]
    BY <2>1, <2>2, <2>4 DEF FirstOf
  <2>6. Outer(us, e)[K] = Outer(ts, End(ts))[D]
    BY <1>7, <2>1, <2>5
  <2>7. QED
    BY <2>6 DEF K
<1>10. QED
  BY <1>6, <1>7, <1>9 DEF us, D

(* A closing paren goes back to what was found around its group. *)
LEMMA GroupClosed ==
  ASSUME NEW ts, Text(ts), DepthAt(ts, End(ts)) > 0,
         NEW x \in Token, x.t = "punct", x.v = ")", x.d = DepthAt(ts, End(ts)) - 1
  PROVE  /\ DepthAt(ts \o <<x>>, End(ts \o <<x>>)) = DepthAt(ts, End(ts)) - 1
         /\ \A k \in 0 .. DepthAt(ts, End(ts)) - 1 : Outer(ts \o <<x>>, End(ts \o <<x>>))[k] = Outer(ts, End(ts))[k]
<1> DEFINE us == ts \o <<x>>
           n == Len(ts)
           e == End(us)
           D == DepthAt(ts, End(ts))
<1>1. /\ Text(us) /\ n \in Nat /\ Len(us) = n + 1 /\ Extends(us, ts) /\ us[n + 1] = x /\ n + 1 \in DOMAIN us
      /\ Starts(us, n + 1) = <<>>
  BY ParenWritten
<1>2. Written(ts) /\ Written(us) /\ ts \in Seq(Token)
  BY <1>1 DEF Text, Written
<1>3. D \in Nat /\ D - 1 \in Nat
  <2>1. End(ts) \in Caret /\ End(ts).at = n
    BY <1>1, GapType DEF End
  <2>2. D \in Nat
    BY <1>1, <1>2, <2>1, DepthType
  <2>3. QED
    BY <2>2
<1> HIDE DEF us, n, D
<1>4. e = Gap(n + 1) /\ n + 1 \in Nat /\ e \in Caret /\ e.at = n + 1
  BY <1>1, GapType DEF End
<1>5. ~Mark(us, n + 1, "(") /\ us[n + 1].d = D - 1
  BY <1>1 DEF Mark, D
<1>6. DepthAt(us, e) = D - 1
  BY <1>1, <1>3, <1>4, <1>5 DEF DepthAt
<1>7. \A k \in 0 .. D - 1 : Outer(us, e)[k] = Outer(ts, End(ts))[k]
  <2>1. n + 1 \in Nat /\ Len(ts) <= n + 1 /\ n + 1 <= Len(us) /\ D - 1 \in Nat
    BY <1>1, <1>3 DEF n
  <2>2. D - 1 <= DepthAt(ts, End(ts)) /\ D - 1 <= DepthAt(us, Gap(n + 1))
    BY <1>3, <1>4, <1>6 DEF D
  <2>3. \A k \in 0 .. D - 1 : \A i \in Len(ts) + 1 .. n + 1 :
          Silent(us, Gap(n + 1), k, i) /\ ~(Mark(us, i, "(") /\ us[i].d = k - 1)
    <3> TAKE k \in 0 .. D - 1
    <3> TAKE i \in Len(ts) + 1 .. n + 1
    <3>1. i = n + 1
      BY <1>1 DEF n
    <3>2. QED
      BY <1>1, <1>5, <3>1 DEF Silent
  <2>4. \A k \in 0 .. D - 1 : Outer(us, Gap(n + 1))[k] = Outer(ts, End(ts))[k]
    BY <1>1, <1>2, <2>1, <2>2, <2>3, OuterBehind
  <2>5. QED
    BY <1>4, <2>4
<1>8. QED
  BY <1>6, <1>7 DEF us, D

(* Two places in a text between which nothing is read have the same clauses around them. *)
LEMMA SameText ==
  ASSUME NEW ts, Written(ts), NEW g \in Caret, NEW c \in Caret, g.at <= Len(ts), g.at <= c.at, c.at <= Len(ts),
         \A j \in 1 .. Len(ts) : ts[j].t = "word" => (EndsBefore(g, j) <=> EndsBefore(c, j)),
         NEW m \in Nat, m <= DepthAt(ts, g), m <= DepthAt(ts, c),
         \A k \in 0 .. m : \A i \in g.at + 1 .. c.at : Silent(ts, c, k, i) /\ ~(Mark(ts, i, "(") /\ ts[i].d = k - 1)
  PROVE  \A k \in 0 .. m : Outer(ts, c)[k] = Outer(ts, g)[k]
<1>1. ts \in Seq(Token) /\ Len(ts) \in Nat
  <2>1. ts \in Seq(Token)
    BY DEF Written
  <2>2. QED
    BY <2>1, LenProperties
<1>2. Extends(ts, ts)
  BY <1>1 DEF Extends
<1>3. QED
  BY <1>2, OuterKept

-----------------------------------------------------------------------------
(* The caret on a token. *)

(* On a word the caret is where it was before the word; on a mark where it is behind the mark. *)
LEMMA OnAToken ==
  ASSUME NEW ts, Text(ts), NEW a \in 1 .. Len(ts), NEW c, c = [at |-> a, on |-> TRUE]
  PROVE  Outer(ts, c)[DepthAt(ts, c)] =
           IF IsIdent(ts, a) THEN Outer(ts, Gap(a - 1))[DepthAt(ts, Gap(a - 1))] ELSE Outer(ts, Gap(a))[DepthAt(ts, Gap(a))]
<1>1. Written(ts) /\ Levelled(ts) /\ ts \in Seq(Token)
  BY DEF Text, Written
<1>2. Len(ts) \in Nat /\ DOMAIN ts = 1 .. Len(ts) /\ a \in DOMAIN ts /\ ts[a] \in Token
  BY <1>1, LenProperties, ElementOfSeq
<1>3. c \in Caret /\ c.at = a /\ a \in Nat /\ a # 0 /\ \A j \in Int : EndsBefore(c, j) <=> j < a
  BY <1>2 DEF Caret, EndsBefore
<1>4. Extends(ts, ts) /\ c.at <= Len(ts) /\ DepthAt(ts, c) \in Nat
  <2>1. c.at <= Len(ts)
    BY <1>2, <1>3
  <2>2. QED
    BY <1>1, <1>2, <1>3, <2>1, DepthType DEF Extends
<1>5. CASE IsIdent(ts, a)
  <2> DEFINE g == Gap(a - 1)
             m == DepthAt(ts, c)
  <2>1. a - 1 \in Nat /\ g \in Caret /\ g.at = a - 1 /\ \A j \in Int : EndsBefore(g, j) <=> j <= a - 1
    BY <1>3, GapType
  <2>2. ts[a].t = "word" /\ ~Mark(ts, a, "(")
    BY <1>2, <1>5 DEF IsIdent, Token, Kinds, Mark
  <2>3. DepthAt(ts, c) = ts[a].d /\ DepthAt(ts, g) = ts[a].d
    <3>1. DepthAt(ts, c) = ts[a].d + 0
      BY <1>3, <2>2 DEF DepthAt
    <3>2. ts[a].d \in Nat
      BY <1>2 DEF Token
    <3>3. QED
      BY <1>1, <1>2, <2>2, <3>1, <3>2 DEF Levelled
  <2> HIDE DEF g, m
  <2>4. m \in Nat /\ m <= DepthAt(ts, g) /\ m <= DepthAt(ts, c) /\ g.at <= Len(ts) /\ g.at <= c.at /\ c.at <= Len(ts) /\ m = DepthAt(ts, g)
    BY <1>2, <1>3, <1>4, <2>1, <2>3 DEF m
  <2>5. \A j \in 1 .. Len(ts) : ts[j].t = "word" => (EndsBefore(g, j) <=> EndsBefore(c, j))
    <3> TAKE j \in 1 .. Len(ts)
    <3>1. j \in Int /\ (j < a <=> j <= a - 1)
      BY <1>2, <1>3
    <3>2. (EndsBefore(g, j) <=> j <= a - 1) /\ (EndsBefore(c, j) <=> j < a)
      BY <1>3, <2>1, <3>1
    <3>3. QED
      BY <3>1, <3>2
  <2>6. \A k \in 0 .. m : \A i \in g.at + 1 .. c.at : Silent(ts, c, k, i) /\ ~(Mark(ts, i, "(") /\ ts[i].d = k - 1)
    <3> TAKE k \in 0 .. m
    <3> TAKE i \in g.at + 1 .. c.at
    <3>1. i = a
      BY <1>3, <2>1
    <3>2. Starts(ts, a) # <<>> => ~EndsBefore(c, a + Len(Starts(ts, a)) - 1)
      <4> SUFFICES ASSUME Starts(ts, a) # <<>> PROVE ~EndsBefore(c, a + Len(Starts(ts, a)) - 1)
        OBVIOUS
      <4>1. Len(Starts(ts, a)) \in {1, 2}
        BY <1>1, StartsUsed, UsedAreTold
      <4>2. a + Len(Starts(ts, a)) - 1 \in Int /\ ~(a + Len(Starts(ts, a)) - 1 < a)
        BY <1>3, <4>1
      <4>3. QED
        BY <1>3, <4>2
    <3>3. QED
      BY <2>2, <3>1, <3>2 DEF Silent
  <2>7. g \in Caret
    BY <2>1
  <2>8. \A k \in 0 .. m : Outer(ts, c)[k] = Outer(ts, g)[k]
    <3>1. c \in Caret /\ Written(ts) /\ Extends(ts, ts) /\ m \in Nat
      BY <1>1, <1>3, <1>4, <2>4
    <3>2. m <= DepthAt(ts, g) /\ m <= DepthAt(ts, c) /\ g.at <= Len(ts) /\ g.at <= c.at /\ c.at <= Len(ts)
      BY <2>4
    <3>3. \A k \in 0 .. m : \A i \in g.at + 1 .. c.at : Silent(ts, c, k, i) /\ ~(Mark(ts, i, "(") /\ ts[i].d = k - 1)
      BY <2>6
    <3>4. \A j \in 1 .. Len(ts) : ts[j].t = "word" => (EndsBefore(g, j) <=> EndsBefore(c, j))
      BY <2>5
    <3> HIDE DEF g, m
    <3>5. QED
      BY <2>7, <3>1, <3>2, <3>3, <3>4, SameText, Zenon
  <2>9. m \in 0 .. m
    BY <2>4
  <2>10. QED
    BY <1>5, <2>4, <2>8, <2>9 DEF g, m
<1>6. CASE ~IsIdent(ts, a)
  <2> DEFINE g == Gap(a)
             m == DepthAt(ts, c)
  <2>1. g \in Caret /\ g.at = a /\ \A j \in Int : EndsBefore(g, j) <=> j <= a
    BY <1>3, GapType
  <2>2. ts[a].t # "word"
    BY <1>2, <1>6 DEF IsIdent
  <2>3. DepthAt(ts, c) = DepthAt(ts, g)
    BY <1>3, <2>1 DEF DepthAt
  <2> HIDE DEF g, m
  <2>4. m \in Nat /\ m <= DepthAt(ts, g) /\ m <= DepthAt(ts, c) /\ g.at <= Len(ts) /\ g.at <= c.at /\ c.at <= Len(ts) /\ m = DepthAt(ts, g)
    BY <1>2, <1>3, <1>4, <2>1, <2>3 DEF m
  <2>5. \A j \in 1 .. Len(ts) : ts[j].t = "word" => (EndsBefore(g, j) <=> EndsBefore(c, j))
    <3> TAKE j \in 1 .. Len(ts)
    <3> SUFFICES ASSUME ts[j].t = "word" PROVE EndsBefore(g, j) <=> EndsBefore(c, j)
      OBVIOUS
    <3>1. j # a
      BY <2>2
    <3>2. j \in Int /\ (j < a <=> j <= a)
      BY <1>2, <1>3, <3>1
    <3>3. (EndsBefore(g, j) <=> j <= a) /\ (EndsBefore(c, j) <=> j < a)
      BY <1>3, <2>1, <3>2
    <3>4. QED
      BY <3>2, <3>3
  <2>6. \A k \in 0 .. m : \A i \in g.at + 1 .. c.at : Silent(ts, c, k, i) /\ ~(Mark(ts, i, "(") /\ ts[i].d = k - 1)
    BY <1>3, <2>1
  <2>7. g \in Caret
    BY <2>1
  <2>8. \A k \in 0 .. m : Outer(ts, c)[k] = Outer(ts, g)[k]
    <3>1. c \in Caret /\ Written(ts) /\ Extends(ts, ts) /\ m \in Nat
      BY <1>1, <1>3, <1>4, <2>4
    <3>2. m <= DepthAt(ts, g) /\ m <= DepthAt(ts, c) /\ g.at <= Len(ts) /\ g.at <= c.at /\ c.at <= Len(ts)
      BY <2>4
    <3>3. \A k \in 0 .. m : \A i \in g.at + 1 .. c.at : Silent(ts, c, k, i) /\ ~(Mark(ts, i, "(") /\ ts[i].d = k - 1)
      BY <2>6
    <3>4. \A j \in 1 .. Len(ts) : ts[j].t = "word" => (EndsBefore(g, j) <=> EndsBefore(c, j))
      BY <2>5
    <3> HIDE DEF g, m
    <3>5. QED
      BY <2>7, <3>1, <3>2, <3>3, <3>4, SameText, Zenon
  <2>9. m \in 0 .. m
    BY <2>4
  <2>10. QED
    BY <1>6, <2>4, <2>8, <2>9 DEF g, m
<1>7. QED
  BY <1>5, <1>6

-----------------------------------------------------------------------------
(* The author and the engine: the truth about gaps and groups. *)

(* What the author keeps of a gap: the level, the clause and the slot of the grammar it is in. *)
Slots == {"begin", "explained", "half", "open", "done", "star", "aliased", "named", "labelled", "derived", "body", "branch",
          "all", "cte", "casting", "cast", "typing", "case", "when", "held", "then", "chosen", "directed", "counted",
          "operand", "compared", "quoted", "columns", "column", "listed", "defined", "name", "constrained"}
Frame == [level : Nat, clause : Used \union {<<>>}, slot : Slots, body : Nat]
(* A frame of a slot that only a statement which begins is in. *)
Apt(frame) == (frame.slot = "begin" => frame.clause = <<>>) /\ (frame.slot = "explained" => frame.clause = EXPLAIN)
(* The clause in each gap is the one the engine finds in it. *)
Told(ts, gs) ==
  /\ gs \in Seq(Frame) /\ Len(gs) = Len(ts) + 1
  /\ \A g \in 0 .. Len(ts) : Outer(ts, Gap(g))[DepthAt(ts, Gap(g))] = gs[g + 1].clause
(* The open groups are the depths of the last gap, each with the clause found there. *)
Nested(ts, st) ==
  /\ st \in Seq(Frame) /\ Len(st) = DepthAt(ts, End(ts)) + 1
  /\ \A k \in 1 .. Len(st) : st[k].clause = Outer(ts, End(ts))[k - 1]
Standing(ts, gs, st) == Text(ts) /\ Told(ts, gs) /\ Nested(ts, st) /\ Apt(st[1])

(* The last of a sequence, and those before it. *)
LEMMA Ends ==
  ASSUME NEW S, NEW st \in Seq(S), Len(st) > 0
  PROVE  /\ Len(st) \in Nat \ {0} /\ DOMAIN st = 1 .. Len(st) /\ \A k \in 1 .. Len(st) : st[k] \in S
         /\ Last(st) = st[Len(st)] /\ Last(st) \in S
         /\ Front(st) \in Seq(S) /\ Len(Front(st)) = Len(st) - 1
         /\ \A k \in 1 .. Len(st) - 1 : Front(st)[k] = st[k]
<1>1. Len(st) \in Nat /\ DOMAIN st = 1 .. Len(st) /\ \A k \in 1 .. Len(st) : st[k] \in S
  BY LenProperties, ElementOfSeq
<1>2. Len(st) \in 1 .. Len(st)
  BY <1>1
<1>3. Front(st) \in Seq(S) /\ Len(Front(st)) = Len(st) - 1 /\ \A k \in 1 .. Len(st) - 1 : Front(st)[k] = st[k]
  BY <1>1 DEF Front
<1>4. QED
  BY <1>1, <1>2, <1>3 DEF Last

(* One put at the end of a sequence, or in the place of its last. *)
LEMMA Replaced ==
  ASSUME NEW S, NEW st \in Seq(S), NEW x \in S
  PROVE  /\ st \o <<x>> \in Seq(S) /\ Len(st \o <<x>>) = Len(st) + 1 /\ Len(st) \in Nat
         /\ (st \o <<x>>)[Len(st) + 1] = x /\ \A k \in 1 .. Len(st) : (st \o <<x>>)[k] = st[k]
<1>1. <<x>> \in Seq(S) /\ Len(<<x>>) = 1 /\ <<x>>[1] = x
  OBVIOUS
<1>2. Len(st) \in Nat
  BY LenProperties
<1>3. /\ st \o <<x>> \in Seq(S) /\ Len(st \o <<x>>) = Len(st) + Len(<<x>>)
      /\ \A i \in 1 .. Len(st) + Len(<<x>>) : (st \o <<x>>)[i] = IF i <= Len(st) THEN st[i] ELSE <<x>>[i - Len(st)]
  BY <1>1, ConcatProperties
<1> DEFINE n == Len(st) + 1
<1>4. n \in 1 .. Len(st) + Len(<<x>>) /\ ~(n <= Len(st)) /\ n - Len(st) = 1
  BY <1>1, <1>2
<1> HIDE DEF n
<1>5. (st \o <<x>>)[n] = x
  BY <1>1, <1>3, <1>4
<1>6. \A k \in 1 .. Len(st) : (st \o <<x>>)[k] = st[k]
  BY <1>1, <1>2, <1>3
<1>7. QED
  BY <1>1, <1>2, <1>3, <1>5, <1>6 DEF n

(* The author's truth about the gaps of a text goes on being true behind it. *)
LEMMA ToldOn ==
  ASSUME NEW ts, Text(ts), NEW gs, Told(ts, gs), NEW us, Text(us), Extends(us, ts),
         NEW hs \in Seq(Frame), Len(us) = Len(ts) + Len(hs),
         \A g \in Len(ts) + 1 .. Len(us) : Outer(us, Gap(g))[DepthAt(us, Gap(g))] = hs[g - Len(ts)].clause
  PROVE  Told(us, gs \o hs)
<1>1. Written(ts) /\ Written(us) /\ ts \in Seq(Token) /\ us \in Seq(Token)
  BY DEF Text, Written
<1>2. Len(ts) \in Nat /\ Len(us) \in Nat /\ Len(hs) \in Nat
  BY <1>1, LenProperties
<1>3. gs \in Seq(Frame) /\ Len(gs) = Len(ts) + 1
  BY DEF Told
<1>4. /\ gs \o hs \in Seq(Frame) /\ Len(gs \o hs) = Len(gs) + Len(hs)
      /\ \A i \in 1 .. Len(gs) + Len(hs) : (gs \o hs)[i] = IF i <= Len(gs) THEN gs[i] ELSE hs[i - Len(gs)]
  BY <1>3, ConcatProperties
<1>5. Len(gs \o hs) = Len(us) + 1
  BY <1>2, <1>3, <1>4
<1>6. ASSUME NEW g \in 0 .. Len(us)
      PROVE  Outer(us, Gap(g))[DepthAt(us, Gap(g))] = (gs \o hs)[g + 1].clause
  <2>1. CASE g <= Len(ts)
    <3>1. g \in 0 .. Len(ts) /\ g + 1 \in 1 .. Len(gs) + Len(hs) /\ g + 1 <= Len(gs)
      BY <1>2, <1>3, <2>1
    <3>2. (gs \o hs)[g + 1] = gs[g + 1]
      BY <1>4, <3>1
    <3>3. Outer(us, Gap(g))[DepthAt(us, Gap(g))] = Outer(ts, Gap(g))[DepthAt(ts, Gap(g))]
      BY <1>1, <3>1, GapsKept
    <3>4. Outer(ts, Gap(g))[DepthAt(ts, Gap(g))] = gs[g + 1].clause
      BY <3>1 DEF Told
    <3>5. QED
      BY <3>2, <3>3, <3>4
  <2>2. CASE ~(g <= Len(ts))
    <3>1. /\ g \in Len(ts) + 1 .. Len(us) /\ g + 1 \in 1 .. Len(gs) + Len(hs) /\ ~(g + 1 <= Len(gs))
          /\ g + 1 - Len(gs) = g - Len(ts)
      BY <1>2, <1>3, <2>2
    <3>2. (gs \o hs)[g + 1] = hs[g - Len(ts)]
      BY <1>4, <3>1
    <3>3. QED
      BY <3>1, <3>2
  <2>3. QED
    BY <2>1, <2>2
<1>7. QED
  BY <1>4, <1>5, <1>6 DEF Told

(* The innermost group takes a new frame, the ones around it keep theirs. *)
LEMMA NestedOn ==
  ASSUME NEW ts, Text(ts), NEW st, Nested(ts, st), NEW us, NEW frame \in Frame,
         DepthAt(us, End(us)) = DepthAt(ts, End(ts)),
         \A k \in 0 .. DepthAt(ts, End(ts)) - 1 : Outer(us, End(us))[k] = Outer(ts, End(ts))[k],
         Outer(us, End(us))[DepthAt(ts, End(ts))] = frame.clause
  PROVE  Nested(us, Front(st) \o <<frame>>)
<1> DEFINE D == DepthAt(ts, End(ts))
           ft == Front(st) \o <<frame>>
<1>1. ts \in Seq(Token) /\ Len(ts) \in Nat
  <2>1. ts \in Seq(Token)
    BY DEF Text, Written
  <2>2. QED
    BY <2>1, LenProperties
<1>2. D \in Nat
  <2>1. End(ts) \in Caret /\ End(ts).at <= Len(ts)
    BY <1>1, GapType DEF End
  <2>2. QED
    BY <1>1, <2>1, DepthType
<1>3. st \in Seq(Frame) /\ Len(st) = D + 1 /\ Len(st) > 0 /\ \A k \in 1 .. Len(st) : st[k].clause = Outer(ts, End(ts))[k - 1]
  <2>1. st \in Seq(Frame) /\ Len(st) = D + 1 /\ \A k \in 1 .. Len(st) : st[k].clause = Outer(ts, End(ts))[k - 1]
    BY DEF Nested
  <2>2. QED
    BY <1>2, <2>1
<1>4. /\ Front(st) \in Seq(Frame) /\ Len(Front(st)) = D /\ \A k \in 1 .. D : Front(st)[k] = st[k]
  <2> HIDE DEF D
  <2>1. /\ Front(st) \in Seq(Frame) /\ Len(Front(st)) = Len(st) - 1
        /\ \A k \in 1 .. Len(st) - 1 : Front(st)[k] = st[k]
    BY <1>3, Ends
  <2>2. Len(st) - 1 = D
    BY <1>2, <1>3
  <2>3. QED
    BY <2>1, <2>2
<1> HIDE DEF D
<1>5. /\ ft \in Seq(Frame) /\ Len(ft) = D + 1 /\ ft[D + 1] = frame /\ \A k \in 1 .. D : ft[k] = Front(st)[k]
  <2>1. /\ ft \in Seq(Frame) /\ Len(ft) = Len(Front(st)) + 1 /\ ft[Len(Front(st)) + 1] = frame
        /\ \A k \in 1 .. Len(Front(st)) : ft[k] = Front(st)[k]
    BY <1>4, Replaced
  <2>2. QED
    BY <1>4, <2>1
<1> HIDE DEF ft
<1>6. ASSUME NEW k \in 1 .. D + 1 PROVE ft[k].clause = Outer(us, End(us))[k - 1]
  <2>1. CASE k = D + 1
    <3>1. k - 1 = D
      BY <1>2, <2>1
    <3>2. QED
      BY <1>5, <2>1, <3>1 DEF D
  <2>2. CASE k # D + 1
    <3>1. k \in 1 .. D /\ k \in 1 .. Len(st) /\ k - 1 \in 0 .. D - 1
      BY <1>2, <1>3, <2>2
    <3>2. ft[k] = st[k]
      BY <1>4, <1>5, <3>1
    <3>3. st[k].clause = Outer(ts, End(ts))[k - 1]
      BY <1>3, <3>1
    <3>4. Outer(us, End(us))[k - 1] = Outer(ts, End(ts))[k - 1]
      BY <3>1 DEF D
    <3>5. QED
      BY <3>2, <3>3, <3>4
  <2>3. QED
    BY <2>1, <2>2
<1>7. QED
  BY <1>5, <1>6 DEF Nested, D, ft

-----------------------------------------------------------------------------
(* Pieces as they are put. *)

(* Tokens as the author writes them: no first word of a clause, no paren, no semicolon. *)
Plain == {x \in [t : Kinds, v : Spellings] :
            (x.t = "word" => x.v \in Quiet \union Names) /\ (x.t = "punct" => x.v \in {",", "."})}

(* A plain piece begins no clause and opens no group, at whatever depth it is put. *)
LEMMA PlacedPlain ==
  ASSUME NEW piece \in Seq(Plain), NEW depth \in Nat, NEW spaced \in BOOLEAN
  PROVE  Neutral(Placed(piece, depth, spaced), depth) /\ Len(Placed(piece, depth, spaced)) = Len(piece)
<1> DEFINE p == Placed(piece, depth, spaced)
<1>1. Len(piece) \in Nat /\ DOMAIN piece = 1 .. Len(piece) /\ \A i \in 1 .. Len(piece) : piece[i] \in Plain
  BY LenProperties, ElementOfSeq
<1>2. p = [i \in 1 .. Len(piece) |-> [t |-> piece[i].t, v |-> piece[i].v, d |-> depth, s |-> spaced]]
  BY <1>1 DEF Placed
<1> HIDE DEF p
<1>3. ASSUME NEW i \in 1 .. Len(piece)
      PROVE  /\ [t |-> piece[i].t, v |-> piece[i].v, d |-> depth, s |-> spaced] \in Token
             /\ piece[i].t = "word" => piece[i].v \notin FirstWords
             /\ piece[i].t = "punct" => piece[i].v \notin {"(", ")", ";"}
  <2> DEFINE x == piece[i]
  <2>1. x \in Plain
    BY <1>1
  <2> HIDE DEF x
  <2>9. /\ x \in [t : Kinds, v : Spellings]
        /\ x.t = "word" => x.v \in Quiet \union Names
        /\ x.t = "punct" => x.v \in {",", "."}
    BY <2>1, Zenon DEF Plain
  <2>2. [t |-> x.t, v |-> x.v, d |-> depth, s |-> spaced] \in Token
    BY <2>9 DEF Token
  <2>3. x.t = "word" => x.v \notin FirstWords
    BY <2>9, NamesAreQuiet
  <2>4. x.t = "punct" => x.v \notin {"(", ")", ";"}
    BY <2>9
  <2>5. QED
    BY <2>2, <2>3, <2>4 DEF x
<1>4. p \in Seq(Token) /\ Len(p) = Len(piece)
  <2>1. p \in [1 .. Len(piece) -> Token]
    BY <1>2, <1>3
  <2>2. QED
    BY <1>1, <2>1
<1>5. \A i \in 1 .. Len(piece) : p[i].d = depth /\ p[i].t = piece[i].t /\ p[i].v = piece[i].v
  BY <1>2
<1>6. QED
  BY <1>3, <1>4, <1>5 DEF p, Neutral

(* The words of a clause spell it, at whatever depth they are put. *)
LEMMA PlacedWords ==
  ASSUME NEW clause \in Used, NEW depth \in Nat, NEW spaced \in BOOLEAN
  PROVE  /\ Spelled(Placed(Words(clause), depth, spaced), clause, depth)
         /\ Len(Placed(Words(clause), depth, spaced)) = Len(clause) /\ Len(Words(clause)) = Len(clause)
         /\ Len(clause) \in Nat \ {0}
<1> DEFINE p == Placed(Words(clause), depth, spaced)
<1>1. Len(clause) \in {1, 2} /\ DOMAIN clause = 1 .. Len(clause)
  BY UsedAreTold
<1>2. \A i \in 1 .. Len(clause) : clause[i] \in Spellings
  <2>1. ASSUME NEW i \in 1 .. Len(clause) PROVE clause[i] \in UNION {Range(c) : c \in Used}
    <3>1. clause[i] \in Range(clause)
      BY <1>1 DEF Range
    <3>2. QED
      BY <3>1
  <2>2. QED
    BY <2>1 DEF Spellings
<1>3. Words(clause) = [i \in 1 .. Len(clause) |-> [t |-> "word", v |-> clause[i]]]
  BY <1>1 DEF Words, W
<1>4. p = [i \in 1 .. Len(clause) |-> [t |-> "word", v |-> clause[i], d |-> depth, s |-> spaced]]
  BY <1>3 DEF Placed
<1>5. Words(clause) \in Seq([t : {"word"}, v : Spellings]) /\ Len(Words(clause)) = Len(clause)
  <2>1. Words(clause) \in [1 .. Len(clause) -> [t : {"word"}, v : Spellings]]
    BY <1>2, <1>3
  <2> DEFINE n == Len(clause)
             q == Words(clause)
             S == [t : {"word"}, v : Spellings]
  <2>2. q \in [1 .. n -> S] /\ n \in Nat
    BY <1>1, <2>1
  <2> HIDE DEF n, q, S
  <2>3. q \in Seq(S) /\ Len(q) = n
    BY <2>2
  <2>4. QED
    BY <2>3 DEF n, q, S
<1> HIDE DEF p
<1>6. p \in Seq(Token) /\ Len(p) = Len(clause)
  <2>1. ASSUME NEW i \in 1 .. Len(clause) PROVE [t |-> "word", v |-> clause[i], d |-> depth, s |-> spaced] \in Token
    BY <1>2 DEF Token, Kinds
  <2> DEFINE n == Len(clause)
  <2>2. p \in [1 .. n -> Token] /\ n \in Nat
    BY <1>1, <1>4, <2>1
  <2> HIDE DEF n
  <2>3. p \in Seq(Token) /\ Len(p) = n
    BY <2>2
  <2>4. QED
    BY <2>3 DEF n
<1>7. \A i \in 1 .. Len(clause) : p[i].d = depth /\ p[i].t = "word" /\ p[i].v = clause[i]
  BY <1>4
<1>8. QED
  BY <1>1, <1>5, <1>6, <1>7 DEF p, Spelled

(* Of an upright state: its depth, and its innermost frame. *)
LEMMA Upright ==
  ASSUME NEW ts, NEW gs, NEW st, Standing(ts, gs, st)
  PROVE  /\ Written(ts) /\ ts \in Seq(Token) /\ Len(ts) \in Nat
         /\ DepthAt(ts, End(ts)) = Len(st) - 1 /\ Len(st) - 1 \in Nat /\ Len(st) > 0 /\ st \in Seq(Frame)
         /\ Last(st) \in Frame /\ Last(st) = st[Len(st)]
         /\ Outer(ts, End(ts))[DepthAt(ts, End(ts))] = Last(st).clause
<1>1. Written(ts) /\ ts \in Seq(Token) /\ Len(ts) \in Nat
  <2>1. Written(ts) /\ ts \in Seq(Token)
    BY DEF Standing, Text, Written
  <2>2. QED
    BY <2>1, LenProperties
<1>2. DepthAt(ts, End(ts)) \in Nat
  <2>1. End(ts) \in Caret /\ End(ts).at <= Len(ts)
    BY <1>1, GapType DEF End
  <2>2. QED
    BY <1>1, <2>1, DepthType
<1>3. /\ st \in Seq(Frame) /\ Len(st) = DepthAt(ts, End(ts)) + 1
      /\ \A k \in 1 .. Len(st) : st[k].clause = Outer(ts, End(ts))[k - 1]
  BY DEF Standing, Nested
<1>4. Len(st) > 0 /\ DepthAt(ts, End(ts)) = Len(st) - 1 /\ Len(st) \in 1 .. Len(st)
  <2> DEFINE D == DepthAt(ts, End(ts))
             n == Len(st)
  <2>1. D \in Nat /\ n = D + 1
    BY <1>2, <1>3
  <2> HIDE DEF D, n
  <2>2. n > 0 /\ D = n - 1 /\ n \in 1 .. n
    BY <2>1
  <2>3. QED
    BY <2>2 DEF D, n
<1>5. Last(st) \in Frame /\ Last(st) = st[Len(st)]
  BY <1>3, <1>4, Ends
<1>6. QED
  BY <1>1, <1>2, <1>3, <1>4, <1>5

(* Something written at the depth the author is at. *)
LEMMA WrittenOn ==
  ASSUME NEW ts, NEW gs, NEW st, Standing(ts, gs, st),
         NEW p \in Seq(Token), Text(ts \o p), NEW hs \in Seq(Frame), Len(hs) = Len(p), NEW frame \in Frame, Apt(frame),
         \A g \in Len(ts) .. Len(ts) + Len(p) : DepthAt(ts \o p, Gap(g)) = DepthAt(ts, End(ts)),
         \A g \in Len(ts) + 1 .. Len(ts) + Len(p) : Outer(ts \o p, Gap(g))[DepthAt(ts, End(ts))] = hs[g - Len(ts)].clause,
         \A k \in 0 .. DepthAt(ts, End(ts)) - 1 : Outer(ts \o p, End(ts \o p))[k] = Outer(ts, End(ts))[k],
         Outer(ts \o p, End(ts \o p))[DepthAt(ts, End(ts))] = frame.clause
  PROVE  Standing(ts \o p, gs \o hs, Front(st) \o <<frame>>)
<1> DEFINE us == ts \o p
<1>1. /\ Text(ts) /\ Told(ts, gs) /\ Nested(ts, st) /\ Apt(st[1])
  BY DEF Standing
<1>2. ts \in Seq(Token) /\ Len(ts) \in Nat /\ Len(st) - 1 \in Nat /\ Len(st) > 0 /\ st \in Seq(Frame)
  BY Upright
<1>3. Len(us) = Len(ts) + Len(p) /\ Extends(us, ts) /\ Len(p) \in Nat
  BY <1>2, Longer
<1>4. Told(us, gs \o hs)
  <2>1. \A g \in Len(ts) + 1 .. Len(us) : Outer(us, Gap(g))[DepthAt(us, Gap(g))] = hs[g - Len(ts)].clause
    <3> TAKE g \in Len(ts) + 1 .. Len(us)
    <3>1. g \in Len(ts) .. Len(ts) + Len(p) /\ g \in Len(ts) + 1 .. Len(ts) + Len(p)
      BY <1>2, <1>3
    <3>2. QED
      BY <3>1
  <2>2. Len(us) = Len(ts) + Len(hs)
    BY <1>3
  <2> HIDE DEF us
  <2>3. Text(us)
    BY DEF us
  <2>4. QED
    BY <1>1, <1>3, <2>1, <2>2, <2>3, ToldOn
<1>5. Nested(us, Front(st) \o <<frame>>)
  <2>1. DepthAt(us, End(us)) = DepthAt(ts, End(ts))
    <3> DEFINE m == Len(us)
    <3>1. m \in Len(ts) .. Len(ts) + Len(p)
      BY <1>2, <1>3
    <3> HIDE DEF m
    <3>2. DepthAt(us, Gap(m)) = DepthAt(ts, End(ts))
      BY <3>1
    <3>3. QED
      BY <3>2 DEF m, End
  <2>2. \A k \in 0 .. DepthAt(ts, End(ts)) - 1 : Outer(us, End(us))[k] = Outer(ts, End(ts))[k]
    OBVIOUS
  <2>3. Outer(us, End(us))[DepthAt(ts, End(ts))] = frame.clause
    OBVIOUS
  <2> HIDE DEF us
  <2>4. QED
    BY <1>1, <2>1, <2>2, <2>3, NestedOn
<1>6. Apt((Front(st) \o <<frame>>)[1])
  <2>1. Front(st) \in Seq(Frame) /\ Len(Front(st)) = Len(st) - 1 /\ \A k \in 1 .. Len(st) - 1 : Front(st)[k] = st[k]
    BY <1>2, Ends
  <2>2. /\ (Front(st) \o <<frame>>)[Len(Front(st)) + 1] = frame
        /\ \A k \in 1 .. Len(Front(st)) : (Front(st) \o <<frame>>)[k] = Front(st)[k]
    BY <2>1, Replaced
  <2>3. CASE Len(st) - 1 = 0
    BY <2>1, <2>2, <2>3
  <2>4. CASE Len(st) - 1 # 0
    <3> DEFINE m == Len(st) - 1
    <3>1. m \in Nat /\ m # 0
      BY <1>2, <2>4
    <3> HIDE DEF m
    <3>2. 1 \in 1 .. m
      BY <3>1
    <3>3. 1 \in 1 .. Len(st) - 1
      BY <3>2 DEF m
    <3>4. (Front(st) \o <<frame>>)[1] = st[1]
      BY <2>1, <2>2, <3>3
    <3>5. QED
      BY <1>1, <3>4
  <2>5. QED
    BY <2>3, <2>4
<1>7. QED
  BY <1>4, <1>5, <1>6 DEF Standing

(* A piece that begins no clause and opens no group stays under the clause the author is in. *)
LEMMA PlainPut ==
  ASSUME NEW ts, NEW gs, NEW st, Standing(ts, gs, st),
         NEW piece \in Seq(Plain), NEW spaced \in BOOLEAN, NEW frame \in Frame, frame.clause = Last(st).clause, Apt(frame),
         NEW hs \in Seq(Frame), Len(hs) = Len(piece), \A i \in 1 .. Len(piece) : hs[i].clause = Last(st).clause
  PROVE  Standing(ts \o Placed(piece, Len(st) - 1, spaced), gs \o hs, Front(st) \o <<frame>>)
<1> DEFINE p == Placed(piece, Len(st) - 1, spaced)
           us == ts \o p
           D == DepthAt(ts, End(ts))
<1>1. /\ ts \in Seq(Token) /\ Len(ts) \in Nat /\ D = Len(st) - 1 /\ D \in Nat
      /\ Outer(ts, End(ts))[D] = Last(st).clause
  BY Upright
<1>2. Neutral(p, D) /\ Len(p) = Len(piece)
  BY <1>1, PlacedPlain
<1>3. Text(ts)
  BY DEF Standing
<1> HIDE DEF p, D
<1>4. /\ Text(us)
      /\ \A g \in Len(ts) .. Len(ts) + Len(p) :
           DepthAt(us, Gap(g)) = D /\ \A k \in 0 .. D : Outer(us, Gap(g))[k] = Outer(ts, End(ts))[k]
  BY <1>2, <1>3, PlainlyWritten DEF D
<1>5. p \in Seq(Token)
  BY <1>2 DEF Neutral
<1>6. Len(us) = Len(ts) + Len(p) /\ Len(p) \in Nat
  BY <1>1, <1>5, Longer
<1>7. \A k \in 0 .. D : Outer(us, End(us))[k] = Outer(ts, End(ts))[k]
  <2> DEFINE m == Len(us)
  <2>1. m \in Len(ts) .. Len(ts) + Len(p)
    BY <1>1, <1>6
  <2> HIDE DEF m
  <2>2. \A k \in 0 .. D : Outer(us, Gap(m))[k] = Outer(ts, End(ts))[k]
    BY <1>4, <2>1
  <2>3. QED
    BY <2>2 DEF End, m
<1>8. D \in 0 .. D
  BY <1>1
<1>9. \A g \in Len(ts) + 1 .. Len(ts) + Len(p) : Outer(us, Gap(g))[D] = hs[g - Len(ts)].clause
  <2> TAKE g \in Len(ts) + 1 .. Len(ts) + Len(p)
  <2>1. g \in Len(ts) .. Len(ts) + Len(p) /\ g - Len(ts) \in 1 .. Len(piece)
    BY <1>1, <1>2, <1>6
  <2>2. Outer(us, Gap(g))[D] = Outer(ts, End(ts))[D]
    BY <1>4, <1>8, <2>1
  <2>3. hs[g - Len(ts)].clause = Last(st).clause
    BY <2>1
  <2>4. QED
    BY <1>1, <2>2, <2>3
<1>10. \A k \in 0 .. D - 1 : Outer(us, End(us))[k] = Outer(ts, End(ts))[k]
  <2> TAKE k \in 0 .. D - 1
  <2>1. k \in 0 .. D
    BY <1>1
  <2>2. QED
    BY <1>7, <2>1
<1>11. Outer(us, End(us))[D] = frame.clause
  BY <1>1, <1>7, <1>8
<1>12. \A g \in Len(ts) .. Len(ts) + Len(p) : DepthAt(us, Gap(g)) = D
  BY <1>4
<1>13. Len(hs) = Len(p)
  BY <1>2
<1>14. Standing(us, gs \o hs, Front(st) \o <<frame>>)
  BY <1>4, <1>5, <1>9, <1>10, <1>11, <1>12, <1>13, WrittenOn DEF D
<1>15. QED
  BY <1>14 DEF p

(* The words of a clause that reads as one begin it; before the last of them the one before still governs. *)
LEMMA ClausePut ==
  ASSUME NEW ts, NEW gs, NEW st, Standing(ts, gs, st),
         NEW clause \in Used, ReadsAsAClause(clause, Found(ts, End(ts), Len(st) - 1)), NEW spaced \in BOOLEAN,
         NEW frame \in Frame, frame.clause = clause, Apt(frame),
         NEW hs \in Seq(Frame), Len(hs) = Len(clause), \A i \in 1 .. Len(clause) - 1 : hs[i].clause = Last(st).clause,
         hs[Len(clause)].clause = clause
  PROVE  Standing(ts \o Placed(Words(clause), Len(st) - 1, spaced), gs \o hs, Front(st) \o <<frame>>)
<1> DEFINE p == Placed(Words(clause), Len(st) - 1, spaced)
           us == ts \o p
           D == DepthAt(ts, End(ts))
<1>1. /\ ts \in Seq(Token) /\ Len(ts) \in Nat /\ D = Len(st) - 1 /\ D \in Nat
      /\ Outer(ts, End(ts))[D] = Last(st).clause
  BY Upright
<1>2. Spelled(p, clause, D) /\ Len(p) = Len(clause) /\ Len(clause) \in Nat \ {0}
  BY <1>1, PlacedWords
<1>3. Text(ts) /\ ReadsAsAClause(clause, Found(ts, End(ts), D))
  BY <1>1 DEF Standing
<1> HIDE DEF p, D
<1>4. /\ Text(us)
      /\ \A g \in Len(ts) .. Len(ts) + Len(p) :
           /\ DepthAt(us, Gap(g)) = D
           /\ g < Len(ts) + Len(p) => \A k \in 0 .. D : Outer(us, Gap(g))[k] = Outer(ts, End(ts))[k]
      /\ \A k \in 0 .. D - 1 : Outer(us, End(us))[k] = Outer(ts, End(ts))[k]
      /\ Outer(us, End(us))[D] = clause
  BY <1>2, <1>3, ClauseWritten DEF D
<1>5. p \in Seq(Token)
  BY <1>2 DEF Spelled
<1>6. Len(us) = Len(ts) + Len(p) /\ Len(p) \in Nat
  BY <1>1, <1>5, Longer
<1>8. D \in 0 .. D
  BY <1>1
<1>9. \A g \in Len(ts) + 1 .. Len(ts) + Len(p) : Outer(us, Gap(g))[D] = hs[g - Len(ts)].clause
  <2> TAKE g \in Len(ts) + 1 .. Len(ts) + Len(p)
  <2>1. CASE g = Len(ts) + Len(p)
    <3>1. g = Len(us) /\ g - Len(ts) = Len(clause)
      BY <1>1, <1>2, <1>6, <2>1
    <3>2. Outer(us, Gap(g))[D] = clause
      BY <1>4, <3>1 DEF End
    <3>3. QED
      BY <3>1, <3>2
  <2>2. CASE g # Len(ts) + Len(p)
    <3>1. g \in Len(ts) .. Len(ts) + Len(p) /\ g - Len(ts) \in 1 .. Len(clause) - 1 /\ g < Len(ts) + Len(p)
      <4> DEFINE n == Len(ts)
                 m == Len(p)
                 l == Len(clause)
      <4>1. n \in Nat /\ m \in Nat /\ l = m /\ g \in n + 1 .. n + m /\ g # n + m
        BY <1>1, <1>2, <1>6, <2>2
      <4> HIDE DEF n, m, l
      <4>2. g \in n .. n + m /\ g - n \in 1 .. l - 1 /\ g < n + m
        BY <4>1
      <4>3. QED
        BY <4>2 DEF n, m, l
    <3>2. Outer(us, Gap(g))[D] = Outer(ts, End(ts))[D]
      BY <1>4, <1>8, <3>1
    <3>3. hs[g - Len(ts)].clause = Last(st).clause
      BY <3>1
    <3>4. QED
      BY <1>1, <3>2, <3>3
  <2>3. QED
    BY <2>1, <2>2
<1>12. \A g \in Len(ts) .. Len(ts) + Len(p) : DepthAt(us, Gap(g)) = D
  BY <1>4
<1>13. Len(hs) = Len(p)
  BY <1>2
<1>14. Standing(us, gs \o hs, Front(st) \o <<frame>>)
  BY <1>4, <1>5, <1>9, <1>12, <1>13, WrittenOn DEF D
<1>15. QED
  BY <1>14 DEF p

(* A paren as it is put. *)
LEMMA PlacedParen ==
  ASSUME NEW v \in {"(", ")"}, NEW depth \in Nat, NEW spaced \in BOOLEAN
  PROVE  /\ Placed(<<M(v)>>, depth, spaced) = <<[t |-> "punct", v |-> v, d |-> depth, s |-> spaced]>>
         /\ [t |-> "punct", v |-> v, d |-> depth, s |-> spaced] \in Token
<1>1. Placed(<<M(v)>>, depth, spaced) = <<[t |-> "punct", v |-> v, d |-> depth, s |-> spaced]>>
  BY DEF Placed, M
<1>2. v \in Spellings
  <2>1. v \in {",", ".", "(", ")", "*", "=", "1", "q"}
    OBVIOUS
  <2>2. QED
    BY <2>1 DEF Spellings
<1>3. "punct" \in Kinds
  BY DEF Kinds
<1>4. QED
  BY <1>1, <1>2, <1>3 DEF Token

(* A group that is opened is under the clause around it. *)
LEMMA GroupPut ==
  ASSUME NEW ts, NEW gs, NEW st, Standing(ts, gs, st), NEW spaced \in BOOLEAN,
         NEW frame \in Frame, frame.clause = Last(st).clause
  PROVE  Standing(ts \o Placed(<<M("(")>>, Len(st) - 1, spaced), gs \o <<frame>>, st \o <<frame>>)
<1> DEFINE x == [t |-> "punct", v |-> "(", d |-> Len(st) - 1, s |-> spaced]
           D == DepthAt(ts, End(ts))
           us == ts \o <<x>>
<1>1. /\ ts \in Seq(Token) /\ Len(ts) \in Nat /\ D = Len(st) - 1 /\ D \in Nat /\ st \in Seq(Frame) /\ Len(st) > 0
      /\ Outer(ts, End(ts))[D] = Last(st).clause
  BY Upright
<1>2. x \in Token /\ x.t = "punct" /\ x.v = "(" /\ x.d = D
  BY <1>1, PlacedParen
<1>3. Placed(<<M("(")>>, Len(st) - 1, spaced) = <<x>>
  BY <1>1, PlacedParen
<1>4. Text(ts) /\ Told(ts, gs) /\ Nested(ts, st) /\ Apt(st[1])
  BY DEF Standing
<1> HIDE DEF x, us, D
<1>5. Text(us) /\ Len(us) = Len(ts) + 1 /\ Extends(us, ts)
  BY <1>2, <1>4, ParenWritten DEF us
<1>6. /\ DepthAt(us, End(us)) = D + 1
      /\ \A k \in 0 .. D : Outer(us, End(us))[k] = Outer(ts, End(ts))[k]
      /\ Outer(us, End(us))[D + 1] = Outer(ts, End(ts))[D]
  BY <1>2, <1>4, GroupOpened DEF us, D
<1>7. Told(us, gs \o <<frame>>)
  <2>1. <<frame>> \in Seq(Frame) /\ Len(<<frame>>) = 1 /\ <<frame>>[1] = frame
    OBVIOUS
  <2>2. \A g \in Len(ts) + 1 .. Len(us) : Outer(us, Gap(g))[DepthAt(us, Gap(g))] = <<frame>>[g - Len(ts)].clause
    <3> TAKE g \in Len(ts) + 1 .. Len(us)
    <3>1. g = Len(us) /\ g - Len(ts) = 1
      BY <1>1, <1>5
    <3>2. Outer(us, End(us))[DepthAt(us, End(us))] = frame.clause
      BY <1>1, <1>6
    <3>3. QED
      BY <2>1, <3>1, <3>2 DEF End
  <2>3. QED
    BY <1>4, <1>5, <2>1, <2>2, ToldOn
<1>8. /\ st \o <<frame>> \in Seq(Frame) /\ Len(st \o <<frame>>) = Len(st) + 1
      /\ (st \o <<frame>>)[Len(st) + 1] = frame /\ \A k \in 1 .. Len(st) : (st \o <<frame>>)[k] = st[k]
  BY <1>1, Replaced
<1>9. Nested(us, st \o <<frame>>)
  <2> DEFINE ft == st \o <<frame>>
  <2>1. ASSUME NEW k \in 1 .. Len(ft) PROVE ft[k].clause = Outer(us, End(us))[k - 1]
    <3>1. CASE k = Len(st) + 1
      <4>1. k - 1 = D + 1
        BY <1>1, <3>1
      <4>2. QED
        BY <1>1, <1>6, <1>8, <3>1, <4>1
    <3>2. CASE k # Len(st) + 1
      <4>1. k \in 1 .. Len(st) /\ k - 1 \in 0 .. D
        BY <1>1, <1>8, <3>2
      <4>2. st[k].clause = Outer(ts, End(ts))[k - 1]
        BY <1>4, <4>1 DEF Nested
      <4>3. QED
        BY <1>6, <1>8, <4>1, <4>2
    <3>3. QED
      BY <3>1, <3>2
  <2>2. Len(ft) = DepthAt(us, End(us)) + 1
    BY <1>1, <1>6, <1>8
  <2>3. QED
    BY <1>8, <2>1, <2>2 DEF Nested
<1>10. Apt((st \o <<frame>>)[1])
  BY <1>1, <1>4, <1>8
<1>11. Standing(us, gs \o <<frame>>, st \o <<frame>>)
  BY <1>5, <1>7, <1>9, <1>10 DEF Standing
<1>12. QED
  BY <1>3, <1>11 DEF us

(* A group that is closed leaves the one around it as it was. *)
LEMMA GroupLeft ==
  ASSUME NEW ts, NEW gs, NEW st, Standing(ts, gs, st), Len(st) > 1
  PROVE  Standing(ts \o Placed(<<M(")")>>, Len(st) - 2, TRUE), gs \o <<st[Len(st) - 1]>>, Front(st))
<1> DEFINE x == [t |-> "punct", v |-> ")", d |-> Len(st) - 2, s |-> TRUE]
           D == DepthAt(ts, End(ts))
           us == ts \o <<x>>
           frame == st[Len(st) - 1]
<1>1. /\ ts \in Seq(Token) /\ Len(ts) \in Nat /\ D = Len(st) - 1 /\ D \in Nat /\ st \in Seq(Frame) /\ Len(st) > 0
  BY Upright
<1>2. x \in Token /\ x.t = "punct" /\ x.v = ")" /\ x.d = D - 1 /\ D > 0 /\ D - 1 \in Nat
  <2>1. Len(st) \in Nat
    BY <1>1, LenProperties
  <2>2. Len(st) - 2 \in Nat /\ Len(st) - 2 = D - 1 /\ D > 0
    BY <1>1, <2>1
  <2>3. x \in Token
    BY <2>2, PlacedParen
  <2>4. QED
    BY <2>2, <2>3
<1>3. Placed(<<M(")")>>, Len(st) - 2, TRUE) = <<x>>
  <2>1. Len(st) \in Nat
    BY <1>1, LenProperties
  <2>2. Len(st) - 2 \in Nat
    BY <2>1
  <2>3. QED
    BY <2>2, PlacedParen
<1>4. Text(ts) /\ Told(ts, gs) /\ Nested(ts, st) /\ Apt(st[1])
  BY DEF Standing
<1> HIDE DEF x, us, D
<1>5. Text(us) /\ Len(us) = Len(ts) + 1 /\ Extends(us, ts)
  BY <1>2, <1>4, ParenWritten DEF us
<1>6. /\ DepthAt(us, End(us)) = D - 1
      /\ \A k \in 0 .. D - 1 : Outer(us, End(us))[k] = Outer(ts, End(ts))[k]
  BY <1>2, <1>4, GroupClosed DEF us, D
<1>7. frame \in Frame /\ frame.clause = Outer(ts, End(ts))[D - 1]
  <2>1. Len(st) - 1 \in 1 .. Len(st) /\ Len(st) - 1 - 1 = D - 1
    BY <1>1, <1>2
  <2> DEFINE k == Len(st) - 1
  <2> HIDE DEF k
  <2>2. k \in 1 .. Len(st) /\ k - 1 = D - 1
    BY <2>1 DEF k
  <2>3. st[k].clause = Outer(ts, End(ts))[k - 1] /\ st[k] \in Frame
    BY <1>1, <1>4, <2>2, ElementOfSeq DEF Nested
  <2>4. QED
    BY <2>2, <2>3 DEF k
<1>8. Told(us, gs \o <<frame>>)
  <2> HIDE DEF frame
  <2>1. <<frame>> \in Seq(Frame) /\ Len(<<frame>>) = 1 /\ <<frame>>[1] = frame
    BY <1>7
  <2>2. \A g \in Len(ts) + 1 .. Len(us) : Outer(us, Gap(g))[DepthAt(us, Gap(g))] = <<frame>>[g - Len(ts)].clause
    <3> TAKE g \in Len(ts) + 1 .. Len(us)
    <3>1. g = Len(us) /\ g - Len(ts) = 1
      BY <1>1, <1>5
    <3>2. Outer(us, End(us))[DepthAt(us, End(us))] = frame.clause
      <4>1. D - 1 \in 0 .. D - 1
        BY <1>2
      <4>2. QED
        BY <1>6, <1>7, <4>1
    <3>3. QED
      BY <2>1, <3>1, <3>2 DEF End
  <2>3. QED
    BY <1>4, <1>5, <2>1, <2>2, ToldOn
<1>9. Front(st) \in Seq(Frame) /\ Len(Front(st)) = Len(st) - 1 /\ \A k \in 1 .. Len(st) - 1 : Front(st)[k] = st[k]
  BY <1>1, Ends
<1>10. Nested(us, Front(st))
  <2> DEFINE ft == Front(st)
  <2>1. ASSUME NEW k \in 1 .. Len(ft) PROVE ft[k].clause = Outer(us, End(us))[k - 1]
    <3>1. k \in 1 .. Len(st) - 1 /\ k \in 1 .. Len(st) /\ k - 1 \in 0 .. D - 1
      BY <1>1, <1>2, <1>9
    <3>2. st[k].clause = Outer(ts, End(ts))[k - 1]
      BY <1>4, <3>1 DEF Nested
    <3>3. QED
      BY <1>6, <1>9, <3>1, <3>2
  <2>2. Len(ft) = DepthAt(us, End(us)) + 1
    BY <1>1, <1>6, <1>9
  <2>3. QED
    BY <1>9, <2>1, <2>2 DEF Nested
<1>11. Apt(Front(st)[1])
  <2>1. 1 \in 1 .. Len(st) - 1
    BY <1>1, <1>2
  <2>2. QED
    BY <1>4, <1>9, <2>1
<1>12. Standing(us, gs \o <<frame>>, Front(st))
  BY <1>5, <1>8, <1>10, <1>11 DEF Standing
<1>13. QED
  BY <1>3, <1>12 DEF us

(* Where no group is open what is found is what the outermost frame says. *)
LEMMA FoundOutside ==
  ASSUME NEW ts, NEW gs, NEW st, Standing(ts, gs, st), Len(st) = 1
  PROVE  Found(ts, End(ts), 0) = st[1].clause
<1>1. Written(ts) /\ Len(ts) \in Nat /\ DepthAt(ts, End(ts)) = 0 /\ Outer(ts, End(ts))[0] = st[1].clause
  BY Upright
<1>2. End(ts) \in Caret /\ End(ts).at <= Len(ts)
  BY <1>1, GapType DEF End
<1>3. Outer(ts, End(ts))[-1] = <<>> /\ \A k \in 0 .. DepthAt(ts, End(ts)) :
         Outer(ts, End(ts))[k] = FirstOf(Found(ts, End(ts), k), Outer(ts, End(ts))[k - 1])
  BY <1>1, <1>2, OuterAtEach
<1>4. Outer(ts, End(ts))[0] = FirstOf(Found(ts, End(ts), 0), Outer(ts, End(ts))[0 - 1])
  BY <1>1, <1>3
<1>5. QED
  BY <1>1, <1>3, <1>4 DEF FirstOf

(* Before anything is written nothing is found. *)
LEMMA FoundAtFirst ==
  /\ End(<<>>) = Gap(0) /\ Gap(0) \in Caret /\ Gap(0).at = 0 /\ DepthAt(<<>>, Gap(0)) = 0
  /\ Found(<<>>, Gap(0), 0) = <<>>
<1> DEFINE ts == <<>>
<1>1. Len(ts) = 0
  OBVIOUS
<1> HIDE DEF ts
<1>2. End(ts) = Gap(0) /\ Gap(0) \in Caret /\ Gap(0).at = 0 /\ DepthAt(ts, Gap(0)) = 0
  BY <1>1, GapType DEF End, DepthAt
<1>3. Found(ts, Gap(0), 0) = <<>>
  <2>1. GroupStart(ts, Gap(0), 0) = 1
    BY DEF GroupStart
  <2>2. BestIn(ts, 1, Gap(0), 0)[0] = NoClause
    BY <1>1, BestAtEach
  <2>3. QED
    BY <1>2, <2>1, <2>2 DEF Found, NoClause
<1>4. QED
  BY <1>2, <1>3 DEF ts

(* Before anything is written no clause governs. *)
LEMMA StandingAtFirst ==
  ASSUME NEW frame \in Frame, frame.clause = <<>>, Apt(frame)
  PROVE  Standing(<<>>, <<frame>>, <<frame>>)
<1> DEFINE ts == <<>>
<1>1. ts \in Seq(Token) /\ Len(ts) = 0 /\ DOMAIN ts = {}
  OBVIOUS
<1> HIDE DEF ts
<1>2. Text(ts)
  BY <1>1 DEF Text, Written, Headed, Levelled
<1>3. End(ts) = Gap(0) /\ Gap(0) \in Caret /\ Gap(0).at = 0 /\ DepthAt(ts, Gap(0)) = 0
  BY FoundAtFirst DEF ts
<1>4. Found(ts, Gap(0), 0) = <<>>
  BY FoundAtFirst DEF ts
<1>5. Outer(ts, Gap(0))[0] = <<>>
  <2>1. Outer(ts, Gap(0))[-1] = <<>> /\ \A k \in 0 .. DepthAt(ts, Gap(0)) :
         Outer(ts, Gap(0))[k] = FirstOf(Found(ts, Gap(0), k), Outer(ts, Gap(0))[k - 1])
    BY <1>1, <1>2, <1>3, OuterAtEach DEF Text
  <2>2. Outer(ts, Gap(0))[0] = FirstOf(Found(ts, Gap(0), 0), Outer(ts, Gap(0))[0 - 1])
    BY <1>3, <2>1
  <2>3. QED
    BY <1>4, <2>1, <2>2 DEF FirstOf
<1>6. <<frame>> \in Seq(Frame) /\ Len(<<frame>>) = 1 /\ <<frame>>[1] = frame
  OBVIOUS
<1>7. Told(ts, <<frame>>)
  <2>1. ASSUME NEW g \in 0 .. Len(ts) PROVE Outer(ts, Gap(g))[DepthAt(ts, Gap(g))] = <<frame>>[g + 1].clause
    <3>1. g = 0
      BY <1>1
    <3>2. QED
      BY <1>3, <1>5, <1>6, <3>1
  <2>2. QED
    BY <1>1, <1>6, <2>1 DEF Told
<1>8. Nested(ts, <<frame>>)
  <2>1. ASSUME NEW k \in 1 .. Len(<<frame>>) PROVE <<frame>>[k].clause = Outer(ts, End(ts))[k - 1]
    <3>1. k = 1
      BY <1>6
    <3>2. QED
      BY <1>3, <1>5, <1>6, <3>1
  <2>2. QED
    BY <1>3, <1>6, <2>1 DEF Nested
<1>9. Standing(ts, <<frame>>, <<frame>>)
  BY <1>2, <1>6, <1>7, <1>8 DEF Standing
<1>10. QED
  BY <1>9 DEF ts

-----------------------------------------------------------------------------
(* The invariant, and the kinds of steps that keep it. *)

(* What the author keeps of the query levels, and how a step may change them. *)
Relation == [label : Names \union {"t1"}, of : Nat, at : Nat]
CteNamed == [name : Names, of : Nat]
OutputNames == {"c", "*", "f", "", "y"}
Level == [depth : Nat, sees : SUBSET Nat, relations : Seq(Relation), outputs : Seq(OutputNames), ctes : SUBSET CteNamed,
          clauses : SUBSET Used, items : Nat, branch : BOOLEAN]
Typed(ls) == ls \in Seq(Level) /\ \A i \in DOMAIN ls : ls[i].sees \subseteq DOMAIN ls
Grown(ls, ms) == Typed(ms) /\ Len(ls) <= Len(ms)
(* The slots but those where a statement begins. *)
Ordinary == Slots \ {"begin", "explained"}

(* The levels see levels there are, the open groups are of levels there are, the caret is in the text. *)
TypeOK ==
  /\ Typed(levels)
  /\ \A k \in 1 .. Len(stack) : stack[k].level \in DOMAIN levels
  /\ caret \in Caret /\ caret.at <= Len(tokens) /\ (caret.on => caret.at > 0)
(* The inductive invariant: at every gap the engine finds the clause the author has kept of it, and
   around the end of the text the clauses of the groups that are open. *)
Right == Standing(tokens, gaps, stack) /\ TypeOK

(* What is in the gaps of a piece: all but the last are inside it. *)
LEMMA Between ==
  ASSUME NEW gs \in Seq(Frame), NEW n \in Nat, NEW mid \in Frame, NEW frame \in Frame
  PROVE  LET hs == [i \in 1 .. n |-> mid] \o <<frame>>
         IN  /\ hs \in Seq(Frame) /\ Len(hs) = n + 1 /\ hs[n + 1] = frame /\ \A i \in 1 .. n : hs[i] = mid
             /\ gs \o [i \in 1 .. n |-> mid] \o <<frame>> = gs \o hs
<1> DEFINE ms == [i \in 1 .. n |-> mid]
<1>1. ms \in Seq(Frame) /\ Len(ms) = n /\ \A i \in 1 .. n : ms[i] = mid
  OBVIOUS
<1>2. <<frame>> \in Seq(Frame)
  OBVIOUS
<1> HIDE DEF ms
<1>3. gs \o ms \o <<frame>> = gs \o (ms \o <<frame>>)
  BY <1>1, <1>2, ConcatAssociative
<1>4. /\ ms \o <<frame>> \in Seq(Frame) /\ Len(ms \o <<frame>>) = Len(ms) + 1
      /\ (ms \o <<frame>>)[Len(ms) + 1] = frame /\ \A k \in 1 .. Len(ms) : (ms \o <<frame>>)[k] = ms[k]
  BY <1>1, Replaced
<1>5. QED
  BY <1>1, <1>3, <1>4 DEF ms

(* The frame the author is in, and it in another slot. *)
LEMMA TopFrame ==
  ASSUME Right
  PROVE  /\ Top \in Frame /\ Top.level \in DOMAIN levels /\ Here \in Level /\ Here.sees \subseteq DOMAIN levels
         /\ Len(stack) > 0 /\ Len(stack) \in Nat /\ Depth \in Nat /\ stack \in Seq(Frame) /\ Inside \in Frame
         /\ levels \in Seq(Level) /\ Len(levels) \in Nat /\ DOMAIN levels = 1 .. Len(levels)
         /\ Len(tokens) \in Nat /\ tokens \in Seq(Token) /\ gaps \in Seq(Frame)
         /\ Inside.clause = Top.clause
<1>1. /\ Len(stack) - 1 \in Nat /\ Len(stack) > 0 /\ stack \in Seq(Frame) /\ Last(stack) \in Frame
      /\ Last(stack) = stack[Len(stack)] /\ Len(tokens) \in Nat /\ tokens \in Seq(Token)
  BY Upright DEF Right
<1>2. Len(stack) \in Nat
  BY <1>1, LenProperties
<1>3. levels \in Seq(Level) /\ Len(levels) \in Nat /\ DOMAIN levels = 1 .. Len(levels)
  <2>1. levels \in Seq(Level)
    BY DEF Right, TypeOK, Typed
  <2>2. QED
    BY <2>1, LenProperties
<1>4. Top.level \in DOMAIN levels
  <2>1. Len(stack) \in 1 .. Len(stack)
    BY <1>1, <1>2
  <2>2. QED
    BY <1>1, <2>1 DEF Right, TypeOK, Top
<1>5. Here \in Level /\ Here.sees \subseteq DOMAIN levels
  <2>1. Here \in Level
    BY <1>3, <1>4, ElementOfSeq DEF Here
  <2>2. QED
    BY <1>4, <2>1 DEF Right, TypeOK, Typed, Here
<1>6. Top \in Frame
  BY <1>1 DEF Top
<1>7. Inside \in Frame /\ Inside.clause = Top.clause
  <2>1. "half" \in Slots
    BY DEF Slots
  <2>2. QED
    BY <1>6, <2>1 DEF Inside, Frame
<1>8. gaps \in Seq(Frame)
  BY DEF Right, Standing, Told
<1>9. QED
  BY <1>1, <1>2, <1>3, <1>4, <1>5, <1>6, <1>7, <1>8 DEF Depth

(* A step that keeps the stack's levels known and puts the caret behind what is written. *)
LEMMA TypesKept ==
  ASSUME Right, Grown(levels, levels'), NEW spaced \in BOOLEAN,
         Len(tokens') \in Nat \ {0}, caret' = [at |-> Len(tokens'), on |-> ~spaced],
         \A k \in 1 .. Len(stack') : stack'[k].level \in DOMAIN levels'
  PROVE  TypeOK'
<1>1. Typed(levels')
  BY DEF Grown
<1>2. (caret \in Caret /\ caret.at <= Len(tokens) /\ (caret.on => caret.at > 0))'
  BY DEF Caret
<1>3. QED
  BY <1>1, <1>2 DEF TypeOK

(* The innermost frame gives way to one of the same level, or of a new one. *)
LEMMA TopReplaced ==
  ASSUME Right, Grown(levels, levels'), NEW frame \in Frame, frame.level \in DOMAIN levels', stack' = Front(stack) \o <<frame>>
  PROVE  \A k \in 1 .. Len(stack') : stack'[k].level \in DOMAIN levels'
<1>1. stack \in Seq(Frame) /\ Len(stack) > 0 /\ Len(stack) \in Nat /\ DOMAIN levels = 1 .. Len(levels) /\ Len(levels) \in Nat
  BY TopFrame
<1>2. DOMAIN levels \subseteq DOMAIN levels'
  <2>1. levels' \in Seq(Level) /\ Len(levels) <= Len(levels')
    BY DEF Grown, Typed
  <2>2. DOMAIN levels' = 1 .. Len(levels') /\ Len(levels') \in Nat
    BY <2>1, LenProperties
  <2>3. QED
    BY <1>1, <2>1, <2>2
<1>3. Front(stack) \in Seq(Frame) /\ Len(Front(stack)) = Len(stack) - 1 /\ \A k \in 1 .. Len(stack) - 1 : Front(stack)[k] = stack[k]
  BY <1>1, Ends
<1>4. /\ Len(Front(stack) \o <<frame>>) = Len(Front(stack)) + 1
      /\ (Front(stack) \o <<frame>>)[Len(Front(stack)) + 1] = frame
      /\ \A k \in 1 .. Len(Front(stack)) : (Front(stack) \o <<frame>>)[k] = Front(stack)[k]
  BY <1>3, Replaced
<1>5. Len(stack') = Len(stack) /\ stack'[Len(stack)] = frame /\ \A k \in 1 .. Len(stack) - 1 : stack'[k] = stack[k]
  BY <1>1, <1>3, <1>4
<1>6. ASSUME NEW k \in 1 .. Len(stack) PROVE stack'[k].level \in DOMAIN levels'
  <2>1. CASE k = Len(stack)
    BY <1>5, <2>1
  <2>2. CASE k # Len(stack)
    <3>1. k \in 1 .. Len(stack) - 1
      BY <1>1, <2>2
    <3>2. stack[k].level \in DOMAIN levels
      BY DEF Right, TypeOK
    <3>3. QED
      BY <1>2, <1>5, <3>1, <3>2
  <2>3. QED
    BY <2>1, <2>2
<1>7. QED
  BY <1>5, <1>6

(* A phrase within the clause the author is in. *)
LEMMA Worded ==
  ASSUME Right, NEW piece \in Seq(Plain), Len(piece) > 0, NEW spaced \in BOOLEAN,
         NEW clause, clause = Top.clause, NEW slot \in Ordinary, Put(piece, spaced, clause, slot), Grown(levels, levels')
  PROVE  Right'
<1> DEFINE frame == [Top EXCEPT !.clause = clause, !.slot = slot]
           n == Len(piece) - 1
           hs == [i \in 1 .. n |-> Inside] \o <<frame>>
           p == Placed(piece, Len(stack) - 1, spaced)
<1>1. /\ Top \in Frame /\ Top.level \in DOMAIN levels /\ Len(stack) > 0 /\ Depth \in Nat /\ stack \in Seq(Frame)
      /\ Inside \in Frame /\ Inside.clause = Top.clause /\ DOMAIN levels = 1 .. Len(levels) /\ Len(levels) \in Nat
      /\ Len(tokens) \in Nat /\ tokens \in Seq(Token) /\ gaps \in Seq(Frame)
  BY TopFrame
<1>2. slot \in Slots /\ slot # "begin" /\ slot # "explained"
  BY DEF Ordinary
<1>3. frame \in Frame /\ frame.clause = Top.clause /\ frame.level = Top.level /\ frame.slot = slot
  BY <1>1, <1>2 DEF Frame
<1>4. Apt(frame)
  BY <1>2, <1>3 DEF Apt
<1>5. Len(piece) \in Nat /\ n \in Nat /\ Len(piece) = n + 1
  BY LenProperties
<1>6. /\ tokens' = tokens \o p
      /\ gaps' = gaps \o [i \in 1 .. n |-> Inside] \o <<frame>>
      /\ stack' = Front(stack) \o <<frame>>
      /\ caret' = [at |-> Len(tokens'), on |-> ~spaced]
  BY DEF Put, Depth
<1> HIDE DEF frame, n, p
<1>7. /\ hs \in Seq(Frame) /\ Len(hs) = n + 1 /\ hs[n + 1] = frame /\ \A i \in 1 .. n : hs[i] = Inside
      /\ gaps' = gaps \o hs
  BY <1>1, <1>3, <1>5, <1>6, Between
<1> HIDE DEF hs
<1>8. \A i \in 1 .. Len(piece) : hs[i].clause = Last(stack).clause
  <2> TAKE i \in 1 .. Len(piece)
  <2>1. i \in 1 .. n \/ i = n + 1
    BY <1>5
  <2>2. QED
    BY <1>1, <1>3, <1>7, <2>1 DEF Top
<1>9. Standing(tokens \o p, gaps \o hs, Front(stack) \o <<frame>>)
  <2>1. Standing(tokens, gaps, stack) /\ frame.clause = Last(stack).clause /\ Len(hs) = Len(piece)
    BY <1>3, <1>5, <1>7 DEF Right, Top
  <2>2. QED
    BY <1>3, <1>4, <1>7, <1>8, <2>1, PlainPut DEF p
<1>10. Standing(tokens, gaps, stack)'
  BY <1>6, <1>7, <1>9
<1>11. Len(tokens') \in Nat \ {0}
  <2>1. p \in Seq(Token) /\ Len(p) = Len(piece)
    <3>1. Len(stack) - 1 \in Nat
      BY <1>1 DEF Depth
    <3>2. Neutral(p, Len(stack) - 1) /\ Len(p) = Len(piece)
      BY <3>1, PlacedPlain DEF p
    <3>3. QED
      BY <3>2 DEF Neutral
  <2>2. QED
    BY <1>1, <1>5, <1>6, <2>1, Longer
<1>12. frame.level \in DOMAIN levels'
  <2>1. levels' \in Seq(Level) /\ Len(levels) <= Len(levels')
    BY DEF Grown, Typed
  <2>2. DOMAIN levels' = 1 .. Len(levels') /\ Len(levels') \in Nat
    BY <2>1, LenProperties
  <2>3. QED
    BY <1>1, <1>3, <2>1, <2>2
<1>13. \A k \in 1 .. Len(stack') : stack'[k].level \in DOMAIN levels'
  BY <1>3, <1>6, <1>12, TopReplaced
<1>14. TypeOK'
  BY <1>6, <1>11, <1>13, TypesKept
<1>15. QED
  BY <1>10, <1>14 DEF Right

(* The words of a clause, behind which it governs. *)
LEMMA Claused ==
  ASSUME Right, NEW clause \in Used, ReadsAsAClause(clause, Found(tokens, End(tokens), Depth)),
         NEW spaced \in BOOLEAN, NEW frame \in Frame, frame.clause = clause, frame.level \in DOMAIN levels', Apt(frame),
         Grown(levels, levels'),
         NEW hs \in Seq(Frame), Len(hs) = Len(clause), \A i \in 1 .. Len(clause) - 1 : hs[i].clause = Top.clause,
         hs[Len(clause)].clause = clause,
         tokens' = tokens \o Placed(Words(clause), Depth, spaced), gaps' = gaps \o hs, stack' = Front(stack) \o <<frame>>,
         caret' = [at |-> Len(tokens'), on |-> ~spaced]
  PROVE  Right'
<1> DEFINE p == Placed(Words(clause), Len(stack) - 1, spaced)
<1>1. /\ Len(stack) > 0 /\ Len(stack) - 1 \in Nat /\ stack \in Seq(Frame) /\ Len(tokens) \in Nat /\ tokens \in Seq(Token)
  BY TopFrame DEF Depth
<1>2. Standing(tokens \o p, gaps \o hs, Front(stack) \o <<frame>>)
  <2>1. /\ Standing(tokens, gaps, stack) /\ ReadsAsAClause(clause, Found(tokens, End(tokens), Len(stack) - 1))
        /\ \A i \in 1 .. Len(clause) - 1 : hs[i].clause = Last(stack).clause
    BY DEF Right, Depth, Top
  <2>2. QED
    BY <2>1, ClausePut
<1>3. Standing(tokens, gaps, stack)'
  BY <1>2 DEF Depth
<1>4. Len(tokens') \in Nat \ {0}
  <2>1. p \in Seq(Token) /\ Len(p) \in Nat \ {0}
    BY <1>1, PlacedWords DEF Spelled
  <2> HIDE DEF p
  <2>2. Len(tokens \o p) = Len(tokens) + Len(p)
    BY <1>1, <2>1, Longer
  <2>3. tokens' = tokens \o p
    BY DEF p, Depth
  <2>4. QED
    BY <1>1, <2>1, <2>2, <2>3
<1>5. \A k \in 1 .. Len(stack') : stack'[k].level \in DOMAIN levels'
  BY TopReplaced
<1>6. TypeOK'
  BY <1>4, <1>5, TypesKept
<1>7. QED
  BY <1>3, <1>6 DEF Right

(* A clause begun in the level the author is in. *)
LEMMA Headlined ==
  ASSUME Right, NEW clause \in Used, ReadsAsAClause(clause, Found(tokens, End(tokens), Depth)), Grown(levels, levels'),
         NEW slot \in Slots, slot # "begin", slot = "explained" => clause = EXPLAIN, Write(Words(clause), clause, slot)
  PROVE  Right'
<1> DEFINE frame == [Top EXCEPT !.clause = clause, !.slot = slot]
           n == Len(clause) - 1
           hs == [i \in 1 .. n |-> Inside] \o <<frame>>
<1>1. /\ Top \in Frame /\ Top.level \in DOMAIN levels /\ Inside \in Frame /\ Inside.clause = Top.clause
      /\ DOMAIN levels = 1 .. Len(levels) /\ Len(levels) \in Nat /\ gaps \in Seq(Frame)
  BY TopFrame
<1>2. frame \in Frame /\ frame.clause = clause /\ frame.level = Top.level /\ frame.slot = slot
  BY <1>1 DEF Frame
<1>3. Apt(frame)
  BY <1>2 DEF Apt
<1>4. frame.level \in DOMAIN levels'
  <2>1. levels' \in Seq(Level) /\ Len(levels) <= Len(levels')
    BY DEF Grown, Typed
  <2>2. DOMAIN levels' = 1 .. Len(levels') /\ Len(levels') \in Nat
    BY <2>1, LenProperties
  <2>3. QED
    BY <1>1, <1>2, <2>1, <2>2
<1>5. Len(Words(clause)) = Len(clause) /\ Len(clause) = n + 1 /\ n \in Nat
  <2>1. Len(Words(clause)) = Len(clause) /\ Len(clause) \in Nat \ {0}
    BY PlacedWords
  <2>2. QED
    BY <2>1
<1>6. /\ tokens' = tokens \o Placed(Words(clause), Depth, TRUE)
      /\ gaps' = gaps \o [i \in 1 .. n |-> Inside] \o <<frame>>
      /\ stack' = Front(stack) \o <<frame>>
      /\ caret' = [at |-> Len(tokens'), on |-> ~TRUE]
  BY <1>5 DEF Write, Put
<1> HIDE DEF frame, n
<1>7. /\ hs \in Seq(Frame) /\ Len(hs) = n + 1 /\ hs[n + 1] = frame /\ \A i \in 1 .. n : hs[i] = Inside
      /\ gaps' = gaps \o hs
  <2>1. gaps \in Seq(Frame) /\ n \in Nat /\ Inside \in Frame /\ frame \in Frame
    BY <1>1, <1>2, <1>5
  <2>2. /\ hs \in Seq(Frame) /\ Len(hs) = n + 1 /\ hs[n + 1] = frame /\ \A i \in 1 .. n : hs[i] = Inside
        /\ gaps \o [i \in 1 .. n |-> Inside] \o <<frame>> = gaps \o hs
    BY <2>1, Between
  <2> HIDE DEF hs
  <2>3. QED
    BY <1>6, <2>2
<1> HIDE DEF hs
<1>8. Len(hs) = Len(clause) /\ hs[Len(clause)].clause = clause
  BY <1>2, <1>5, <1>7
<1>9. \A i \in 1 .. Len(clause) - 1 : hs[i].clause = Top.clause
  BY <1>1, <1>5, <1>7
<1>10. QED
  BY <1>2, <1>3, <1>4, <1>6, <1>7, <1>8, <1>9, Claused

(* A block behind the one the author is in. *)
LEMMA NextBlocked ==
  ASSUME Right, NEW clause \in {SELECT, UNION_}, NEW slot \in Ordinary, NEW level \in Level, level.sees \subseteq DOMAIN levels,
         NextBlock(clause, slot, level)
  PROVE  Right'
<1> DEFINE frame == [Top EXCEPT !.level = Len(levels) + 1, !.clause = clause, !.slot = slot]
<1>1. /\ Top \in Frame /\ DOMAIN levels = 1 .. Len(levels) /\ Len(levels) \in Nat /\ gaps \in Seq(Frame) /\ levels \in Seq(Level)
      /\ stack \in Seq(Frame) /\ Len(stack) > 0
  BY TopFrame
<1>2. clause \in Used /\ Len(clause) = 1 /\ ~CanBeAName(clause)
  <2>1. clause \in Used \ Openers /\ Len(clause) = 1
    BY DEF Used, Openers, SELECT, UNION_, EXPLAIN, UPDATE, DELETE_FROM, INSERT_INTO, P
  <2>2. QED
    BY <2>1, OthersAreNoNames
<1>3. slot \in Slots /\ slot # "begin" /\ slot # "explained"
  BY DEF Ordinary
<1>4. frame \in Frame /\ frame.clause = clause /\ frame.level = Len(levels) + 1 /\ frame.slot = slot
  <2> DEFINE body == Len(levels) + 1
  <2>1. body \in Nat
    BY <1>1
  <2> HIDE DEF body
  <2>2. [Top EXCEPT !.level = body, !.clause = clause, !.slot = slot] \in Frame
    BY <1>1, <1>2, <1>3, <2>1 DEF Frame
  <2>3. frame = [Top EXCEPT !.level = body, !.clause = clause, !.slot = slot]
    BY DEF body
  <2> HIDE DEF frame
  <2>4. frame.clause = clause /\ frame.level = body /\ frame.slot = slot
    BY <1>1, <2>3 DEF Frame
  <2>5. QED
    BY <2>2, <2>3, <2>4 DEF body
<1>5. /\ tokens' = tokens \o Placed(Words(clause), Depth, TRUE)
      /\ gaps' = Append(gaps, frame) /\ stack' = Append(Front(stack), frame)
      /\ caret' = [at |-> Len(tokens'), on |-> FALSE] /\ levels' = Append(levels, level)
  BY DEF NextBlock
<1> HIDE DEF frame
<1>6. gaps' = gaps \o <<frame>> /\ stack' = Front(stack) \o <<frame>>
  <2>1. Front(stack) \in Seq(Frame)
    BY <1>1, Ends
  <2>2. QED
    BY <1>1, <1>4, <1>5, <2>1, AppendIsConcat
<1>7. /\ levels' \in Seq(Level) /\ Len(levels') = Len(levels) + 1 /\ levels'[Len(levels) + 1] = level
      /\ \A i \in 1 .. Len(levels) : levels'[i] = levels[i]
  BY <1>1, <1>5, AppendProperties
<1>8. DOMAIN levels' = 1 .. Len(levels) + 1
  BY <1>7, LenProperties
<1>9. Typed(levels')
  <2>1. ASSUME NEW i \in DOMAIN levels' PROVE levels'[i].sees \subseteq DOMAIN levels'
    <3>1. CASE i = Len(levels) + 1
      BY <1>1, <1>7, <1>8, <3>1
    <3>2. CASE i # Len(levels) + 1
      <4>1. i \in DOMAIN levels
        BY <1>1, <1>8, <3>2
      <4>2. levels[i].sees \subseteq DOMAIN levels
        BY <4>1 DEF Right, TypeOK, Typed
      <4>3. QED
        BY <1>1, <1>7, <1>8, <4>1, <4>2
    <3>3. QED
      BY <3>1, <3>2
  <2>2. QED
    BY <1>7, <2>1 DEF Typed
<1>10. Grown(levels, levels') /\ frame.level \in DOMAIN levels'
  BY <1>1, <1>4, <1>7, <1>8, <1>9 DEF Grown
<1>11. Apt(frame)
  BY <1>3, <1>4 DEF Apt
<1>12. ReadsAsAClause(clause, Found(tokens, End(tokens), Depth))
  BY <1>2 DEF ReadsAsAClause
<1> DEFINE hs == <<frame>>
<1>13. hs \in Seq(Frame) /\ Len(hs) = 1 /\ hs[1] = frame
  BY <1>4
<1>14. gaps' = gaps \o hs
  BY <1>6
<1> HIDE DEF hs
<1>15. /\ Len(hs) = Len(clause) /\ hs[Len(clause)].clause = clause
       /\ \A i \in 1 .. Len(clause) - 1 : hs[i].clause = Top.clause
  BY <1>2, <1>4, <1>13
<1>16. caret' = [at |-> Len(tokens'), on |-> ~TRUE]
  BY <1>5
<1>17. QED
  BY <1>2, <1>4, <1>5, <1>6, <1>10, <1>11, <1>12, <1>13, <1>14, <1>15, <1>16, Claused

(* The levels that were known stay known. *)
LEMMA LevelsKnown ==
  ASSUME Right, Grown(levels, levels')
  PROVE  DOMAIN levels \subseteq DOMAIN levels'
<1>1. levels' \in Seq(Level) /\ Len(levels) <= Len(levels')
  BY DEF Grown, Typed
<1>2. DOMAIN levels' = 1 .. Len(levels') /\ Len(levels') \in Nat
  BY <1>1, LenProperties
<1>3. DOMAIN levels = 1 .. Len(levels) /\ Len(levels) \in Nat
  BY TopFrame
<1>4. QED
  BY <1>1, <1>2, <1>3

(* Two put one behind the other. *)
LEMMA Two ==
  ASSUME NEW S, NEW a \in S, NEW b \in S
  PROVE  <<a>> \in Seq(S) /\ <<b>> \in Seq(S) /\ <<a>> \o <<b>> = <<a, b>>
<1>1. <<a>> \in Seq(S) /\ <<b>> \in Seq(S)
  OBVIOUS
<1>2. /\ <<a>> \o <<b>> \in Seq(S) /\ Len(<<a>> \o <<b>>) = 1 + 1
      /\ (<<a>> \o <<b>>)[1 + 1] = b /\ \A k \in 1 .. 1 : (<<a>> \o <<b>>)[k] = <<a>>[k]
  <2> DEFINE s == <<a>>
  <2>1. s \in Seq(S) /\ Len(s) = 1
    BY <1>1
  <2> HIDE DEF s
  <2>2. /\ s \o <<b>> \in Seq(S) /\ Len(s \o <<b>>) = Len(s) + 1
        /\ (s \o <<b>>)[Len(s) + 1] = b /\ \A k \in 1 .. Len(s) : (s \o <<b>>)[k] = s[k]
    BY <2>1, Replaced
  <2>3. QED
    BY <2>1, <2>2 DEF s
<1>3. <<a, b>> \in Seq(S) /\ Len(<<a, b>>) = 2 /\ <<a, b>>[1] = a /\ <<a, b>>[2] = b
  OBVIOUS
<1>4. \A i \in 1 .. 2 : (<<a>> \o <<b>>)[i] = <<a, b>>[i]
  <2>1. (<<a>> \o <<b>>)[1] = a /\ (<<a>> \o <<b>>)[2] = b
    BY <1>2
  <2>2. \A i \in 1 .. 2 : i = 1 \/ i = 2
    OBVIOUS
  <2>3. QED
    BY <1>3, <2>1, <2>2
<1>5. <<a>> \o <<b>> = <<a, b>>
  <2> DEFINE s == <<a>> \o <<b>>
             t == <<a, b>>
  <2>1. s \in Seq(S) /\ t \in Seq(S) /\ Len(s) = 2 /\ Len(t) = 2 /\ \A i \in 1 .. 2 : s[i] = t[i]
    BY <1>2, <1>3, <1>4
  <2> HIDE DEF s, t
  <2>2. s = t
    BY <2>1, SeqEqual
  <2>3. QED
    BY <2>2 DEF s, t
<1>6. QED
  BY <1>1, <1>5

(* A group opened behind a piece within the clause the author is in. *)
LEMMA Opened ==
  ASSUME Right, NEW piece \in Seq(Plain), NEW spaced \in BOOLEAN, Grown(levels, levels'),
         NEW below \in Frame, below.clause = Top.clause, below.level \in DOMAIN levels', Apt(below),
         NEW frame \in Frame, frame.clause = Top.clause, frame.level \in DOMAIN levels',
         Open(piece, below, frame, spaced)
  PROVE  Right'
<1> DEFINE p == Placed(piece, Len(stack) - 1, TRUE)
           paren == Placed(<<M("(")>>, Len(stack) - 1, spaced)
           hs == [i \in DOMAIN piece |-> Inside]
           st == Front(stack) \o <<below>>
           ft == st \o <<frame>>
<1>1. /\ Len(stack) > 0 /\ Len(stack) \in Nat /\ Len(stack) - 1 \in Nat /\ stack \in Seq(Frame)
      /\ Inside \in Frame /\ Inside.clause = Top.clause /\ Len(tokens) \in Nat /\ tokens \in Seq(Token) /\ gaps \in Seq(Frame)
  BY TopFrame DEF Depth
<1>2. /\ tokens' = tokens \o p \o paren /\ gaps' = gaps \o hs \o <<frame>> /\ stack' = Front(stack) \o <<below, frame>>
      /\ caret' = [at |-> Len(tokens'), on |-> ~spaced]
  BY DEF Open, Depth
<1>3. hs \in Seq(Frame) /\ Len(hs) = Len(piece) /\ \A i \in 1 .. Len(piece) : hs[i].clause = Last(stack).clause
  <2> DEFINE n == Len(piece)
             ms == [i \in 1 .. n |-> Inside]
  <2>1. n \in Nat /\ DOMAIN piece = 1 .. n
    BY LenProperties
  <2>2. hs = ms
    BY <2>1
  <2> HIDE DEF n
  <2>3. ms \in Seq(Frame) /\ Len(ms) = n /\ \A i \in 1 .. n : ms[i] = Inside
    BY <1>1, <2>1
  <2> HIDE DEF ms, hs
  <2>4. QED
    BY <1>1, <2>2, <2>3 DEF n, Top
<1>4. Front(stack) \in Seq(Frame) /\ Len(Front(stack)) = Len(stack) - 1 /\ \A k \in 1 .. Len(stack) - 1 : Front(stack)[k] = stack[k]
  BY <1>1, Ends
<1>5. /\ st \in Seq(Frame) /\ Len(st) = Len(stack) /\ st[Len(stack)] = below
      /\ \A k \in 1 .. Len(stack) - 1 : st[k] = stack[k]
  <2>1. /\ st \in Seq(Frame) /\ Len(st) = Len(Front(stack)) + 1 /\ st[Len(Front(stack)) + 1] = below
        /\ \A k \in 1 .. Len(Front(stack)) : st[k] = Front(stack)[k]
    BY <1>4, Replaced
  <2>2. Len(Front(stack)) + 1 = Len(stack)
    BY <1>1, <1>4
  <2> HIDE DEF st
  <2>3. QED
    BY <1>4, <2>1, <2>2
<1> HIDE DEF p, hs, paren
<1>6. Standing(tokens \o p, gaps \o hs, st)
  <2>1. Standing(tokens, gaps, stack) /\ below.clause = Last(stack).clause
    BY DEF Right, Top
  <2>2. QED
    BY <1>3, <2>1, PlainPut DEF p
<1> HIDE DEF st
<1>7. Standing(tokens \o p \o paren, gaps \o hs \o <<frame>>, ft)
  <2>1. Last(st) = below
    BY <1>5 DEF Last
  <2>2. frame.clause = Last(st).clause
    BY <2>1
  <2>3. Standing((tokens \o p) \o Placed(<<M("(")>>, Len(st) - 1, spaced), (gaps \o hs) \o <<frame>>, st \o <<frame>>)
    BY <1>6, <2>2, GroupPut
  <2>4. QED
    BY <1>5, <2>3 DEF paren
<1>8. stack' = ft
  <2>1. <<below>> \in Seq(Frame) /\ <<frame>> \in Seq(Frame) /\ <<below>> \o <<frame>> = <<below, frame>>
    BY Two
  <2>2. (Front(stack) \o <<below>>) \o <<frame>> = Front(stack) \o (<<below>> \o <<frame>>)
    BY <1>4, <2>1, ConcatAssociative
  <2>3. QED
    BY <1>2, <2>1, <2>2 DEF st
<1>9. Standing(tokens, gaps, stack)'
  BY <1>2, <1>7, <1>8
<1>10. Len(tokens') \in Nat \ {0}
  <2>1. p \in Seq(Token)
    BY <1>1, PlacedPlain DEF p, Neutral
  <2>2. paren \in Seq(Token) /\ Len(paren) = 1
    <3> DEFINE x == [t |-> "punct", v |-> "(", d |-> Len(stack) - 1, s |-> spaced]
    <3>1. paren = <<x>> /\ x \in Token
      BY <1>1, PlacedParen DEF paren
    <3> HIDE DEF x
    <3>2. QED
      BY <3>1
  <2>3. tokens \o p \in Seq(Token)
    BY <1>1, <2>1, Longer
  <2>4. Len((tokens \o p) \o paren) = Len(tokens \o p) + Len(paren) /\ Len(tokens \o p) \in Nat
    BY <2>2, <2>3, Longer
  <2>5. QED
    BY <1>2, <2>2, <2>4
<1>11. \A k \in 1 .. Len(stack') : stack'[k].level \in DOMAIN levels'
  <2>1. /\ ft \in Seq(Frame) /\ Len(ft) = Len(st) + 1 /\ ft[Len(st) + 1] = frame /\ \A k \in 1 .. Len(st) : ft[k] = st[k]
    BY <1>5, Replaced
  <2> HIDE DEF ft
  <2>2. ASSUME NEW k \in 1 .. Len(stack) + 1 PROVE ft[k].level \in DOMAIN levels'
    <3>1. k = Len(stack) + 1 \/ k = Len(stack) \/ (k \in 1 .. Len(stack) - 1 /\ k \in 1 .. Len(stack))
      BY <1>1
    <3>2. CASE k = Len(stack) + 1
      BY <1>5, <2>1, <3>2
    <3>3. CASE k = Len(stack)
      <4>1. k \in 1 .. Len(st)
        BY <1>1, <1>5, <3>3
      <4>2. QED
        BY <1>5, <2>1, <3>3, <4>1
    <3>4. CASE k \in 1 .. Len(stack) - 1 /\ k \in 1 .. Len(stack)
      <4>1. ft[k] = stack[k]
        BY <1>5, <2>1, <3>4
      <4>2. stack[k].level \in DOMAIN levels
        BY <3>4 DEF Right, TypeOK
      <4>3. QED
        BY <4>1, <4>2, LevelsKnown
    <3>5. QED
      BY <3>1, <3>2, <3>3, <3>4
  <2>3. QED
    BY <1>5, <1>8, <2>1, <2>2
<1>12. TypeOK'
  BY <1>2, <1>10, <1>11, TypesKept
<1>13. QED
  BY <1>9, <1>12 DEF Right

(* A level put behind those there are. *)
LEMMA LevelAdded ==
  ASSUME NEW ls, Typed(ls), NEW level \in Level, level.sees \subseteq DOMAIN ls
  PROVE  Grown(ls, Append(ls, level)) /\ Len(ls) + 1 \in DOMAIN Append(ls, level) /\ Len(ls) \in Nat /\ DOMAIN ls = 1 .. Len(ls)
<1> DEFINE ms == Append(ls, level)
<1>1. ls \in Seq(Level) /\ Len(ls) \in Nat /\ DOMAIN ls = 1 .. Len(ls)
  <2>1. ls \in Seq(Level)
    BY DEF Typed
  <2>2. QED
    BY <2>1, LenProperties
<1>2. /\ ms \in Seq(Level) /\ Len(ms) = Len(ls) + 1 /\ ms[Len(ls) + 1] = level /\ \A i \in 1 .. Len(ls) : ms[i] = ls[i]
  BY <1>1, AppendProperties
<1> HIDE DEF ms
<1>3. DOMAIN ms = 1 .. Len(ls) + 1
  BY <1>2, LenProperties
<1>4. ASSUME NEW i \in DOMAIN ms PROVE ms[i].sees \subseteq DOMAIN ms
  <2>1. CASE i = Len(ls) + 1
    BY <1>1, <1>2, <1>3, <2>1
  <2>2. CASE i # Len(ls) + 1
    <3>1. i \in DOMAIN ls
      BY <1>1, <1>3, <2>2
    <3>2. ls[i].sees \subseteq DOMAIN ls
      BY <3>1 DEF Typed
    <3>3. QED
      BY <1>1, <1>2, <1>3, <3>1, <3>2
  <2>3. QED
    BY <2>1, <2>2
<1>5. Grown(ls, ms)
  BY <1>1, <1>2, <1>4 DEF Grown, Typed
<1>6. QED
  BY <1>1, <1>3, <1>5 DEF ms

(* The paren of a body, and its level. *)
LEMMA OpenedBody ==
  ASSUME Right, NEW piece \in Seq(Plain), NEW slot \in Ordinary, NEW sees \in BOOLEAN,
         NEW others, Typed(others), Len(others) = Len(levels), OpenBody(piece, slot, sees, others)
  PROVE  Right'
<1> DEFINE body == Len(levels) + 1
           seen == IF sees THEN {Top.level} \union Here.sees ELSE {}
           new == NewLevel(Depth + 1, seen, Here.ctes, FALSE)
           below == [Top EXCEPT !.slot = slot, !.body = body]
           frame == [level |-> body, clause |-> Top.clause, slot |-> "begin", body |-> 0]
<1>1. /\ Top \in Frame /\ Top.level \in DOMAIN levels /\ Here \in Level /\ Here.sees \subseteq DOMAIN levels /\ Depth \in Nat
      /\ Len(levels) \in Nat /\ DOMAIN levels = 1 .. Len(levels)
  BY TopFrame
<1>2. body \in Nat
  BY <1>1
<1>3. slot \in Slots /\ slot # "begin" /\ slot # "explained" /\ "begin" \in Slots
  BY DEF Ordinary, Slots
<1>4. levels' = Append(others, new) /\ Open(piece, below, frame, "spaces" \in Habits)
  BY DEF OpenBody
<1>5. seen \subseteq DOMAIN levels /\ seen \in SUBSET Nat
  BY <1>1
<1>6. Here.ctes \in SUBSET CteNamed
  BY <1>1 DEF Level
<1> HIDE DEF body, seen
<1>7. new \in Level /\ new.sees = seen
  <2>1. <<>> \in Seq(Relation) /\ <<>> \in Seq(OutputNames)
    OBVIOUS
  <2>2. Depth + 1 \in Nat
    BY <1>1
  <2>3. QED
    BY <1>5, <1>6, <2>1, <2>2 DEF NewLevel, Level
<1>8. DOMAIN others = DOMAIN levels
  <2>1. others \in Seq(Level)
    BY DEF Typed
  <2>2. DOMAIN others = 1 .. Len(others)
    BY <2>1, LenProperties
  <2>3. QED
    BY <1>1, <2>2
<1> HIDE DEF new
<1>9. Grown(levels, levels') /\ body \in DOMAIN levels'
  <2>1. Grown(others, levels') /\ Len(others) + 1 \in DOMAIN levels'
    BY <1>4, <1>5, <1>7, <1>8, LevelAdded
  <2>2. QED
    BY <2>1 DEF Grown, body
<1>10. below \in Frame /\ below.clause = Top.clause /\ below.level = Top.level /\ below.slot = slot
  BY <1>1, <1>2, <1>3 DEF Frame
<1>11. frame \in Frame /\ frame.clause = Top.clause /\ frame.level = body
  <2>1. Top.clause \in Used \union {<<>>}
    BY <1>1 DEF Frame
  <2>2. QED
    BY <1>2, <1>3, <2>1 DEF Frame
<1> HIDE DEF below, frame
<1>12. Apt(below)
  BY <1>3, <1>10 DEF Apt
<1>13. below.level \in DOMAIN levels' /\ frame.level \in DOMAIN levels'
  BY <1>1, <1>9, <1>10, <1>11, LevelsKnown
<1>14. ("spaces" \in Habits) \in BOOLEAN
  OBVIOUS
<1>15. QED
  BY <1>4, <1>9, <1>10, <1>11, <1>12, <1>13, <1>14, Opened

(* The paren that closes a group. *)
LEMMA Closed ==
  ASSUME Right, Close
  PROVE  Right'
<1> DEFINE paren == Placed(<<M(")")>>, Len(stack) - 2, TRUE)
           frame == stack[Len(stack) - 1]
<1>1. /\ Len(stack) \in Nat /\ stack \in Seq(Frame) /\ Len(tokens) \in Nat /\ tokens \in Seq(Token) /\ gaps \in Seq(Frame)
  BY TopFrame
<1>2. /\ Depth > 0 /\ tokens' = tokens \o Placed(<<M(")")>>, Depth - 1, TRUE) /\ gaps' = Append(gaps, frame)
      /\ stack' = Front(stack) /\ caret' = [at |-> Len(tokens'), on |-> FALSE] /\ UNCHANGED levels
  BY DEF Close
<1>3. Len(stack) > 1 /\ Depth - 1 = Len(stack) - 2 /\ Len(stack) - 2 \in Nat /\ Len(stack) - 1 \in 1 .. Len(stack)
  BY <1>1, <1>2 DEF Depth
<1>4. Standing(tokens \o paren, gaps \o <<frame>>, Front(stack))
  BY <1>3, GroupLeft DEF Right
<1>5. frame \in Frame
  <2> DEFINE k == Len(stack) - 1
  <2>1. k \in 1 .. Len(stack)
    BY <1>3
  <2> HIDE DEF k
  <2>2. stack[k] \in Frame
    BY <1>1, <2>1, ElementOfSeq
  <2>3. QED
    BY <2>2 DEF k
<1> HIDE DEF paren, frame
<1>6. gaps' = gaps \o <<frame>>
  BY <1>1, <1>2, <1>5, AppendIsConcat
<1>7. tokens' = tokens \o paren
  BY <1>2, <1>3 DEF paren
<1>8. Standing(tokens, gaps, stack)'
  BY <1>2, <1>4, <1>6, <1>7
<1>9. Len(tokens') \in Nat \ {0}
  <2>1. paren \in Seq(Token) /\ Len(paren) = 1
    <3> DEFINE x == [t |-> "punct", v |-> ")", d |-> Len(stack) - 2, s |-> TRUE]
    <3>1. paren = <<x>> /\ x \in Token
      BY <1>3, PlacedParen DEF paren
    <3> HIDE DEF x
    <3>2. QED
      BY <3>1
  <2>2. Len(tokens \o paren) = Len(tokens) + Len(paren)
    BY <1>1, <2>1, Longer
  <2>3. QED
    BY <1>1, <1>7, <2>1, <2>2
<1>10. Grown(levels, levels')
  <2>1. Typed(levels) /\ Len(levels) \in Nat
    BY TopFrame DEF Right, TypeOK
  <2>2. QED
    BY <1>2, <2>1 DEF Grown
<1>11. \A k \in 1 .. Len(stack') : stack'[k].level \in DOMAIN levels'
  <2>1. Len(Front(stack)) = Len(stack) - 1 /\ \A k \in 1 .. Len(stack) - 1 : Front(stack)[k] = stack[k]
    <3>1. Len(stack) > 0
      BY <1>1, <1>3
    <3>2. QED
      BY <1>1, <3>1, Ends
  <2>2. ASSUME NEW k \in 1 .. Len(stack) - 1 PROVE Front(stack)[k].level \in DOMAIN levels
    <3>1. k \in 1 .. Len(stack)
      BY <1>1
    <3>2. QED
      BY <2>1, <3>1 DEF Right, TypeOK
  <2>3. QED
    BY <1>2, <2>1, <2>2
<1>12. caret' = [at |-> Len(tokens'), on |-> ~TRUE]
  BY <1>2
<1>13. TypeOK'
  BY <1>9, <1>10, <1>11, <1>12, TypesKept
<1>14. QED
  BY <1>8, <1>13 DEF Right

(* Going back moves nothing but the caret. *)
LEMMA WentLeft ==
  ASSUME Right, Left
  PROVE  Right'
<1>1. caret \in Caret /\ caret.at <= Len(tokens) /\ (caret.on => caret.at > 0) /\ caret.at > 0
  BY DEF Right, TypeOK, Left
<1>2. /\ UNCHANGED <<tokens, gaps, levels, stack>>
      /\ caret' = IF ~caret.on THEN [caret EXCEPT !.on = TRUE]
                  ELSE [at |-> caret.at - 1, on |-> caret.at > 1 /\ ~tokens[caret.at - 1].s]
  BY DEF Left
<1>3. Len(tokens) \in Nat /\ tokens \in Seq(Token)
  BY TopFrame
<1>4. (caret \in Caret /\ caret.at <= Len(tokens) /\ (caret.on => caret.at > 0))'
  <2>1. CASE ~caret.on
    BY <1>1, <1>2, <2>1 DEF Caret
  <2>2. CASE caret.on
    <3> DEFINE on == caret.at > 1 /\ ~tokens[caret.at - 1].s
               a == caret.at - 1
    <3>1. a \in Nat /\ a <= Len(tokens)
      BY <1>1, <1>3 DEF Caret
    <3>2. on \in BOOLEAN /\ (on => a > 0)
      BY <1>1 DEF Caret
    <3>3. caret' = [at |-> a, on |-> on]
      BY <1>2, <2>2
    <3> HIDE DEF on, a
    <3>4. caret' \in Caret /\ caret'.at = a /\ caret'.on = on
      BY <3>1, <3>2, <3>3 DEF Caret
    <3>5. tokens' = tokens
      BY <1>2
    <3>6. QED
      BY <3>1, <3>2, <3>4, <3>5
  <2>3. QED
    BY <2>1, <2>2
<1>5. Standing(tokens, gaps, stack)'
  BY <1>2 DEF Right
<1>6. Typed(levels)' /\ \A k \in 1 .. Len(stack') : stack'[k].level \in DOMAIN levels'
  BY <1>2 DEF Right, TypeOK
<1>7. QED
  BY <1>4, <1>5, <1>6 DEF Right, TypeOK

(* The tokens that begin nothing. *)
LEMMA PlainTokens ==
  /\ \A v \in Quiet \union Names : W(v) \in Plain
  /\ M(",") \in Plain /\ M(".") \in Plain /\ O("*") \in Plain /\ O("=") \in Plain
  /\ [t |-> "number", v |-> "1"] \in Plain /\ [t |-> "open string", v |-> "q"] \in Plain
<1>1. {",", ".", "*", "=", "1", "q"} \subseteq Spellings /\ Quiet \union Names \subseteq Spellings
  BY DEF Spellings
<1>2. {"word", "op", "punct", "number", "open string"} = Kinds
  BY DEF Kinds
<1>3. \A v \in Quiet \union Names : W(v) \in Plain
  BY <1>1, <1>2 DEF W, Plain
<1>4. M(",") \in Plain /\ M(".") \in Plain
  BY <1>1, <1>2 DEF M, Plain
<1>5. O("*") \in Plain /\ O("=") \in Plain
  BY <1>1, <1>2 DEF O, Plain
<1>6. [t |-> "number", v |-> "1"] \in Plain /\ [t |-> "open string", v |-> "q"] \in Plain
  BY <1>1, <1>2 DEF Plain
<1>7. QED
  BY <1>3, <1>4, <1>5, <1>6

(* Pieces of one, two and three of them. *)
LEMMA PlainPieces ==
  /\ <<>> \in Seq(Plain)
  /\ \A x \in Plain : <<x>> \in Seq(Plain) /\ Len(<<x>>) > 0
  /\ \A x, y \in Plain : <<x, y>> \in Seq(Plain) /\ Len(<<x, y>>) > 0
  /\ \A x, y, z \in Plain : <<x, y, z>> \in Seq(Plain) /\ Len(<<x, y, z>>) > 0
  OBVIOUS

-----------------------------------------------------------------------------
(* What is done to the levels. *)

(* A level gives way to one that sees no more than it did. *)
LEMMA LevelChanged ==
  ASSUME NEW ls, Typed(ls), NEW l, NEW x \in Level, l \in DOMAIN ls => x.sees \subseteq ls[l].sees
  PROVE  Grown(ls, [ls EXCEPT ![l] = x]) /\ Len([ls EXCEPT ![l] = x]) = Len(ls)
<1> DEFINE ms == [ls EXCEPT ![l] = x]
<1>1. ls \in Seq(Level) /\ Len(ls) \in Nat /\ DOMAIN ls = 1 .. Len(ls) /\ \A i \in 1 .. Len(ls) : ls[i] \in Level
  <2>1. ls \in Seq(Level)
    BY DEF Typed
  <2>2. QED
    BY <2>1, LenProperties, ElementOfSeq
<1>2. ms = [i \in 1 .. Len(ls) |-> IF i = l THEN x ELSE ls[i]]
  BY <1>1
<1>3. ms \in Seq(Level) /\ Len(ms) = Len(ls) /\ DOMAIN ms = 1 .. Len(ls)
  <2> DEFINE n == Len(ls)
  <2>1. n \in Nat
    BY <1>1
  <2>2. ms \in [1 .. n -> Level]
    BY <1>1, <1>2
  <2> HIDE DEF n, ms
  <2>3. ms \in Seq(Level) /\ Len(ms) = n /\ DOMAIN ms = 1 .. n
    BY <2>1, <2>2
  <2>4. QED
    BY <2>3 DEF n
<1>4. ASSUME NEW i \in DOMAIN ms PROVE ms[i].sees \subseteq DOMAIN ms
  <2>1. i \in DOMAIN ls /\ ms[i] = IF i = l THEN x ELSE ls[i]
    BY <1>1, <1>2, <1>3
  <2>2. ms[i].sees \subseteq ls[i].sees
    BY <2>1
  <2>3. ls[i].sees \subseteq DOMAIN ls
    BY <2>1 DEF Typed
  <2>4. QED
    BY <1>1, <1>3, <2>2, <2>3
<1>5. QED
  BY <1>1, <1>3, <1>4 DEF Grown, Typed

(* What is before the last of a sequence is a sequence of the same. *)
LEMMA FrontOf ==
  ASSUME NEW S, NEW s \in Seq(S)
  PROVE  Front(s) \in Seq(S)
  BY DEF Front

(* Whatever a step within a level does to the levels leaves them typed. *)
LEMMA LevelsTyped ==
  ASSUME Right
  PROVE  /\ Typed(levels) /\ Grown(levels, levels)
         /\ \A clause \in Used : Grown(levels, WithClause(clause))
         /\ \A names \in Seq(OutputNames) : Grown(levels, Outputs(names)) /\ Len(Outputs(names)) = Len(levels)
         /\ \A name \in Names \union {"t1"} : \A of \in Nat : Grown(levels, Related(name, of))
         /\ Grown(levels, [levels EXCEPT ![Top.level].items = @ + 1])
         /\ \A cte \in CteNamed : /\ Grown(levels, [levels EXCEPT ![Top.level].ctes = @ \union {cte}])
                                  /\ Len([levels EXCEPT ![Top.level].ctes = @ \union {cte}]) = Len(levels)
         /\ Grown(levels, [levels EXCEPT ![Top.level].outputs = Append(Front(@), "y")])
         /\ \A name \in Names : \A n : Grown(levels, [levels EXCEPT ![Top.level].relations[n].label = name])
<1>1. Here \in Level /\ Top.level \in DOMAIN levels /\ Typed(levels) /\ Len(levels) \in Nat /\ Len(tokens) \in Nat
  BY TopFrame DEF Right, TypeOK
<1>2. Here = levels[Top.level]
  BY DEF Here
<1> DEFINE With(x) == [levels EXCEPT ![Top.level] = x]
<1>3. ASSUME NEW x \in Level, x.sees = Here.sees PROVE Grown(levels, With(x)) /\ Len(With(x)) = Len(levels)
  BY <1>1, <1>2, <1>3, LevelChanged
<1>4. ASSUME NEW clause \in Used PROVE Grown(levels, WithClause(clause))
  <2> DEFINE x == [Here EXCEPT !.clauses = Here.clauses \union {clause}]
  <2>1. x \in Level /\ x.sees = Here.sees
    BY <1>1 DEF Level
  <2>2. WithClause(clause) = With(x)
    BY <1>2 DEF WithClause
  <2> HIDE DEF x, With
  <2>3. QED
    BY <1>3, <2>1, <2>2
<1>5. ASSUME NEW names \in Seq(OutputNames) PROVE Grown(levels, Outputs(names)) /\ Len(Outputs(names)) = Len(levels)
  <2> DEFINE x == [Here EXCEPT !.outputs = Here.outputs \o names, !.items = Here.items + 1]
  <2>1. x \in Level /\ x.sees = Here.sees
    <3>1. Here.outputs \o names \in Seq(OutputNames)
      <4>1. Here.outputs \in Seq(OutputNames)
        BY <1>1 DEF Level
      <4>2. QED
        BY <4>1, ConcatProperties
    <3>2. Here.items + 1 \in Nat
      BY <1>1 DEF Level
    <3>3. QED
      BY <1>1, <3>1, <3>2 DEF Level
  <2>2. Outputs(names) = With(x)
    BY <1>1, <1>2 DEF Outputs
  <2> HIDE DEF x, With
  <2>3. QED
    BY <1>3, <2>1, <2>2
<1>6. ASSUME NEW name \in Names \union {"t1"}, NEW of \in Nat PROVE Grown(levels, Related(name, of))
  <2> DEFINE r == [label |-> name, of |-> of, at |-> Len(tokens) + 1]
             x == [Here EXCEPT !.relations = Append(Here.relations, r)]
  <2>1. x \in Level /\ x.sees = Here.sees
    <3>1. r \in Relation
      BY <1>1 DEF Relation
    <3>2. Here.relations \in Seq(Relation)
      BY <1>1 DEF Level
    <3> HIDE DEF r
    <3>3. Append(Here.relations, r) \in Seq(Relation)
      BY <3>1, <3>2, AppendProperties
    <3>4. QED
      BY <1>1, <3>3 DEF Level
  <2>2. Related(name, of) = With(x)
    BY <1>2 DEF Related
  <2> HIDE DEF x, With
  <2>3. QED
    BY <1>3, <2>1, <2>2
<1>7. Grown(levels, [levels EXCEPT ![Top.level].items = @ + 1])
  <2> DEFINE x == [Here EXCEPT !.items = Here.items + 1]
  <2>1. x \in Level /\ x.sees = Here.sees
    <3> DEFINE more == Here.items + 1
    <3>1. more \in Nat
      BY <1>1 DEF Level
    <3> HIDE DEF more
    <3>2. [Here EXCEPT !.items = more] \in Level /\ [Here EXCEPT !.items = more].sees = Here.sees
      BY <1>1, <3>1 DEF Level
    <3>3. QED
      BY <3>2 DEF more
  <2>2. [levels EXCEPT ![Top.level].items = @ + 1] = With(x)
    BY <1>2
  <2> HIDE DEF x, With
  <2>3. QED
    BY <1>3, <2>1, <2>2
<1>8. ASSUME NEW cte \in CteNamed
      PROVE  /\ Grown(levels, [levels EXCEPT ![Top.level].ctes = @ \union {cte}])
             /\ Len([levels EXCEPT ![Top.level].ctes = @ \union {cte}]) = Len(levels)
  <2> DEFINE x == [Here EXCEPT !.ctes = Here.ctes \union {cte}]
  <2>1. x \in Level /\ x.sees = Here.sees
    BY <1>1 DEF Level
  <2>2. [levels EXCEPT ![Top.level].ctes = @ \union {cte}] = With(x)
    BY <1>2
  <2> HIDE DEF x, With
  <2>3. Grown(levels, With(x)) /\ Len(With(x)) = Len(levels)
    BY <1>3, <2>1
  <2>4. QED
    BY <2>2, <2>3, Zenon
<1>9. Grown(levels, [levels EXCEPT ![Top.level].outputs = Append(Front(@), "y")])
  <2> DEFINE x == [Here EXCEPT !.outputs = Append(Front(Here.outputs), "y")]
  <2>1. x \in Level /\ x.sees = Here.sees
    <3>1. Here.outputs \in Seq(OutputNames)
      BY <1>1 DEF Level
    <3>2. Front(Here.outputs) \in Seq(OutputNames) /\ "y" \in OutputNames
      BY <3>1, FrontOf DEF OutputNames
    <3>3. Append(Front(Here.outputs), "y") \in Seq(OutputNames)
      BY <3>2, AppendProperties
    <3> DEFINE os == Append(Front(Here.outputs), "y")
    <3> HIDE DEF os
    <3>4. os \in Seq(OutputNames)
      BY <3>3 DEF os
    <3>5. [Here EXCEPT !.outputs = os] \in Level /\ [Here EXCEPT !.outputs = os].sees = Here.sees
      BY <1>1, <3>4 DEF Level
    <3>6. QED
      BY <3>5 DEF os
  <2>2. [levels EXCEPT ![Top.level].outputs = Append(Front(@), "y")] = With(x)
    BY <1>2
  <2> HIDE DEF x, With
  <2>3. QED
    BY <1>3, <2>1, <2>2
<1>10. ASSUME NEW name \in Names, NEW n PROVE Grown(levels, [levels EXCEPT ![Top.level].relations[n].label = name])
  <2> DEFINE rs == [Here.relations EXCEPT ![n].label = name]
             x == [Here EXCEPT !.relations = rs]
  <2>1. Here.relations \in Seq(Relation)
    BY <1>1 DEF Level
  <2>2. rs \in Seq(Relation)
    <3>1. DOMAIN Here.relations = 1 .. Len(Here.relations) /\ Len(Here.relations) \in Nat
          /\ \A i \in 1 .. Len(Here.relations) : Here.relations[i] \in Relation
      BY <2>1, LenProperties, ElementOfSeq
    <3> DEFINE m == Len(Here.relations)
               s == Here.relations
    <3> HIDE DEF m, s
    <3>2. \A i \in 1 .. m : s[i] \in Relation /\ [s[i] EXCEPT !.label = name] \in Relation
      BY <3>1 DEF m, s, Relation
    <3>3. rs = [i \in 1 .. m |-> IF i = n THEN [s[i] EXCEPT !.label = name] ELSE s[i]]
      BY <3>1 DEF m, s
    <3>4. m \in Nat
      BY <3>1 DEF m
    <3> HIDE DEF rs
    <3>5. rs \in [1 .. m -> Relation]
      BY <3>2, <3>3
    <3>6. QED
      BY <3>4, <3>5
  <2> HIDE DEF rs
  <2>3. x \in Level /\ x.sees = Here.sees
    BY <1>1, <2>2 DEF Level
  <2>4. [levels EXCEPT ![Top.level].relations[n].label = name] = With(x)
    BY <1>2 DEF rs
  <2> HIDE DEF x, With
  <2>5. Grown(levels, With(x))
    BY <1>3, <2>3
  <2>6. QED
    BY <2>4, <2>5, Zenon
<1>11. Grown(levels, levels)
  BY <1>1 DEF Grown
<1>12. QED
  BY <1>1, <1>4, <1>5, <1>6, <1>7, <1>8, <1>9, <1>10, <1>11

-----------------------------------------------------------------------------
(* The actions, one by one. *)

(* The slots of the grammar a step puts the author into. *)
LEMMA OrdinarySlots ==
  /\ "open" \in Ordinary /\ "done" \in Ordinary /\ "star" \in Ordinary /\ "aliased" \in Ordinary /\ "named" \in Ordinary
  /\ "labelled" \in Ordinary /\ "derived" \in Ordinary /\ "body" \in Ordinary /\ "branch" \in Ordinary /\ "all" \in Ordinary
  /\ "cte" \in Ordinary /\ "casting" \in Ordinary /\ "cast" \in Ordinary /\ "typing" \in Ordinary /\ "case" \in Ordinary
  /\ "when" \in Ordinary /\ "held" \in Ordinary /\ "then" \in Ordinary /\ "chosen" \in Ordinary /\ "directed" \in Ordinary
  /\ "counted" \in Ordinary /\ "operand" \in Ordinary /\ "compared" \in Ordinary /\ "quoted" \in Ordinary
  /\ "columns" \in Ordinary /\ "column" \in Ordinary /\ "listed" \in Ordinary /\ "defined" \in Ordinary
  /\ "name" \in Ordinary /\ "constrained" \in Ordinary
  BY DEF Ordinary, Slots

(* A piece within the clause the author is in, with what it does to the levels. *)
LEMMA Wrote ==
  ASSUME Right, NEW piece \in Seq(Plain), Len(piece) > 0, NEW slot \in Ordinary,
         NEW clause, clause = Top.clause, Write(piece, clause, slot), Grown(levels, levels')
  PROVE  Right'
<1>1. Put(piece, TRUE, clause, slot)
  BY DEF Write
<1>2. QED
  BY <1>1, Worded

(* A piece within the clause the author is in, that does nothing to the levels. *)
LEMMA Phrased ==
  ASSUME Right, NEW piece \in Seq(Plain), Len(piece) > 0, NEW slot \in Ordinary,
         NEW clause, clause = Top.clause, Phrase(piece, clause, slot)
  PROVE  Right'
<1>1. Write(piece, clause, slot) /\ levels' = levels
  BY DEF Phrase
<1>2. Grown(levels, levels')
  BY <1>1, LevelsTyped
<1>3. QED
  BY <1>1, <1>2, Wrote

(* A group within the clause the author is in. *)
LEMMA Grouped ==
  ASSUME Right, NEW piece \in Seq(Plain), NEW slot \in Ordinary, NEW inside \in Ordinary, Grown(levels, levels'),
         Open(piece, [Top EXCEPT !.slot = slot], [Top EXCEPT !.slot = inside], FALSE)
  PROVE  Right'
<1> DEFINE below == [Top EXCEPT !.slot = slot]
           frame == [Top EXCEPT !.slot = inside]
<1>1. Top \in Frame /\ Top.level \in DOMAIN levels'
  BY TopFrame, LevelsKnown
<1>2. slot \in Slots /\ slot # "begin" /\ slot # "explained" /\ inside \in Slots
  BY DEF Ordinary
<1>3. /\ below \in Frame /\ below.clause = Top.clause /\ below.level = Top.level /\ below.slot = slot
      /\ frame \in Frame /\ frame.clause = Top.clause /\ frame.level = Top.level
  BY <1>1, <1>2 DEF Frame
<1>4. Open(piece, below, frame, FALSE)
  OBVIOUS
<1> HIDE DEF below, frame
<1>5. Apt(below)
  BY <1>2, <1>3 DEF Apt
<1>6. below.level \in DOMAIN levels' /\ frame.level \in DOMAIN levels'
  BY <1>1, <1>3
<1>7. QED
  BY <1>3, <1>4, <1>5, <1>6, Opened

(* A clause that is a reserved word, begun wherever the grammar has one. *)
LEMMA BegunAnywhere ==
  ASSUME Right, NEW clause \in Used \ Openers, Begin(clause)
  PROVE  Right'
<1>1. Write(Words(clause), clause, "open") /\ levels' = WithClause(clause)
  BY DEF Begin
<1>2. ReadsAsAClause(clause, Found(tokens, End(tokens), Depth))
  BY OthersAreNoNames DEF ReadsAsAClause
<1>3. Grown(levels, levels')
  BY <1>1, LevelsTyped
<1>4. "open" \in Slots /\ "open" # "begin" /\ "open" # "explained"
  BY DEF Slots
<1>5. QED
  BY <1>1, <1>2, <1>3, <1>4, Headlined

(* A word that may also be a name begins a clause only where a statement begins. *)
LEMMA BegunFirst ==
  ASSUME Right, NEW clause \in Used, Depth = 0, Top.slot \in {"begin", "explained"}, Begin(clause),
         Top.slot = "explained" => clause \in Range(Explainable)
  PROVE  Right'
<1>1. Write(Words(clause), clause, "open") /\ levels' = WithClause(clause)
  BY DEF Begin
<1>2. Len(stack) = 1 /\ Top = stack[1] /\ Apt(stack[1]) /\ Standing(tokens, gaps, stack)
  <2>1. Len(stack) \in Nat
    BY TopFrame
  <2>2. Len(stack) = 1
    BY <2>1 DEF Depth
  <2>3. QED
    BY <2>2 DEF Top, Last, Right, Standing
<1>3. Found(tokens, End(tokens), Depth) = Top.clause
  BY <1>2, FoundOutside
<1>4. ReadsAsAClause(clause, Top.clause)
  <2>1. CASE Top.slot = "begin"
    <3>1. Top.clause = <<>>
      BY <1>2, <2>1 DEF Apt
    <3>2. QED
      BY <3>1 DEF ReadsAsAClause
  <2>2. CASE Top.slot = "explained"
    <3>1. Top.clause = EXPLAIN
      BY <1>2, <2>2 DEF Apt
    <3>2. QED
      BY <2>2, <3>1, ExplainedRead
  <2>3. QED
    BY <2>1, <2>2
<1>5. Grown(levels, levels')
  BY <1>1, LevelsTyped
<1>6. "open" \in Slots /\ "open" # "begin" /\ "open" # "explained"
  BY DEF Slots
<1>7. QED
  BY <1>1, <1>3, <1>4, <1>5, <1>6, Headlined

(* EXPLAIN is written before anything else. *)
LEMMA Explained ==
  ASSUME Right, BeginExplain
  PROVE  Right'
<1>1. tokens = <<>> /\ Write(<<W("EXPLAIN")>>, EXPLAIN, "explained") /\ levels' = levels
  BY DEF BeginExplain, Phrase
<1>2. Words(EXPLAIN) = <<W("EXPLAIN")>>
  BY DEF Words, EXPLAIN, P
<1>3. EXPLAIN \in Used /\ "explained" \in Slots /\ "explained" # "begin"
  BY DEF Used, Slots
<1>4. ReadsAsAClause(EXPLAIN, Found(tokens, End(tokens), Depth))
  <2>1. Standing(tokens, gaps, stack)
    BY DEF Right
  <2>2. Depth = DepthAt(tokens, End(tokens))
    BY <2>1, Upright DEF Depth
  <2>3. Found(tokens, End(tokens), Depth) = <<>>
    BY <1>1, <2>2, FoundAtFirst
  <2>4. QED
    BY <2>3 DEF ReadsAsAClause
<1>5. Grown(levels, levels')
  BY <1>1, LevelsTyped
<1>6. QED
  BY <1>1, <1>2, <1>3, <1>4, <1>5, Headlined

(* The names of relations, of aliases and of CTEs the author takes are names. *)
LEMMA NamesTaken ==
  /\ \A i \in DOMAIN RelationNames : RelationNames[i] \in Names
  /\ \A i \in DOMAIN AliasNames : AliasNames[i] \in Names
  /\ \A i \in DOMAIN CteNames : CteNames[i] \in Names
  BY DEF Names, Range

(* The label of a relation in view is a name, or the one a table is created under. *)
LEMMA SeenLabels ==
  ASSUME Right, NEW label \in Seen(Top.level)
  PROVE  label \in Quiet \union Names
<1>1. PICK b \in {Top.level} \union levels[Top.level].sees : \E r \in Range(levels[b].relations) : label = r.label
  BY DEF Seen
<1>2. b \in DOMAIN levels /\ levels \in Seq(Level)
  BY TopFrame DEF Here
<1>3. levels[b] \in Level
  BY <1>2, ElementOfSeq, LenProperties
<1>4. levels[b].relations \in Seq(Relation)
  BY <1>3 DEF Level
<1>5. PICK r \in Range(levels[b].relations) : label = r.label
  BY <1>1
<1>6. r \in Relation
  <2> DEFINE rs == levels[b].relations
  <2>1. rs \in Seq(Relation) /\ r \in Range(rs)
    BY <1>4
  <2> HIDE DEF rs
  <2>2. DOMAIN rs = 1 .. Len(rs)
    BY <2>1, LenProperties
  <2>3. PICK i \in DOMAIN rs : r = rs[i]
    BY <2>1 DEF Range
  <2>4. QED
    BY <2>1, <2>2, <2>3, ElementOfSeq
<1>7. "t1" \in Quiet
  BY DEF Quiet
<1>8. QED
  BY <1>5, <1>6, <1>7 DEF Relation

(* Words of the author's own that begin no clause. *)
LEMMA OwnWords ==
  /\ W("c") \in Plain /\ W("f") \in Plain /\ W("y") \in Plain /\ W("int") \in Plain /\ W("t1") \in Plain
  /\ W("CAST") \in Plain /\ W("CASE") \in Plain /\ W("WHEN") \in Plain /\ W("THEN") \in Plain /\ W("END") \in Plain
  /\ W("AS") \in Plain /\ W("ALL") \in Plain /\ W("DESC") \in Plain /\ W("DISTINCT") \in Plain /\ W("IS") \in Plain
  /\ W("NULL") \in Plain /\ W("IN") \in Plain /\ W("AND") \in Plain /\ W("NOT") \in Plain /\ W("LATERAL") \in Plain
  /\ \A name \in Names : W(name) \in Plain
  BY PlainTokens DEF Quiet

(* What the clause is where the grammar asks for it. *)
LEMMA InOne ==
  ASSUME NEW clause, NEW slots, In({clause}, slots)
  PROVE  Top.clause = clause
  BY DEF In

(* The clauses that are reserved words. *)
LEMMA Reserved ==
  {SELECT, WITH_, TABLE, CREATE_TABLE, FROM, JOIN, ON, USING, SET, WHERE, GROUP_BY, HAVING, UNION_, ORDER_BY, LIMIT}
    \subseteq Used \ Openers
  BY DEF Used, Openers, SELECT, WITH_, EXPLAIN, UPDATE, DELETE_FROM, INSERT_INTO, TABLE, CREATE_TABLE, FROM, JOIN, ON, USING,
         SET, WHERE, GROUP_BY, HAVING, UNION_, ORDER_BY, LIMIT, P

(* Whatever begins a clause, or is written at the end of one, keeps the author right. *)
LEMMA ClausalKept ==
  ASSUME Right, Clausal
  PROVE  Right'

<1>1. CASE BeginSelect
  <2>1. Begin(SELECT) /\ SELECT \in Used \ Openers
    BY <1>1, Reserved DEF BeginSelect
  <2>2. QED
    BY <2>1, BegunAnywhere
<1>2. CASE BeginWith
  <2>1. Begin(WITH_) /\ WITH_ \in Used \ Openers
    BY <1>2, Reserved DEF BeginWith
  <2>2. QED
    BY <2>1, BegunAnywhere
<1>3. CASE BeginFrom
  <2>1. Begin(FROM) /\ FROM \in Used \ Openers
    BY <1>3, Reserved DEF BeginFrom
  <2>2. QED
    BY <2>1, BegunAnywhere
<1>4. CASE BeginJoin
  <2>1. Begin(JOIN) /\ JOIN \in Used \ Openers
    BY <1>4, Reserved DEF BeginJoin
  <2>2. QED
    BY <2>1, BegunAnywhere
<1>5. CASE BeginOn
  <2>1. Begin(ON) /\ ON \in Used \ Openers
    BY <1>5, Reserved DEF BeginOn
  <2>2. QED
    BY <2>1, BegunAnywhere
<1>6. CASE BeginUsing
  <2>1. Begin(USING) /\ USING \in Used \ Openers
    BY <1>6, Reserved DEF BeginUsing
  <2>2. QED
    BY <2>1, BegunAnywhere
<1>7. CASE BeginSet
  <2>1. Begin(SET) /\ SET \in Used \ Openers
    BY <1>7, Reserved DEF BeginSet
  <2>2. QED
    BY <2>1, BegunAnywhere
<1>8. CASE BeginWhere
  <2>1. Begin(WHERE) /\ WHERE \in Used \ Openers
    BY <1>8, Reserved DEF BeginWhere
  <2>2. QED
    BY <2>1, BegunAnywhere
<1>9. CASE BeginGroupBy
  <2>1. Begin(GROUP_BY) /\ GROUP_BY \in Used \ Openers
    BY <1>9, Reserved DEF BeginGroupBy
  <2>2. QED
    BY <2>1, BegunAnywhere
<1>10. CASE BeginHaving
  <2>1. Begin(HAVING) /\ HAVING \in Used \ Openers
    BY <1>10, Reserved DEF BeginHaving
  <2>2. QED
    BY <2>1, BegunAnywhere
<1>11. CASE BeginOrderBy
  <2>1. Begin(ORDER_BY) /\ ORDER_BY \in Used \ Openers
    BY <1>11, Reserved DEF BeginOrderBy
  <2>2. QED
    BY <2>1, BegunAnywhere
<1>12. CASE Limit
  <2>1. Begin(LIMIT) /\ LIMIT \in Used \ Openers
    BY <1>12, Reserved DEF Limit
  <2>2. QED
    BY <2>1, BegunAnywhere
<1>13. CASE BeginSource
  <2> DEFINE fresh == NewLevel(Depth, {}, {}, FALSE)
             level == [fresh EXCEPT !.clauses = {SELECT}]
  <2>1. NextBlock(SELECT, "open", level)
    BY <1>13 DEF BeginSource
  <2>2. level \in Level /\ level.sees = {}
    <3>1. Depth \in Nat /\ <<>> \in Seq(Relation) /\ <<>> \in Seq(OutputNames) /\ SELECT \in Used
      BY TopFrame DEF Used
    <3>2. fresh \in Level /\ fresh.sees = {}
      BY <3>1 DEF NewLevel, Level
    <3> HIDE DEF fresh
    <3>3. QED
      BY <3>1, <3>2 DEF Level
  <2> HIDE DEF level
  <2>3. QED
    BY <2>1, <2>2, OrdinarySlots, NextBlocked
<1>14. CASE BeginUnion
  <2> DEFINE level == NewLevel(Depth, Here.sees, Here.ctes, TRUE)
  <2>1. NextBlock(UNION_, "branch", level)
    BY <1>14 DEF BeginUnion
  <2>2. level \in Level /\ level.sees \subseteq DOMAIN levels
    <3>1. /\ Depth \in Nat /\ <<>> \in Seq(Relation) /\ <<>> \in Seq(OutputNames)
          /\ Here.sees \in SUBSET Nat /\ Here.ctes \in SUBSET CteNamed /\ Here.sees \subseteq DOMAIN levels
      <4>1. Depth \in Nat /\ Here \in Level /\ Here.sees \subseteq DOMAIN levels
        BY TopFrame
      <4>2. Here.sees \in SUBSET Nat /\ Here.ctes \in SUBSET CteNamed
        BY <4>1 DEF Level
      <4>3. <<>> \in Seq(Relation) /\ <<>> \in Seq(OutputNames)
        OBVIOUS
      <4>4. QED
        BY <4>1, <4>2, <4>3
    <3>2. QED
      BY <3>1 DEF NewLevel, Level
  <2> HIDE DEF level
  <2>3. QED
    BY <2>1, <2>2, OrdinarySlots, NextBlocked
<1>15. CASE BeginExplain
  BY <1>15, Explained
<1>16. CASE BeginStatement
  <2>1. PICK clause \in {UPDATE, DELETE_FROM, INSERT_INTO, TABLE, CREATE_TABLE} :
          /\ Depth = 0 /\ MayStart(clause[1]) /\ Begin(clause)
          /\ Top.slot = "explained" => clause \in Range(Explainable)
    BY <1>16 DEF BeginStatement
  <2>2. clause \in Used
    BY DEF Used
  <2>3. Top.slot \in {"begin", "explained"}
    BY <2>1 DEF MayStart
  <2>4. QED
    BY <2>1, <2>2, <2>3, BegunFirst
<1>17. CASE UnionAll
  <2>1. Phrase(<<W("ALL")>>, UNION_, "all") /\ Top.clause = UNION_
    BY <1>17, InOne DEF UnionAll
  <2>2. <<W("ALL")>> \in Seq(Plain) /\ Len(<<W("ALL")>>) > 0
    BY OwnWords, PlainTokens, PlainPieces
  <2>3. QED
    BY <2>1, <2>2, OrdinarySlots, Phrased
<1>18. CASE Direction
  <2>1. Phrase(<<W("DESC")>>, ORDER_BY, "directed") /\ Top.clause = ORDER_BY
    BY <1>18, InOne DEF Direction
  <2>2. <<W("DESC")>> \in Seq(Plain) /\ Len(<<W("DESC")>>) > 0
    BY OwnWords, PlainTokens, PlainPieces
  <2>3. QED
    BY <2>1, <2>2, OrdinarySlots, Phrased
<1>19. CASE Count
  <2>1. Phrase(<<[t |-> "number", v |-> "1"]>>, LIMIT, "counted") /\ Top.clause = LIMIT
    BY <1>19, InOne DEF Count
  <2>2. <<[t |-> "number", v |-> "1"]>> \in Seq(Plain) /\ Len(<<[t |-> "number", v |-> "1"]>>) > 0
    BY OwnWords, PlainTokens, PlainPieces
  <2>3. QED
    BY <2>1, <2>2, OrdinarySlots, Phrased
<1>20. QED
  BY <1>1, <1>2, <1>3, <1>4, <1>5, <1>6, <1>7, <1>8, <1>9, <1>10, <1>11, <1>12, <1>13, <1>14, <1>15, <1>16, <1>17, <1>18, <1>19 DEF Clausal

(* A name of a relation, of an alias or of a CTE is a piece of its own. *)
LEMMA NamePieces ==
  ASSUME NEW name \in Names
  PROVE  /\ <<W(name)>> \in Seq(Plain) /\ Len(<<W(name)>>) > 0
         /\ <<W("AS"), W(name)>> \in Seq(Plain) /\ Len(<<W("AS"), W(name)>>) > 0
<1>1. W(name) \in Plain /\ W("AS") \in Plain
  BY OwnWords
<1>2. QED
  BY <1>1, PlainPieces

(* Three put one behind the other. *)
LEMMA Triple ==
  ASSUME NEW x \in Plain, NEW y \in Plain, NEW z \in Plain
  PROVE  <<x, y, z>> \in Seq(Plain) /\ Len(<<x, y, z>>) > 0
  OBVIOUS

(* Whatever is written of CTEs, select lists, column lists and definitions keeps the author right. *)
LEMMA ListedKept ==
  ASSUME Right, Listed
  PROVE  Right'
<1> DEFINE next == CteNames[CtesWritten + 1]
<1>1. CASE NameCte
  <2>1. Phrase(<<W(next)>>, WITH_, "cte") /\ Top.clause = WITH_ /\ next \in Names
    BY <1>1, InOne, NamesTaken DEF NameCte
  <2> HIDE DEF next
  <2>2. <<W(next)>> \in Seq(Plain) /\ Len(<<W(next)>>) > 0
    BY <2>1, NamePieces
  <2>3. QED
    BY <2>1, <2>2, OrdinarySlots, Phrased
<1>2. CASE CteBody
  <2> DEFINE cte == [name |-> next, of |-> Len(levels) + 1]
             others == [levels EXCEPT ![Top.level].ctes = @ \union {cte}]
  <2>1. OpenBody(<<W("AS")>>, "body", FALSE, others) /\ next \in Names
    BY <1>2, NamesTaken DEF CteBody
  <2>2. cte \in CteNamed
    <3>1. Len(levels) + 1 \in Nat
      BY TopFrame
    <3>2. QED
      BY <2>1, <3>1 DEF CteNamed
  <2> HIDE DEF cte
  <2>3. Typed(others) /\ Len(others) = Len(levels)
    BY <2>2, LevelsTyped DEF Grown
  <2> HIDE DEF others
  <2>4. <<W("AS")>> \in Seq(Plain)
    BY OwnWords, PlainPieces
  <2>5. QED
    BY <2>1, <2>3, <2>4, OrdinarySlots, OpenedBody
<1>3. CASE NextCte
  <2>1. Phrase(<<M(",")>>, WITH_, "open") /\ Top.clause = WITH_
    BY <1>3, InOne DEF NextCte
  <2>2. <<M(",")>> \in Seq(Plain) /\ Len(<<M(",")>>) > 0
    BY PlainTokens, PlainPieces
  <2>3. QED
    BY <2>1, <2>2, OrdinarySlots, Phrased
<1>4. CASE SelectItem
  <2>1. Top.clause = SELECT
    BY <1>4, InOne DEF SelectItem
  <2>2. CASE Write(Column, SELECT, "done") /\ levels' = Outputs(<<"c">>)
    <3>1. Column \in Seq(Plain) /\ Len(Column) > 0
      BY OwnWords, PlainPieces DEF Column
    <3>2. <<"c">> \in Seq(OutputNames)
      BY DEF OutputNames
    <3>3. Grown(levels, levels')
      BY <2>2, <3>2, LevelsTyped
    <3>4. QED
      BY <2>1, <2>2, <3>1, <3>3, OrdinarySlots, Wrote
  <2>3. CASE Write(<<O("*")>>, SELECT, "star") /\ levels' = Outputs(<<"*">>)
    <3>1. <<O("*")>> \in Seq(Plain) /\ Len(<<O("*")>>) > 0
      BY PlainTokens, PlainPieces
    <3>2. <<"*">> \in Seq(OutputNames)
      BY DEF OutputNames
    <3>3. Grown(levels, levels')
      BY <2>3, <3>2, LevelsTyped
    <3>4. QED
      BY <2>1, <2>3, <3>1, <3>3, OrdinarySlots, Wrote
  <2>4. QED
    BY <1>4, <2>2, <2>3 DEF SelectItem
<1>5. CASE Expression
  <2>1. Top.clause = SELECT /\ Right
    BY <1>5, InOne DEF Expression
  <2>2. <<"f">> \in Seq(OutputNames) /\ <<"">> \in Seq(OutputNames)
    BY DEF OutputNames
  <2>3. CASE Call("f", "open") /\ levels' = Outputs(<<"f">>)
    <3>1. <<W("f")>> \in Seq(Plain)
      BY OwnWords, PlainPieces
    <3>2. Grown(levels, levels')
      BY <2>2, <2>3, LevelsTyped
    <3>3. QED
      BY <2>3, <3>1, <3>2, OrdinarySlots, Grouped DEF Call
  <2>4. CASE Call("CAST", "casting") /\ levels' = Outputs(<<"">>)
    <3>1. <<W("CAST")>> \in Seq(Plain)
      BY OwnWords, PlainPieces
    <3>2. Grown(levels, levels')
      BY <2>2, <2>4, LevelsTyped
    <3>3. QED
      BY <2>4, <3>1, <3>2, OrdinarySlots, Grouped DEF Call
  <2>5. CASE Write(<<W("CASE")>>, SELECT, "case") /\ levels' = Outputs(<<"">>)
    <3>1. <<W("CASE")>> \in Seq(Plain) /\ Len(<<W("CASE")>>) > 0
      BY OwnWords, PlainPieces
    <3>2. Grown(levels, levels')
      BY <2>2, <2>5, LevelsTyped
    <3>3. QED
      BY <2>1, <2>5, <3>1, <3>2, OrdinarySlots, Wrote
  <2>6. CASE OpenBody(<<>>, "done", TRUE, Outputs(<<"">>))
    <3> DEFINE others == Outputs(<<"">>)
    <3>1. Typed(others) /\ Len(others) = Len(levels)
      BY <2>2, LevelsTyped DEF Grown
    <3> HIDE DEF others
    <3>2. OpenBody(<<>>, "done", TRUE, others)
      BY <2>6 DEF others
    <3>3. QED
      BY <3>1, <3>2, OrdinarySlots, PlainPieces, OpenedBody
  <2>7. QED
    BY <1>5, <2>3, <2>4, <2>5, <2>6 DEF Expression
<1>6. CASE Argument
  <2>1. Phrase(Column, SELECT, "done") /\ Top.clause = SELECT
    BY <1>6, InOne DEF Argument
  <2>2. Column \in Seq(Plain) /\ Len(Column) > 0
    BY OwnWords, PlainTokens, PlainPieces DEF Column
  <2>3. QED
    BY <2>1, <2>2, OrdinarySlots, Phrased
<1>7. CASE CastOperand
  <2>1. Phrase(Column, SELECT, "cast") /\ Top.clause = SELECT
    BY <1>7, InOne DEF CastOperand
  <2>2. Column \in Seq(Plain) /\ Len(Column) > 0
    BY OwnWords, PlainTokens, PlainPieces DEF Column
  <2>3. QED
    BY <2>1, <2>2, OrdinarySlots, Phrased
<1>8. CASE CastAs
  <2>1. Phrase(<<W("AS")>>, SELECT, "typing") /\ Top.clause = SELECT
    BY <1>8, InOne DEF CastAs
  <2>2. <<W("AS")>> \in Seq(Plain) /\ Len(<<W("AS")>>) > 0
    BY OwnWords, PlainTokens, PlainPieces
  <2>3. QED
    BY <2>1, <2>2, OrdinarySlots, Phrased
<1>9. CASE CastType
  <2>1. Phrase(<<W("int")>>, SELECT, "done") /\ Top.clause = SELECT
    BY <1>9, InOne DEF CastType
  <2>2. <<W("int")>> \in Seq(Plain) /\ Len(<<W("int")>>) > 0
    BY OwnWords, PlainTokens, PlainPieces
  <2>3. QED
    BY <2>1, <2>2, OrdinarySlots, Phrased
<1>10. CASE Distinct
  <2>1. Phrase(<<W("DISTINCT")>>, SELECT, "open") /\ Top.clause = SELECT
    BY <1>10, InOne DEF Distinct
  <2>2. <<W("DISTINCT")>> \in Seq(Plain) /\ Len(<<W("DISTINCT")>>) > 0
    BY OwnWords, PlainTokens, PlainPieces
  <2>3. QED
    BY <2>1, <2>2, OrdinarySlots, Phrased
<1>11. CASE SelectAlias
  <2>1. /\ Write(<<W("AS"), W("y")>>, SELECT, "aliased") /\ Top.clause = SELECT
        /\ levels' = [levels EXCEPT ![Top.level].outputs = Append(Front(@), "y")]
    BY <1>11, InOne DEF SelectAlias
  <2>2. <<W("AS"), W("y")>> \in Seq(Plain) /\ Len(<<W("AS"), W("y")>>) > 0
    BY OwnWords, PlainPieces
  <2>3. Grown(levels, levels')
    BY <2>1, LevelsTyped
  <2>4. QED
    BY <2>1, <2>2, <2>3, OrdinarySlots, Wrote
<1>12. CASE NextItem
  <2>1. Phrase(<<M(",")>>, Top.clause, "open")
    BY <1>12 DEF NextItem
  <2>2. <<M(",")>> \in Seq(Plain) /\ Len(<<M(",")>>) > 0
    BY PlainTokens, PlainPieces
  <2>3. QED
    BY <2>1, <2>2, OrdinarySlots, Phrased
<1>13. CASE OrderItem
  <2>1. /\ Write(Column, Top.clause, "done")
        /\ levels' = [levels EXCEPT ![Top.level].items = @ + 1]
    BY <1>13 DEF OrderItem
  <2>2. Column \in Seq(Plain) /\ Len(Column) > 0
    BY OwnWords, PlainPieces DEF Column
  <2>3. Grown(levels, levels')
    BY <2>1, LevelsTyped
  <2>4. QED
    BY <2>1, <2>2, <2>3, OrdinarySlots, Wrote
<1>14. CASE Case
  <2>1. CASE In({SELECT}, {"case"}) /\ Phrase(<<W("WHEN")>>, SELECT, "when")
    <3>1. Top.clause = SELECT
      BY <2>1, InOne
    <3>2. <<W("WHEN")>> \in Seq(Plain) /\ Len(<<W("WHEN")>>) > 0
      BY OwnWords, PlainTokens, PlainPieces
    <3>3. QED
      BY <2>1, <3>1, <3>2, OrdinarySlots, Phrased
  <2>2. CASE In({SELECT}, {"when"}) /\ Phrase(<<W("c"), O("="), [t |-> "number", v |-> "1"]>>, SELECT, "held")
    <3>1. Top.clause = SELECT
      BY <2>2, InOne
    <3>2. <<W("c"), O("="), [t |-> "number", v |-> "1"]>> \in Seq(Plain) /\ Len(<<W("c"), O("="), [t |-> "number", v |-> "1"]>>) > 0
      <4>1. W("c") \in Plain /\ O("=") \in Plain /\ [t |-> "number", v |-> "1"] \in Plain
        BY OwnWords, PlainTokens
      <4>2. QED
        BY <4>1, Triple
    <3>3. QED
      BY <2>2, <3>1, <3>2, OrdinarySlots, Phrased
  <2>3. CASE In({SELECT}, {"held"}) /\ Phrase(<<W("THEN")>>, SELECT, "then")
    <3>1. Top.clause = SELECT
      BY <2>3, InOne
    <3>2. <<W("THEN")>> \in Seq(Plain) /\ Len(<<W("THEN")>>) > 0
      BY OwnWords, PlainTokens, PlainPieces
    <3>3. QED
      BY <2>3, <3>1, <3>2, OrdinarySlots, Phrased
  <2>4. CASE In({SELECT}, {"then"}) /\ Phrase(Column, SELECT, "chosen")
    <3>1. Top.clause = SELECT
      BY <2>4, InOne
    <3>2. Column \in Seq(Plain) /\ Len(Column) > 0
      BY OwnWords, PlainTokens, PlainPieces DEF Column
    <3>3. QED
      BY <2>4, <3>1, <3>2, OrdinarySlots, Phrased
  <2>5. CASE In({SELECT}, {"chosen"}) /\ Phrase(<<W("END")>>, SELECT, "done")
    <3>1. Top.clause = SELECT
      BY <2>5, InOne
    <3>2. <<W("END")>> \in Seq(Plain) /\ Len(<<W("END")>>) > 0
      BY OwnWords, PlainTokens, PlainPieces
    <3>3. QED
      BY <2>5, <3>1, <3>2, OrdinarySlots, Phrased
  <2>6. QED
    BY <1>14, <2>1, <2>2, <2>3, <2>4, <2>5 DEF Case
<1>15. CASE ColumnList
  <2>1. CASE In({INSERT_INTO}, {"named"}) /\ Group(<<>>, "columns", "column")
    <3>1. Grown(levels, levels')
      BY <2>1, LevelsTyped DEF Group
    <3>2. QED
      BY <2>1, <3>1, OrdinarySlots, PlainPieces, Grouped DEF Group
  <2>2. CASE In({USING}, {"open"}) /\ Group(<<>>, "done", "column")
    <3>1. Grown(levels, levels')
      BY <2>2, LevelsTyped DEF Group
    <3>2. QED
      BY <2>2, <3>1, OrdinarySlots, PlainPieces, Grouped DEF Group
  <2>3. CASE In({INSERT_INTO, USING}, {"column"}) /\ Phrase(Column, Top.clause, "listed")
    <3>1. Column \in Seq(Plain) /\ Len(Column) > 0
      BY OwnWords, PlainPieces DEF Column
    <3>2. QED
      BY <2>3, <3>1, OrdinarySlots, Phrased
  <2>4. QED
    BY <1>15, <2>1, <2>2, <2>3 DEF ColumnList
<1>16. CASE Definitions
  <2>1. CASE /\ In({CREATE_TABLE}, {"open"})
             /\ Open(<<W("t1")>>, [Top EXCEPT !.slot = "defined"], [Top EXCEPT !.slot = "name"], FALSE)
             /\ levels' = Related("t1", 0)
    <3>1. Grown(levels, levels')
      BY <2>1, LevelsTyped
    <3>2. <<W("t1")>> \in Seq(Plain)
      BY OwnWords, PlainPieces
    <3>3. QED
      BY <2>1, <3>1, <3>2, OrdinarySlots, Grouped
  <2>2. CASE In({CREATE_TABLE}, {"name"}) /\ Phrase(Column, CREATE_TABLE, "typing")
    <3>1. Top.clause = CREATE_TABLE
      BY <2>2, InOne
    <3>2. Column \in Seq(Plain) /\ Len(Column) > 0
      BY OwnWords, PlainTokens, PlainPieces DEF Column
    <3>3. QED
      BY <2>2, <3>1, <3>2, OrdinarySlots, Phrased
  <2>3. CASE In({CREATE_TABLE}, {"typing"}) /\ Phrase(<<W("int")>>, CREATE_TABLE, "done")
    <3>1. Top.clause = CREATE_TABLE
      BY <2>3, InOne
    <3>2. <<W("int")>> \in Seq(Plain) /\ Len(<<W("int")>>) > 0
      BY OwnWords, PlainTokens, PlainPieces
    <3>3. QED
      BY <2>3, <3>1, <3>2, OrdinarySlots, Phrased
  <2>4. CASE In({CREATE_TABLE}, {"done"}) /\ Phrase(<<W("NOT"), W("NULL")>>, CREATE_TABLE, "constrained")
    <3>1. Top.clause = CREATE_TABLE
      BY <2>4, InOne
    <3>2. <<W("NOT"), W("NULL")>> \in Seq(Plain) /\ Len(<<W("NOT"), W("NULL")>>) > 0
      BY OwnWords, PlainTokens, PlainPieces
    <3>3. QED
      BY <2>4, <3>1, <3>2, OrdinarySlots, Phrased
  <2>5. CASE In({CREATE_TABLE}, {"done", "constrained"}) /\ Phrase(<<M(",")>>, CREATE_TABLE, "name")
    <3>1. Top.clause = CREATE_TABLE
      BY <2>5, InOne
    <3>2. <<M(",")>> \in Seq(Plain) /\ Len(<<M(",")>>) > 0
      BY OwnWords, PlainTokens, PlainPieces
    <3>3. QED
      BY <2>5, <3>1, <3>2, OrdinarySlots, Phrased
  <2>6. QED
    BY <1>16, <2>1, <2>2, <2>3, <2>4, <2>5 DEF Definitions
<1>17. QED
  BY <1>1, <1>2, <1>3, <1>4, <1>5, <1>6, <1>7, <1>8, <1>9, <1>10, <1>11, <1>12, <1>13, <1>14, <1>15, <1>16 DEF Listed

(* Whatever is written about relations keeps the author right. *)
LEMMA RelationalKept ==
  ASSUME Right, Relational
  PROVE  Right'
<1>1. CASE Table
  <2> DEFINE name == RelationNames[RelationsWritten + 1]
  <2>1. Write(<<W(name)>>, Top.clause, "named") /\ levels' = Related(name, 0) /\ name \in Names
    BY <1>1, NamesTaken DEF Table, RoomForARelation
  <2> HIDE DEF name
  <2>2. <<W(name)>> \in Seq(Plain) /\ Len(<<W(name)>>) > 0
    BY <2>1, NamePieces
  <2>3. Grown(levels, levels')
    BY <2>1, LevelsTyped
  <2>4. QED
    BY <2>1, <2>2, <2>3, OrdinarySlots, Wrote
<1>2. CASE Cte
  <2>1. PICK cte \in Here.ctes : Write(<<W(cte.name)>>, Top.clause, "named") /\ levels' = Related(cte.name, cte.of)
    BY <1>2 DEF Cte
  <2>2. cte.name \in Names /\ cte.of \in Nat
    <3>1. Here \in Level
      BY TopFrame
    <3>2. Here.ctes \in SUBSET CteNamed
      BY <3>1 DEF Level
    <3>3. QED
      BY <3>2 DEF CteNamed
  <2>3. <<W(cte.name)>> \in Seq(Plain) /\ Len(<<W(cte.name)>>) > 0
    BY <2>2, NamePieces
  <2>4. Grown(levels, levels')
    BY <2>1, <2>2, LevelsTyped
  <2>5. QED
    BY <2>1, <2>3, <2>4, OrdinarySlots, Wrote
<1>3. CASE DerivedTable
  <2>1. OpenBody(<<>>, "derived", FALSE, levels) \/ OpenBody(<<W("LATERAL")>>, "derived", TRUE, levels)
    BY <1>3 DEF DerivedTable
  <2>2. Typed(levels) /\ "derived" \in Ordinary
    BY LevelsTyped, OrdinarySlots
  <2>3. <<>> \in Seq(Plain) /\ <<W("LATERAL")>> \in Seq(Plain)
    BY OwnWords, PlainPieces
  <2>4. CASE OpenBody(<<>>, "derived", FALSE, levels)
    BY <2>2, <2>3, <2>4, OpenedBody
  <2>5. CASE OpenBody(<<W("LATERAL")>>, "derived", TRUE, levels)
    BY <2>2, <2>3, <2>5, OpenedBody
  <2>6. QED
    BY <2>1, <2>4, <2>5
<1>4. CASE DerivedAlias
  <2> DEFINE name == AliasNames[RelationsWritten + 1]
  <2>1. Write(<<W(name)>>, Top.clause, "labelled") /\ levels' = Related(name, Top.body) /\ name \in Names
    BY <1>4, NamesTaken DEF DerivedAlias
  <2> HIDE DEF name
  <2>2. Top.body \in Nat
    BY TopFrame DEF Frame
  <2>3. <<W(name)>> \in Seq(Plain) /\ Len(<<W(name)>>) > 0
    BY <2>1, NamePieces
  <2>4. Grown(levels, levels')
    BY <2>1, <2>2, LevelsTyped
  <2>5. QED
    BY <2>1, <2>3, <2>4, OrdinarySlots, Wrote
<1>5. CASE RelationAlias
  <2> DEFINE name == AliasNames[RelationsWritten]
             n == Len(Here.relations)
  <2>1. /\ Write(<<W(name)>>, Top.clause, "aliased") \/ Write(<<W("AS"), W(name)>>, Top.clause, "aliased")
        /\ levels' = [levels EXCEPT ![Top.level].relations[n].label = name] /\ name \in Names
    BY <1>5, NamesTaken DEF RelationAlias
  <2> HIDE DEF name, n
  <2>2. /\ <<W(name)>> \in Seq(Plain) /\ Len(<<W(name)>>) > 0
        /\ <<W("AS"), W(name)>> \in Seq(Plain) /\ Len(<<W("AS"), W(name)>>) > 0
    BY <2>1, NamePieces
  <2>3. Grown(levels, levels') /\ "aliased" \in Ordinary
    BY <2>1, LevelsTyped, OrdinarySlots
  <2>4. CASE Write(<<W(name)>>, Top.clause, "aliased")
    BY <2>2, <2>3, <2>4, Wrote
  <2>5. CASE Write(<<W("AS"), W(name)>>, Top.clause, "aliased")
    BY <2>2, <2>3, <2>5, Wrote
  <2>6. QED
    BY <2>1, <2>4, <2>5
<1>6. CASE NextRelation
  <2>1. Top.clause = FROM /\ Phrase(<<M(",")>>, FROM, "open")
    BY <1>6, InOne DEF NextRelation
  <2>2. <<M(",")>> \in Seq(Plain) /\ Len(<<M(",")>>) > 0
    BY PlainTokens, PlainPieces
  <2>3. QED
    BY <2>1, <2>2, OrdinarySlots, Phrased
<1>7. QED
  BY <1>1, <1>2, <1>3, <1>4, <1>5, <1>6 DEF Relational

(* Whatever is written of a predicate keeps the author right. *)
LEMMA PredicateKept ==
  ASSUME Right, Predicate
  PROVE  Right'
<1>1. CASE Operand
  <2>1. Write(Column, Top.clause, "operand") /\ levels' = [levels EXCEPT ![Top.level].items = @ + 1]
    BY <1>1 DEF Operand
  <2>2. Column \in Seq(Plain) /\ Len(Column) > 0
    BY OwnWords, PlainPieces DEF Column
  <2>3. Grown(levels, levels')
    BY <2>1, LevelsTyped
  <2>4. QED
    BY <2>1, <2>2, <2>3, OrdinarySlots, Wrote
<1>2. CASE Compare
  <2>1. Phrase(<<O("=")>>, Top.clause, "compared")
    BY <1>2 DEF Compare
  <2>2. <<O("=")>> \in Seq(Plain) /\ Len(<<O("=")>>) > 0
    BY PlainTokens, PlainPieces
  <2>3. QED
    BY <2>1, <2>2, OrdinarySlots, Phrased
<1>3. CASE RightOperand
  <2> DEFINE number == [t |-> "number", v |-> "1"]
  <2>1. Phrase(<<number>>, Top.clause, "done") \/ OpenBody(<<>>, "done", TRUE, levels)
    BY <1>3 DEF RightOperand
  <2>2. number \in Plain
    BY PlainTokens
  <2> HIDE DEF number
  <2>3. <<number>> \in Seq(Plain) /\ Len(<<number>>) > 0 /\ <<>> \in Seq(Plain)
    BY <2>2, PlainPieces
  <2>4. Typed(levels) /\ "done" \in Ordinary
    BY LevelsTyped, OrdinarySlots
  <2>5. CASE Phrase(<<number>>, Top.clause, "done")
    BY <2>3, <2>4, <2>5, Phrased
  <2>6. CASE OpenBody(<<>>, "done", TRUE, levels)
    BY <2>3, <2>4, <2>6, OpenedBody
  <2>7. QED
    BY <2>1, <2>5, <2>6
<1>4. CASE Qualified
  <2>1. PICK label \in Seen(Top.level) : Phrase(<<W(label), M("."), W("c")>>, Top.clause, "done")
    BY <1>4 DEF Qualified
  <2>2. W(label) \in Plain /\ M(".") \in Plain /\ W("c") \in Plain
    BY SeenLabels, PlainTokens, OwnWords
  <2>3. <<W(label), M("."), W("c")>> \in Seq(Plain) /\ Len(<<W(label), M("."), W("c")>>) > 0
    BY <2>2, Triple
  <2>4. QED
    BY <2>1, <2>3, OrdinarySlots, Phrased
<1>5. CASE OpenQuote
  <2> DEFINE quote == [t |-> "open string", v |-> "q"]
  <2>1. Put(<<quote>>, FALSE, Top.clause, "quoted") /\ levels' = levels
    BY <1>5 DEF OpenQuote
  <2>2. quote \in Plain
    BY PlainTokens
  <2> HIDE DEF quote
  <2>3. <<quote>> \in Seq(Plain) /\ Len(<<quote>>) > 0
    BY <2>2, PlainPieces
  <2>4. Grown(levels, levels')
    BY <2>1, LevelsTyped
  <2>5. QED
    BY <2>1, <2>3, <2>4, OrdinarySlots, Worded
<1>6. CASE IsNull
  <2>1. Phrase(<<W("IS"), W("NULL")>>, Top.clause, "done")
    BY <1>6 DEF IsNull
  <2>2. <<W("IS"), W("NULL")>> \in Seq(Plain) /\ Len(<<W("IS"), W("NULL")>>) > 0
    BY OwnWords, PlainPieces
  <2>3. QED
    BY <2>1, <2>2, OrdinarySlots, Phrased
<1>7. CASE InSubquery
  <2>1. OpenBody(<<W("IN")>>, "done", TRUE, levels)
    BY <1>7 DEF InSubquery
  <2>2. <<W("IN")>> \in Seq(Plain)
    BY OwnWords, PlainPieces
  <2>3. Typed(levels) /\ "done" \in Ordinary
    BY LevelsTyped, OrdinarySlots
  <2>4. QED
    BY <2>1, <2>2, <2>3, OpenedBody
<1>8. CASE Connect
  <2>1. Phrase(<<W("AND")>>, Top.clause, "open")
    BY <1>8 DEF Connect
  <2>2. <<W("AND")>> \in Seq(Plain) /\ Len(<<W("AND")>>) > 0
    BY OwnWords, PlainPieces
  <2>3. QED
    BY <2>1, <2>2, OrdinarySlots, Phrased
<1>9. QED
  BY <1>1, <1>2, <1>3, <1>4, <1>5, <1>6, <1>7, <1>8 DEF Predicate

-----------------------------------------------------------------------------
(* The theorems. *)

(* The author starts right: with nothing written, in no clause. *)
LEMMA InitRight ==
  ASSUME Init
  PROVE  Right
<1> DEFINE frame == [level |-> 1, clause |-> <<>>, slot |-> "begin", body |-> 0]
           level == NewLevel(0, {}, {}, FALSE)
<1>1. tokens = <<>> /\ caret = [at |-> 0, on |-> FALSE] /\ levels = <<level>> /\ gaps = <<frame>> /\ stack = <<frame>>
  BY DEF Init
<1>2. frame \in Frame /\ frame.clause = <<>> /\ frame.level = 1 /\ Apt(frame)
  BY DEF Frame, Slots, Apt
<1>3. level \in Level /\ level.sees = {}
  <2>1. <<>> \in Seq(Relation) /\ <<>> \in Seq(OutputNames)
    OBVIOUS
  <2>2. QED
    BY <2>1 DEF NewLevel, Level
<1> HIDE DEF frame, level
<1>4. Standing(tokens, gaps, stack)
  BY <1>1, <1>2, StandingAtFirst
<1>5. Typed(levels) /\ 1 \in DOMAIN levels
  <2>1. <<level>> \in Seq(Level) /\ DOMAIN <<level>> = {1} /\ <<level>>[1] = level
    BY <1>3
  <2>2. QED
    BY <1>1, <1>3, <2>1 DEF Typed
<1>6. \A k \in 1 .. Len(stack) : stack[k].level \in DOMAIN levels
  <2>1. Len(<<frame>>) = 1 /\ <<frame>>[1] = frame
    OBVIOUS
  <2>2. \A k \in 1 .. 1 : k = 1
    OBVIOUS
  <2>3. QED
    BY <1>1, <1>2, <1>5, <2>1, <2>2
<1>7. caret \in Caret /\ caret.at <= Len(tokens) /\ (caret.on => caret.at > 0)
  BY <1>1 DEF Caret
<1>8. QED
  BY <1>4, <1>5, <1>6, <1>7 DEF Right, TypeOK

(* Whatever the author does next leaves the author right. *)
LEMMA NextRight ==
  ASSUME Right, [Next]_vars
  PROVE  Right'
<1>1. CASE Clausal
  BY <1>1, ClausalKept
<1>2. CASE Listed
  BY <1>2, ListedKept
<1>3. CASE Relational
  BY <1>3, RelationalKept
<1>4. CASE Predicate
  BY <1>4, PredicateKept
<1>5. CASE Close
  BY <1>5, Closed
<1>6. CASE Left
  BY <1>6, WentLeft
<1>7. CASE UNCHANGED vars
  <2>1. tokens' = tokens /\ gaps' = gaps /\ levels' = levels /\ stack' = stack /\ caret' = caret
    BY <1>7 DEF vars
  <2>2. QED
    BY <2>1 DEF Right, TypeOK
<1>8. QED
  BY <1>1, <1>2, <1>3, <1>4, <1>5, <1>6, <1>7 DEF Next

(* Where the author is right, the engine finds the author's clause at every caret. *)
LEMMA RightAgrees ==
  ASSUME Right
  PROVE  ClauseAgrees
<1> DEFINE a == caret.at
<1>1. Text(tokens) /\ Told(tokens, gaps) /\ caret \in Caret /\ a <= Len(tokens) /\ (caret.on => a > 0)
  BY DEF Right, Standing, TypeOK
<1>2. Written(tokens) /\ Len(tokens) \in Nat
  BY <1>1, TopFrame DEF Text
<1>3. a \in Nat /\ caret.on \in BOOLEAN /\ caret = [at |-> a, on |-> caret.on]
  BY <1>1 DEF Caret
<1>4. ClauseAt(tokens, StatementAt(tokens, caret), caret) = Outer(tokens, caret)[DepthAt(tokens, caret)]
  BY <1>1, <1>2, OneStatement
<1>5. \A g \in 0 .. Len(tokens) : Outer(tokens, Gap(g))[DepthAt(tokens, Gap(g))] = gaps[g + 1].clause
  BY <1>1 DEF Told
<1>6. CASE ~caret.on
  <2>1. caret = Gap(a) /\ a \in 0 .. Len(tokens)
    BY <1>1, <1>2, <1>3, <1>6 DEF Gap
  <2>2. Truth = gaps[a + 1]
    BY <1>6 DEF Truth
  <2>3. Outer(tokens, Gap(a))[DepthAt(tokens, Gap(a))] = gaps[a + 1].clause
    BY <1>5, <2>1
  <2> HIDE DEF a
  <2>4. QED
    BY <1>4, <2>1, <2>2, <2>3 DEF ClauseAgrees
<1>7. CASE caret.on
  <2>1. a \in 1 .. Len(tokens) /\ a \in 0 .. Len(tokens) /\ a - 1 \in 0 .. Len(tokens) /\ a - 1 + 1 = a
    BY <1>1, <1>2, <1>3, <1>7
  <2>2. caret = [at |-> a, on |-> TRUE]
    BY <1>3, <1>7
  <2>3. Outer(tokens, caret)[DepthAt(tokens, caret)] =
          IF IsIdent(tokens, a) THEN Outer(tokens, Gap(a - 1))[DepthAt(tokens, Gap(a - 1))]
          ELSE Outer(tokens, Gap(a))[DepthAt(tokens, Gap(a))]
    <3> HIDE DEF a
    <3>1. QED
      BY <1>1, <2>1, <2>2, OnAToken
  <2>4. CASE IsIdent(tokens, a)
    <3>1. Truth = gaps[a]
      BY <1>7, <2>4 DEF Truth
    <3>2. Outer(tokens, Gap(a - 1))[DepthAt(tokens, Gap(a - 1))] = gaps[a - 1 + 1].clause
      BY <1>5, <2>1
    <3> HIDE DEF a
    <3>3. QED
      BY <1>4, <2>1, <2>3, <2>4, <3>1, <3>2 DEF ClauseAgrees
  <2>5. CASE ~IsIdent(tokens, a)
    <3>1. Truth = gaps[a + 1]
      BY <2>5 DEF Truth
    <3>2. Outer(tokens, Gap(a))[DepthAt(tokens, Gap(a))] = gaps[a + 1].clause
      BY <1>5, <2>1
    <3> HIDE DEF a
    <3>3. QED
      BY <1>4, <2>3, <2>5, <3>1, <3>2 DEF ClauseAgrees
  <2>6. QED
    BY <2>4, <2>5
<1>8. QED
  BY <1>3, <1>6, <1>7

(* Every state the author reaches is well typed: the levels see only levels    *)
(* there are, the open groups stand on them, the caret is in the text.         *)
THEOREM TypesHold == Spec => []TypeOK
<1>1. Init => Right
  BY InitRight
<1>2. Right /\ [Next]_vars => Right'
  BY NextRight
<1>3. Right => TypeOK
  BY DEF Right
<1>4. QED
  BY <1>1, <1>2, <1>3, PTL DEF Spec

(* The clause the engine finds at a caret, wherever the author has gone back   *)
(* to, is the one the author wrote it in.                                      *)
THEOREM ClauseAlwaysAgrees == Spec => []ClauseAgrees
<1>1. Init => Right
  BY InitRight
<1>2. Right /\ [Next]_vars => Right'
  BY NextRight
<1>3. Right => ClauseAgrees
  BY RightAgrees
<1>4. QED
  BY <1>1, <1>2, <1>3, PTL DEF Spec
=============================================================================
