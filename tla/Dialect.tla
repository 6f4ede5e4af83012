------------------------------ MODULE Dialect ------------------------------
(* The clause vocabulary of a dialect and the questions the engine asks of it  *)
(* (dialects/base.py), with the ANSI baseline as its data (dialects/ansi.py).  *)
(* A phrase is the sequence of its words, in upper case, so that a clause of   *)
(* two words and the prefix of one are told apart by their lengths.            *)
EXTENDS Integers, Sequences, FiniteSets, SequencesExt, TLC

P(word) == <<word>>

FROM == P("FROM")           WHERE == P("WHERE")         HAVING == P("HAVING")
WINDOW == P("WINDOW")       UNION_ == P("UNION")        INTERSECT == P("INTERSECT")
EXCEPT_ == P("EXCEPT")      LIMIT == P("LIMIT")         OFFSET == P("OFFSET")
FETCH == P("FETCH")         AS == P("AS")               SELECT == P("SELECT")
WITH_ == P("WITH")          JOIN == P("JOIN")           ON == P("ON")
USING == P("USING")         SET == P("SET")             VALUES == P("VALUES")
UPDATE == P("UPDATE")       TABLE == P("TABLE")         TRUNCATE == P("TRUNCATE")
CALL == P("CALL")           EXPLAIN == P("EXPLAIN")
GROUP_BY == <<"GROUP", "BY">>          ORDER_BY == <<"ORDER", "BY">>
PARTITION_BY == <<"PARTITION", "BY">>  DELETE_FROM == <<"DELETE", "FROM">>
INSERT_INTO == <<"INSERT", "INTO">>    DROP_TABLE == <<"DROP", "TABLE">>
DROP_VIEW == <<"DROP", "VIEW">>        ALTER_TABLE == <<"ALTER", "TABLE">>
CREATE_TABLE == <<"CREATE", "TABLE">>  TRUNCATE_TABLE == <<"TRUNCATE", "TABLE">>

-----------------------------------------------------------------------------
(* One clause: what it implies wherever it governs the caret. *)

NoFields == [follows |-> {}, statements |-> {}, repeats |-> FALSE, suggests |-> <<>>,
             followedBy |-> <<>>, beforeTheItem |-> <<>>, opensAnItem |-> FALSE,
             opensAGroup |-> <<>>, definesColumns |-> <<>>, aliasesWith |-> <<>>,
             operators |-> {}, afterOperand |-> <<>>, relationKinds |-> {}]

Clause(name, fields) ==
  [f \in {"name"} \union DOMAIN NoFields |->
     IF f = "name" THEN name ELSE IF f \in DOMAIN fields THEN fields[f] ELSE NoFields[f]]

ColumnExpression == <<"COLUMN", "FUNCTION">>
RelationReference == <<"TABLE", "SCHEMA">>
Comparison == {"=", "<>", "<", "<=", ">", ">="}
ContinuesPredicate == << <<"IS", "NULL">>, <<"IS", "NOT", "NULL">>, P("IN"), <<"NOT", "IN">>,
                         P("LIKE"), <<"NOT", "LIKE">>, P("ILIKE"), P("BETWEEN") >>
Order == << FROM, WHERE, GROUP_BY, HAVING, WINDOW, UNION_, INTERSECT, EXCEPT_,
            ORDER_BY, LIMIT, OFFSET, FETCH >>
Joins == << JOIN, <<"LEFT", "JOIN">>, <<"RIGHT", "JOIN">>, <<"INNER", "JOIN">>,
            <<"FULL", "JOIN">>, <<"CROSS", "JOIN">> >>
Explainable == << SELECT, WITH_, INSERT_INTO, UPDATE, DELETE_FROM >>
OrderFrom(order, name) == SubSeq(order, CHOOSE i \in DOMAIN order : order[i] = name, Len(order))
Onwards(name) == OrderFrom(Order, name)
AfterRelation == <<AS>> \o Joins \o Onwards(WHERE)
Query == {SELECT, TABLE}
AndOr == << P("AND"), P("OR") >>
ColumnConstraints == << <<"NOT", "NULL">>, P("NULL"), P("DEFAULT"), <<"PRIMARY", "KEY">> >>
CascadeRestrict == << P("CASCADE"), P("RESTRICT") >>

QueryClauses == <<
  Clause(WITH_, [opensAGroup |-> <<SELECT, VALUES, WITH_>>, followedBy |-> <<AS, SELECT>>,
                 aliasesWith |-> AS, beforeTheItem |-> <<P("RECURSIVE")>>]),
  Clause(SELECT, [suggests |-> ColumnExpression, followedBy |-> <<AS>> \o Onwards(FROM),
                  beforeTheItem |-> <<P("DISTINCT")>>, aliasesWith |-> AS]),
  Clause(FROM, [follows |-> {SELECT}, suggests |-> RelationReference,
                followedBy |-> AfterRelation, aliasesWith |-> AS]) >>
ManipulationClauses == <<
  Clause(DELETE_FROM, [suggests |-> RelationReference, followedBy |-> <<WHERE, USING>>]),
  Clause(INSERT_INTO, [suggests |-> RelationReference, followedBy |-> <<VALUES, SELECT>>]),
  Clause(UPDATE, [suggests |-> RelationReference, followedBy |-> <<SET>>]) >>
JoinClauses == <<
  Clause(JOIN, [follows |-> {FROM, JOIN}, repeats |-> TRUE, suggests |-> RelationReference,
                followedBy |-> <<AS, ON, USING>>, aliasesWith |-> AS]),
  Clause(ON, [follows |-> {JOIN}, repeats |-> TRUE, suggests |-> ColumnExpression,
              operators |-> Comparison, afterOperand |-> ContinuesPredicate,
              followedBy |-> AndOr \o Joins \o Onwards(WHERE)]),
  Clause(USING, [follows |-> {JOIN}, repeats |-> TRUE, suggests |-> <<"COLUMN">>,
                 followedBy |-> Joins \o Onwards(WHERE)]) >>
FilterClauses == <<
  Clause(WHERE, [suggests |-> ColumnExpression, operators |-> Comparison,
                 afterOperand |-> ContinuesPredicate,
                 followedBy |-> AndOr \o Onwards(GROUP_BY)]),
  Clause(GROUP_BY, [follows |-> {FROM, WHERE}, statements |-> Query,
                    suggests |-> ColumnExpression, followedBy |-> Onwards(HAVING)]),
  Clause(HAVING, [follows |-> {GROUP_BY}, statements |-> Query, suggests |-> ColumnExpression,
                  operators |-> Comparison, afterOperand |-> ContinuesPredicate,
                  followedBy |-> AndOr \o Onwards(WINDOW)]) >>
ShapeClauses == <<
  Clause(WINDOW, [statements |-> Query, aliasesWith |-> AS,
                  opensAGroup |-> <<PARTITION_BY, ORDER_BY>>,
                  followedBy |-> <<AS>> \o Onwards(UNION_)]),
  Clause(ORDER_BY, [statements |-> Query, suggests |-> ColumnExpression,
                    followedBy |-> <<P("ASC"), P("DESC"), <<"NULLS", "FIRST">>, <<"NULLS", "LAST">>>>
                                   \o Onwards(LIMIT)]),
  Clause(PARTITION_BY, [suggests |-> ColumnExpression,
                        followedBy |-> <<ORDER_BY, P("ROWS"), P("RANGE")>>]),
  Clause(LIMIT, [statements |-> Query, followedBy |-> Onwards(OFFSET)]),
  Clause(OFFSET, [statements |-> Query, followedBy |-> <<P("ROW"), P("ROWS")>> \o Onwards(FETCH)]),
  Clause(FETCH, [statements |-> Query, suggests |-> <<"KEYWORD">>,
                 followedBy |-> <<P("FIRST"), P("NEXT"), P("ROW"), P("ROWS"), P("ONLY"),
                                  <<"WITH", "TIES">>>>]) >>
AssignmentClauses == <<
  Clause(SET, [follows |-> {UPDATE}, statements |-> {UPDATE}, suggests |-> <<"COLUMN">>,
               followedBy |-> <<WHERE, FROM>>, operators |-> {"="}]),
  Clause(VALUES, [statements |-> {INSERT_INTO}, suggests |-> ColumnExpression]) >>
SetOperation(name) ==
  Clause(name, [statements |-> Query, suggests |-> <<"KEYWORD">>, followedBy |-> <<P("ALL"), SELECT>>])
SetClauses == << SetOperation(UNION_), SetOperation(INTERSECT), SetOperation(EXCEPT_),
                 Clause(EXPLAIN, [suggests |-> <<"SNIPPET", "KEYWORD">>, followedBy |-> Explainable]) >>
DefinitionClauses == <<
  Clause(DROP_TABLE, [suggests |-> RelationReference, followedBy |-> CascadeRestrict]),
  Clause(DROP_VIEW, [suggests |-> RelationReference, followedBy |-> CascadeRestrict,
                     relationKinds |-> {"view"}]),
  Clause(TRUNCATE, [suggests |-> RelationReference, followedBy |-> CascadeRestrict]),
  Clause(ALTER_TABLE, [suggests |-> RelationReference,
                       followedBy |-> << <<"ADD", "COLUMN">>, <<"RENAME", "TO">> >>]),
  Clause(CREATE_TABLE, [beforeTheItem |-> << <<"IF", "NOT", "EXISTS">> >>,
                        definesColumns |-> ColumnConstraints]) >>
LateClauses == <<
  Clause(TABLE, [suggests |-> RelationReference, followedBy |-> Onwards(UNION_)]),
  Clause(TRUNCATE_TABLE, [suggests |-> RelationReference, followedBy |-> CascadeRestrict]),
  Clause(CALL, [suggests |-> <<"PROCEDURE", "SCHEMA">>]) >>

AllClauses == QueryClauses \o ManipulationClauses \o JoinClauses \o FilterClauses \o ShapeClauses
              \o AssignmentClauses \o SetClauses \o DefinitionClauses \o LateClauses

StatementStart == Explainable \o << DROP_TABLE, DROP_VIEW, TRUNCATE, ALTER_TABLE, CALL,
                                    CREATE_TABLE, TABLE >>

ReservedUpper == {
  "ALL", "AND", "ANY", "ARRAY", "AS", "ASC", "BETWEEN", "BY", "CASE", "CAST", "CHECK", "COLUMN",
  "CONSTRAINT", "CREATE", "CROSS", "CURRENT_DATE", "CURRENT_TIME", "CURRENT_TIMESTAMP", "DEFAULT",
  "DESC", "DISTINCT", "DO", "ELSE", "END", "EXCEPT", "EXISTS", "FALSE", "FOR", "FOREIGN", "FROM", "FULL",
  "GRANT", "GROUP", "HAVING", "IN", "INNER", "INTERSECT", "INTO", "IS", "JOIN", "LEFT", "LIKE",
  "LIMIT", "NATURAL", "NOT", "NULL", "OFFSET", "ON", "ONLY", "OR", "ORDER", "OUTER", "PRIMARY",
  "RECURSIVE", "REFERENCES", "RIGHT", "SELECT", "SOME", "TABLE", "THEN", "TO", "TRUE", "UNION",
  "UNIQUE", "USER", "USING", "VALUES", "WHEN", "WHERE", "WINDOW", "WITH"}

EXCLUSIVE == <<
  << {P("ASC"), P("DESC"), USING}, {<<"NULLS", "FIRST">>, <<"NULLS", "LAST">>} >>,
  << {P("DISTINCT"), P("ALL")} >>,
  << {LIMIT, FETCH} >>,
  << {P("FIRST"), P("NEXT")}, {P("ROW"), P("ROWS")}, {P("ONLY"), <<"WITH", "TIES">>} >> >>

-----------------------------------------------------------------------------
(* Questions asked of the clause table. *)

NamesOf(clauses) == [i \in DOMAIN clauses |-> clauses[i].name]
Indexed(clauses) ==
  [name \in Range(NamesOf(clauses)) |-> clauses[CHOOSE i \in DOMAIN clauses : clauses[i].name = name]]
ByName == Indexed(AllClauses)
ClauseNames == DOMAIN ByName
IsClause(name) == name \in ClauseNames
LookedUp(table, name) == IF name \in DOMAIN table THEN table[name] ELSE Clause(name, <<>>)
Get(name) == LookedUp(ByName, name)

(* Whether a phrase can be written here; one that is no clause always can. *)
Fits(clause, statement, used) ==
  /\ clause.statements = {} \/ statement = <<>> \/ statement \in clause.statements
  /\ clause.repeats \/ clause.name \notin used
Admits(word, statement, used) == IsClause(word) => Fits(Get(word), statement, used)

(* What may be written once a clause has an item; which of it is most likely is left out. *)
ContinuationsOf(clause, statement, used) ==
  LET derived == {other.name : other \in {o \in Range(AllClauses) : clause.name \in o.follows}}
  IN  {word \in Range(clause.followedBy) \union derived : Admits(word, statement, used)}
Continuations(name, statement, used) ==
  IF IsClause(name) THEN ContinuationsOf(Get(name), statement, used) ELSE {}

PhrasesOf(clause) == {clause.name} \union Range(clause.followedBy)

(* Every word the table can put on screen is read back as a keyword. *)
Spoken ==
  UNION {Range(phrase) : phrase \in
    Range(StatementStart) \union
    UNION {PhrasesOf(c) \union Range(c.afterOperand) \union Range(c.opensAGroup)
           \union Range(c.definesColumns) \union Range(c.beforeTheItem) : c \in Range(AllClauses)}}
Keywords == ReservedUpper \union Spoken
=============================================================================
