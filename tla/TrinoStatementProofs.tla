------------------------- MODULE TrinoStatementProofs -------------------------
(***************************************************************************)
(* A statement gives every row or none, and ends in time, for every number *)
(* of pages and every timing.                                              *)
(***************************************************************************)
EXTENDS TrinoStatement, TLAPS

(* The pages received are those before the next one.  Neither half of        *)
(* WholeOrNothing is kept by a step without it.                              *)
InOrder ==
  /\ Len(rows) = next - 1
  /\ \A i \in 1 .. Len(rows) : rows[i] = i

(* What fetchall gives at each place of `run`. *)
HeldAtTheEnd ==
  IF at = "returned" THEN held = rows /\ next = Pages + 1 ELSE held = <<>>

(* A request is sent with a limit that the deadline leaves it; a pause       *)
(* begins after such a request.                                              *)
OnTime ==
  /\ InTime
  /\ at = "waiting" =>
       /\ clock - spent + limit <= Deadline
       /\ spent <= limit + Dribble
  /\ at = "sleeping" =>
       /\ clock - spent <= Deadline + Dribble
       /\ spent <= Pause

IInv == TypeOK /\ InOrder /\ HeldAtTheEnd /\ OnTime

LEMMA InitIInv == Init => IInv
BY ConstantsAssumption DEF Init, IInv, TypeOK, Ended, InOrder, HeldAtTheEnd, OnTime, InTime

LEMMA StepIInv == IInv /\ [Next]_vars => IInv'
<1> SUFFICES ASSUME IInv, [Next]_vars
             PROVE  IInv'
  OBVIOUS
<1> USE ConstantsAssumption
<1>1. CASE Send
  <2>1. (TypeOK /\ OnTime)'
    BY <1>1 DEF IInv, Send, TypeOK, Ended, OnTime, InTime, Allowed, Least, Remaining
  <2>2. (InOrder /\ HeldAtTheEnd)'
    BY <1>1 DEF IInv, Send, InOrder, HeldAtTheEnd
  <2> QED BY <2>1, <2>2 DEF IInv
<1>2. CASE GiveUp
  BY <1>2 DEF IInv, GiveUp, TypeOK, Ended, InOrder, HeldAtTheEnd, OnTime, InTime
<1>3. CASE Tick
  <2>1. (TypeOK /\ OnTime)'
    BY <1>3 DEF IInv, Tick, TypeOK, Ended, OnTime, InTime
  <2>2. (InOrder /\ HeldAtTheEnd)'
    BY <1>3 DEF IInv, Tick, InOrder, HeldAtTheEnd
  <2> QED BY <2>1, <2>2 DEF IInv
<1>4. CASE Fail
  BY <1>4 DEF IInv, Fail, Answered, TypeOK, Ended, InOrder, HeldAtTheEnd, OnTime, InTime
<1>5. CASE Busy
  <2>1. (TypeOK /\ OnTime)'
    BY <1>5 DEF IInv, Busy, Answered, TypeOK, Ended, OnTime, InTime
  <2>2. (InOrder /\ HeldAtTheEnd)'
    BY <1>5 DEF IInv, Busy, Answered, InOrder, HeldAtTheEnd
  <2> QED BY <2>1, <2>2 DEF IInv
<1>6. CASE Wake
  BY <1>6 DEF IInv, Wake, TypeOK, Ended, InOrder, HeldAtTheEnd, OnTime, InTime
<1>7. ASSUME NEW data \in BOOLEAN, NEW more \in BOOLEAN, Receive(data, more)
      PROVE  IInv'
  <2>1. CASE data
    <3>1. next \in 1 .. Pages /\ next' = next + 1 /\ rows' = Append(rows, next)
      BY <1>7, <2>1 DEF Receive, IInv, TypeOK
    <3>2. rows' \in Seq(1 .. Pages) /\ InOrder'
      BY <3>1 DEF IInv, TypeOK, InOrder
    <3>3. /\ more => at' = "fetching" /\ held' = held
          /\ ~more => at' = "returned" /\ held' = rows' /\ next' = Pages + 1
      BY <1>7, <2>1 DEF Receive, IsLast
    <3>4. HeldAtTheEnd' /\ held' \in Seq(1 .. Pages)
      BY <1>7, <3>2, <3>3 DEF IInv, TypeOK, HeldAtTheEnd, Receive, Answered
    <3>5. (TypeOK /\ OnTime)'
      BY <1>7, <3>1, <3>2, <3>3, <3>4
      DEF IInv, TypeOK, Ended, OnTime, InTime, Receive, Answered
    <3> QED BY <3>2, <3>4, <3>5 DEF IInv
  <2>2. CASE ~data
    <3>1. next' = next /\ rows' = rows
      BY <1>7, <2>2 DEF Receive
    <3>2. /\ more => at' = "fetching" /\ held' = held
          /\ ~more => at' = "returned" /\ held' = rows' /\ next' = Pages + 1
      BY <1>7, <2>2 DEF Receive, IsLast
    <3>3. (TypeOK /\ InOrder /\ HeldAtTheEnd)'
      BY <1>7, <3>1, <3>2
      DEF IInv, TypeOK, Ended, InOrder, HeldAtTheEnd, Receive, Answered
    <3>4. OnTime'
      BY <1>7, <3>2 DEF IInv, TypeOK, OnTime, InTime, Receive, Answered
    <3> QED BY <3>3, <3>4 DEF IInv
  <2> QED BY <2>1, <2>2
<1>8. CASE UNCHANGED vars
  BY <1>8 DEF IInv, vars, TypeOK, InOrder, HeldAtTheEnd, OnTime, InTime
<1> QED BY <1>1, <1>2, <1>3, <1>4, <1>5, <1>6, <1>7, <1>8 DEF Next

LEMMA IInvHolds == Spec => []IInv
BY InitIInv, StepIInv, PTL DEF Spec

(* The statement keeps within the types its variables are declared with. *)
THEOREM TypeCorrect == Spec => []TypeOK
<1>1. IInv => TypeOK
  BY DEF IInv
<1> QED BY <1>1, IInvHolds, PTL

(* run and Cursor.execute: every row of the statement, in order and none     *)
(* twice, or none at all, whatever fails, repeats or comes empty on the way. *)
THEOREM RowsWholeOrNothing == Spec => []WholeOrNothing
<1>1. IInv => WholeOrNothing
  <2> SUFFICES ASSUME IInv
               PROVE  WholeOrNothing
    OBVIOUS
  <2>1. CASE at = "returned"
    <3>1. held = rows /\ rows \in Seq(1 .. Pages) /\ Len(rows) = Pages
      BY <2>1, ConstantsAssumption DEF IInv, TypeOK, InOrder, HeldAtTheEnd
    <3>2. \A i \in 1 .. Pages : rows[i] = i
      BY <3>1 DEF IInv, InOrder
    <3> QED BY <2>1, <3>1, <3>2, ConstantsAssumption DEF WholeOrNothing
  <2>2. CASE at # "returned"
    BY <2>2 DEF IInv, HeldAtTheEnd, WholeOrNothing
  <2> QED BY <2>1, <2>2
<1> QED BY <1>1, IInvHolds, PTL

(* _fetch: no statement outlives its deadline by more than the dribble of    *)
(* one answer and one pause.                                                 *)
THEOREM EndsInTime == Spec => []InTime
<1>1. IInv => InTime
  BY DEF IInv, OnTime
<1> QED BY <1>1, IInvHolds, PTL
=============================================================================
