---------------------------- MODULE SessionProofs ----------------------------
(***************************************************************************)
(* The safety properties of Session, for any number of carets and any set  *)
(* of profiles.  None but TypeOK is inductive: that a database is tried    *)
(* once rests on where the one caret inside the lock is, and that the      *)
(* client is told rests on every way by which a session ends up without a  *)
(* catalog.  IInv below says both, and is inductive.                       *)
(***************************************************************************)
EXTENDS Session, TLAPS

(* A connection or a raised caret accounts for the one attempt; a session  *)
(* that degraded needs neither.                                            *)
AttemptsAccounted ==
  /\ attempts \in {0, 1}
  /\ held => attempts = 1
  /\ attempts = 1 => held \/ announced \/ \E c \in Carets : at[c] = "raised"

(* What the three flags of the session say of each other. *)
FlagsAgree ==
  /\ notices = IF announced THEN 1 ELSE 0
  /\ announced => tried /\ ~catalog /\ profile = "driven"
  /\ catalog => tried /\ profile = "driven"
  /\ tried => profile \in {"undriven", "driven"}
  /\ tried /\ ~catalog /\ profile = "driven" => announced

(* What the place of a caret says of the session. *)
PlacesAgree ==
  \A c \in Carets :
    /\ at[c] # "idle" => profile # "unset"
    /\ at[c] \in {"reading", "raised"} => catalog
    /\ at[c] \in {"empty", "bare"} /\ profile = "driven" => announced
    /\ answer[c] = "statement" => at[c] = "answered" /\ (profile = "driven" => announced)

IInv ==
  /\ TypeOK
  /\ OneCaretInside
  /\ AttemptsAccounted
  /\ FlagsAgree
  /\ PlacesAgree

-----------------------------------------------------------------------------

LEMMA InitIInv == Init => IInv
<1> SUFFICES ASSUME Init PROVE IInv
  OBVIOUS
<1>1. TypeOK
  BY DEF Init, TypeOK, Places
<1>2. OneCaretInside
  BY NoOneAssumption DEF Init, OneCaretInside, Inside
<1>3. AttemptsAccounted
  BY DEF Init, AttemptsAccounted
<1>4. FlagsAgree
  BY DEF Init, FlagsAgree
<1>5. PlacesAgree
  BY DEF Init, PlacesAgree
<1> QED
  BY <1>1, <1>2, <1>3, <1>4, <1>5 DEF IInv

LEMMA NextIInv == IInv /\ [Next]_vars => IInv'
<1> SUFFICES ASSUME IInv, [Next]_vars PROVE IInv'
  OBVIOUS
<1>1. ASSUME NEW p \in Profiles, Initialize(p) PROVE IInv'
  <2>1. TypeOK'
    BY <1>1 DEF Initialize, IInv, TypeOK, Places
  <2>2. OneCaretInside'
    BY <1>1, NoOneAssumption DEF Initialize, IInv, OneCaretInside, TypeOK, Places,
      Inside
  <2>3. AttemptsAccounted'
    BY <1>1, NoOneAssumption DEF Initialize, IInv, AttemptsAccounted, TypeOK,
      OneCaretInside, FlagsAgree, PlacesAgree, Places, Inside
  <2>4. FlagsAgree'
    BY <1>1, ProfilesAssumption DEF Initialize, IInv, FlagsAgree, TypeOK, PlacesAgree,
      AllProfiles
  <2>5. PlacesAgree'
    BY <1>1, ProfilesAssumption, NoOneAssumption DEF Initialize, IInv, PlacesAgree,
      TypeOK, OneCaretInside, FlagsAgree, Places, Inside, AllProfiles
  <2>6. QED
    BY <2>1, <2>2, <2>3, <2>4, <2>5 DEF IInv
<1>2. ASSUME NEW c \in Carets, Complete(c) PROVE IInv'
  <2>1. TypeOK'
    BY <1>2 DEF Complete, Move, session, IInv, TypeOK, Places
  <2>2. OneCaretInside'
    BY <1>2, NoOneAssumption DEF Complete, Move, session, IInv, OneCaretInside, TypeOK,
      Places, Inside
  <2>3. AttemptsAccounted'
    BY <1>2, NoOneAssumption DEF Complete, Move, session, IInv, AttemptsAccounted,
      TypeOK, OneCaretInside, FlagsAgree, PlacesAgree, Places, Inside
  <2>4. FlagsAgree'
    BY <1>2, ProfilesAssumption DEF Complete, Move, session, IInv, FlagsAgree, TypeOK,
      PlacesAgree, AllProfiles
  <2>5. PlacesAgree'
    BY <1>2, ProfilesAssumption, NoOneAssumption DEF Complete, Move, session, IInv,
      PlacesAgree, TypeOK, OneCaretInside, FlagsAgree, Places, Inside, AllProfiles
  <2>6. QED
    BY <2>1, <2>2, <2>3, <2>4, <2>5 DEF IInv
<1>3. ASSUME NEW c \in Carets, NoDocument(c) PROVE IInv'
  <2>1. TypeOK'
    BY <1>3 DEF NoDocument, Move, session, IInv, TypeOK, Places
  <2>2. OneCaretInside'
    BY <1>3, NoOneAssumption DEF NoDocument, Move, session, IInv, OneCaretInside,
      TypeOK, Places, Inside
  <2>3. AttemptsAccounted'
    BY <1>3, NoOneAssumption DEF NoDocument, Move, session, IInv, AttemptsAccounted,
      TypeOK, OneCaretInside, FlagsAgree, PlacesAgree, Places, Inside
  <2>4. FlagsAgree'
    BY <1>3, ProfilesAssumption DEF NoDocument, Move, session, IInv, FlagsAgree, TypeOK,
      PlacesAgree, AllProfiles
  <2>5. PlacesAgree'
    BY <1>3, ProfilesAssumption, NoOneAssumption DEF NoDocument, Move, session, IInv,
      PlacesAgree, TypeOK, OneCaretInside, FlagsAgree, Places, Inside, AllProfiles
  <2>6. QED
    BY <2>1, <2>2, <2>3, <2>4, <2>5 DEF IInv
<1>4. ASSUME NEW c \in Carets, Enter(c) PROVE IInv'
  <2>1. TypeOK'
    BY <1>4 DEF Enter, Move, Lockable, session, IInv, TypeOK, Places
  <2>2. OneCaretInside'
    BY <1>4, NoOneAssumption DEF Enter, Move, Lockable, session, IInv, OneCaretInside,
      TypeOK, Places, Inside
  <2>3. AttemptsAccounted'
    BY <1>4, NoOneAssumption DEF Enter, Move, Lockable, session, IInv,
      AttemptsAccounted, TypeOK, OneCaretInside, FlagsAgree, PlacesAgree, Places, Inside
  <2>4. FlagsAgree'
    BY <1>4, ProfilesAssumption DEF Enter, Move, Lockable, session, IInv, FlagsAgree,
      TypeOK, PlacesAgree, AllProfiles
  <2>5. PlacesAgree'
    BY <1>4, ProfilesAssumption, NoOneAssumption DEF Enter, Move, Lockable, session,
      IInv, PlacesAgree, TypeOK, OneCaretInside, FlagsAgree, Places, Inside, AllProfiles
  <2>6. QED
    BY <2>1, <2>2, <2>3, <2>4, <2>5 DEF IInv
<1>5. ASSUME NEW c \in Carets, FindCatalog(c) PROVE IInv'
  <2>1. TypeOK'
    BY <1>5 DEF FindCatalog, Move, Lockable, session, IInv, TypeOK, Places
  <2>2. OneCaretInside'
    BY <1>5, NoOneAssumption DEF FindCatalog, Move, Lockable, session, IInv,
      OneCaretInside, TypeOK, Places, Inside
  <2>3. AttemptsAccounted'
    BY <1>5, NoOneAssumption DEF FindCatalog, Move, Lockable, session, IInv,
      AttemptsAccounted, TypeOK, OneCaretInside, FlagsAgree, PlacesAgree, Places, Inside
  <2>4. FlagsAgree'
    BY <1>5, ProfilesAssumption DEF FindCatalog, Move, Lockable, session, IInv,
      FlagsAgree, TypeOK, PlacesAgree, AllProfiles
  <2>5. PlacesAgree'
    BY <1>5, ProfilesAssumption, NoOneAssumption DEF FindCatalog, Move, Lockable,
      session, IInv, PlacesAgree, TypeOK, OneCaretInside, FlagsAgree, Places, Inside,
      AllProfiles
  <2>6. QED
    BY <2>1, <2>2, <2>3, <2>4, <2>5 DEF IInv
<1>6. ASSUME NEW c \in Carets, BuildCatalog(c) PROVE IInv'
  <2>1. TypeOK'
    BY <1>6 DEF BuildCatalog, Move, Lockable, IInv, TypeOK, Places
  <2>2. OneCaretInside'
    BY <1>6, NoOneAssumption DEF BuildCatalog, Move, Lockable, IInv, OneCaretInside,
      TypeOK, Places, Inside
  <2>3. AttemptsAccounted'
    BY <1>6, NoOneAssumption DEF BuildCatalog, Move, Lockable, IInv, AttemptsAccounted,
      TypeOK, OneCaretInside, FlagsAgree, PlacesAgree, Places, Inside
  <2>4. FlagsAgree'
    BY <1>6, ProfilesAssumption DEF BuildCatalog, Move, Lockable, IInv, FlagsAgree,
      TypeOK, PlacesAgree, AllProfiles
  <2>5. PlacesAgree'
    BY <1>6, ProfilesAssumption, NoOneAssumption DEF BuildCatalog, Move, Lockable, IInv,
      PlacesAgree, TypeOK, OneCaretInside, FlagsAgree, Places, Inside, AllProfiles
  <2>6. QED
    BY <2>1, <2>2, <2>3, <2>4, <2>5 DEF IInv
<1>7. ASSUME NEW c \in Carets, BuildRaises(c) PROVE IInv'
  <2>1. TypeOK'
    <3>1. notices' \in Nat
      BY <1>7 DEF BuildRaises, Move, DegradeBy, Lockable, IInv, TypeOK
    <3>2. QED
      BY <1>7, <3>1 DEF BuildRaises, Move, DegradeBy, Lockable, IInv, TypeOK, Places
  <2>2. OneCaretInside'
    BY <1>7, NoOneAssumption DEF BuildRaises, Move, DegradeBy, Lockable, IInv,
      OneCaretInside, TypeOK, Places, Inside
  <2>3. AttemptsAccounted'
    BY <1>7, NoOneAssumption DEF BuildRaises, Move, DegradeBy, Lockable, IInv,
      AttemptsAccounted, TypeOK, OneCaretInside, FlagsAgree, PlacesAgree, Places, Inside
  <2>4. FlagsAgree'
    BY <1>7, ProfilesAssumption DEF BuildRaises, Move, DegradeBy, Lockable, IInv,
      FlagsAgree, TypeOK, PlacesAgree, AllProfiles
  <2>5. PlacesAgree'
    BY <1>7, ProfilesAssumption, NoOneAssumption DEF BuildRaises, Move, DegradeBy,
      Lockable, IInv, PlacesAgree, TypeOK, OneCaretInside, FlagsAgree, Places, Inside,
      AllProfiles
  <2>6. QED
    BY <2>1, <2>2, <2>3, <2>4, <2>5 DEF IInv
<1>8. ASSUME NEW c \in Carets, Connect(c) PROVE IInv'
  <2>1. TypeOK'
    <3>1. attempts' \in Nat
      BY <1>8 DEF Connect, Move, IInv, TypeOK
    <3>2. QED
      BY <1>8, <3>1 DEF Connect, Move, IInv, TypeOK, Places
  <2>2. OneCaretInside'
    BY <1>8, NoOneAssumption DEF Connect, Move, IInv, OneCaretInside, TypeOK, Places,
      Inside
  <2>3. AttemptsAccounted'
    BY <1>8, NoOneAssumption DEF Connect, Move, IInv, AttemptsAccounted, TypeOK,
      OneCaretInside, FlagsAgree, PlacesAgree, Places, Inside
  <2>4. FlagsAgree'
    BY <1>8, ProfilesAssumption DEF Connect, Move, IInv, FlagsAgree, TypeOK,
      PlacesAgree, AllProfiles
  <2>5. PlacesAgree'
    BY <1>8, ProfilesAssumption, NoOneAssumption DEF Connect, Move, IInv, PlacesAgree,
      TypeOK, OneCaretInside, FlagsAgree, Places, Inside, AllProfiles
  <2>6. QED
    BY <2>1, <2>2, <2>3, <2>4, <2>5 DEF IInv
<1>9. ASSUME NEW c \in Carets, QueryRaises(c) PROVE IInv'
  <2>1. TypeOK'
    BY <1>9 DEF QueryRaises, Move, session, IInv, TypeOK, Places
  <2>2. OneCaretInside'
    BY <1>9, NoOneAssumption DEF QueryRaises, Move, session, IInv, OneCaretInside,
      TypeOK, Places, Inside
  <2>3. AttemptsAccounted'
    BY <1>9, NoOneAssumption DEF QueryRaises, Move, session, IInv, AttemptsAccounted,
      TypeOK, OneCaretInside, FlagsAgree, PlacesAgree, Places, Inside
  <2>4. FlagsAgree'
    BY <1>9, ProfilesAssumption DEF QueryRaises, Move, session, IInv, FlagsAgree,
      TypeOK, PlacesAgree, AllProfiles
  <2>5. PlacesAgree'
    BY <1>9, ProfilesAssumption, NoOneAssumption DEF QueryRaises, Move, session, IInv,
      PlacesAgree, TypeOK, OneCaretInside, FlagsAgree, Places, Inside, AllProfiles
  <2>6. QED
    BY <2>1, <2>2, <2>3, <2>4, <2>5 DEF IInv
<1>10. ASSUME NEW c \in Carets, Suggest(c) PROVE IInv'
  <2>1. TypeOK'
    BY <1>10 DEF Suggest, Move, session, IInv, TypeOK, Places
  <2>2. OneCaretInside'
    BY <1>10, NoOneAssumption DEF Suggest, Move, session, IInv, OneCaretInside, TypeOK,
      Places, Inside
  <2>3. AttemptsAccounted'
    BY <1>10, NoOneAssumption DEF Suggest, Move, session, IInv, AttemptsAccounted,
      TypeOK, OneCaretInside, FlagsAgree, PlacesAgree, Places, Inside
  <2>4. FlagsAgree'
    BY <1>10, ProfilesAssumption DEF Suggest, Move, session, IInv, FlagsAgree, TypeOK,
      PlacesAgree, AllProfiles
  <2>5. PlacesAgree'
    BY <1>10, ProfilesAssumption, NoOneAssumption DEF Suggest, Move, session, IInv,
      PlacesAgree, TypeOK, OneCaretInside, FlagsAgree, Places, Inside, AllProfiles
  <2>6. QED
    BY <2>1, <2>2, <2>3, <2>4, <2>5 DEF IInv
<1>11. ASSUME NEW c \in Carets, Degrade(c) PROVE IInv'
  <2>1. TypeOK'
    <3>1. notices' \in Nat
      BY <1>11 DEF Degrade, Move, DegradeBy, Lockable, IInv, TypeOK
    <3>2. QED
      BY <1>11, <3>1 DEF Degrade, Move, DegradeBy, Lockable, IInv, TypeOK, Places
  <2>2. OneCaretInside'
    BY <1>11, NoOneAssumption DEF Degrade, Move, DegradeBy, Lockable, IInv,
      OneCaretInside, TypeOK, Places, Inside
  <2>3. AttemptsAccounted'
    BY <1>11, NoOneAssumption DEF Degrade, Move, DegradeBy, Lockable, IInv,
      AttemptsAccounted, TypeOK, OneCaretInside, FlagsAgree, PlacesAgree, Places, Inside
  <2>4. FlagsAgree'
    BY <1>11, ProfilesAssumption DEF Degrade, Move, DegradeBy, Lockable, IInv,
      FlagsAgree, TypeOK, PlacesAgree, AllProfiles
  <2>5. PlacesAgree'
    BY <1>11, ProfilesAssumption, NoOneAssumption DEF Degrade, Move, DegradeBy,
      Lockable, IInv, PlacesAgree, TypeOK, OneCaretInside, FlagsAgree, Places, Inside,
      AllProfiles
  <2>6. QED
    BY <2>1, <2>2, <2>3, <2>4, <2>5 DEF IInv
<1>12. ASSUME NEW c \in Carets, LeaveFull(c) PROVE IInv'
  <2>1. TypeOK'
    BY <1>12 DEF LeaveFull, Move, session, IInv, TypeOK, Places
  <2>2. OneCaretInside'
    BY <1>12, NoOneAssumption DEF LeaveFull, Move, session, IInv, OneCaretInside,
      TypeOK, Places, Inside
  <2>3. AttemptsAccounted'
    BY <1>12, NoOneAssumption DEF LeaveFull, Move, session, IInv, AttemptsAccounted,
      TypeOK, OneCaretInside, FlagsAgree, PlacesAgree, Places, Inside
  <2>4. FlagsAgree'
    BY <1>12, ProfilesAssumption DEF LeaveFull, Move, session, IInv, FlagsAgree, TypeOK,
      PlacesAgree, AllProfiles
  <2>5. PlacesAgree'
    BY <1>12, ProfilesAssumption, NoOneAssumption DEF LeaveFull, Move, session, IInv,
      PlacesAgree, TypeOK, OneCaretInside, FlagsAgree, Places, Inside, AllProfiles
  <2>6. QED
    BY <2>1, <2>2, <2>3, <2>4, <2>5 DEF IInv
<1>13. ASSUME NEW c \in Carets, LeaveEmpty(c) PROVE IInv'
  <2>1. TypeOK'
    BY <1>13 DEF LeaveEmpty, Move, session, IInv, TypeOK, Places
  <2>2. OneCaretInside'
    BY <1>13, NoOneAssumption DEF LeaveEmpty, Move, session, IInv, OneCaretInside,
      TypeOK, Places, Inside
  <2>3. AttemptsAccounted'
    BY <1>13, NoOneAssumption DEF LeaveEmpty, Move, session, IInv, AttemptsAccounted,
      TypeOK, OneCaretInside, FlagsAgree, PlacesAgree, Places, Inside
  <2>4. FlagsAgree'
    BY <1>13, ProfilesAssumption DEF LeaveEmpty, Move, session, IInv, FlagsAgree,
      TypeOK, PlacesAgree, AllProfiles
  <2>5. PlacesAgree'
    BY <1>13, ProfilesAssumption, NoOneAssumption DEF LeaveEmpty, Move, session, IInv,
      PlacesAgree, TypeOK, OneCaretInside, FlagsAgree, Places, Inside, AllProfiles
  <2>6. QED
    BY <2>1, <2>2, <2>3, <2>4, <2>5 DEF IInv
<1>14. ASSUME NEW c \in Carets, AnswerBare(c) PROVE IInv'
  <2>1. TypeOK'
    BY <1>14 DEF AnswerBare, Move, session, IInv, TypeOK, Places
  <2>2. OneCaretInside'
    BY <1>14, NoOneAssumption DEF AnswerBare, Move, session, IInv, OneCaretInside,
      TypeOK, Places, Inside
  <2>3. AttemptsAccounted'
    BY <1>14, NoOneAssumption DEF AnswerBare, Move, session, IInv, AttemptsAccounted,
      TypeOK, OneCaretInside, FlagsAgree, PlacesAgree, Places, Inside
  <2>4. FlagsAgree'
    BY <1>14, ProfilesAssumption DEF AnswerBare, Move, session, IInv, FlagsAgree,
      TypeOK, PlacesAgree, AllProfiles
  <2>5. PlacesAgree'
    BY <1>14, ProfilesAssumption, NoOneAssumption DEF AnswerBare, Move, session, IInv,
      PlacesAgree, TypeOK, OneCaretInside, FlagsAgree, Places, Inside, AllProfiles
  <2>6. QED
    BY <2>1, <2>2, <2>3, <2>4, <2>5 DEF IInv
<1>15. CASE UNCHANGED vars
  <2>1. TypeOK'
    BY <1>15 DEF vars, IInv, TypeOK, Places
  <2>2. OneCaretInside'
    BY <1>15, NoOneAssumption DEF vars, IInv, OneCaretInside, TypeOK, Places, Inside
  <2>3. AttemptsAccounted'
    BY <1>15, NoOneAssumption DEF vars, IInv, AttemptsAccounted, TypeOK, OneCaretInside,
      FlagsAgree, PlacesAgree, Places, Inside
  <2>4. FlagsAgree'
    BY <1>15, ProfilesAssumption DEF vars, IInv, FlagsAgree, TypeOK, PlacesAgree,
      AllProfiles
  <2>5. PlacesAgree'
    BY <1>15, ProfilesAssumption, NoOneAssumption DEF vars, IInv, PlacesAgree, TypeOK,
      OneCaretInside, FlagsAgree, Places, Inside, AllProfiles
  <2>6. QED
    BY <2>1, <2>2, <2>3, <2>4, <2>5 DEF IInv
<1>16. QED
  BY <1>1, <1>2, <1>3, <1>4, <1>5, <1>6, <1>7, <1>8,
     <1>9, <1>10, <1>11, <1>12, <1>13, <1>14, <1>15 DEF Next, Handle

LEMMA Invariance == Spec => []IInv
  BY InitIInv, NextIInv, PTL DEF Spec

-----------------------------------------------------------------------------

(* Every variable stays in its set. *)
THEOREM TypeCorrect == Spec => []TypeOK
<1>1. IInv => TypeOK
  BY DEF IInv
<1>2. QED
  BY Invariance, <1>1, PTL

(* "One caret at a time reaches the database", with any number of them in  *)
(* the pool.                                                               *)
THEOREM MutualExclusion == Spec => []OneCaretInside
<1>1. IInv => OneCaretInside
  BY DEF IInv
<1>2. QED
  BY Invariance, <1>1, PTL

(* One blocking connection attempt in the life of a process, however many  *)
(* completions are asked of it.                                            *)
THEOREM OneAttempt == Spec => []OneConnectionAttempt
<1>1. IInv => OneConnectionAttempt
  BY DEF IInv, AttemptsAccounted, OneConnectionAttempt
<1>2. QED
  BY Invariance, <1>1, PTL

(* No completion of a session with a driver is answered from its statement *)
(* alone before the client was told, and the client is told once.          *)
THEOREM Announced == Spec => []DegradationIsAnnounced
<1>1. IInv => DegradationIsAnnounced
  BY DEF IInv, FlagsAgree, PlacesAgree, DegradationIsAnnounced
<1>2. QED
  BY Invariance, <1>1, PTL

(* Nobody reads, nor is about to degrade again, in a degraded session.     *)
THEOREM DegradedForGood == Spec => []NoReadAfterDegrade
<1>1. IInv => NoReadAfterDegrade
  BY DEF IInv, FlagsAgree, PlacesAgree, NoReadAfterDegrade
<1>2. QED
  BY Invariance, <1>1, PTL
=============================================================================
