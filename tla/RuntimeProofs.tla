----------------------------- MODULE RuntimeProofs -----------------------------
(***************************************************************************)
(* What holds of Runtime for any number of versions, faults and installs,  *)
(* of one window at a time and without downgrades.  Both conditions are    *)
(* needed: the runs of MCRuntimeDowngrade and MCRuntimeWindows show what   *)
(* happens without them.                                                   *)
(*                                                                         *)
(* A stamp says something of the tree only while it is the newest version  *)
(* there is: an upgrade removes the tree and leaves the older stamp, so    *)
(* the argument is that a stamp a window still has to replace is older     *)
(* than what the window wants.                                             *)
(***************************************************************************)
EXTENDS Runtime, TLAPS

OneWindow == \A v, w \in Windows : v = w

Working == {"removing", "extracting", "unpacking", "marking", "stamping"}

Runnable(v) == [version |-> v, extent |-> "runnable"]

StampOrder ==
  /\ stamp <= shipped
  /\ stamp = shipped => tree = Runnable(shipped)

Agrees(w) ==
  /\ wanted[w] <= shipped
  /\ at[w] # "closed" => stamp <= wanted[w]
  /\ at[w] # "closed" /\ stamp = wanted[w] => tree = Runnable(wanted[w])
  /\ at[w] \in Working => stamp < wanted[w]
  /\ at[w] = "unpacking" => tree.version = wanted[w]
  /\ at[w] = "marking" => tree = [version |-> wanted[w], extent |-> "unpacked"]
  /\ at[w] \in {"stamping", "ready"} => tree = Runnable(wanted[w])

WindowAgrees == \A w \in Windows : Agrees(w)

IInv == TypeOK /\ StampOrder /\ WindowAgrees

-----------------------------------------------------------------------------

LEMMA InitIInv == Init => IInv
<1> SUFFICES ASSUME Init PROVE IInv
  OBVIOUS
<1>1. TypeOK
  BY ConstantsAssumption DEF Init, TypeOK, Versions, Trees, Places
<1>2. StampOrder /\ WindowAgrees
  BY DEF Init, StampOrder, WindowAgrees, Agrees, NoStamp, Working
<1>3. QED
  BY <1>1, <1>2 DEF IInv

LEMMA NextIInv ==
  ASSUME OneWindow, Downgrades = FALSE, IInv, [Next]_vars
  PROVE  IInv'
<1>0. /\ TypeOK /\ StampOrder /\ WindowAgrees
      /\ shipped \in Nat \ {0} /\ stamp \in Nat /\ \A w \in Windows : wanted[w] \in Nat \ {0}
  BY ConstantsAssumption DEF IInv, TypeOK, Versions, NoStamp
<1>w. ASSUME NEW w \in Windows, TypeOK', StampOrder', Agrees(w)' PROVE IInv'
  BY <1>w DEF OneWindow, IInv, WindowAgrees
<1>1. ASSUME NEW v \in Versions, Install(v) PROVE IInv'
  <2>1. v \in Nat /\ v > shipped
    BY <1>0, <1>1, ConstantsAssumption DEF Install, Versions
  <2>2. TypeOK'
    BY <1>0, <1>1, ConstantsAssumption DEF Install, TypeOK
  <2>3. StampOrder' /\ WindowAgrees'
    BY <1>0, <1>1, <2>1 DEF Install, StampOrder, WindowAgrees, Agrees, Runnable
  <2>4. QED
    BY <2>2, <2>3 DEF IInv
<1>2. ASSUME NEW w \in Windows, Activate(w) PROVE IInv'
  <2>1. /\ at'[w] = "checking" /\ wanted'[w] = shipped /\ shipped' = shipped /\ stamp' = stamp /\ tree' = tree
    BY <1>0, <1>2 DEF Activate, Move, TypeOK, WindowAgrees
  <2>2. tree' \in Trees
    BY <1>0, <2>1 DEF TypeOK
  <2>3. TypeOK'
    BY <1>0, <1>2, <2>2, ConstantsAssumption DEF Activate, Move, NoFault, TypeOK, Places
  <2>4. StampOrder' /\ Agrees(w)'
    BY <1>0, <2>1 DEF StampOrder, WindowAgrees, Agrees, Working, Runnable
  <2>5. QED
    BY <1>w, <2>3, <2>4
<1>3. ASSUME NEW w \in Windows, Restart(w) PROVE IInv'
  <2>1. /\ at[w] # "closed" /\ at'[w] = "checking" /\ wanted'[w] = wanted[w] /\ shipped' = shipped /\ stamp' = stamp /\ tree' = tree
    BY <1>0, <1>3 DEF Restart, Move, TypeOK, WindowAgrees
  <2>2. tree' \in Trees
    BY <1>0, <2>1 DEF TypeOK
  <2>3. TypeOK'
    BY <1>0, <1>3, <2>2, ConstantsAssumption DEF Restart, Move, NoFault, TypeOK, Places
  <2>4. StampOrder' /\ Agrees(w)'
    BY <1>0, <2>1 DEF StampOrder, WindowAgrees, Agrees, Working, Runnable
  <2>5. QED
    BY <1>w, <2>3, <2>4
<1>4. ASSUME NEW w \in Windows, Check(w) PROVE IInv'
  <2>1. /\ at[w] # "closed" /\ wanted'[w] = wanted[w] /\ shipped' = shipped /\ stamp' = stamp /\ tree' = tree
        /\ at'[w] = IF stamp # wanted[w] THEN "removing" ELSE "ready"
    BY <1>0, <1>4 DEF Check, Move, NeedsInstall, TypeOK, WindowAgrees
  <2>2. tree' \in Trees
    BY <1>0, <2>1 DEF TypeOK
  <2>3. TypeOK'
    BY <1>0, <1>4, <2>2, ConstantsAssumption DEF Check, NeedsInstall, Move, NoFault, TypeOK, Places
  <2>4. StampOrder' /\ Agrees(w)'
    BY <1>0, <2>1 DEF StampOrder, WindowAgrees, Agrees, Working, Runnable
  <2>5. QED
    BY <1>w, <2>3, <2>4
<1>5. ASSUME NEW w \in Windows, Remove(w) PROVE IInv'
  <2>1. /\ at[w] = "removing" /\ at'[w] \in {"extracting", "dormant"} /\ wanted'[w] = wanted[w] /\ shipped' = shipped /\ stamp' = stamp
    BY <1>0, <1>5 DEF Remove, Move, TypeOK, WindowAgrees
  <2>2. tree' \in Trees
    BY <1>0, <1>5 DEF Remove, Broken, NoTree, Trees, TypeOK
  <2>3. TypeOK'
    BY <1>0, <1>5, <2>2, ConstantsAssumption DEF Remove, Move, NoFault, Fault, TypeOK, Places
  <2>4. StampOrder' /\ Agrees(w)'
    BY <1>0, <2>1 DEF StampOrder, WindowAgrees, Agrees, Working, Runnable
  <2>5. QED
    BY <1>w, <2>3, <2>4
<1>6. ASSUME NEW w \in Windows, BeginExtract(w) PROVE IInv'
  <2>1. /\ at[w] = "extracting" /\ at'[w] = "unpacking" /\ wanted'[w] = wanted[w] /\ shipped' = shipped /\ stamp' = stamp
        /\ tree' = [version |-> wanted[w], extent |-> "partial"]
    BY <1>0, <1>6 DEF BeginExtract, Move, TypeOK, WindowAgrees
  <2>2. tree' \in Trees
    BY <1>0, <2>1 DEF TypeOK, Trees
  <2>3. TypeOK'
    BY <1>0, <1>6, <2>2, ConstantsAssumption DEF BeginExtract, Move, NoFault, TypeOK, Places
  <2>4. StampOrder' /\ Agrees(w)'
    BY <1>0, <2>1 DEF StampOrder, WindowAgrees, Agrees, Working, Runnable
  <2>5. QED
    BY <1>w, <2>3, <2>4
<1>7. ASSUME NEW w \in Windows, EndExtract(w) PROVE IInv'
  <2>1. /\ at[w] = "unpacking" /\ wanted'[w] = wanted[w] /\ shipped' = shipped /\ stamp' = stamp
        /\ \/ at'[w] = "marking" /\ tree' = [version |-> wanted[w], extent |-> "unpacked"]
           \/ at'[w] = "dormant" /\ tree' = tree
    BY <1>0, <1>7 DEF EndExtract, Move, TypeOK, WindowAgrees
  <2>2. tree' \in Trees
    BY <1>0, <2>1 DEF TypeOK, Trees
  <2>3. TypeOK'
    BY <1>0, <1>7, <2>2, ConstantsAssumption DEF EndExtract, Move, NoFault, Fault, TypeOK, Places
  <2>4. StampOrder' /\ Agrees(w)'
    BY <1>0, <2>1 DEF StampOrder, WindowAgrees, Agrees, Working, Runnable
  <2>5. QED
    BY <1>w, <2>3, <2>4
<1>8. ASSUME NEW w \in Windows, MakeExecutable(w) PROVE IInv'
  <2>1. /\ at[w] = "marking" /\ wanted'[w] = wanted[w] /\ shipped' = shipped /\ stamp' = stamp
        /\ \/ at'[w] = "stamping" /\ tree' = Runnable(wanted[w])
           \/ at'[w] = "dormant" /\ tree' = tree
    BY <1>0, <1>8 DEF MakeExecutable, Move, Agrees, Runnable, TypeOK, WindowAgrees
  <2>2. tree' \in Trees
    BY <1>0, <2>1 DEF TypeOK, Trees, Runnable
  <2>3. TypeOK'
    BY <1>0, <1>8, <2>2, ConstantsAssumption DEF MakeExecutable, Move, NoFault, Fault, TypeOK, Places
  <2>4. StampOrder' /\ Agrees(w)'
    BY <1>0, <2>1 DEF StampOrder, WindowAgrees, Agrees, Working, Runnable
  <2>5. QED
    BY <1>w, <2>3, <2>4
<1>9. ASSUME NEW w \in Windows, WriteStamp(w) PROVE IInv'
  <2>1. /\ at[w] = "stamping" /\ wanted'[w] = wanted[w] /\ shipped' = shipped /\ tree' = tree
        /\ \/ at'[w] = "ready" /\ stamp' = wanted[w]
           \/ at'[w] = "dormant" /\ stamp' \in {stamp, 0}
    BY <1>0, <1>9 DEF WriteStamp, Move, NoStamp, TypeOK, WindowAgrees
  <2>2. tree' \in Trees
    BY <1>0, <2>1 DEF TypeOK
  <2>3. TypeOK'
    BY <1>0, <1>9, <2>2, ConstantsAssumption DEF WriteStamp, Move, NoFault, Fault, TypeOK, Places, NoStamp
  <2>4. StampOrder' /\ Agrees(w)'
    BY <1>0, <2>1 DEF StampOrder, WindowAgrees, Agrees, Working, Runnable
  <2>5. QED
    BY <1>w, <2>3, <2>4
<1>10. ASSUME NEW w \in Windows, Close(w) PROVE IInv'
  <2>1. /\ at[w] # "closed" /\ at'[w] = "closed" /\ wanted'[w] = wanted[w] /\ shipped' = shipped /\ stamp' = stamp /\ tree' = tree
    BY <1>0, <1>10 DEF Close, TypeOK, WindowAgrees
  <2>2. tree' \in Trees
    BY <1>0, <2>1 DEF TypeOK
  <2>3. TypeOK'
    BY <1>0, <1>10, <2>2, ConstantsAssumption DEF Close, NoFault, TypeOK, Places
  <2>4. StampOrder' /\ Agrees(w)'
    BY <1>0, <2>1 DEF StampOrder, WindowAgrees, Agrees, Working, Runnable
  <2>5. QED
    BY <1>w, <2>3, <2>4
<1>11. ASSUME NEW w \in Windows, Kill(w) PROVE IInv'
  <2>1. /\ at[w] # "closed" /\ at'[w] = "closed" /\ wanted'[w] = wanted[w] /\ shipped' = shipped /\ stamp' = stamp
        /\ at[w] # "removing" => tree' = tree
    BY <1>0, <1>11 DEF Kill, TypeOK, WindowAgrees
  <2>2. tree' \in Trees
    BY <1>0, <1>11 DEF Kill, Broken, NoTree, Trees, TypeOK
  <2>3. TypeOK'
    BY <1>0, <1>11, <2>2, ConstantsAssumption DEF Kill, NoFault, Fault, TypeOK, Places
  <2>4. StampOrder' /\ Agrees(w)'
    BY <1>0, <2>1 DEF StampOrder, WindowAgrees, Agrees, Working, Runnable
  <2>5. QED
    BY <1>w, <2>3, <2>4
<1>12. CASE UNCHANGED vars
  BY <1>0, <1>12 DEF vars, IInv, TypeOK, StampOrder, WindowAgrees, Agrees, Runnable
<1>13. QED
  BY <1>1, <1>2, <1>3, <1>4, <1>5, <1>6, <1>7, <1>8, <1>9, <1>10, <1>11, <1>12
     DEF Next, EnsureRuntime

(* Every variable keeps its type, for any number of windows and also where *)
(* versions go down: no failure or kill leaves a directory that is neither *)
(* absent nor some version's.                                              *)
THEOREM TypeCorrect == Spec => []TypeOK
<1>1. Init => TypeOK
  BY InitIInv DEF IInv
<1>2. ASSUME TypeOK, NEW v \in Versions, Install(v) PROVE TypeOK'
  BY <1>2, ConstantsAssumption DEF Install, TypeOK
<1>3. ASSUME TypeOK, NEW w \in Windows, Activate(w) \/ Restart(w) \/ EnsureRuntime(w) \/ Close(w) \/ Kill(w)
      PROVE  TypeOK'
  <2>1. CASE Activate(w)
    BY <1>3, <2>1, ConstantsAssumption DEF TypeOK, Places, NoFault, Activate, Move
  <2>2. CASE Restart(w)
    BY <1>3, <2>2, ConstantsAssumption DEF TypeOK, Places, NoFault, Restart, Move
  <2>3. CASE Check(w)
    BY <1>3, <2>3, ConstantsAssumption DEF TypeOK, Places, NoFault, Check, Move, NeedsInstall
  <2>4. CASE Remove(w)
    BY <1>3, <2>4, ConstantsAssumption DEF TypeOK, Places, NoFault, Remove, Move, Broken, NoTree, Trees, Fault
  <2>5. CASE BeginExtract(w)
    BY <1>3, <2>5, ConstantsAssumption DEF TypeOK, Places, NoFault, BeginExtract, Move, Trees
  <2>6. CASE EndExtract(w)
    BY <1>3, <2>6, ConstantsAssumption DEF TypeOK, Places, NoFault, EndExtract, Move, Trees, Fault
  <2>7. CASE MakeExecutable(w)
    BY <1>3, <2>7, ConstantsAssumption DEF TypeOK, Places, NoFault, MakeExecutable, Move, Trees, NoTree, Fault
  <2>8. CASE WriteStamp(w)
    BY <1>3, <2>8, ConstantsAssumption DEF TypeOK, Places, NoFault, WriteStamp, Move, Fault
  <2>9. CASE Close(w)
    BY <1>3, <2>9, ConstantsAssumption DEF TypeOK, Places, NoFault, Close
  <2>10. CASE Kill(w)
    BY <1>3, <2>10, ConstantsAssumption DEF TypeOK, Places, NoFault, Kill, Broken, NoTree, Trees, Fault
  <2>11. QED
    BY <1>3, <2>1, <2>2, <2>3, <2>4, <2>5, <2>6, <2>7, <2>8, <2>9, <2>10 DEF EnsureRuntime
<1>4. TypeOK /\ UNCHANGED vars => TypeOK'
  BY DEF TypeOK, vars
<1>5. TypeOK /\ [Next]_vars => TypeOK'
  BY <1>2, <1>3, <1>4 DEF Next
<1>6. QED
  BY <1>1, <1>5, PTL DEF Spec

LEMMA Invariance ==
  ASSUME OneWindow, Downgrades = FALSE
  PROVE  Spec => []IInv
<1>1. IInv /\ [Next]_vars => IInv'
  BY NextIInv
<1>2. QED
  BY InitIInv, <1>1, PTL DEF Spec

(* A window told that the runtime is ready has its whole version on disk,  *)
(* whichever calls fail and wherever windows are killed.                   *)
THEOREM ReadyIsRunnable ==
  ASSUME OneWindow, Downgrades = FALSE
  PROVE  Spec => []ReadyMeansRunnable
<1>1. IInv => ReadyMeansRunnable
  BY DEF IInv, WindowAgrees, Agrees, ReadyMeansRunnable, Runnable
<1>2. QED
  BY Invariance, <1>1, PTL

(* The stamp is never ahead of the tree.                                   *)
THEOREM StampBehindTree ==
  ASSUME OneWindow, Downgrades = FALSE
  PROVE  Spec => []StampIsBehindTree
<1>1. IInv => StampIsBehindTree
  BY DEF IInv, StampOrder, StampIsBehindTree, Runnable
<1>2. QED
  BY Invariance, <1>1, PTL
=============================================================================
