------------------------- MODULE CatalogReaderProofs -------------------------
(***************************************************************************)
(* The safety properties of CatalogReader, for any set of requests, of     *)
(* identities and of questions.                                            *)
(*                                                                         *)
(* A request is a chain of steps, so what a property says of the answers a *)
(* request was given has to be said of every answer under way as well: in  *)
(* the memo, in the cache, in a store about to happen and in a batch being *)
(* filed.  The parts of IInv say it of each, and that no question under    *)
(* way has an answer yet.                                                  *)
(***************************************************************************)
EXTENDS CatalogReader, FiniteSetTheorems, TLAPS

(* a is what the catalog said to r's identity when it was asked q. *)
Own(r, q, a) == a.who = who[r] /\ a.read = q /\ a.version <= version

(* a may still be stored: nobody dropped the entry since it was read. *)
Storable(r, a) == Own(r, a.read, a) /\ floor[Key(r, a.read)] <= a.version

MemoAgrees ==
  \A r \in Requests, q \in Reads :
    /\ memo[r][q] # Absent => Own(r, q, memo[r][q])
    /\ \A a \in given[r][q] : a = memo[r][q]

CacheAgrees ==
  \A k \in Keys :
    /\ floor[k] <= version
    /\ cache[k] \in Answers =>
         /\ cache[k].who = k[1] /\ cache[k].read = k[2]
         /\ cache[k].version <= version /\ floor[k] <= cache[k].version

StoreAgrees ==
  \A r \in Requests :
    step[r].at = "storing" => step[r].value.read = step[r].read /\ Storable(r, step[r].value)

BatchAgrees ==
  \A r \in Requests : step[r].at = "filing" =>
    \A a \in step[r].batch :
      Storable(r, a) /\ \A b \in step[r].batch : a.read = b.read => a = b

(* What is under way has no answer yet. *)
Unanswered ==
  \A r \in Requests :
    /\ step[r].at = "new" => \A q \in Reads : memo[r][q] = Absent
    /\ step[r].at \in {"looking", "producing", "storing"} => memo[r][step[r].read] = Absent
    /\ step[r].at = "warming" =>
         /\ step[r].todo \cap step[r].missing = {}
         /\ \A q \in step[r].todo \cup step[r].missing : memo[r][q] = Absent
    /\ step[r].at = "filing" => \A a \in step[r].batch : memo[r][a.read] = Absent

(* A question asked has its answer in the memo or on its way there. *)
AskedAgrees ==
  \A r \in Requests, q \in Reads :
    /\ asked[r][q] \in {0, 1}
    /\ asked[r][q] = 1 =>
         \/ memo[r][q] # Absent
         \/ step[r].at = "storing" /\ step[r].read = q
         \/ step[r].at = "filing" /\ \E a \in step[r].batch : a.read = q

IInv ==
  /\ TypeOK
  /\ MemoAgrees
  /\ CacheAgrees
  /\ StoreAgrees
  /\ BatchAgrees
  /\ Unanswered
  /\ AskedAgrees

-----------------------------------------------------------------------------

(* The fields each place of a request has. *)
LEMMA StepFields ==
  ASSUME NEW s \in Steps
  PROVE  /\ s.at \in {"new", "ready", "done", "raised", "looking", "producing",
                      "storing", "warming", "filing"}
         /\ s.at = "looking" => s.read \in Reads
         /\ s.at = "producing" => s.read \in Reads /\ s.keep \in BOOLEAN
         /\ s.at = "storing" => s.read \in Reads /\ s.value \in Answers
         /\ s.at = "warming" => s.todo \subseteq Relations /\ s.missing \subseteq Relations
         /\ s.at = "filing" => s.batch \subseteq Answers
  BY DEF Steps

LEMMA InitIInv == Init => IInv
<1> SUFFICES ASSUME Init PROVE IInv
  OBVIOUS
<1>1. TypeOK
  BY DEF Init, TypeOK, Steps
<1>2. MemoAgrees
  BY DEF Init, MemoAgrees
<1>3. CacheAgrees
  BY MarkersAssumption DEF Init, CacheAgrees
<1>4. StoreAgrees /\ BatchAgrees
  BY DEF Init, StoreAgrees, BatchAgrees
<1>5. Unanswered
  BY DEF Init, Unanswered
<1>6. AskedAgrees
  BY DEF Init, AskedAgrees
<1>7. QED
  BY <1>1, <1>2, <1>3, <1>4, <1>5, <1>6 DEF IInv

(* Typing of what actions are made of. *)
LEMMA ProducedType ==
  ASSUME TypeOK, NEW r \in Requests, NEW q \in Reads
  PROVE  Produced(r, q) \in Answers
  BY DEF TypeOK, Produced, Answers

LEMMA GoType ==
  ASSUME TypeOK, NEW r \in Requests, NEW s \in Steps, Go(r, s)
  PROVE  step' \in [Requests -> Steps]
  BY DEF TypeOK, Go

LEMMA MemoiseType ==
  ASSUME TypeOK, NEW r \in Requests, NEW q \in Reads, NEW a \in Answers, Memoise(r, q, a)
  PROVE  memo' \in [Requests -> [Reads -> Answers \cup {Absent}]]
  BY DEF TypeOK, Memoise

LEMMA GiveType ==
  ASSUME TypeOK, NEW r \in Requests, NEW q \in Reads, NEW a \in Answers, Give(r, q, a)
  PROVE  given' \in [Requests -> [Reads -> SUBSET Answers]]
  BY DEF TypeOK, Give

LEMMA CallType ==
  ASSUME TypeOK, NEW r \in Requests, UNCHANGED failed \/ CallRaises(r)
  PROVE  failed' \in [Requests -> BOOLEAN]
  BY DEF TypeOK, CallRaises

LEMMA NextIInv == IInv /\ [Next]_vars => IInv'
<1> SUFFICES ASSUME IInv, [Next]_vars PROVE IInv'
  OBVIOUS
<1>1. ASSUME NEW r \in Requests, NEW wanted \in SUBSET Relations, Start(r, wanted) PROVE IInv'
  <2>1. TypeOK'
    BY <1>1 DEF Start, Warming, Go, Ready, IInv, TypeOK, Steps
  <2>2. MemoAgrees'
    BY <1>1 DEF Start, IInv, MemoAgrees, Own
  <2>3. CacheAgrees'
    BY <1>1 DEF Start, IInv, CacheAgrees
  <2>4. StoreAgrees'
    BY <1>1 DEF Start, Warming, Go, Ready, IInv, StoreAgrees, Storable, Own, Key
  <2>5. BatchAgrees'
    BY <1>1 DEF Start, Warming, Go, Ready, IInv, BatchAgrees, Storable, Own, Key
  <2>6. Unanswered'
    BY <1>1, SetsAssumption DEF Start, Warming, Go, Ready, IInv, Unanswered
  <2>7. AskedAgrees'
    BY <1>1 DEF Start, Go, IInv, AskedAgrees
  <2>8. QED
    BY <2>1, <2>2, <2>3, <2>4, <2>5, <2>6, <2>7 DEF IInv
<1>2. ASSUME NEW r \in Requests, NEW q \in Relations, step[r].at = "warming",
             q \in step[r].todo, WarmFromCache(r, q),
             UNCHANGED <<version, cache, who, given, asked, floor, losses>>
      PROVE  IInv'
  <2>1. TypeOK'
    <3>1. step' \in [Requests -> Steps]
      BY <1>2, GoType DEF WarmFromCache, Warming, IInv, Steps, TypeOK
    <3>2. memo' \in [Requests -> [Reads -> Answers \cup {Absent}]]
      BY <1>2, MemoiseType, SetsAssumption DEF WarmFromCache, IInv
    <3>6. QED
      BY <1>2, <3>1, <3>2, CallType DEF WarmFromCache, IInv, TypeOK
  <2>2. MemoAgrees'
    BY <1>2, MarkersAssumption DEF WarmFromCache, Key, Memoise, IInv, MemoAgrees,
      TypeOK, Unanswered, Own, CacheAgrees, Keys
  <2>3. CacheAgrees'
    BY <1>2 DEF WarmFromCache, IInv, CacheAgrees
  <2>4. StoreAgrees'
    BY <1>2 DEF WarmFromCache, Warming, Key, Go, IInv, StoreAgrees, Storable, Own
  <2>5. BatchAgrees'
    BY <1>2 DEF WarmFromCache, Warming, Key, Go, IInv, BatchAgrees, Storable, Own
  <2>6. Unanswered'
    <3>1. /\ step'[r].at = "warming"
          /\ step'[r].todo = step[r].todo \ {q} /\ step'[r].missing = step[r].missing
      BY <1>2 DEF WarmFromCache, Warming, Go, IInv, TypeOK
    <3>2. \A x \in Requests, y \in Reads : x # r \/ y # q => memo'[x][y] = memo[x][y]
      BY <1>2 DEF WarmFromCache, Memoise, IInv
    <3>3. \A x \in Requests \ {r} : step'[x] = step[x]
      BY <1>2 DEF WarmFromCache, Go, IInv
    <3>5. \A x \in Requests : step[x].at = "filing" => \A a \in step[x].batch : a.read \in Reads
      BY StepFields DEF IInv, TypeOK, Answers
    <3>6. \A x \in Requests \ {r} : Unanswered!(x)'
      BY <3>2, <3>3, <3>5, StepFields, SetsAssumption DEF IInv, Unanswered, TypeOK
    <3>7. Unanswered!(r)'
      BY <1>2, <3>1, <3>2, StepFields, SetsAssumption DEF IInv, Unanswered, TypeOK
    <3>8. QED
      BY <3>6, <3>7 DEF Unanswered
  <2>7. AskedAgrees'
    BY <1>2, MarkersAssumption DEF WarmFromCache, Go, Memoise, IInv, AskedAgrees
  <2>8. QED
    BY <2>1, <2>2, <2>3, <2>4, <2>5, <2>6, <2>7 DEF IInv
<1>3. ASSUME NEW r \in Requests, NEW q \in Relations, step[r].at = "warming",
             q \in step[r].todo, WarmMissing(r, q),
             UNCHANGED <<version, cache, who, given, asked, floor, losses>>
      PROVE  IInv'
  <2>1. TypeOK'
    <3>1. step' \in [Requests -> Steps]
      BY <1>3, GoType DEF WarmMissing, Warming, IInv, Steps, TypeOK
    <3>6. QED
      BY <1>3, <3>1, CallType DEF WarmMissing, IInv, TypeOK
  <2>2. MemoAgrees'
    BY <1>3 DEF WarmMissing, IInv, MemoAgrees, Own
  <2>3. CacheAgrees'
    BY <1>3 DEF WarmMissing, IInv, CacheAgrees
  <2>4. StoreAgrees'
    BY <1>3 DEF WarmMissing, Warming, Key, Go, IInv, StoreAgrees, TypeOK, Storable, Own
  <2>5. BatchAgrees'
    BY <1>3 DEF WarmMissing, Warming, Key, Go, IInv, BatchAgrees, Storable, Own
  <2>6. Unanswered'
    BY <1>3 DEF WarmMissing, Warming, Go, IInv, Unanswered
  <2>7. AskedAgrees'
    BY <1>3 DEF WarmMissing, Go, IInv, AskedAgrees
  <2>8. QED
    BY <2>1, <2>2, <2>3, <2>4, <2>5, <2>6, <2>7 DEF IInv
<1>4. ASSUME NEW r \in Requests, NoBatch(r) PROVE IInv'
  <2>1. TypeOK'
    BY <1>4 DEF NoBatch, Go, Ready, IInv, TypeOK, Steps
  <2>2. MemoAgrees'
    BY <1>4 DEF NoBatch, IInv, MemoAgrees, Own
  <2>3. CacheAgrees'
    BY <1>4 DEF NoBatch, IInv, CacheAgrees
  <2>4. StoreAgrees'
    BY <1>4 DEF NoBatch, Go, Ready, IInv, StoreAgrees, Storable, Own, Key
  <2>5. BatchAgrees'
    BY <1>4 DEF NoBatch, Go, Ready, IInv, BatchAgrees, Storable, Own, Key
  <2>6. Unanswered'
    BY <1>4 DEF NoBatch, Go, Ready, IInv, Unanswered
  <2>7. AskedAgrees'
    BY <1>4 DEF NoBatch, Go, IInv, AskedAgrees
  <2>8. QED
    BY <2>1, <2>2, <2>3, <2>4, <2>5, <2>6, <2>7 DEF IInv
<1>5. ASSUME NEW r \in Requests, Batch(r) PROVE IInv'
  <2>1. CASE UNCHANGED asked /\ Go(r, [at |-> "raised"])
    <3>1. TypeOK'
      <4>1. step' \in [Requests -> Steps]
        BY <1>5, <2>1, GoType DEF Batch, IInv, Steps
      <4>2. memo' \in [Requests -> [Reads -> Answers \cup {Absent}]]
        BY <1>5, <2>1 DEF Batch, IInv, TypeOK
      <4>3. given' \in [Requests -> [Reads -> SUBSET Answers]]
        BY <1>5, <2>1 DEF Batch, IInv, TypeOK
      <4>4. cache' \in [Keys -> Answers \cup {Absent, Foreign}]
        BY <1>5, <2>1 DEF Batch, IInv, TypeOK
      <4>5. asked' \in [Requests -> [Reads -> Nat]]
        BY <1>5, <2>1 DEF Batch, IInv, TypeOK
      <4>6. QED
        BY <1>5, <2>1, <4>1, <4>2, <4>3, <4>4, <4>5, CallType DEF Batch, IInv, TypeOK
    <3>2. MemoAgrees'
      BY <1>5, <2>1 DEF Batch, IInv, MemoAgrees, Own
    <3>3. CacheAgrees'
      BY <1>5, <2>1 DEF Batch, IInv, CacheAgrees
    <3>4. StoreAgrees'
      BY <1>5, <2>1 DEF Batch, Go, IInv, StoreAgrees, Storable, Own, Key
    <3>5. BatchAgrees'
      BY <1>5, <2>1 DEF Batch, Go, IInv, BatchAgrees, Storable, Own, Key
    <3>6. Unanswered'
      BY <1>5, <2>1 DEF Batch, Go, IInv, Unanswered
    <3>7. AskedAgrees'
      BY <1>5, <2>1 DEF Batch, Go, IInv, AskedAgrees
    <3>8. QED
      BY <3>1, <3>2, <3>3, <3>4, <3>5, <3>6, <3>7 DEF IInv
  <2>2. CASE /\ asked' = [asked EXCEPT ![r] =
                  [q \in Reads |-> IF q \in step[r].missing THEN @[q] + 1 ELSE @[q]]]
             /\ Go(r, Filing({Produced(r, q) : q \in step[r].missing}))
    <3>1. TypeOK'
      <4>1. step' \in [Requests -> Steps]
        BY <1>5, <2>2, StepFields, GoType, ProducedType, SetsAssumption DEF Batch,
          Filing, Ready, IInv, Steps, TypeOK
      <4>2. memo' \in [Requests -> [Reads -> Answers \cup {Absent}]]
        BY <1>5, <2>2 DEF Batch, IInv, TypeOK
      <4>3. given' \in [Requests -> [Reads -> SUBSET Answers]]
        BY <1>5, <2>2 DEF Batch, IInv, TypeOK
      <4>4. cache' \in [Keys -> Answers \cup {Absent, Foreign}]
        BY <1>5, <2>2 DEF Batch, IInv, TypeOK
      <4>5. asked' \in [Requests -> [Reads -> Nat]]
        BY <1>5, <2>2 DEF Batch, IInv, TypeOK
      <4>6. QED
        BY <1>5, <2>2, <4>1, <4>2, <4>3, <4>4, <4>5, CallType DEF Batch, IInv, TypeOK
    <3>2. MemoAgrees'
      BY <1>5, <2>2 DEF Batch, IInv, MemoAgrees, Own
    <3>3. CacheAgrees'
      BY <1>5, <2>2 DEF Batch, IInv, CacheAgrees
    <3>4. StoreAgrees'
      BY <1>5, <2>2 DEF Batch, Filing, Ready, Go, IInv, StoreAgrees, TypeOK, Storable,
        Own, Key
    <3>5. BatchAgrees'
      BY <1>5, <2>2, StepFields, SetsAssumption DEF Batch, Filing, Ready, Produced, Go,
        IInv, BatchAgrees, TypeOK, Storable, Own, CacheAgrees, Key, Keys
    <3>6. Unanswered'
      BY <1>5, <2>2 DEF Batch, Filing, Ready, Produced, Go, IInv, Unanswered
    <3>7. AskedAgrees'
      <4>1. step'[r].at = "filing" /\ step'[r].batch = {Produced(r, q) : q \in step[r].missing}
        <5>1. step[r].missing # {}
          BY <1>5, FS_EmptySet DEF Batch
        <5>2. {Produced(r, q) : q \in step[r].missing} # {}
          BY <5>1
        <5>3. QED
          BY <2>2, <5>2 DEF Filing, Go, IInv, TypeOK
      <4>2. step[r].at = "warming" /\ \A q \in step[r].missing : memo[r][q] = Absent
        BY <1>5 DEF Batch, IInv, Unanswered
      <4>3. \A q \in Reads : q \in step[r].missing => asked[r][q] = 0
        BY <4>2 DEF IInv, AskedAgrees
      <4>4. \A q \in Reads : asked'[r][q] = IF q \in step[r].missing THEN 1 ELSE asked[r][q]
        BY <2>2, <4>3 DEF IInv, TypeOK
      <4>5. \A q \in Reads : q \in step[r].missing => \E a \in step'[r].batch : a.read = q
        <5>1. ASSUME NEW q \in step[r].missing PROVE \E a \in step'[r].batch : a.read = q
          <6>1. Produced(r, q) \in step'[r].batch
            BY <4>1
          <6>2. Produced(r, q).read = q
            BY DEF Produced
          <6>3. QED
            BY <6>1, <6>2
        <5>2. QED
          BY <5>1
      <4>6. \A q \in Reads :
              /\ asked'[r][q] \in {0, 1}
              /\ asked'[r][q] = 1 => memo[r][q] # Absent \/ \E a \in step'[r].batch : a.read = q
        BY <4>2, <4>4, <4>5 DEF IInv, AskedAgrees
      <4>7. UNCHANGED memo /\ \A x \in Requests \ {r} : step'[x] = step[x] /\ asked'[x] = asked[x]
        BY <1>5, <2>2 DEF Batch, Go, IInv
      <4>8. QED
        BY <4>1, <4>6, <4>7 DEF IInv, AskedAgrees
    <3>8. QED
      BY <3>1, <3>2, <3>3, <3>4, <3>5, <3>6, <3>7 DEF IInv
  <2>3. QED
    BY <1>5, <2>1, <2>2 DEF Batch
<1>6. ASSUME NEW r \in Requests, step[r].at = "filing", NEW a \in step[r].batch, File(r, a)
      PROVE  IInv'
  <2>0. a \in Answers /\ a.read \in Reads
    BY <1>6, StepFields DEF IInv, TypeOK, Answers
  <2>1. CASE cache' = [cache EXCEPT ![Key(r, a.read)] = a] /\ UNCHANGED failed
    <3>1. TypeOK'
      <4>1. step' \in [Requests -> Steps]
        BY <1>6, <2>1, GoType DEF File, Filing, Ready, IInv, Steps, TypeOK
      <4>2. memo' \in [Requests -> [Reads -> Answers \cup {Absent}]]
        BY <1>6, <2>0, MemoiseType DEF File, IInv
      <4>3. given' \in [Requests -> [Reads -> SUBSET Answers]]
        BY <1>6, <2>1 DEF File, IInv, TypeOK
      <4>4. cache' \in [Keys -> Answers \cup {Absent, Foreign}]
        BY <1>6, <2>1, StepFields DEF File, IInv, TypeOK
      <4>5. asked' \in [Requests -> [Reads -> Nat]]
        BY <1>6, <2>1 DEF File, IInv, TypeOK
      <4>6. QED
        BY <1>6, <2>1, <4>1, <4>2, <4>3, <4>4, <4>5, CallType DEF File, IInv, TypeOK
    <3>2. MemoAgrees'
      BY <1>6, <2>1, MarkersAssumption DEF File, Memoise, IInv, MemoAgrees, TypeOK,
        Unanswered, Own, BatchAgrees, Storable
    <3>3. CacheAgrees'
      BY <1>6, <2>1 DEF File, Key, IInv, CacheAgrees, BatchAgrees, Storable, Own
    <3>4. StoreAgrees'
      BY <1>6, <2>1 DEF File, Filing, Key, Go, Ready, IInv, StoreAgrees, TypeOK,
        Storable, Own
    <3>5. BatchAgrees'
      BY <1>6, <2>1 DEF File, Filing, Key, Go, Ready, IInv, BatchAgrees, Storable, Own
    <3>6. Unanswered'
      BY <1>6, <2>1 DEF File, Filing, Go, Ready, Memoise, IInv, Unanswered, TypeOK,
        BatchAgrees
    <3>7. AskedAgrees'
      BY <1>6, <2>1, StepFields, MarkersAssumption, SetsAssumption DEF File, Filing, Go,
        Memoise, IInv, AskedAgrees, TypeOK, BatchAgrees
    <3>8. QED
      BY <3>1, <3>2, <3>3, <3>4, <3>5, <3>6, <3>7 DEF IInv
  <2>2. CASE UNCHANGED cache /\ (CallRaises(r) \/ UNCHANGED failed)
    <3>1. TypeOK'
      <4>1. step' \in [Requests -> Steps]
        BY <1>6, <2>2, GoType DEF File, Filing, Ready, IInv, Steps, TypeOK
      <4>2. memo' \in [Requests -> [Reads -> Answers \cup {Absent}]]
        BY <1>6, <2>0, MemoiseType DEF File, IInv
      <4>3. given' \in [Requests -> [Reads -> SUBSET Answers]]
        BY <1>6, <2>2 DEF File, IInv, TypeOK
      <4>4. cache' \in [Keys -> Answers \cup {Absent, Foreign}]
        BY <1>6, <2>2 DEF File, IInv, TypeOK
      <4>5. asked' \in [Requests -> [Reads -> Nat]]
        BY <1>6, <2>2 DEF File, IInv, TypeOK
      <4>6. QED
        BY <1>6, <2>2, <4>1, <4>2, <4>3, <4>4, <4>5, CallType DEF File, IInv, TypeOK
    <3>2. MemoAgrees'
      BY <1>6, <2>2, MarkersAssumption DEF File, Memoise, IInv, MemoAgrees, TypeOK,
        Unanswered, Own, BatchAgrees, Storable
    <3>3. CacheAgrees'
      BY <1>6, <2>2 DEF File, IInv, CacheAgrees
    <3>4. StoreAgrees'
      BY <1>6, <2>2 DEF File, Filing, Key, Go, Ready, IInv, StoreAgrees, TypeOK,
        Storable, Own
    <3>5. BatchAgrees'
      BY <1>6, <2>2 DEF File, Filing, Key, Go, Ready, IInv, BatchAgrees, Storable, Own
    <3>6. Unanswered'
      BY <1>6, <2>2 DEF File, Filing, Go, Ready, Memoise, IInv, Unanswered, TypeOK,
        BatchAgrees
    <3>7. AskedAgrees'
      BY <1>6, <2>2, StepFields, MarkersAssumption DEF File, Filing, Go, Memoise, IInv,
        AskedAgrees, TypeOK
    <3>8. QED
      BY <3>1, <3>2, <3>3, <3>4, <3>5, <3>6, <3>7 DEF IInv
  <2>3. QED
    BY <1>6, <2>1, <2>2 DEF File
<1>7. ASSUME NEW r \in Requests, NEW q \in Reads, ReadMemo(r, q) PROVE IInv'
  <2>1. TypeOK'
    BY <1>7 DEF ReadMemo, Give, IInv, TypeOK
  <2>2. MemoAgrees'
    BY <1>7 DEF ReadMemo, Give, IInv, MemoAgrees, Own
  <2>3. CacheAgrees'
    BY <1>7 DEF ReadMemo, IInv, CacheAgrees
  <2>4. StoreAgrees'
    BY <1>7 DEF ReadMemo, IInv, StoreAgrees, Storable, Own, Key
  <2>5. BatchAgrees'
    BY <1>7 DEF ReadMemo, IInv, BatchAgrees, Storable, Own, Key
  <2>6. Unanswered'
    BY <1>7 DEF ReadMemo, IInv, Unanswered
  <2>7. AskedAgrees'
    BY <1>7 DEF ReadMemo, IInv, AskedAgrees
  <2>8. QED
    BY <2>1, <2>2, <2>3, <2>4, <2>5, <2>6, <2>7 DEF IInv
<1>8. ASSUME NEW r \in Requests, NEW q \in Reads, Read(r, q) PROVE IInv'
  <2>1. TypeOK'
    BY <1>8 DEF Read, Go, IInv, TypeOK, Steps
  <2>2. MemoAgrees'
    BY <1>8 DEF Read, IInv, MemoAgrees, Own
  <2>3. CacheAgrees'
    BY <1>8 DEF Read, IInv, CacheAgrees
  <2>4. StoreAgrees'
    BY <1>8 DEF Read, Go, IInv, StoreAgrees, Storable, Own, CacheAgrees, Key
  <2>5. BatchAgrees'
    BY <1>8 DEF Read, Go, IInv, BatchAgrees, Storable, Own, Key
  <2>6. Unanswered'
    BY <1>8 DEF Read, Go, IInv, Unanswered
  <2>7. AskedAgrees'
    BY <1>8 DEF Read, Go, IInv, AskedAgrees
  <2>8. QED
    BY <2>1, <2>2, <2>3, <2>4, <2>5, <2>6, <2>7 DEF IInv
<1>9. ASSUME NEW r \in Requests, step[r].at = "looking", LookHit(r, step[r].read),
              UNCHANGED <<version, cache, who, asked, floor, losses>>
       PROVE  IInv'
  <2>1. TypeOK'
    <3>1. step' \in [Requests -> Steps]
      BY <1>9, GoType DEF LookHit, Ready, IInv, Steps
    <3>2. memo' \in [Requests -> [Reads -> Answers \cup {Absent}]]
      BY <1>9, StepFields, MemoiseType DEF LookHit, IInv, TypeOK
    <3>3. given' \in [Requests -> [Reads -> SUBSET Answers]]
      BY <1>9, StepFields, GiveType DEF LookHit, IInv, TypeOK
    <3>6. QED
      BY <1>9, <3>1, <3>2, <3>3, CallType DEF LookHit, IInv, TypeOK
  <2>2. MemoAgrees'
    BY <1>9, MarkersAssumption DEF LookHit, Key, Memoise, Give, IInv, MemoAgrees,
      TypeOK, Unanswered, Own, CacheAgrees, Keys
  <2>3. CacheAgrees'
    BY <1>9 DEF LookHit, IInv, CacheAgrees
  <2>4. StoreAgrees'
    BY <1>9 DEF LookHit, Key, Go, Ready, IInv, StoreAgrees, TypeOK, Storable, Own
  <2>5. BatchAgrees'
    BY <1>9 DEF LookHit, Key, Go, Ready, IInv, BatchAgrees, Storable, Own
  <2>6. Unanswered'
    BY <1>9 DEF LookHit, Go, Ready, Memoise, IInv, Unanswered, TypeOK
  <2>7. AskedAgrees'
    BY <1>9, MarkersAssumption DEF LookHit, Go, Memoise, IInv, AskedAgrees
  <2>8. QED
    BY <2>1, <2>2, <2>3, <2>4, <2>5, <2>6, <2>7 DEF IInv
<1>10. ASSUME NEW r \in Requests, step[r].at = "looking", LookMiss(r, step[r].read),
              UNCHANGED <<version, cache, who, asked, floor, losses>>
       PROVE  IInv'
  <2>1. TypeOK'
    <3>1. step' \in [Requests -> Steps]
      BY <1>10, GoType DEF LookMiss, IInv, Steps, TypeOK
    <3>2. QED
      BY <1>10, <3>1, CallType DEF LookMiss, IInv, TypeOK
  <2>2. MemoAgrees'
    BY <1>10 DEF LookMiss, IInv, MemoAgrees, Own
  <2>3. CacheAgrees'
    BY <1>10 DEF LookMiss, IInv, CacheAgrees
  <2>4. StoreAgrees'
    BY <1>10 DEF LookMiss, Key, Go, IInv, StoreAgrees, TypeOK, Storable, Own
  <2>5. BatchAgrees'
    BY <1>10 DEF LookMiss, Key, Go, IInv, BatchAgrees, Storable, Own
  <2>6. Unanswered'
    BY <1>10 DEF LookMiss, Go, IInv, Unanswered
  <2>7. AskedAgrees'
    BY <1>10 DEF LookMiss, Go, IInv, AskedAgrees
  <2>8. QED
    BY <2>1, <2>2, <2>3, <2>4, <2>5, <2>6, <2>7 DEF IInv
<1>11. ASSUME NEW r \in Requests, step[r].at = "looking", LookRaises(r, step[r].read),
              UNCHANGED <<version, cache, who, asked, floor, losses>>
       PROVE  IInv'
  <2>1. TypeOK'
    <3>1. step' \in [Requests -> Steps]
      BY <1>11, GoType DEF LookRaises, IInv, Steps, TypeOK
    <3>6. QED
      BY <1>11, <3>1, CallType DEF LookRaises, IInv, TypeOK
  <2>2. MemoAgrees'
    BY <1>11 DEF LookRaises, IInv, MemoAgrees, Own
  <2>3. CacheAgrees'
    BY <1>11 DEF LookRaises, IInv, CacheAgrees
  <2>4. StoreAgrees'
    BY <1>11 DEF LookRaises, Go, IInv, StoreAgrees, Storable, Own, Key
  <2>5. BatchAgrees'
    BY <1>11 DEF LookRaises, Go, IInv, BatchAgrees, Storable, Own, Key
  <2>6. Unanswered'
    BY <1>11 DEF LookRaises, Go, IInv, Unanswered
  <2>7. AskedAgrees'
    BY <1>11 DEF LookRaises, Go, IInv, AskedAgrees
  <2>8. QED
    BY <2>1, <2>2, <2>3, <2>4, <2>5, <2>6, <2>7 DEF IInv
<1>12. ASSUME NEW r \in Requests, Produce(r) PROVE IInv'
  <2>1. PICK q \in Reads : step[r].at = "producing" /\ q = step[r].read /\ memo[r][q] = Absent
    BY <1>12, StepFields DEF Produce, IInv, TypeOK, Unanswered
  <2>2. CASE step[r].keep
    <3>0. /\ step' = [step EXCEPT ![r] = [at |-> "storing", read |-> q, value |-> Produced(r, q)]]
          /\ asked' = [asked EXCEPT ![r][q] = @ + 1]
          /\ UNCHANGED <<version, cache, who, memo, failed, given, floor, losses>>
      BY <1>12, <2>1, <2>2 DEF Produce, Go
    <3>1. TypeOK'
      <4>1. step' \in [Requests -> Steps]
        BY <3>0, <2>1, <2>2, ProducedType DEF IInv, Steps, TypeOK
      <4>2. memo' \in [Requests -> [Reads -> Answers \cup {Absent}]]
        BY <3>0, <2>1, <2>2 DEF IInv, TypeOK
      <4>3. given' \in [Requests -> [Reads -> SUBSET Answers]]
        BY <3>0, <2>1, <2>2 DEF IInv, TypeOK
      <4>4. cache' \in [Keys -> Answers \cup {Absent, Foreign}]
        BY <3>0, <2>1, <2>2 DEF Produced, IInv, TypeOK
      <4>5. asked' \in [Requests -> [Reads -> Nat]]
        BY <3>0, <2>1, <2>2 DEF Produced, IInv, TypeOK
      <4>6. QED
        BY <3>0, <2>1, <2>2, <4>1, <4>2, <4>3, <4>4, <4>5 DEF Produced, IInv, TypeOK
    <3>2. MemoAgrees'
      BY <3>0, <2>1, <2>2 DEF Produced, IInv, MemoAgrees, Own
    <3>3. CacheAgrees'
      BY <3>0, <2>1, <2>2 DEF Produced, IInv, CacheAgrees
    <3>4. StoreAgrees'
      BY <3>0, <2>1, <2>2 DEF Produced, IInv, StoreAgrees, TypeOK, Storable, Own,
        CacheAgrees, Key, Keys
    <3>5. BatchAgrees'
      BY <3>0, <2>1, <2>2 DEF Produced, IInv, BatchAgrees, Storable, Own, Key
    <3>6. Unanswered'
      BY <3>0, <2>1, <2>2 DEF Produced, IInv, Unanswered
    <3>7. AskedAgrees'
      BY <3>0, <2>1, <2>2 DEF Produced, IInv, AskedAgrees, TypeOK
    <3>8. QED
      BY <3>1, <3>2, <3>3, <3>4, <3>5, <3>6, <3>7 DEF IInv
  <2>3. CASE ~step[r].keep
    <3>0. /\ step' = [step EXCEPT ![r] = [at |-> "ready"]]
          /\ memo' = [memo EXCEPT ![r][q] = Produced(r, q)]
          /\ given' = [given EXCEPT ![r][q] = @ \cup {Produced(r, q)}]
          /\ asked' = [asked EXCEPT ![r][q] = @ + 1]
          /\ UNCHANGED <<version, cache, who, failed, floor, losses>>
      BY <1>12, <2>1, <2>3 DEF Produce, Go, Ready, Memoise, Give
    <3>1. TypeOK'
      <4>1. step' \in [Requests -> Steps]
        BY <3>0, <2>1, <2>3 DEF IInv, Steps, TypeOK
      <4>2. memo' \in [Requests -> [Reads -> Answers \cup {Absent}]]
        BY <3>0, <2>1, <2>3, ProducedType DEF IInv, TypeOK
      <4>3. given' \in [Requests -> [Reads -> SUBSET Answers]]
        BY <3>0, <2>1, <2>3, ProducedType DEF IInv, TypeOK
      <4>4. cache' \in [Keys -> Answers \cup {Absent, Foreign}]
        BY <3>0, <2>1, <2>3 DEF Produced, IInv, TypeOK
      <4>5. asked' \in [Requests -> [Reads -> Nat]]
        BY <3>0, <2>1, <2>3 DEF Produced, IInv, TypeOK
      <4>6. QED
        BY <3>0, <2>1, <2>3, <4>1, <4>2, <4>3, <4>4, <4>5 DEF Produced, IInv, TypeOK
    <3>2. MemoAgrees'
      BY <3>0, <2>1, <2>3, MarkersAssumption DEF Produced, IInv, MemoAgrees, TypeOK, Own
    <3>3. CacheAgrees'
      BY <3>0, <2>1, <2>3 DEF Produced, IInv, CacheAgrees
    <3>4. StoreAgrees'
      BY <3>0, <2>1, <2>3 DEF Produced, IInv, StoreAgrees, TypeOK, Storable, Own, Key
    <3>5. BatchAgrees'
      BY <3>0, <2>1, <2>3 DEF Produced, IInv, BatchAgrees, Storable, Own, Key
    <3>6. Unanswered'
      BY <3>0, <2>1, <2>3 DEF Produced, IInv, Unanswered, TypeOK
    <3>7. AskedAgrees'
      BY <3>0, <2>1, <2>3, MarkersAssumption DEF Produced, IInv, AskedAgrees, TypeOK,
        Answers
    <3>8. QED
      BY <3>1, <3>2, <3>3, <3>4, <3>5, <3>6, <3>7 DEF IInv
  <2>4. QED
    BY <1>12, <2>1, <2>2, <2>3 DEF Produce
<1>13. ASSUME NEW r \in Requests, ProduceRaises(r) PROVE IInv'
  <2>1. TypeOK'
    BY <1>13 DEF ProduceRaises, Go, IInv, TypeOK, Steps
  <2>2. MemoAgrees'
    BY <1>13 DEF ProduceRaises, IInv, MemoAgrees, Own
  <2>3. CacheAgrees'
    BY <1>13 DEF ProduceRaises, IInv, CacheAgrees
  <2>4. StoreAgrees'
    BY <1>13 DEF ProduceRaises, Go, IInv, StoreAgrees, Storable, Own, Key
  <2>5. BatchAgrees'
    BY <1>13 DEF ProduceRaises, Go, IInv, BatchAgrees, Storable, Own, Key
  <2>6. Unanswered'
    BY <1>13 DEF ProduceRaises, Go, IInv, Unanswered
  <2>7. AskedAgrees'
    BY <1>13 DEF ProduceRaises, Go, IInv, AskedAgrees
  <2>8. QED
    BY <2>1, <2>2, <2>3, <2>4, <2>5, <2>6, <2>7 DEF IInv
<1>14. ASSUME NEW r \in Requests, Store(r) PROVE IInv'
  <2>1. PICK q \in Reads, a \in Answers :
           /\ step[r].at = "storing" /\ q = step[r].read /\ a = step[r].value
           /\ memo[r][q] = Absent /\ Storable(r, a) /\ a.read = q
    BY <1>14, StepFields DEF Store, IInv, TypeOK, Unanswered, StoreAgrees
  <2>2. CASE cache' = [cache EXCEPT ![Key(r, step[r].read)] = step[r].value] /\ UNCHANGED failed
    <3>0. /\ step' = [step EXCEPT ![r] = [at |-> "ready"]]
          /\ memo' = [memo EXCEPT ![r][q] = a]
          /\ given' = [given EXCEPT ![r][q] = @ \cup {a}]
          /\ cache' = [cache EXCEPT ![Key(r, q)] = a] /\ UNCHANGED failed
          /\ UNCHANGED <<version, who, asked, floor, losses>>
      BY <1>14, <2>1, <2>2 DEF Store, Go, Ready, Memoise, Give
    <3>1. TypeOK'
      <4>1. step' \in [Requests -> Steps]
        BY <3>0, <2>1, <2>2 DEF IInv, Steps, TypeOK
      <4>2. memo' \in [Requests -> [Reads -> Answers \cup {Absent}]]
        BY <3>0, <2>1, <2>2 DEF IInv, TypeOK
      <4>3. given' \in [Requests -> [Reads -> SUBSET Answers]]
        BY <3>0, <2>1, <2>2 DEF IInv, TypeOK
      <4>4. cache' \in [Keys -> Answers \cup {Absent, Foreign}]
        BY <3>0, <2>1, <2>2 DEF Produced, IInv, TypeOK
      <4>5. asked' \in [Requests -> [Reads -> Nat]]
        BY <3>0, <2>1, <2>2 DEF Produced, IInv, TypeOK
      <4>6. QED
        BY <3>0, <2>1, <2>2, <4>1, <4>2, <4>3, <4>4, <4>5, CallType DEF Produced, IInv,
          TypeOK
    <3>2. MemoAgrees'
      BY <3>0, <2>1, <2>2, MarkersAssumption DEF Produced, IInv, MemoAgrees, TypeOK,
        Own, Storable
    <3>3. CacheAgrees'
      BY <3>0, <2>1, <2>2 DEF Produced, IInv, CacheAgrees, Storable, Own, Key
    <3>4. StoreAgrees'
      BY <3>0, <2>1, <2>2 DEF Produced, IInv, StoreAgrees, TypeOK, Storable, Own, Key
    <3>5. BatchAgrees'
      BY <3>0, <2>1, <2>2 DEF Produced, IInv, BatchAgrees, Storable, Own, Key
    <3>6. Unanswered'
      BY <3>0, <2>1, <2>2 DEF Produced, IInv, Unanswered, TypeOK
    <3>7. AskedAgrees'
      BY <3>0, <2>1, <2>2, MarkersAssumption DEF Produced, IInv, AskedAgrees, TypeOK
    <3>8. QED
      BY <3>1, <3>2, <3>3, <3>4, <3>5, <3>6, <3>7 DEF IInv
  <2>3. CASE UNCHANGED cache /\ CallRaises(r)
    <3>0. /\ step' = [step EXCEPT ![r] = [at |-> "ready"]]
          /\ memo' = [memo EXCEPT ![r][q] = a]
          /\ given' = [given EXCEPT ![r][q] = @ \cup {a}]
          /\ CallRaises(r)
          /\ UNCHANGED <<version, cache, who, asked, floor, losses>>
      BY <1>14, <2>1, <2>3 DEF Store, Go, Ready, Memoise, Give
    <3>1. TypeOK'
      <4>1. step' \in [Requests -> Steps]
        BY <3>0, <2>1, <2>3 DEF IInv, Steps, TypeOK
      <4>2. memo' \in [Requests -> [Reads -> Answers \cup {Absent}]]
        BY <3>0, <2>1, <2>3 DEF IInv, TypeOK
      <4>3. given' \in [Requests -> [Reads -> SUBSET Answers]]
        BY <3>0, <2>1, <2>3 DEF IInv, TypeOK
      <4>4. cache' \in [Keys -> Answers \cup {Absent, Foreign}]
        BY <3>0, <2>1, <2>3 DEF Produced, IInv, TypeOK
      <4>5. asked' \in [Requests -> [Reads -> Nat]]
        BY <3>0, <2>1, <2>3 DEF Produced, IInv, TypeOK
      <4>6. QED
        BY <3>0, <2>1, <2>3, <4>1, <4>2, <4>3, <4>4, <4>5, CallType DEF Produced, IInv,
          TypeOK
    <3>2. MemoAgrees'
      BY <3>0, <2>1, <2>3, MarkersAssumption DEF Produced, IInv, MemoAgrees, TypeOK,
        Own, Storable
    <3>3. CacheAgrees'
      BY <3>0, <2>1, <2>3 DEF Produced, IInv, CacheAgrees
    <3>4. StoreAgrees'
      BY <3>0, <2>1, <2>3 DEF Produced, IInv, StoreAgrees, TypeOK, Storable, Own, Key
    <3>5. BatchAgrees'
      BY <3>0, <2>1, <2>3 DEF Produced, IInv, BatchAgrees, Storable, Own, Key
    <3>6. Unanswered'
      BY <3>0, <2>1, <2>3 DEF Produced, IInv, Unanswered, TypeOK
    <3>7. AskedAgrees'
      BY <3>0, <2>1, <2>3, MarkersAssumption DEF Produced, IInv, AskedAgrees, TypeOK
    <3>8. QED
      BY <3>1, <3>2, <3>3, <3>4, <3>5, <3>6, <3>7 DEF IInv
  <2>4. QED
    BY <1>14, <2>1, <2>2, <2>3 DEF Store
<1>15. ASSUME NEW r \in Requests, Finish(r) PROVE IInv'
  <2>1. TypeOK'
    BY <1>15 DEF Finish, Go, IInv, TypeOK, Steps
  <2>2. MemoAgrees'
    BY <1>15 DEF Finish, IInv, MemoAgrees, Own
  <2>3. CacheAgrees'
    BY <1>15 DEF Finish, IInv, CacheAgrees
  <2>4. StoreAgrees'
    BY <1>15 DEF Finish, Go, IInv, StoreAgrees, Storable, Own, Key
  <2>5. BatchAgrees'
    BY <1>15 DEF Finish, Go, IInv, BatchAgrees, Storable, Own, Key
  <2>6. Unanswered'
    BY <1>15 DEF Finish, Go, IInv, Unanswered
  <2>7. AskedAgrees'
    BY <1>15 DEF Finish, Go, IInv, AskedAgrees
  <2>8. QED
    BY <2>1, <2>2, <2>3, <2>4, <2>5, <2>6, <2>7 DEF IInv
<1>16. ASSUME Alter PROVE IInv'
  <2>1. TypeOK'
    BY <1>16 DEF Alter, IInv, TypeOK
  <2>2. MemoAgrees'
    BY <1>16 DEF Alter, IInv, MemoAgrees, TypeOK, Own, Answers
  <2>3. CacheAgrees'
    BY <1>16 DEF Alter, IInv, CacheAgrees, TypeOK, Answers
  <2>4. StoreAgrees'
    BY <1>16, StepFields DEF Alter, IInv, StoreAgrees, TypeOK, Storable, Own, Key,
      Answers
  <2>5. BatchAgrees'
    BY <1>16, StepFields DEF Alter, IInv, BatchAgrees, TypeOK, Storable, Own, Key,
      Answers
  <2>6. Unanswered'
    BY <1>16 DEF Alter, IInv, Unanswered
  <2>7. AskedAgrees'
    BY <1>16 DEF Alter, IInv, AskedAgrees
  <2>8. QED
    BY <2>1, <2>2, <2>3, <2>4, <2>5, <2>6, <2>7 DEF IInv
<1>17. ASSUME NEW k \in Keys, Forget(k) PROVE IInv'
  <2>1. TypeOK'
    BY <1>17 DEF Forget, IInv, TypeOK
  <2>2. MemoAgrees'
    BY <1>17 DEF Forget, IInv, MemoAgrees, Own
  <2>3. CacheAgrees'
    BY <1>17, MarkersAssumption DEF Forget, IInv, CacheAgrees, TypeOK
  <2>4. StoreAgrees'
    BY <1>17 DEF Forget, Filling, Key, IInv, StoreAgrees, Storable, Own
  <2>5. BatchAgrees'
    BY <1>17 DEF Forget, Filling, Key, IInv, BatchAgrees, Storable, Own
  <2>6. Unanswered'
    BY <1>17 DEF Forget, IInv, Unanswered
  <2>7. AskedAgrees'
    BY <1>17 DEF Forget, IInv, AskedAgrees
  <2>8. QED
    BY <2>1, <2>2, <2>3, <2>4, <2>5, <2>6, <2>7 DEF IInv
<1>18. ASSUME NEW k \in Keys, Intrude(k) PROVE IInv'
  <2>1. TypeOK'
    BY <1>18 DEF Intrude, IInv, TypeOK
  <2>2. MemoAgrees'
    BY <1>18 DEF Intrude, IInv, MemoAgrees, Own
  <2>3. CacheAgrees'
    BY <1>18, MarkersAssumption DEF Intrude, IInv, CacheAgrees
  <2>4. StoreAgrees'
    BY <1>18 DEF Intrude, IInv, StoreAgrees, Storable, Own, Key
  <2>5. BatchAgrees'
    BY <1>18 DEF Intrude, IInv, BatchAgrees, Storable, Own, Key
  <2>6. Unanswered'
    BY <1>18 DEF Intrude, IInv, Unanswered
  <2>7. AskedAgrees'
    BY <1>18 DEF Intrude, IInv, AskedAgrees
  <2>8. QED
    BY <2>1, <2>2, <2>3, <2>4, <2>5, <2>6, <2>7 DEF IInv
<1>19. CASE UNCHANGED vars
  <2>1. TypeOK'
    BY <1>19 DEF vars, IInv, TypeOK
  <2>2. MemoAgrees'
    BY <1>19 DEF vars, IInv, MemoAgrees, Own
  <2>3. CacheAgrees'
    BY <1>19 DEF vars, IInv, CacheAgrees
  <2>4. StoreAgrees'
    BY <1>19 DEF vars, IInv, StoreAgrees, Storable, Own, Key
  <2>5. BatchAgrees'
    BY <1>19 DEF vars, IInv, BatchAgrees, Storable, Own, Key
  <2>6. Unanswered'
    BY <1>19 DEF vars, IInv, Unanswered
  <2>7. AskedAgrees'
    BY <1>19 DEF vars, IInv, AskedAgrees
  <2>8. QED
    BY <2>1, <2>2, <2>3, <2>4, <2>5, <2>6, <2>7 DEF IInv
<1>20. QED
  BY <1>1, <1>2, <1>3, <1>4, <1>5, <1>6, <1>7, <1>8, <1>9, <1>10, <1>11, <1>12, <1>13,
    <1>14, <1>15, <1>16, <1>17, <1>18, <1>19 DEF Next, RequestStep, Warm, Look

LEMMA Invariance == Spec => []IInv
  BY InitIInv, NextIInv, PTL DEF Spec

-----------------------------------------------------------------------------

(* Every variable stays in its set. *)
THEOREM TypeCorrect == Spec => []TypeOK
<1>1. IInv => TypeOK
  BY DEF IInv
<1>2. QED
  BY Invariance, <1>1, PTL

(* Identities never see each other's reads, through any cache, memo or     *)
(* batch, for any number of requests and of roles.                         *)
THEOREM OwnAnswers == Spec => []AnswersAreOwn
<1>1. IInv => AnswersAreOwn
  BY MarkersAssumption DEF IInv, TypeOK, MemoAgrees, CacheAgrees, Own, AnswersAreOwn
<1>2. QED
  BY Invariance, <1>1, PTL

(* One request, one answer to a question.                                  *)
THEOREM Repeatable == Spec => []RepeatableReads
<1>1. IInv => RepeatableReads
  BY DEF IInv, MemoAgrees, RepeatableReads
<1>2. QED
  BY Invariance, <1>1, PTL

(* One request, at most one read of the database for a question.           *)
THEOREM AtMostOneRead == Spec => []AskedOnce
<1>1. IInv => AskedOnce
  BY DEF IInv, AskedAgrees, AskedOnce
<1>2. QED
  BY Invariance, <1>1, PTL

(* A delete with no fill under way is final for the schemas before it.     *)
THEOREM DroppedForGood == Spec => []DroppedStaysDropped
<1>1. IInv => DroppedStaysDropped
  BY DEF IInv, CacheAgrees, DroppedStaysDropped
<1>2. QED
  BY Invariance, <1>1, PTL
=============================================================================
