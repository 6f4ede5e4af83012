-------------------------- MODULE MemoryCacheProofs --------------------------
(***************************************************************************)
(* The safety properties of MemoryCache, for any number of threads and     *)
(* keys and any bound, and that it implements CachePort.                   *)
(*                                                                         *)
(* First what the cache's operations do to the sequence that stands for    *)
(* the OrderedDict, said of the SET of its entries, since that is what the *)
(* port sees; then the invariant.                                          *)
(***************************************************************************)
EXTENDS MemoryCache, SequenceTheorems, FiniteSetTheorems, TLAPS

(* The keys of a sequence of entries differ: an OrderedDict has each once. *)
Distinct(s) == \A i, j \in 1 .. Len(s) : s[i].key = s[j].key => i = j

(* The entries of a sequence. *)
Elements(s) == {s[i] : i \in 1 .. Len(s)}

-----------------------------------------------------------------------------
(* Sequences. *)

LEMMA RemoveAtProperties ==
  ASSUME NEW S, NEW s \in Seq(S), NEW p \in 1 .. Len(s)
  PROVE  /\ RemoveAt(s, p) \in Seq(S)
         /\ Len(RemoveAt(s, p)) = Len(s) - 1
         /\ \A i \in 1 .. Len(s) - 1 : RemoveAt(s, p)[i] = IF i < p THEN s[i] ELSE s[i + 1]
<1> DEFINE before == SubSeq(s, 1, p - 1)
           after == SubSeq(s, p + 1, Len(s))
<1>1. Len(s) \in Nat /\ \A i \in 1 .. Len(s) : s[i] \in S
  BY LenProperties, ElementOfSeq
<1>2. /\ before \in Seq(S)
      /\ Len(before) = p - 1
      /\ \A i \in 1 .. p - 1 : before[i] = s[i]
  BY <1>1, SubSeqProperties, Z3
<1>3. /\ after \in Seq(S)
      /\ Len(after) = Len(s) - p
      /\ \A i \in 1 .. Len(s) - p : after[i] = s[p + i]
  BY <1>1, SubSeqProperties, Z3
<1> HIDE DEF before, after
<1>4. /\ before \o after \in Seq(S)
      /\ Len(before \o after) = Len(s) - 1
      /\ \A i \in 1 .. Len(s) - 1 :
           (before \o after)[i] = IF i <= p - 1 THEN before[i] ELSE after[i - (p - 1)]
  <2>1. Len(before) + Len(after) = Len(s) - 1
    BY <1>1, <1>2, <1>3
  <2>2. /\ before \o after \in Seq(S)
        /\ Len(before \o after) = Len(before) + Len(after)
        /\ \A i \in 1 .. Len(before) + Len(after) :
             (before \o after)[i] = IF i <= Len(before) THEN before[i] ELSE after[i - Len(before)]
    BY <1>2, <1>3, ConcatProperties
  <2>3. QED
    BY <1>2, <2>1, <2>2
<1>5. \A i \in 1 .. Len(s) - 1 : (before \o after)[i] = IF i < p THEN s[i] ELSE s[i + 1]
  <2> SUFFICES ASSUME NEW i \in 1 .. Len(s) - 1
               PROVE  (before \o after)[i] = IF i < p THEN s[i] ELSE s[i + 1]
    OBVIOUS
  <2>1. CASE i < p
    BY <1>1, <1>2, <1>4, <2>1
  <2>2. CASE i >= p
    <3>1. (before \o after)[i] = after[i - (p - 1)]
      BY <1>1, <1>4, <2>2
    <3>2. i - (p - 1) \in 1 .. Len(s) - p /\ p + (i - (p - 1)) = i + 1
      BY <1>1, <2>2
    <3>3. QED
      BY <1>1, <1>3, <2>2, <3>1, <3>2
  <2>3. i < p \/ i >= p
    BY <1>1
  <2>4. QED
    BY <2>1, <2>2, <2>3
<1>6. RemoveAt(s, p) = before \o after
  BY DEF RemoveAt, before, after
<1>7. QED
  BY <1>4, <1>5, <1>6

(* Taking one entry out. *)
LEMMA RemoveAtElements ==
  ASSUME NEW s \in Seq(Entry), Distinct(s), NEW p \in 1 .. Len(s)
  PROVE  /\ Distinct(RemoveAt(s, p))
         /\ Elements(RemoveAt(s, p)) = {e \in Elements(s) : e.key # s[p].key}
<1> DEFINE r == RemoveAt(s, p)
<1>1. /\ Len(s) \in Nat /\ Len(r) = Len(s) - 1
      /\ \A i \in 1 .. Len(r) : r[i] = IF i < p THEN s[i] ELSE s[i + 1]
  BY RemoveAtProperties, LenProperties
<1> HIDE DEF r
<1>2. Distinct(r)
  BY <1>1 DEF Distinct
<1>3. ASSUME NEW e \in Elements(r) PROVE e \in Elements(s) /\ e.key # s[p].key
  <2>1. PICK i \in 1 .. Len(r) : e = r[i]
    BY <1>3 DEF Elements
  <2>2. PICK j \in 1 .. Len(s) : j # p /\ e = s[j]
    BY <1>1, <2>1
  <2>3. QED
    BY <2>2 DEF Elements, Distinct
<1>4. ASSUME NEW e \in Elements(s), e.key # s[p].key PROVE e \in Elements(r)
  <2>1. PICK j \in 1 .. Len(s) : e = s[j] /\ j # p
    BY <1>4 DEF Elements
  <2>2. PICK i \in 1 .. Len(r) : e = r[i]
    <3>1. CASE j < p
      BY <1>1, <2>1, <3>1
    <3>2. CASE j > p
      <4>1. j - 1 \in 1 .. Len(r) /\ r[j - 1] = s[j]
        BY <1>1, <2>1, <3>2
      <4>2. QED
        BY <4>1, <2>1
    <3>3. QED
      BY <1>1, <2>1, <3>1, <3>2
  <2>3. QED
    BY <2>2 DEF Elements
<1>5. QED
  BY <1>2, <1>3, <1>4 DEF r

(* Adding one at the end, under a key not yet there. *)
LEMMA AppendElements ==
  ASSUME NEW s \in Seq(Entry), Distinct(s), NEW e \in Entry,
         \A x \in Elements(s) : x.key # e.key
  PROVE  /\ Append(s, e) \in Seq(Entry)
         /\ Distinct(Append(s, e))
         /\ Elements(Append(s, e)) = Elements(s) \cup {e}
<1> DEFINE t == Append(s, e)
<1>1. /\ t \in Seq(Entry) /\ Len(s) \in Nat /\ Len(t) = Len(s) + 1
      /\ \A i \in 1 .. Len(s) : t[i] = s[i]
      /\ t[Len(t)] = e
  BY AppendProperties, LenProperties
<1> HIDE DEF t
<1>2. \A i \in 1 .. Len(t) : i \in 1 .. Len(s) \/ i = Len(t)
  BY <1>1
<1>3. \A i \in 1 .. Len(s) : s[i].key # e.key
  BY DEF Elements
<1>4. Distinct(t)
  BY <1>1, <1>2, <1>3 DEF Distinct
<1>5. Elements(t) \subseteq Elements(s) \cup {e}
  BY <1>1, <1>2 DEF Elements
<1>6. 1 .. Len(s) \subseteq 1 .. Len(t) /\ Len(t) \in 1 .. Len(t)
  BY <1>1
<1>7. Elements(s) \cup {e} \subseteq Elements(t)
  BY <1>1, <1>6 DEF Elements
<1>8. QED
  BY <1>1, <1>4, <1>5, <1>7 DEF t

(* Evicting the oldest. *)
LEMMA TailElements ==
  ASSUME NEW s \in Seq(Entry), Distinct(s), s # <<>>
  PROVE  /\ Tail(s) \in Seq(Entry)
         /\ Distinct(Tail(s))
         /\ Len(Tail(s)) = Len(s) - 1
         /\ Elements(Tail(s)) = {e \in Elements(s) : e.key # s[1].key}
<1> DEFINE t == Tail(s)
<1>1. /\ t \in Seq(Entry) /\ Len(s) \in Nat \ {0} /\ Len(t) = Len(s) - 1
      /\ \A i \in 1 .. Len(t) : t[i] = s[i + 1]
  BY HeadTailProperties, EmptySeq, LenProperties
<1> HIDE DEF t
<1>2. Distinct(t)
  BY <1>1 DEF Distinct
<1>3. ASSUME NEW e \in Elements(t) PROVE e \in Elements(s) /\ e.key # s[1].key
  <2>1. PICK i \in 1 .. Len(t) : e = t[i]
    BY <1>3 DEF Elements
  <2>2. i + 1 \in 1 .. Len(s) /\ i + 1 # 1 /\ 1 \in 1 .. Len(s) /\ e = s[i + 1]
    BY <1>1, <2>1
  <2>3. QED
    BY <2>2 DEF Elements, Distinct
<1>4. ASSUME NEW e \in Elements(s), e.key # s[1].key PROVE e \in Elements(t)
  <2>1. PICK j \in 1 .. Len(s) : e = s[j] /\ j # 1
    BY <1>4 DEF Elements
  <2>2. j - 1 \in 1 .. Len(t) /\ t[j - 1] = e
    BY <1>1, <2>1
  <2>3. QED
    BY <2>2 DEF Elements
<1>5. QED
  BY <1>1, <1>2, <1>3, <1>4 DEF t

(* Where the entry of a key is. *)
LEMMA HeldPlace ==
  ASSUME TypeOK, NEW k, Holds(k)
  PROVE  /\ Place(k) \in 1 .. Len(entries)
         /\ Held(k) = entries[Place(k)] /\ Held(k).key = k
         /\ Held(k) \in Entry /\ Held(k) \in Elements(entries)
<1>1. Place(k) \in 1 .. Len(entries) /\ entries[Place(k)].key = k
  BY DEF Holds, Place
<1>2. entries[Place(k)] \in Entry
  BY <1>1, ElementOfSeq DEF TypeOK
<1>3. QED
  BY <1>1, <1>2 DEF Held, Elements

LEMMA HoldsElement ==
  ASSUME NEW k
  PROVE  Holds(k) <=> \E e \in Elements(entries) : e.key = k
  BY DEF Holds, Elements

(* pop(key, None). *)
LEMMA WithoutElements ==
  ASSUME TypeOK, Distinct(entries), NEW k
  PROVE  /\ Without(k) \in Seq(Entry)
         /\ Distinct(Without(k))
         /\ Elements(Without(k)) = {e \in Elements(entries) : e.key # k}
         /\ Len(Without(k)) = IF Holds(k) THEN Len(entries) - 1 ELSE Len(entries)
<1>1. entries \in Seq(Entry)
  BY DEF TypeOK
<1>2. CASE Holds(k)
  <2> DEFINE p == Place(k)
  <2>1. p \in 1 .. Len(entries) /\ entries[p].key = k
    BY <1>2, HeldPlace
  <2>2. Without(k) = RemoveAt(entries, p)
    BY <1>2 DEF Without
  <2> HIDE DEF p
  <2>3. RemoveAt(entries, p) \in Seq(Entry) /\ Len(RemoveAt(entries, p)) = Len(entries) - 1
    BY <1>1, <2>1, RemoveAtProperties
  <2>4. /\ Distinct(RemoveAt(entries, p))
        /\ Elements(RemoveAt(entries, p)) = {e \in Elements(entries) : e.key # k}
    BY <1>1, <2>1, RemoveAtElements
  <2>5. QED
    BY <1>2, <2>2, <2>3, <2>4
<1>3. CASE ~Holds(k)
  BY <1>1, <1>3, HoldsElement DEF Without
<1>4. QED
  BY <1>2, <1>3

(* An insertion, an overwrite or a use: the entry ends up newest. *)
LEMMA WithNewestElements ==
  ASSUME TypeOK, Distinct(entries), NEW e \in Entry
  PROVE  /\ WithNewest(e) \in Seq(Entry)
         /\ Distinct(WithNewest(e))
         /\ Elements(WithNewest(e)) = {x \in Elements(entries) : x.key # e.key} \cup {e}
         /\ Len(WithNewest(e)) = IF Holds(e.key) THEN Len(entries) ELSE Len(entries) + 1
<1> DEFINE w == Without(e.key)
<1>1. /\ w \in Seq(Entry) /\ Distinct(w)
      /\ Elements(w) = {x \in Elements(entries) : x.key # e.key}
      /\ Len(w) = IF Holds(e.key) THEN Len(entries) - 1 ELSE Len(entries)
  BY WithoutElements
<1>2. Len(entries) \in Nat
  BY LenProperties DEF TypeOK
<1>3. WithNewest(e) = Append(w, e)
  BY DEF WithNewest
<1> HIDE DEF w
<1>4. \A x \in Elements(w) : x.key # e.key
  BY <1>1
<1>5. /\ Append(w, e) \in Seq(Entry) /\ Distinct(Append(w, e))
      /\ Elements(Append(w, e)) = Elements(w) \cup {e}
  BY <1>1, <1>4, AppendElements
<1>6. Len(Append(w, e)) = Len(w) + 1
  BY <1>1, AppendProperties
<1>7. QED
  BY <1>1, <1>2, <1>3, <1>5, <1>6

-----------------------------------------------------------------------------
(* The invariant. *)

IInv ==
  /\ TypeOK
  /\ Distinct(entries)
  /\ MaxSize # NoBound => Len(entries) <= MaxSize
  /\ EveryEntryAccountedFor

LEMMA InitIInv == Init => IInv
<1> SUFFICES ASSUME Init PROVE IInv
  OBVIOUS
<1>1. entries = <<>> /\ Len(entries) = 0
  BY DEF Init
<1>2. TypeOK
  BY <1>1, EmptySeq DEF Init, TypeOK, Call
<1>3. Distinct(entries) /\ EveryEntryAccountedFor
  BY <1>1 DEF Init, Distinct, Counters, EveryEntryAccountedFor
<1>4. MaxSize # NoBound => Len(entries) <= MaxSize
  BY <1>1, SizeAssumption
<1>5. QED
  BY <1>2, <1>3, <1>4 DEF IInv

(* The fields of a call under way. *)
LEMMA CallFields ==
  ASSUME TypeOK, NEW t \in Threads
  PROVE  /\ op[t].name = "get" => op[t].key \in Keys /\ op[t].now \in Nat
         /\ op[t].name = "set" => /\ op[t].key \in Keys /\ op[t].value \in Values
                                  /\ op[t].ttl \in Expiries /\ op[t].now \in Nat
  BY DEF TypeOK, Call, Idle

LEMMA WrittenType ==
  ASSUME TypeOK, NEW t \in Threads, op[t].name = "set"
  PROVE  Written(op[t]) \in Entry /\ Written(op[t]).key = op[t].key
  BY CallFields, TtlAssumption DEF Written, Entry, Expiries, ExpiryOf

LEMMA LeaveType ==
  ASSUME TypeOK, NEW t \in Threads, Leave(t)
  PROVE  op' \in [Threads -> Call]
  BY DEF TypeOK, Leave, Call

LEMMA CountType ==
  ASSUME TypeOK, NEW what, Count(what)
  PROVE  count' \in [Counters -> Nat]
  BY DEF TypeOK, Count

(* The two counters the accounting reads. *)
LEMMA Tallies ==
  /\ TypeOK => count["evictions"] \in Nat /\ count["expiries"] \in Nat
  /\ \A what : Count(what) =>
       /\ count'["evictions"] =
            IF "evictions" \in what THEN count["evictions"] + 1 ELSE count["evictions"]
       /\ count'["expiries"] =
            IF "expiries" \in what THEN count["expiries"] + 1 ELSE count["expiries"]
  BY DEF TypeOK, Count, Counters

(* What Drop needs to know of what it leaves. *)
LEMMA DropIInv ==
  ASSUME IInv, NEW t \in Threads, NEW left \in Seq(Entry),
         Distinct(left), Len(left) <= Len(entries), Drop(t, left)
  PROVE  IInv'
<1>1. Len(left) \in Nat /\ Len(entries) \in Nat
  BY LenProperties DEF IInv, TypeOK
<1>2. Len(entries) - Len(left) \in Nat
  BY <1>1
<1>3. TypeOK'
  BY <1>2 DEF IInv, TypeOK, Drop
<1>4. EveryEntryAccountedFor'
  <2>1. /\ added = Len(entries) + count["evictions"] + count["expiries"] + dropped
        /\ added \in Nat /\ dropped \in Nat
        /\ count["evictions"] \in Nat /\ count["expiries"] \in Nat
    BY Tallies DEF IInv, TypeOK, EveryEntryAccountedFor
  <2>2. QED
    BY <1>1, <2>1 DEF EveryEntryAccountedFor, Drop
<1>5. (MaxSize # NoBound => Len(entries) <= MaxSize)'
  BY <1>1, SizeAssumption DEF IInv, Drop
<1>6. QED
  BY <1>3, <1>4, <1>5 DEF IInv, Drop

LEMMA NextIInv == IInv /\ [Next]_vars => IInv'
<1> SUFFICES ASSUME IInv, [Next]_vars PROVE IInv'
  OBVIOUS
<1>0. TypeOK /\ Distinct(entries) /\ Len(entries) \in Nat
  BY LenProperties DEF IInv, TypeOK
<1>a. /\ added = Len(entries) + count["evictions"] + count["expiries"] + dropped
      /\ added \in Nat /\ dropped \in Nat
      /\ count["evictions"] \in Nat /\ count["expiries"] \in Nat
  BY Tallies DEF IInv, TypeOK, EveryEntryAccountedFor
<1>1. CASE Tick
  BY <1>1 DEF Tick, IInv, TypeOK, EveryEntryAccountedFor
<1>2. ASSUME NEW t \in Threads, NEW call \in Call, Enter(t, call) PROVE IInv'
  <2>1. TypeOK'
    BY <1>2 DEF Enter, IInv, TypeOK
  <2>2. QED
    BY <1>2, <2>1 DEF Enter, IInv, TypeOK, EveryEntryAccountedFor
<1>3. ASSUME NEW t \in Threads, GetMiss(t) PROVE IInv'
  <2>1. TypeOK'
    BY <1>3, LeaveType, CountType DEF GetMiss, IInv, TypeOK
  <2>2. EveryEntryAccountedFor'
    <3>1. /\ count'["evictions"] = count["evictions"]
          /\ count'["expiries"] = count["expiries"]
      BY <1>3, Tallies DEF GetMiss
    <3>2. entries' = entries /\ added' = added /\ dropped' = dropped
      BY <1>3 DEF GetMiss
    <3>3. QED
      BY <3>1, <3>2, <1>a DEF EveryEntryAccountedFor
  <2>3. QED
    BY <1>3, <2>1, <2>2 DEF GetMiss, IInv
<1>4. ASSUME NEW t \in Threads, GetExpired(t) PROVE IInv'
  <2> DEFINE w == Without(op[t].key)
  <2>1. w \in Seq(Entry) /\ Distinct(w) /\ Len(w) = Len(entries) - 1
    BY <1>0, <1>4, WithoutElements DEF GetExpired
  <2>2. entries' = w
    BY <1>4 DEF GetExpired
  <2> HIDE DEF w
  <2>3. TypeOK'
    BY <1>4, <2>1, <2>2, LeaveType, CountType DEF GetExpired, IInv, TypeOK
  <2>4. EveryEntryAccountedFor'
    <3>1. /\ count'["evictions"] = count["evictions"]
          /\ count'["expiries"] = count["expiries"] + 1
          /\ added' = added /\ dropped' = dropped
      BY <1>4, Tallies DEF GetExpired
    <3>2. Len(entries') = Len(entries) - 1
      BY <2>1, <2>2
    <3>3. added = (Len(entries) - 1) + count["evictions"] + (count["expiries"] + 1) + dropped
      BY <1>0, <1>a
    <3>4. QED
      BY <3>1, <3>2, <3>3 DEF EveryEntryAccountedFor
  <2>5. (MaxSize # NoBound => Len(entries) <= MaxSize)'
    BY <1>0, <2>1, <2>2, SizeAssumption DEF IInv
  <2>6. QED
    BY <2>1, <2>2, <2>3, <2>4, <2>5 DEF IInv
<1>5. ASSUME NEW t \in Threads, GetHit(t) PROVE IInv'
  <2> DEFINE e == Held(op[t].key)
             w == WithNewest(e)
  <2>1. e \in Entry /\ e.key = op[t].key /\ op[t].key \in Keys
    BY <1>0, <1>5, HeldPlace, CallFields DEF GetHit
  <2>2. w \in Seq(Entry) /\ Distinct(w) /\ Len(w) = Len(entries)
    BY <1>0, <1>5, <2>1, WithNewestElements DEF GetHit
  <2>3. entries' = w /\ got' = [got EXCEPT ![t] = Returned(e)]
    BY <1>5 DEF GetHit
  <2> HIDE DEF e, w
  <2>4. Returned(e) \in Values
    BY <2>1 DEF Returned, Entry
  <2>5. since' \in [Keys -> SUBSET Keys]
    BY <1>5, <2>1 DEF GetHit, Used, IInv, TypeOK
  <2>6. TypeOK'
    BY <1>5, <2>2, <2>3, <2>4, <2>5, LeaveType, CountType DEF GetHit, IInv, TypeOK
  <2>7. EveryEntryAccountedFor'
    <3>1. /\ count'["evictions"] = count["evictions"]
          /\ count'["expiries"] = count["expiries"]
      BY <1>5, Tallies DEF GetHit
    <3>2. Len(entries') = Len(entries) /\ added' = added /\ dropped' = dropped
      BY <1>5, <2>2, <2>3 DEF GetHit
    <3>3. QED
      BY <3>1, <3>2, <1>a DEF EveryEntryAccountedFor
  <2>8. QED
    BY <2>2, <2>3, <2>6, <2>7 DEF IInv
<1>6. ASSUME NEW t \in Threads, Set(t) PROVE IInv'
  <2> DEFINE e == Written(op[t])
             w == WithNewest(e)
  <2>1. e \in Entry /\ e.key = op[t].key /\ op[t].key \in Keys
    BY <1>0, <1>6, WrittenType, CallFields DEF Set
  <2>2. /\ w \in Seq(Entry) /\ Distinct(w)
        /\ Len(w) = IF Holds(op[t].key) THEN Len(entries) ELSE Len(entries) + 1
    BY <1>0, <2>1, WithNewestElements
  <2>3. /\ entries' = IF Overfull(w) THEN Tail(w) ELSE w
        /\ Count(IF Overfull(w) THEN {"evictions"} ELSE {})
        /\ added' = IF Holds(op[t].key) THEN added ELSE added + 1
    BY <1>6 DEF Set
  <2>4. since' \in [Keys -> SUBSET Keys]
    BY <1>6, <2>1 DEF Set, Used, IInv, TypeOK
  <2> HIDE DEF e, w
  <2>5. Overfull(w) => w # <<>> /\ ~Holds(op[t].key) /\ Len(entries) = MaxSize
    BY <1>0, <2>2, SizeAssumption DEF Overfull, IInv
  <2>6. /\ entries' \in Seq(Entry) /\ Distinct(entries')
        /\ Len(entries') = IF Overfull(w) THEN Len(w) - 1 ELSE Len(w)
    BY <2>2, <2>3, <2>5, TailElements
  <2>7. CASE Overfull(w)
    <3>1. TypeOK'
      BY <1>6, <2>3, <2>4, <2>6, <2>7, LeaveType, CountType DEF Set, IInv, TypeOK
    <3>2. EveryEntryAccountedFor'
      <4>1. /\ count'["evictions"] = count["evictions"] + 1
            /\ count'["expiries"] = count["expiries"]
            /\ added' = added + 1 /\ dropped' = dropped
        BY <1>6, <2>3, <2>5, <2>7, Tallies DEF Set
      <4>2. QED
        BY <1>0, <1>a, <2>2, <2>5, <2>6, <2>7, <4>1 DEF EveryEntryAccountedFor
    <3>3. (MaxSize # NoBound => Len(entries) <= MaxSize)'
      BY <1>0, <2>2, <2>5, <2>6, <2>7, SizeAssumption
    <3>4. QED
      BY <2>6, <3>1, <3>2, <3>3 DEF IInv
  <2>8. CASE ~Overfull(w)
    <3>1. TypeOK'
      BY <1>6, <2>3, <2>4, <2>6, <2>8, LeaveType, CountType DEF Set, IInv, TypeOK
    <3>2. EveryEntryAccountedFor'
      <4>1. /\ count'["evictions"] = count["evictions"]
            /\ count'["expiries"] = count["expiries"]
        BY <2>3, <2>8, Tallies
      <4>2. Len(entries') = Len(w) /\ dropped' = dropped
        BY <1>6, <2>6, <2>8 DEF Set
      <4>3. QED
        BY <1>0, <1>a, <2>2, <2>3, <4>1, <4>2 DEF EveryEntryAccountedFor
    <3>3. (MaxSize # NoBound => Len(entries) <= MaxSize)'
      BY <1>0, <2>2, <2>6, <2>8, SizeAssumption DEF Overfull
    <3>4. QED
      BY <2>6, <3>1, <3>2, <3>3 DEF IInv
  <2>9. QED
    BY <2>7, <2>8
<1>7. ASSUME NEW t \in Threads, NEW k \in Keys, Delete(t, k) PROVE IInv'
  <2>1. /\ Without(k) \in Seq(Entry) /\ Distinct(Without(k))
        /\ Len(Without(k)) <= Len(entries)
    BY <1>0, WithoutElements
  <2>2. QED
    BY <1>7, <2>1, DropIInv DEF Delete
<1>8. ASSUME NEW t \in Threads, Clear(t) PROVE IInv'
  <2>1. <<>> \in Seq(Entry) /\ Distinct(<<>>) /\ Len(<<>>) <= Len(entries)
    BY <1>0, EmptySeq DEF Distinct
  <2>2. QED
    BY <1>8, <2>1, DropIInv DEF Clear
<1>9. CASE UNCHANGED vars
  BY <1>9 DEF vars, IInv, TypeOK, EveryEntryAccountedFor
<1>10. ASSUME NEW t \in Threads, NEW k \in Keys, CallGet(t, k) PROVE IInv'
  <2>1. [name |-> "get", key |-> k, now |-> clock] \in Call
    BY <1>0 DEF TypeOK, Call
  <2>2. QED
    BY <1>2, <1>10, <2>1 DEF CallGet
<1>11. ASSUME NEW t \in Threads, NEW k \in Keys, NEW v \in Values,
              NEW ttl \in Ttls \cup {DefaultTtl}, CallSet(t, k, v, ttl)
       PROVE  IInv'
  <2>1. [name |-> "set", key |-> k, value |-> v, ttl |-> ttl, now |-> clock] \in Call
    BY <1>0, TtlAssumption DEF TypeOK, Call, Expiries
  <2>2. QED
    BY <1>2, <1>11, <2>1 DEF CallSet
<1>12. QED
  BY <1>1, <1>3, <1>4, <1>5, <1>6, <1>7, <1>8, <1>9, <1>10, <1>11 DEF Next, Get

LEMMA Invariance == Spec => []IInv
  BY InitIInv, NextIInv, PTL DEF Spec

(* Every variable stays in its set. *)
THEOREM TypeCorrect == Spec => []TypeOK
<1>1. IInv => TypeOK
  BY DEF IInv
<1>2. QED
  BY Invariance, <1>1, PTL

(* Never more than maxsize entries and never two under one key, for any    *)
(* number of threads and any maxsize.                                      *)
THEOREM BoundHolds == Spec => []BoundKept
<1>1. IInv => BoundKept
  BY DEF IInv, Distinct, BoundKept
<1>2. QED
  BY Invariance, <1>1, PTL

(* Each entry ever added is held, or was dropped, and counted, once.       *)
THEOREM Accounted == Spec => []EveryEntryAccountedFor
<1>1. IInv => EveryEntryAccountedFor
  BY DEF IInv
<1>2. QED
  BY Invariance, <1>1, PTL

-----------------------------------------------------------------------------
(* Eviction takes the least recently used entry.  What connects the order of *)
(* the sequence with the history of uses is SinceAgrees: an entry further    *)
(* from the end has seen every entry behind it used since its own last use.  *)

(* a was used less recently than b. *)
Precedes(s, a, b) ==
  \E i, j \in 1 .. Len(s) : i < j /\ s[i].key = a /\ s[j].key = b

SinceAgrees ==
  /\ \A a, b \in Keys : Precedes(entries, a, b) => b \in since[a]
  /\ \A a \in Keys : IsFiniteSet(since[a])

-----------------------------------------------------------------------------

LEMMA PrecedesTail ==
  ASSUME NEW s \in Seq(Entry), s # <<>>, NEW a, NEW b, Precedes(Tail(s), a, b)
  PROVE  Precedes(s, a, b)
<1> DEFINE t == Tail(s)
<1>1. Len(s) \in Nat /\ Len(t) = Len(s) - 1 /\ \A i \in 1 .. Len(t) : t[i] = s[i + 1]
  BY HeadTailProperties, LenProperties
<1>2. PICK i, j \in 1 .. Len(t) : i < j /\ t[i].key = a /\ t[j].key = b
  BY DEF Precedes
<1> HIDE DEF t
<1>3. i + 1 \in 1 .. Len(s) /\ j + 1 \in 1 .. Len(s) /\ i + 1 < j + 1
  BY <1>1, <1>2
<1>4. s[i + 1].key = a /\ s[j + 1].key = b
  BY <1>1, <1>2
<1>5. QED
  BY <1>3, <1>4 DEF Precedes

LEMMA PrecedesWithout ==
  ASSUME TypeOK, NEW k, NEW a, NEW b, Precedes(Without(k), a, b)
  PROVE  Precedes(entries, a, b)
<1>1. CASE ~Holds(k)
  BY <1>1 DEF Without
<1>2. CASE Holds(k)
  <2> DEFINE p == Place(k)
             r == RemoveAt(entries, p)
  <2>1. p \in 1 .. Len(entries)
    BY <1>2, HeldPlace
  <2>2. /\ Len(entries) \in Nat /\ Len(r) = Len(entries) - 1
        /\ \A i \in 1 .. Len(entries) - 1 : r[i] = IF i < p THEN entries[i] ELSE entries[i + 1]
    BY <2>1, RemoveAtProperties, LenProperties DEF TypeOK
  <2>3. Without(k) = r
    BY <1>2 DEF Without
  <2> HIDE DEF p, r
  <2>4. PICK i, j \in 1 .. Len(r) : i < j /\ r[i].key = a /\ r[j].key = b
    BY <2>3 DEF Precedes
  <2>5. PICK x \in 1 .. Len(entries) : r[i] = entries[x] /\ x = IF i < p THEN i ELSE i + 1
    BY <2>1, <2>2, <2>4
  <2>6. PICK y \in 1 .. Len(entries) : r[j] = entries[y] /\ y = IF j < p THEN j ELSE j + 1
    BY <2>1, <2>2, <2>4
  <2>7. x < y
    BY <2>1, <2>2, <2>4, <2>5, <2>6
  <2>8. QED
    BY <2>4, <2>5, <2>6, <2>7 DEF Precedes
<1>3. QED
  BY <1>1, <1>2

LEMMA PrecedesWithNewest ==
  ASSUME TypeOK, Distinct(entries), NEW e \in Entry, NEW a, NEW b,
         Precedes(WithNewest(e), a, b)
  PROVE  Holds(a) /\ a # e.key /\ (b = e.key \/ Precedes(entries, a, b))
<1> DEFINE w == Without(e.key)
           v == Append(w, e)
<1>1. w \in Seq(Entry) /\ Elements(w) = {x \in Elements(entries) : x.key # e.key}
  BY WithoutElements
<1>2. /\ Len(w) \in Nat /\ Len(v) = Len(w) + 1
      /\ \A i \in 1 .. Len(w) : v[i] = w[i]
      /\ v[Len(w) + 1] = e
  BY <1>1, AppendProperties, LenProperties
<1>3. WithNewest(e) = v /\ (Precedes(w, a, b) => Precedes(entries, a, b))
  BY PrecedesWithout DEF WithNewest
<1> HIDE DEF w, v
<1>4. PICK i, j \in 1 .. Len(v) : i < j /\ v[i].key = a /\ v[j].key = b
  BY <1>3 DEF Precedes
<1>5. i \in 1 .. Len(w) /\ w[i].key = a
  BY <1>2, <1>4
<1>6. Holds(a) /\ a # e.key
  BY <1>1, <1>5, HoldsElement DEF Elements
<1>7. CASE j = Len(w) + 1
  BY <1>2, <1>4, <1>6, <1>7
<1>8. CASE j # Len(w) + 1
  <2>1. j \in 1 .. Len(w) /\ w[j].key = b
    BY <1>2, <1>4, <1>8
  <2>2. Precedes(w, a, b)
    BY <1>4, <1>5, <2>1 DEF Precedes
  <2>3. QED
    BY <1>3, <1>6, <2>2
<1>9. QED
  BY <1>7, <1>8

(* Both `get` and `set` put an entry at the end and mark its key used. *)
LEMMA UsedAgrees ==
  ASSUME IInv, SinceAgrees, NEW e \in Entry, Used(e.key)
  PROVE  /\ \A a, b \in Keys : Precedes(WithNewest(e), a, b) => b \in since'[a]
         /\ \A a \in Keys : IsFiniteSet(since'[a])
<1>1. TypeOK /\ Distinct(entries) /\ since \in [Keys -> SUBSET Keys]
  BY DEF IInv, TypeOK
<1>2. \A x \in Keys : since'[x] = IF Holds(x) /\ x # e.key THEN since[x] \cup {e.key} ELSE {}
  BY DEF Used
<1>3. ASSUME NEW a \in Keys, NEW b \in Keys, Precedes(WithNewest(e), a, b)
      PROVE  b \in since'[a]
  <2>1. Holds(a) /\ a # e.key /\ (b = e.key \/ Precedes(entries, a, b))
    BY <1>1, <1>3, PrecedesWithNewest
  <2>2. QED
    BY <1>2, <2>1 DEF SinceAgrees
<1>4. ASSUME NEW a \in Keys PROVE IsFiniteSet(since'[a])
  <2>1. IsFiniteSet(since[a])
    BY DEF SinceAgrees
  <2>2. IsFiniteSet(since[a] \cup {e.key}) /\ IsFiniteSet({})
    BY <2>1, FS_AddElement, FS_EmptySet
  <2>3. QED
    BY <1>2, <2>2
<1>5. QED
  BY <1>3, <1>4

(* What a `set` leaves, and what it evicts. *)
LEMMA SetEvicts ==
  ASSUME IInv, SinceAgrees, NEW t \in Threads, Set(t)
  PROVE  /\ SinceAgrees'
         /\ \A k \in Keys :
              /\ count'["evictions"] > count["evictions"]
              /\ Holds(k)
              /\ ~Holds(k)'
              => Cardinality(since'[k]) >= MaxSize
<1>0. TypeOK /\ Distinct(entries) /\ Len(entries) \in Nat
  BY LenProperties DEF IInv, TypeOK
<1> DEFINE n == Written(op[t])
           w == WithNewest(n)
<1>1. n \in Entry /\ n.key = op[t].key
  BY <1>0, WrittenType DEF Set
<1>2. /\ w \in Seq(Entry) /\ Distinct(w)
      /\ Elements(w) = {e \in Elements(entries) : e.key # n.key} \cup {n}
      /\ Len(w) = IF Holds(n.key) THEN Len(entries) ELSE Len(entries) + 1
  BY <1>0, <1>1, WithNewestElements
<1>3. /\ \A a, b \in Keys : Precedes(w, a, b) => b \in since'[a]
      /\ \A a \in Keys : IsFiniteSet(since'[a])
  BY <1>1, UsedAgrees DEF Set
<1>4. /\ entries' = IF Overfull(w) THEN Tail(w) ELSE w
      /\ Count(IF Overfull(w) THEN {"evictions"} ELSE {})
  BY DEF Set
<1> HIDE DEF n, w
<1>5. Overfull(w) => w # <<>> /\ Len(w) = MaxSize + 1 /\ MaxSize \in Nat \ {0}
  BY <1>0, <1>2, SizeAssumption DEF IInv, Overfull
<1>6. SinceAgrees'
  BY <1>2, <1>3, <1>4, <1>5, PrecedesTail DEF SinceAgrees
<1>7. ASSUME NEW k \in Keys, count'["evictions"] > count["evictions"], Holds(k), ~Holds(k)'
      PROVE  Cardinality(since'[k]) >= MaxSize
  <2>1. Overfull(w)
    BY <1>0, <1>4, <1>7, Tallies
  <2>2. entries' = Tail(w) /\ w # <<>> /\ Len(w) = MaxSize + 1 /\ MaxSize \in Nat \ {0}
    BY <1>4, <1>5, <2>1
  <2>3. Elements(entries') = {e \in Elements(w) : e.key # w[1].key}
    BY <1>2, <2>2, TailElements
  <2>4. \A e \in Elements(entries') : e.key # k
    BY <1>7 DEF Holds, Elements
  <2>5. \E e \in Elements(w) : e.key = k
    BY <1>2, <1>7, HoldsElement
  <2>6. w[1].key = k
    BY <2>3, <2>4, <2>5
  <2>7. \A i \in 1 .. MaxSize : w[i + 1].key \in Keys /\ Precedes(w, k, w[i + 1].key)
    <3>1. ASSUME NEW i \in 1 .. MaxSize
          PROVE  w[i + 1].key \in Keys /\ Precedes(w, k, w[i + 1].key)
      <4>1. 1 \in 1 .. Len(w) /\ i + 1 \in 1 .. Len(w) /\ 1 < i + 1
        BY <2>2
      <4>2. w[i + 1] \in Entry
        BY <1>2, <4>1, ElementOfSeq
      <4>3. QED
        BY <2>6, <4>1, <4>2 DEF Precedes, Entry
    <3>2. QED
      BY <3>1
  <2> DEFINE f == [i \in 1 .. MaxSize |-> w[i + 1].key]
  <2>8. f \in [1 .. MaxSize -> since'[k]]
    BY <1>3, <2>7
  <2>9. \A i, j \in 1 .. MaxSize : f[i] = f[j] => i = j
    <3>1. \A i \in 1 .. MaxSize : i \in Int /\ i + 1 \in 1 .. Len(w)
      BY <2>2
    <3>2. QED
      BY <1>2, <3>1 DEF Distinct
  <2>10. f \in Injection(1 .. MaxSize, since'[k])
    BY <2>8, <2>9 DEF Injection, IsInjective
  <2>11. /\ IsFiniteSet(since'[k]) /\ IsFiniteSet(1 .. MaxSize)
         /\ Cardinality(1 .. MaxSize) = MaxSize
    <3>1. MaxSize \in Int /\ MaxSize >= 1
      BY <2>2
    <3>2. IsFiniteSet(1 .. MaxSize) /\ Cardinality(1 .. MaxSize) = MaxSize - 1 + 1
      BY <3>1, FS_Interval
    <3>3. QED
      BY <1>3, <3>1, <3>2
  <2> HIDE DEF f
  <2>12. Cardinality(1 .. MaxSize) <= Cardinality(since'[k])
    BY <2>10, <2>11, FS_Injection
  <2>13. Cardinality(since'[k]) \in Nat
    BY <2>11, FS_CardinalityType
  <2>14. QED
    BY <2>2, <2>11, <2>12, <2>13
<1>8. QED
  BY <1>6, <1>7

-----------------------------------------------------------------------------

(* What no step but an eviction may do. *)
NoEviction == count'["evictions"] <= count["evictions"]

LEMMA InitSince == Init => SinceAgrees
  BY FS_EmptySet DEF Init, SinceAgrees, Precedes

LEMMA OtherSteps ==
  ASSUME IInv, SinceAgrees, [Next]_vars, \A t \in Threads : ~Set(t)
  PROVE  SinceAgrees' /\ NoEviction
<1>0. TypeOK /\ Distinct(entries) /\ count["evictions"] \in Nat
  BY Tallies DEF IInv, TypeOK
<1>1. CASE UNCHANGED <<entries, since, count>>
  BY <1>0, <1>1 DEF SinceAgrees, NoEviction
<1>2. ASSUME NEW t \in Threads, GetMiss(t) PROVE SinceAgrees' /\ NoEviction
  BY <1>0, <1>2, Tallies DEF GetMiss, SinceAgrees, NoEviction
<1>3. ASSUME NEW t \in Threads, GetExpired(t) PROVE SinceAgrees' /\ NoEviction
  <2>1. SinceAgrees'
    BY <1>0, <1>3, PrecedesWithout DEF GetExpired, SinceAgrees
  <2>2. NoEviction
    BY <1>0, <1>3, Tallies DEF GetExpired, NoEviction
  <2>3. QED
    BY <2>1, <2>2
<1>4. ASSUME NEW t \in Threads, GetHit(t) PROVE SinceAgrees' /\ NoEviction
  <2>1. Held(op[t].key) \in Entry /\ Held(op[t].key).key = op[t].key
    BY <1>0, <1>4, HeldPlace DEF GetHit
  <2>2. entries' = WithNewest(Held(op[t].key)) /\ Used(Held(op[t].key).key)
    BY <1>4, <2>1 DEF GetHit
  <2>3. SinceAgrees'
    BY <2>1, <2>2, UsedAgrees DEF SinceAgrees
  <2>4. NoEviction
    BY <1>0, <1>4, Tallies DEF GetHit, NoEviction
  <2>5. QED
    BY <2>3, <2>4
<1>5. ASSUME NEW t \in Threads, NEW k \in Keys, Delete(t, k) PROVE SinceAgrees' /\ NoEviction
  BY <1>0, <1>5, PrecedesWithout DEF Delete, Drop, SinceAgrees, NoEviction
<1>6. ASSUME NEW t \in Threads, Clear(t) PROVE SinceAgrees' /\ NoEviction
  BY <1>0, <1>6 DEF Clear, Drop, SinceAgrees, NoEviction, Precedes
<1>7. QED
  BY <1>1, <1>2, <1>3, <1>4, <1>5, <1>6
     DEF Next, vars, Tick, CallGet, CallSet, Enter, Get

(* move_to_end does what it is for: a key is evicted only after maxsize    *)
(* other keys were used since its own last use.                            *)
THEOREM LeastRecentlyUsed == Spec => WorkingSetSurvives
<1> DEFINE A == \A k \in Keys :
                  /\ count'["evictions"] > count["evictions"]
                  /\ Holds(k)
                  /\ ~Holds(k)'
                  => Cardinality(since'[k]) >= MaxSize
<1>1. IInv /\ SinceAgrees /\ [Next]_vars => SinceAgrees' /\ A
  <2> SUFFICES ASSUME IInv, SinceAgrees, [Next]_vars PROVE SinceAgrees' /\ A
    OBVIOUS
  <2>1. CASE \E t \in Threads : Set(t)
    BY <2>1, SetEvicts
  <2>2. CASE \A t \in Threads : ~Set(t)
    <3>1. count["evictions"] \in Nat /\ count'["evictions"] \in Nat
      BY NextIInv, Tallies DEF IInv, TypeOK, Counters
    <3>2. SinceAgrees' /\ ~(count'["evictions"] > count["evictions"])
      BY <2>2, <3>1, OtherSteps DEF NoEviction
    <3>3. QED
      BY <3>2
  <2>3. QED
    BY <2>1, <2>2
<1>2. IInv /\ SinceAgrees /\ [Next]_vars => [A]_vars
  BY <1>1
<1>3. QED
  BY InitSince, Invariance, <1>1, <1>2, PTL DEF Spec, WorkingSetSurvives

-----------------------------------------------------------------------------
(* MemoryCache implements CachePort.  The port sees a function from keys to  *)
(* values; two sequences of distinct entries with the same set of entries    *)
(* are the same function, so each step of the cache is read off what it does *)
(* to that set.                                                              *)

(* What the port sees of a sequence of entries. *)
Seen(s) ==
  [k \in Keys |-> IF \E i \in 1 .. Len(s) : s[i].key = k
                  THEN s[CHOOSE i \in 1 .. Len(s) : s[i].key = k].value
                  ELSE Absent]

LEMMA SeenIsFunction == \A s : Seen(s) = [k \in Keys |-> Seen(s)[k]]
  BY DEF Seen

LEMMA SeenAtKey ==
  ASSUME NEW s \in Seq(Entry), Distinct(s), NEW k \in Keys
  PROVE  /\ \A e \in Elements(s) : e.key = k => Seen(s)[k] = e.value
         /\ (\A e \in Elements(s) : e.key # k) => Seen(s)[k] = Absent
<1>1. ASSUME NEW i \in 1 .. Len(s), s[i].key = k
      PROVE  (CHOOSE j \in 1 .. Len(s) : s[j].key = k) = i
  BY <1>1 DEF Distinct
<1>2. QED
  BY <1>1 DEF Seen, Elements

LEMMA ElementsAreEntries ==
  ASSUME NEW s \in Seq(Entry)
  PROVE  Elements(s) \subseteq Entry
  BY ElementOfSeq DEF Elements

(* Taking out the entries of the keys in ks. *)
LEMMA SeenForgetting ==
  ASSUME NEW s \in Seq(Entry), Distinct(s), NEW t \in Seq(Entry), Distinct(t), NEW ks,
         Elements(t) = {e \in Elements(s) : e.key \notin ks}
  PROVE  Seen(t) = [k \in Keys |-> IF k \in ks THEN Absent ELSE Seen(s)[k]]
<1> SUFFICES ASSUME NEW k \in Keys
             PROVE  Seen(t)[k] = IF k \in ks THEN Absent ELSE Seen(s)[k]
  BY DEF Seen
<1>1. CASE \E e \in Elements(t) : e.key = k
  BY <1>1, SeenAtKey
<1>2. CASE \A e \in Elements(t) : e.key # k
  BY <1>2, SeenAtKey
<1>3. QED
  BY <1>1, <1>2

(* The same, and n in place of whatever its key held. *)
LEMMA SeenStoring ==
  ASSUME NEW s \in Seq(Entry), Distinct(s), NEW t \in Seq(Entry), Distinct(t),
         NEW ks, NEW n \in Entry, n.key \notin ks,
         Elements(t) = {e \in Elements(s) : e.key \notin ks /\ e.key # n.key} \cup {n}
  PROVE  Seen(t) = [[k \in Keys |-> IF k \in ks THEN Absent ELSE Seen(s)[k]]
                      EXCEPT ![n.key] = n.value]
<1>1. n.key \in Keys
  BY DEF Entry
<1> SUFFICES ASSUME NEW k \in Keys
             PROVE  Seen(t)[k] = IF k = n.key THEN n.value
                                 ELSE IF k \in ks THEN Absent ELSE Seen(s)[k]
  BY <1>1 DEF Seen
<1>2. CASE k = n.key
  BY <1>2, SeenAtKey
<1>3. CASE k # n.key /\ \E e \in Elements(t) : e.key = k
  BY <1>3, SeenAtKey
<1>4. CASE k # n.key /\ \A e \in Elements(t) : e.key # k
  BY <1>4, SeenAtKey
<1>5. QED
  BY <1>2, <1>3, <1>4

-----------------------------------------------------------------------------

(* The refinement mapping, spelled with Seen. *)
stored == [k \in Keys |-> IF Holds(k) THEN Held(k).value ELSE Absent]
asked == [t \in Threads |-> Asked(op[t])]

LEMMA StoredIsSeen == stored = Seen(entries) /\ stored' = Seen(entries')
  BY DEF stored, Seen, Holds, Held, Place

LEMMA InitRefines == Init => Port!Init
<1> SUFFICES ASSUME Init PROVE Port!Init
  OBVIOUS
<1>1. \A k \in Keys : ~Holds(k)
  BY DEF Init, Holds
<1>2. QED
  BY <1>1 DEF Init, Idle, Asked, Port!Init, Port!Idle

LEMMA NextRefines ==
  ASSUME IInv, IInv', [Next]_vars
  PROVE  [Port!Next]_(Port!vars)
<1>0. /\ TypeOK /\ Distinct(entries) /\ entries \in Seq(Entry)
      /\ TypeOK' /\ Distinct(entries') /\ entries' \in Seq(Entry)
  BY DEF IInv, TypeOK
<1> USE DEF Port!vars
<1>1. CASE UNCHANGED <<entries, op, got>>
  <2>1. UNCHANGED <<stored, asked, got>>
    BY <1>1, StoredIsSeen DEF asked
  <2>2. QED
    BY <2>1 DEF stored, asked
<1>2. ASSUME NEW t \in Threads, NEW call \in Call, call # Idle, Enter(t, call) PROVE Port!Next
  <2>1. stored' = stored
    BY <1>2, StoredIsSeen DEF Enter
  <2>2. asked[t] = Port!Idle /\ asked' = [asked EXCEPT ![t] = Asked(call)]
    <3>1. op[t] = Idle /\ op' = [op EXCEPT ![t] = call] /\ op \in [Threads -> Call]
      BY <1>0, <1>2 DEF Enter, TypeOK
    <3>2. Asked(Idle) = Port!Idle
      BY DEF Asked, Idle, Port!Idle
    <3>3. \A x \in Threads : op'[x] = IF x = t THEN call ELSE op[x]
      BY <3>1
    <3>4. QED
      BY <3>1, <3>2, <3>3 DEF asked
  <2>3. got' = [got EXCEPT ![t] = Absent]
    BY <1>2 DEF Enter
  <2>4. Port!Call(t, Asked(call))
    BY <2>1, <2>2, <2>3 DEF Port!Call, stored, asked
  <2>5. Asked(call) \in Port!Requests
    BY <1>2 DEF Call, Idle, Asked, Port!Requests
  <2>6. QED
    BY <2>4, <2>5 DEF Port!Next
<1>3. ASSUME NEW ks \in SUBSET Keys,
             Elements(entries') = {e \in Elements(entries) : e.key \notin ks}
      PROVE  stored' = [k \in Keys |-> IF k \in ks THEN Absent ELSE stored[k]]
  BY <1>0, <1>3, SeenForgetting, StoredIsSeen
<1>a. ASSUME NEW t \in Threads, NEW left, Drop(t, left), NEW ks \in SUBSET Keys,
             Elements(left) = {e \in Elements(entries) : e.key \notin ks}
      PROVE  Port!Next
  <2>1. stored' = [k \in Keys |-> IF k \in ks THEN Absent ELSE stored[k]]
    BY <1>3, <1>a DEF Drop
  <2>2. asked' = asked /\ got' = got
    BY <1>a DEF Drop, asked
  <2>3. Port!Forget(ks)
    BY <2>1, <2>2 DEF Port!Forget, Port!Forgetting, stored, asked
  <2>4. QED
    BY <2>3 DEF Port!Next
<1>b. ASSUME NEW t \in Threads, Leave(t) PROVE Port!Return(t)
  <2>1. asked' = [asked EXCEPT ![t] = Port!Idle]
    BY <1>0, <1>b DEF Leave, asked, Asked, Idle, Port!Idle, TypeOK
  <2>2. QED
    BY <2>1 DEF Port!Return, asked
(* The port's caller is in the call the thread is in. *)
<1>c. ASSUME NEW t \in Threads
      PROVE  /\ op[t].name = "get" => asked[t].name = "get" /\ asked[t].key = op[t].key
             /\ op[t].name = "set" => /\ asked[t].name = "set" /\ asked[t].key = op[t].key
                                      /\ asked[t].value = op[t].value
  BY DEF asked, Asked
<1>d. ASSUME NEW t \in Threads, GetMiss(t) PROVE Port!Next
  <2>1. stored' = stored /\ got' = got /\ asked[t].name = "get"
    BY <1>c, <1>d, StoredIsSeen DEF GetMiss
  <2>2. Port!Return(t)
    BY <1>b, <1>d DEF GetMiss
  <2>3. Port!Miss(t)
    BY <2>1, <2>2 DEF Port!Miss, stored, asked
  <2>4. QED
    BY <2>3 DEF Port!Next
<1>4. ASSUME NEW t \in Threads, GetExpired(t) PROVE Port!Next
  <2>1. PICK k \in Keys : k = op[t].key
    BY <1>0, <1>4, CallFields DEF GetExpired
  <2>2. Elements(Without(k)) = {e \in Elements(entries) : e.key \notin {k}}
    BY <1>0, WithoutElements
  <2>3. stored' = [x \in Keys |-> IF x \in {k} THEN Absent ELSE stored[x]]
    BY <1>3, <1>4, <2>1, <2>2 DEF GetExpired
  <2>4. got' = got /\ asked[t].name = "get" /\ asked[t].key = k
    BY <1>4, <1>c, <2>1 DEF GetExpired
  <2>5. Port!Return(t)
    BY <1>4, <1>b DEF GetExpired
  <2>6. Port!Miss(t)
    BY <2>3, <2>4, <2>5 DEF Port!Miss, Port!Forgetting, stored, asked
  <2>7. QED
    BY <2>6 DEF Port!Next
<1>5. ASSUME NEW t \in Threads, GetHit(t) PROVE Port!Next
  <2>1. PICK k \in Keys, e \in Entry :
           k = op[t].key /\ e = Held(k) /\ e.key = k /\ e \in Elements(entries)
    BY <1>0, <1>5, CallFields, HeldPlace DEF GetHit
  <2>2. entries' = WithNewest(e) /\ got' = [got EXCEPT ![t] = e.value]
    BY <1>5, <2>1 DEF GetHit, Returned
  <2>a. PICK ks : ks = {}
    OBVIOUS
  <2>3. Elements(entries') = {x \in Elements(entries) : x.key \notin ks /\ x.key # e.key} \cup {e}
    BY <1>0, <2>1, <2>2, <2>a, WithNewestElements
  <2>4. Seen(entries)[k] = e.value
    BY <1>0, <2>1, SeenAtKey
  <2>5. Seen(entries') = [[x \in Keys |-> IF x \in ks THEN Absent ELSE Seen(entries)[x]]
                            EXCEPT ![e.key] = e.value]
    <3>1. e.key \notin ks
      BY <2>a
    <3>2. QED
      BY <1>0, <2>3, <3>1, SeenStoring
  <2>6. Seen(entries') = Seen(entries)
    <3>1. \A x \in Keys : Seen(entries')[x] = Seen(entries)[x]
      BY <2>1, <2>4, <2>5, <2>a
    <3>2. QED
      BY <3>1, SeenIsFunction
  <2>7. asked[t].name = "get" /\ asked[t].key = k /\ Port!Return(t)
    BY <1>5, <1>b, <1>c, <2>1 DEF GetHit
  <2>8. stored[k] = e.value /\ stored' = stored /\ e.value # Absent
    BY <2>1, <2>4, <2>6, StoredIsSeen, ValuesAssumption DEF Entry
  <2>9. Port!Hit(t)
    BY <2>2, <2>7, <2>8 DEF Port!Hit, stored, asked
  <2>10. QED
    BY <2>9 DEF Port!Next
<1>6. ASSUME NEW t \in Threads, Set(t) PROVE Port!Next
  <2> DEFINE k == op[t].key
             n == Written(op[t])
             w == WithNewest(n)
  <2>1. k \in Keys /\ n \in Entry /\ n.key = k
    BY <1>0, <1>6, CallFields, WrittenType DEF Set
  <2>2. n.value = op[t].value /\ op[t].value \in Values
    BY <1>0, <1>6, CallFields DEF Set, Written
  <2>3. /\ w \in Seq(Entry) /\ Distinct(w)
        /\ Elements(w) = {e \in Elements(entries) : e.key # k} \cup {n}
        /\ Len(w) = IF Holds(k) THEN Len(entries) ELSE Len(entries) + 1
        /\ w[Len(w)] = n
    <3>1. Without(n.key) \in Seq(Entry)
      BY <1>0, WithoutElements
    <3>2. w[Len(w)] = n
      BY <2>1, <3>1, AppendProperties, LenProperties DEF WithNewest
    <3>3. QED
      BY <1>0, <2>1, <3>2, WithNewestElements
  <2>4. entries' = (IF Overfull(w) THEN Tail(w) ELSE w) /\ got' = got /\ Port!Return(t)
    BY <1>6, <1>b DEF Set
  <2>a. asked[t].name = "set" /\ asked[t].key = k /\ asked[t].value = op[t].value
    BY <1>6, <1>c DEF Set
  <2>5. Len(entries) \in Nat /\ (MaxSize # NoBound => Len(entries) <= MaxSize)
    BY <1>0, LenProperties DEF IInv
  <2> HIDE DEF k, n, w
  <2>6. \E ks \in SUBSET (Keys \ {k}) :
          Elements(entries') = {e \in Elements(entries) : e.key \notin ks /\ e.key # k} \cup {n}
    <3>1. CASE ~Overfull(w)
      <4>1. Elements(entries') = {e \in Elements(entries) : e.key \notin {} /\ e.key # k} \cup {n}
        BY <2>3, <2>4, <3>1
      <4> WITNESS {} \in SUBSET (Keys \ {k})
      <4>2. QED
        BY <4>1
    <3>2. CASE Overfull(w)
      <4>1. w # <<>> /\ 1 \in 1 .. Len(w) /\ Len(w) \in 1 .. Len(w) /\ Len(w) # 1
        BY <2>3, <2>5, <3>2, SizeAssumption DEF Overfull
      <4>2. w[1].key # k /\ w[1].key \in Keys
        <5>1. w[1].key # w[Len(w)].key
          BY <2>3, <4>1 DEF Distinct
        <5>2. w[1] \in Entry
          BY <2>3, <4>1, ElementOfSeq
        <5>3. QED
          BY <2>1, <2>3, <5>1, <5>2 DEF Entry
      <4>3. Elements(entries') = {e \in Elements(w) : e.key # w[1].key}
        BY <2>3, <2>4, <3>2, <4>1, TailElements
      <4>4. Elements(entries') =
              {e \in Elements(entries) : e.key \notin {w[1].key} /\ e.key # k} \cup {n}
        BY <2>1, <2>3, <4>2, <4>3
      <4>5. {w[1].key} \in SUBSET (Keys \ {k})
        BY <4>2
      <4> WITNESS {w[1].key} \in SUBSET (Keys \ {k})
      <4>6. QED
        BY <4>4
    <3>3. QED
      BY <3>1, <3>2
  <2>7. PICK ks \in SUBSET (Keys \ {k}) :
          Elements(entries') = {e \in Elements(entries) : e.key \notin ks /\ e.key # n.key} \cup {n}
    BY <2>1, <2>6
  <2>8. Seen(entries') = [[x \in Keys |-> IF x \in ks THEN Absent ELSE Seen(entries)[x]]
                            EXCEPT ![n.key] = n.value]
    BY <1>0, <2>1, <2>7, SeenStoring
  <2>9. stored' = [[x \in Keys |-> IF x \in ks THEN Absent ELSE stored[x]] EXCEPT ![k] = op[t].value]
    BY <2>1, <2>2, <2>8, StoredIsSeen
  <2>10. Port!Set(t)
    BY <2>4, <2>9, <2>a DEF Port!Set, Port!Forgetting, stored, asked
  <2>11. QED
    BY <2>10 DEF Port!Next
<1>7. ASSUME NEW t \in Threads, NEW k \in Keys, Delete(t, k) PROVE Port!Next
  <2>1. Elements(Without(k)) = {e \in Elements(entries) : e.key \notin {k}}
    BY <1>0, WithoutElements
  <2>2. QED
    BY <1>7, <1>a, <2>1 DEF Delete
<1>8. ASSUME NEW t \in Threads, Clear(t) PROVE Port!Next
  <2>1. Elements(<<>>) = {}
    BY DEF Elements
  <2>2. {e \in Elements(entries) : e.key \notin Keys} = {}
    BY <1>0, ElementsAreEntries DEF Entry
  <2>3. QED
    BY <1>8, <1>a, <2>1, <2>2 DEF Clear
<1>9. ASSUME NEW t \in Threads, NEW k \in Keys, CallGet(t, k) PROVE Port!Next
  <2>1. [name |-> "get", key |-> k, now |-> clock] \in Call \ {Idle}
    BY <1>0 DEF TypeOK, Call, Idle
  <2>2. QED
    BY <1>2, <1>9, <2>1 DEF CallGet
<1>10. ASSUME NEW t \in Threads, NEW k \in Keys, NEW v \in Values,
              NEW ttl \in Ttls \cup {DefaultTtl}, CallSet(t, k, v, ttl)
       PROVE  Port!Next
  <2>1. [name |-> "set", key |-> k, value |-> v, ttl |-> ttl, now |-> clock] \in Call \ {Idle}
    BY <1>0, TtlAssumption DEF TypeOK, Call, Idle, Expiries
  <2>2. QED
    BY <1>2, <1>10, <2>1 DEF CallSet
<1>11. QED
  BY <1>1, <1>4, <1>5, <1>6, <1>7, <1>8, <1>9, <1>10, <1>d DEF Next, vars, Tick, Get

(* The cache is the port: whatever the interleaving, the expiries and the  *)
(* evictions, a read answers what was last stored under the key it asked   *)
(* for, or nothing, and a store touches no other key but to forget it.     *)
THEOREM Refinement == Spec => ImplementsPort
<1>1. IInv /\ IInv' /\ [Next]_vars => [Port!Next]_(Port!vars)
  BY NextRefines
<1>2. QED
  BY InitRefines, Invariance, <1>1, PTL DEF Spec, ImplementsPort, Port!Spec
=============================================================================
