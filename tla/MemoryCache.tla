----------------------------- MODULE MemoryCache -----------------------------
(***************************************************************************)
(* caches/memory.py: the LRU cache with expiry that threads share.         *)
(*                                                                         *)
(* `get` and `set` read the clock, then take the lock, so each is two      *)
(* steps between which other threads run and time passes.  What happens    *)
(* under the lock is one step: the lock is plain, nothing under it runs    *)
(* code of the caller, and no other method can look in.                    *)
(*                                                                         *)
(* The OrderedDict is the sequence `entries`, least recently used first.   *)
(***************************************************************************)
EXTENDS Integers, Sequences, SequencesExt, FiniteSets

CONSTANTS
  Threads,     \* the callers
  Keys,
  Values,
  Absent,      \* None
  Never,       \* an expiry of None: the entry lives as long as the process
  DefaultTtl,  \* default_ttl: a number of seconds, or Never
  Ttls,        \* explicit ttl arguments
  NoBound,     \* maxsize=None
  MaxSize,     \* maxsize: at least one, or NoBound
  MaxTime,     \* bound: the clock stops here
  MaxCalls     \* bound: calls made in a behaviour

ASSUME ValuesAssumption == Absent \notin Values
ASSUME TtlAssumption ==
  /\ Never \notin Int
  /\ DefaultTtl \in Nat \cup {Never}
  /\ Ttls \subseteq Nat
(* __init__ raises ValueError for a maxsize below one. *)
ASSUME SizeAssumption ==
  /\ NoBound \notin Int
  /\ MaxSize \in (Nat \ {0}) \cup {NoBound}
ASSUME BoundsAssumption == MaxTime \in Nat /\ MaxCalls \in Nat

VARIABLES
  clock,     \* time.monotonic, in seconds
  entries,   \* _entries, oldest use first
  count,     \* _hits, _misses, _expiries, _evictions
  op,        \* the call each thread is in, between its clock and its lock
  got,       \* what each thread's last `get` returned
  \* history, read by properties alone
  since,     \* for each key, the other keys used since it was last used
  calls,     \* calls made
  added,     \* entries ever added
  dropped    \* entries dropped by callers

vars == <<clock, entries, count, op, got, since, calls, added, dropped>>

-----------------------------------------------------------------------------
(* The sets the variables range over. *)

(* CacheStats *)
Counters == {"hits", "misses", "expiries", "evictions"}

Expiries == Nat \cup {Never}

Entry == [key : Keys, value : Values, expires : Expiries]

Idle == [name |-> "idle"]

Call ==
  {Idle}
    \cup [name : {"get"}, key : Keys, now : Nat]
    \cup [name : {"set"}, key : Keys, value : Values, ttl : Expiries, now : Nat]

TypeOK ==
  /\ clock \in Nat
  /\ entries \in Seq(Entry)
  /\ count \in [Counters -> Nat]
  /\ op \in [Threads -> Call]
  /\ got \in [Threads -> Values \cup {Absent}]
  /\ since \in [Keys -> SUBSET Keys]
  /\ calls \in Nat
  /\ added \in Nat
  /\ dropped \in Nat

Init ==
  /\ clock = 0
  /\ entries = <<>>
  /\ count = [c \in Counters |-> 0]
  /\ op = [t \in Threads |-> Idle]
  /\ got = [t \in Threads |-> Absent]
  /\ since = [k \in Keys |-> {}]
  /\ calls = 0
  /\ added = 0
  /\ dropped = 0

-----------------------------------------------------------------------------
(* The OrderedDict. *)

Holds(k) == \E i \in 1 .. Len(entries) : entries[i].key = k

Place(k) == CHOOSE i \in 1 .. Len(entries) : entries[i].key = k

Held(k) == entries[Place(k)]

(* pop(key, None) *)
Without(k) == IF Holds(k) THEN RemoveAt(entries, Place(k)) ELSE entries

(* A mistake in WithNewest: no move_to_end, so a used entry keeps its place. *)
WithInPlace(e) ==
  IF Holds(e.key) THEN [entries EXCEPT ![Place(e.key)] = e] ELSE Append(entries, e)

(* move_to_end, and the order an insertion or an overwrite leaves *)
WithNewest(e) == Append(Without(e.key), e)

(* A mistake in Overfull: evicting one entry late. *)
OverfullByTwo(s) == MaxSize # NoBound /\ Len(s) > MaxSize + 1

Overfull(s) == MaxSize # NoBound /\ Len(s) > MaxSize

Expired(e, now) == e.expires # Never /\ now >= e.expires

ExpiryOf(now, ttl) == IF ttl = Never THEN Never ELSE now + ttl

(* k is used: every other held key has now seen k used since its own last use. *)
Used(k) ==
  since' = [x \in Keys |-> IF Holds(x) /\ x # k THEN since[x] \cup {k} ELSE {}]

-----------------------------------------------------------------------------

Tick ==
  /\ clock < MaxTime
  /\ clock' = clock + 1
  /\ UNCHANGED <<entries, count, op, got, since, calls, added, dropped>>

(* A thread enters a method: the bound on calls, and the clock read. *)
Enter(t, call) ==
  /\ op[t] = Idle
  /\ calls < MaxCalls
  /\ calls' = calls + 1
  /\ op' = [op EXCEPT ![t] = call]
  /\ got' = [got EXCEPT ![t] = Absent]
  /\ UNCHANGED <<clock, entries, count, since, added, dropped>>

CallGet(t, k) == Enter(t, [name |-> "get", key |-> k, now |-> clock])

CallSet(t, k, v, ttl) ==
  Enter(t, [name |-> "set", key |-> k, value |-> v, ttl |-> ttl, now |-> clock])

(* The counters named in `what` go up. *)
Count(what) == count' = [c \in Counters |-> IF c \in what THEN count[c] + 1 ELSE count[c]]

Leave(t) == op' = [op EXCEPT ![t] = Idle]

GetMiss(t) ==
  /\ op[t].name = "get"
  /\ ~Holds(op[t].key)
  /\ Count({"misses"})
  /\ Leave(t)
  /\ UNCHANGED <<clock, entries, got, since, calls, added, dropped>>

(* A mistake in GetExpired: the entry is counted as expired and not popped. *)
GetExpiredUnpopped(t) ==
  /\ op[t].name = "get"
  /\ Holds(op[t].key)
  /\ Expired(Held(op[t].key), op[t].now)
  /\ Count({"expiries", "misses"})
  /\ Leave(t)
  /\ UNCHANGED <<clock, entries, got, since, calls, added, dropped>>

GetExpired(t) ==
  /\ op[t].name = "get"
  /\ Holds(op[t].key)
  /\ Expired(Held(op[t].key), op[t].now)
  /\ entries' = Without(op[t].key)
  /\ Count({"expiries", "misses"})
  /\ Leave(t)
  /\ UNCHANGED <<clock, got, since, calls, added, dropped>>

(* A mistake in Returned: the whole entry rather than the value in it. *)
ReturnedWhole(e) == e

Returned(e) == e.value

(* A mistake in GetHit: once the entry has moved to the newest end, the    *)
(* answer is taken from the oldest.                                        *)
GetHitOldest(t) ==
  LET k == op[t].key
      e == Held(k)
  IN /\ op[t].name = "get"
     /\ Holds(k)
     /\ ~Expired(e, op[t].now)
     /\ entries' = WithNewest(e)
     /\ Count({"hits"})
     /\ got' = [got EXCEPT ![t] = Returned(Head(WithNewest(e)))]
     /\ Used(k)
     /\ Leave(t)
     /\ UNCHANGED <<clock, calls, added, dropped>>

GetHit(t) ==
  LET k == op[t].key
      e == Held(k)
  IN /\ op[t].name = "get"
     /\ Holds(k)
     /\ ~Expired(e, op[t].now)
     /\ entries' = WithNewest(e)
     /\ Count({"hits"})
     /\ got' = [got EXCEPT ![t] = Returned(e)]
     /\ Used(k)
     /\ Leave(t)
     /\ UNCHANGED <<clock, calls, added, dropped>>

(* The entry a `set` writes, from the clock it read before the lock. *)
Written(call) ==
  [key |-> call.key, value |-> call.value, expires |-> ExpiryOf(call.now, call.ttl)]

Set(t) ==
  LET k == op[t].key
      grown == WithNewest(Written(op[t]))
  IN /\ op[t].name = "set"
     /\ entries' = IF Overfull(grown) THEN Tail(grown) ELSE grown
     /\ Count(IF Overfull(grown) THEN {"evictions"} ELSE {})
     /\ added' = IF Holds(k) THEN added ELSE added + 1
     /\ Used(k)
     /\ Leave(t)
     /\ UNCHANGED <<clock, got, calls, dropped>>

(* A caller's `delete` or `clear`; neither reads the clock. *)
Drop(t, left) ==
  /\ op[t] = Idle
  /\ calls < MaxCalls
  /\ calls' = calls + 1
  /\ entries' = left
  /\ dropped' = dropped + (Len(entries) - Len(left))
  /\ UNCHANGED <<clock, count, op, got, since, added>>

Delete(t, k) == Drop(t, Without(k))

Clear(t) == Drop(t, <<>>)

Get(t) == GetMiss(t) \/ GetExpired(t) \/ GetHit(t)

Next ==
  \/ Tick
  \/ \E t \in Threads :
       \/ Get(t) \/ Set(t) \/ Clear(t)
       \/ \E k \in Keys :
            \/ CallGet(t, k)
            \/ Delete(t, k)
            \/ \E v \in Values, ttl \in Ttls \cup {DefaultTtl} : CallSet(t, k, v, ttl)

Spec == Init /\ [][Next]_vars

-----------------------------------------------------------------------------
(* Properties. *)

(* `set` evicts after writing, inside one lock, so nobody ever sees more   *)
(* than maxsize entries; the mapping never holds a key twice either.       *)
BoundKept ==
  /\ MaxSize # NoBound => Len(entries) <= MaxSize
  /\ \A i, j \in 1 .. Len(entries) : entries[i].key = entries[j].key => i = j

(* stats(): every entry ever added is still held, or is counted as evicted *)
(* or expired, or was dropped by a caller, so evictions and expiries are   *)
(* neither missed nor counted twice.                                       *)
EveryEntryAccountedFor ==
  added = Len(entries) + count["evictions"] + count["expiries"] + dropped

(* An eviction takes only a key since whose last use as many other keys    *)
(* have been used as the cache may hold: a working set of maxsize keys is  *)
(* never evicted by its own use, which is what move_to_end is for.         *)
WorkingSetSurvives ==
  [][\A k \in Keys :
       /\ count'["evictions"] > count["evictions"]
       /\ Holds(k)
       /\ ~Holds(k)'
       => Cardinality(since'[k]) >= MaxSize]_vars

(* A call as the port knows it: without the clock and the ttl. *)
Asked(call) ==
  IF call.name = "get" THEN [name |-> "get", key |-> call.key]
  ELSE IF call.name = "set" THEN [name |-> "set", key |-> call.key, value |-> call.value]
  ELSE Idle

(* The cache as its callers know it. *)
Port ==
  INSTANCE CachePort WITH
    Callers <- Threads,
    stored <- [k \in Keys |-> IF Holds(k) THEN Held(k).value ELSE Absent],
    asked <- [t \in Threads |-> Asked(op[t])],
    answer <- got

(* LRU order, expiry and eviction implement the port: a read answers what  *)
(* was last stored under the key its caller asked for, or nothing; a store *)
(* leaves the caller's value under the caller's key; and neither changes   *)
(* what another key holds, except that a store may push it out.            *)
ImplementsPort == Port!Spec
=============================================================================
