---------------------------- MODULE CatalogReader ----------------------------
(***************************************************************************)
(* resolve.py, _Reader: the one place a completion reads the catalog.      *)
(*                                                                         *)
(* Each request owns a reader: a memo of the answers it was given and a    *)
(* latch that says the cache failed.  The cache belongs to the caller and  *)
(* is shared with every other request; it may raise from any call, lose an *)
(* entry at any time, and hold bytes that do not decode.  The catalog      *)
(* changes under everybody (DDL) and its reads may raise.                  *)
(*                                                                         *)
(* A request first warms the column lists of the relations in scope with   *)
(* one batch (prefetch_columns), then reads what it needs one question at  *)
(* a time (_read).  Each call to the cache or to the catalog is a step of  *)
(* its own, so requests interleave between them.                           *)
(***************************************************************************)
EXTENDS Integers, FiniteSets

CONSTANTS
  Requests,    \* completions; each has its own _Reader
  Cached,      \* those given a cache
  Identities,  \* the `identity` that leads a key: whose privileges a read sees
  Reads,       \* the questions: (kind, parts) of caches.cache_key
  Relations,   \* those of kind `columns`, which a batch may answer together
  Absent,      \* None: nothing memoised, nothing cached
  Foreign,     \* bytes under a key that codec.decode refuses
  MaxVersion,  \* bound: DDL statements in a behaviour
  MaxLosses    \* bound: entries lost or overwritten by others in a behaviour

ASSUME SetsAssumption == Cached \subseteq Requests /\ Relations \subseteq Reads
ASSUME BoundsAssumption == MaxVersion \in Nat /\ MaxLosses \in Nat

(* What the catalog answers to `who` asking `read` at one schema version. *)
Answers == [who : Identities, read : Reads, version : Nat]

ASSUME MarkersAssumption == Absent \notin Answers /\ Foreign \notin Answers /\ Absent # Foreign

VARIABLES
  version,  \* the schema the database has now
  cache,    \* the caller's cache
  who,      \* the identity of each request
  memo,     \* _memo
  failed,   \* _failed
  step,     \* where each request is
  \* history, read by properties alone
  given,    \* answers each request was given to each question
  asked,    \* catalog reads each request spent on each question
  floor,    \* for each key, a version the cache holds nothing older than
  losses    \* entries lost or overwritten by others so far

vars ==
  <<version, cache, who, memo, failed, step, given, asked, floor, losses>>

-----------------------------------------------------------------------------

Keys == Identities \X Reads

Steps ==
  [at : {"new", "ready", "done", "raised"}]
    \cup [at : {"looking"}, read : Reads]
    \cup [at : {"producing"}, read : Reads, keep : BOOLEAN]
    \cup [at : {"storing"}, read : Reads, value : Answers]
    \cup [at : {"warming"}, todo : SUBSET Relations, missing : SUBSET Relations]
    \cup [at : {"filing"}, batch : SUBSET Answers]

TypeOK ==
  /\ version \in Nat
  /\ cache \in [Keys -> Answers \cup {Absent, Foreign}]
  /\ who \in [Requests -> Identities]
  /\ memo \in [Requests -> [Reads -> Answers \cup {Absent}]]
  /\ failed \in [Requests -> BOOLEAN]
  /\ step \in [Requests -> Steps]
  /\ given \in [Requests -> [Reads -> SUBSET Answers]]
  /\ asked \in [Requests -> [Reads -> Nat]]
  /\ floor \in [Keys -> Nat]
  /\ losses \in Nat

Init ==
  /\ version = 0
  /\ cache = [k \in Keys |-> Absent]
  /\ who \in [Requests -> Identities]
  /\ memo = [r \in Requests |-> [q \in Reads |-> Absent]]
  /\ failed = [r \in Requests |-> FALSE]
  /\ step = [r \in Requests |-> [at |-> "new"]]
  /\ given = [r \in Requests |-> [q \in Reads |-> {}]]
  /\ asked = [r \in Requests |-> [q \in Reads |-> 0]]
  /\ floor = [k \in Keys |-> 0]
  /\ losses = 0

-----------------------------------------------------------------------------

(* A mistake in Key: the role no longer leads it. *)
KeyUnscoped(r, q) == <<CHOOSE i \in Identities : TRUE, q>>

(* _key: the identity is part of it, so privileges do not leak through it. *)
Key(r, q) == <<who[r], q>>

(* The catalog's own answer, filtered by the privileges of the asker. *)
Produced(r, q) == [who |-> who[r], read |-> q, version |-> version]

UsesCache(r) == r \in Cached /\ ~failed[r]

Go(r, where) == step' = [step EXCEPT ![r] = where]

Ready == [at |-> "ready"]

Warming(todo, missing) == [at |-> "warming", todo |-> todo, missing |-> missing]

Filing(batch) == IF batch = {} THEN Ready ELSE [at |-> "filing", batch |-> batch]

Memoise(r, q, value) == memo' = [memo EXCEPT ![r][q] = value]

Give(r, q, value) == given' = [given EXCEPT ![r][q] = @ \cup {value}]

(* A call to the cache raised: this request asks it for nothing more. *)
CallRaises(r) == failed' = [failed EXCEPT ![r] = TRUE]

-----------------------------------------------------------------------------
(* prefetch_columns. *)

(* One relation is not a batch; neither is a catalog without the           *)
(* capability, which is the same as a statement that wants no relation.    *)
Start(r, wanted) ==
  /\ step[r].at = "new"
  /\ Go(r, IF Cardinality(wanted) < 2 THEN Ready ELSE Warming(wanted, {}))
  /\ UNCHANGED <<version, cache, who, memo, failed, given, asked, floor, losses>>

(* The loop's body for one relation.  Prefetching comes before any other   *)
(* read and the relations differ, so none is memoised yet.                 *)
WarmFromCache(r, q) ==
  /\ UsesCache(r)
  /\ cache[Key(r, q)] \in Answers
  /\ Memoise(r, q, cache[Key(r, q)])
  /\ Go(r, Warming(step[r].todo \ {q}, step[r].missing))
  /\ UNCHANGED failed

WarmMissing(r, q) ==
  /\ \/ UsesCache(r) /\ cache[Key(r, q)] \notin Answers /\ UNCHANGED failed
     \/ UsesCache(r) /\ CallRaises(r)
     \/ ~UsesCache(r) /\ UNCHANGED failed
  /\ Go(r, Warming(step[r].todo \ {q}, step[r].missing \cup {q}))
  /\ UNCHANGED memo

Warm(r, q) ==
  /\ step[r].at = "warming"
  /\ q \in step[r].todo
  /\ WarmFromCache(r, q) \/ WarmMissing(r, q)
  /\ UNCHANGED <<version, cache, who, given, asked, floor, losses>>

(* Fewer than two missing: left to the per-relation path. *)
NoBatch(r) ==
  /\ step[r].at = "warming"
  /\ step[r].todo = {}
  /\ Cardinality(step[r].missing) < 2
  /\ Go(r, Ready)
  /\ UNCHANGED <<version, cache, who, memo, failed, given, asked, floor, losses>>

(* columns_for: one read; what it leaves out counts as an empty answer. *)
Batch(r) ==
  /\ step[r].at = "warming"
  /\ step[r].todo = {}
  /\ Cardinality(step[r].missing) >= 2
  /\ \/ /\ asked' = [asked EXCEPT ![r] =
             [q \in Reads |-> IF q \in step[r].missing THEN @[q] + 1 ELSE @[q]]]
        /\ Go(r, Filing({Produced(r, q) : q \in step[r].missing}))
     \/ Go(r, [at |-> "raised"]) /\ UNCHANGED asked
  /\ UNCHANGED <<version, cache, who, memo, failed, given, floor, losses>>

(* A mistake in File: an answer the cache refused is not memoised. *)
FileUnmemoised(r, a) ==
  /\ step[r].at = "filing"
  /\ a \in step[r].batch
  /\ \/ /\ UsesCache(r)
        /\ cache' = [cache EXCEPT ![Key(r, a.read)] = a]
        /\ Memoise(r, a.read, a)
        /\ UNCHANGED failed
     \/ UsesCache(r) /\ CallRaises(r) /\ UNCHANGED <<cache, memo>>
     \/ ~UsesCache(r) /\ UNCHANGED <<cache, memo, failed>>
  /\ Go(r, Filing(step[r].batch \ {a}))
  /\ UNCHANGED <<version, who, given, asked, floor, losses>>

(* Each answer of the batch, memoised and kept under its own key. *)
File(r, a) ==
  /\ step[r].at = "filing"
  /\ a \in step[r].batch
  /\ Memoise(r, a.read, a)
  /\ \/ UsesCache(r) /\ cache' = [cache EXCEPT ![Key(r, a.read)] = a] /\ UNCHANGED failed
     \/ UsesCache(r) /\ CallRaises(r) /\ UNCHANGED cache
     \/ ~UsesCache(r) /\ UNCHANGED <<cache, failed>>
  /\ Go(r, Filing(step[r].batch \ {a}))
  /\ UNCHANGED <<version, who, given, asked, floor, losses>>

-----------------------------------------------------------------------------
(* _read and _read_through. *)

ReadMemo(r, q) ==
  /\ step[r].at = "ready"
  /\ memo[r][q] # Absent
  /\ Give(r, q, memo[r][q])
  /\ UNCHANGED <<version, cache, who, memo, failed, step, asked, floor, losses>>

Read(r, q) ==
  /\ step[r].at = "ready"
  /\ memo[r][q] = Absent
  /\ Go(r, IF UsesCache(r)
           THEN [at |-> "looking", read |-> q]
           ELSE [at |-> "producing", read |-> q, keep |-> FALSE])
  /\ UNCHANGED <<version, cache, who, memo, failed, given, asked, floor, losses>>

(* A mistake in LookHit: bytes that do not decode are answered as they are. *)
LookHitUndecoded(r, q) ==
  /\ cache[Key(r, q)] # Absent
  /\ Memoise(r, q, cache[Key(r, q)])
  /\ Give(r, q, cache[Key(r, q)])
  /\ Go(r, Ready)
  /\ UNCHANGED failed

LookHit(r, q) ==
  /\ cache[Key(r, q)] \in Answers
  /\ Memoise(r, q, cache[Key(r, q)])
  /\ Give(r, q, cache[Key(r, q)])
  /\ Go(r, Ready)
  /\ UNCHANGED failed

(* A miss, or bytes that do not decode, which do not latch. *)
LookMiss(r, q) ==
  /\ cache[Key(r, q)] \notin Answers
  /\ Go(r, [at |-> "producing", read |-> q, keep |-> TRUE])
  /\ UNCHANGED failed
  /\ UNCHANGED <<memo, given>>

(* A failure latches, and what is then produced is offered to the cache.  *)
LookRaises(r, q) ==
  /\ Go(r, [at |-> "producing", read |-> q, keep |-> TRUE])
  /\ CallRaises(r)
  /\ UNCHANGED <<memo, given>>

Look(r) ==
  /\ step[r].at = "looking"
  /\ LET q == step[r].read IN LookHit(r, q) \/ LookMiss(r, q) \/ LookRaises(r, q)
  /\ UNCHANGED <<version, cache, who, asked, floor, losses>>

Produce(r) ==
  LET q == step[r].read
      value == Produced(r, q)
  IN /\ step[r].at = "producing"
     /\ asked' = [asked EXCEPT ![r][q] = @ + 1]
     /\ IF step[r].keep
        THEN /\ Go(r, [at |-> "storing", read |-> q, value |-> value])
             /\ UNCHANGED <<memo, given>>
        ELSE Memoise(r, q, value) /\ Give(r, q, value) /\ Go(r, Ready)
     /\ UNCHANGED <<version, cache, who, failed, floor, losses>>

(* A catalog error is the caller's to see. *)
ProduceRaises(r) ==
  /\ step[r].at = "producing"
  /\ Go(r, [at |-> "raised"])
  /\ UNCHANGED <<version, cache, who, memo, failed, given, asked, floor, losses>>

(* A mistake in Store: the value is returned and not memoised. *)
StoreUnmemoised(r) ==
  LET q == step[r].read
      value == step[r].value
  IN /\ step[r].at = "storing"
     /\ \/ cache' = [cache EXCEPT ![Key(r, q)] = value] /\ UNCHANGED failed
        \/ CallRaises(r) /\ UNCHANGED cache
     /\ Give(r, q, value)
     /\ Go(r, Ready)
     /\ UNCHANGED <<version, who, memo, asked, floor, losses>>

Store(r) ==
  LET q == step[r].read
      value == step[r].value
  IN /\ step[r].at = "storing"
     /\ \/ cache' = [cache EXCEPT ![Key(r, q)] = value] /\ UNCHANGED failed
        \/ CallRaises(r) /\ UNCHANGED cache
     /\ Memoise(r, q, value)
     /\ Give(r, q, value)
     /\ Go(r, Ready)
     /\ UNCHANGED <<version, who, asked, floor, losses>>

Finish(r) ==
  /\ step[r].at = "ready"
  /\ Go(r, [at |-> "done"])
  /\ UNCHANGED <<version, cache, who, memo, failed, given, asked, floor, losses>>

-----------------------------------------------------------------------------
(* Everything else that reaches the cache and the catalog. *)

Alter ==
  /\ version < MaxVersion
  /\ version' = version + 1
  /\ UNCHANGED <<cache, who, memo, failed, step, given, asked, floor, losses>>

(* A value read for k that is on its way into the cache. *)
Filling(k) ==
  \E r \in Requests :
    \/ step[r].at = "storing" /\ Key(r, step[r].read) = k
    \/ step[r].at = "filing" /\ \E a \in step[r].batch : Key(r, a.read) = k

(* A mistake in Forget: the delete names a key nothing is kept under. *)
ForgetNothing(k) ==
  /\ losses < MaxLosses
  /\ losses' = losses + 1
  /\ floor' = IF Filling(k) THEN floor ELSE [floor EXCEPT ![k] = version]
  /\ UNCHANGED <<version, cache, who, memo, failed, step, given, asked>>

(* An entry goes: expiry, eviction, or the caller's `delete` after DDL.    *)
(* With nothing on its way in, what comes after is of this schema or later.*)
Forget(k) ==
  /\ losses < MaxLosses
  /\ losses' = losses + 1
  /\ cache' = [cache EXCEPT ![k] = Absent]
  /\ floor' = IF Filling(k) THEN floor ELSE [floor EXCEPT ![k] = version]
  /\ UNCHANGED <<version, who, memo, failed, step, given, asked>>

(* Another writer leaves bytes under our key. *)
Intrude(k) ==
  /\ losses < MaxLosses
  /\ losses' = losses + 1
  /\ cache' = [cache EXCEPT ![k] = Foreign]
  /\ UNCHANGED <<version, who, memo, failed, step, given, asked, floor>>

RequestStep(r) ==
  \/ \E wanted \in SUBSET Relations : Start(r, wanted)
  \/ \E q \in Relations : Warm(r, q)
  \/ NoBatch(r) \/ Batch(r)
  \/ step[r].at = "filing" /\ \E a \in step[r].batch : File(r, a)
  \/ \E q \in Reads : Read(r, q) \/ ReadMemo(r, q)
  \/ Look(r) \/ Produce(r) \/ ProduceRaises(r) \/ Store(r) \/ Finish(r)

Next ==
  \/ \E r \in Requests : RequestStep(r)
  \/ Alter
  \/ \E k \in Keys : Forget(k) \/ Intrude(k)

Spec == Init /\ [][Next]_vars

-----------------------------------------------------------------------------
(* Properties. *)

(* A request is answered with what the catalog said to its own identity,   *)
(* to that question, whoever filled the cache and however (one read, a     *)
(* batch); and each cached entry is such an answer for its key.            *)
AnswersAreOwn ==
  /\ \A r \in Requests, q \in Reads : \A a \in given[r][q] :
       a.who = who[r] /\ a.read = q /\ a.version <= version
  /\ \A k \in Keys : cache[k] \in Answers =>
       cache[k].who = k[1] /\ cache[k].read = k[2] /\ cache[k].version <= version

(* _memo: one request sees one answer to a question, however often it asks *)
(* and whatever DDL, expiry and other requests do in between.              *)
RepeatableReads ==
  \A r \in Requests, q \in Reads : \A a, b \in given[r][q] : a = b

(* The database is asked a question at most once in a request, also when   *)
(* the cache refuses the answer or the batch had it.                       *)
AskedOnce == \A r \in Requests, q \in Reads : asked[r][q] <= 1

(* Once an entry is dropped while no read of it is on its way into the     *)
(* cache, the cache never again answers from a schema older than that: the *)
(* use `MemoryCache.delete` gives to a caller who has just run DDL.        *)
DroppedStaysDropped ==
  \A k \in Keys : cache[k] \in Answers => cache[k].version >= floor[k]
=============================================================================
