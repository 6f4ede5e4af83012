------------------------------ MODULE CachePort ------------------------------
(***************************************************************************)
(* What a cache promises the resolver: ports.ObjectCache.  A read answers  *)
(* the value last stored under the key it was asked for, or nothing.  The  *)
(* port promises no retention: an entry may be forgotten at any moment,    *)
(* for any reason (expiry, eviction, deletion), and the caller cannot tell *)
(* which.                                                                  *)
(*                                                                         *)
(* MemoryCache implements this module (MemoryCache!ImplementsPort).        *)
(***************************************************************************)
CONSTANTS
  Callers,   \* threads that hold the cache
  Keys,      \* the opaque strings caches.cache_key returns
  Values,    \* the catalog reads that are kept; never None
  Absent     \* None: a miss, and no value

VARIABLES
  stored,    \* the value kept under each key, or Absent
  asked,     \* the call each caller is in, with its own arguments
  answer     \* what each caller's last `get` returned

vars == <<stored, asked, answer>>

Idle == [name |-> "idle"]

Requests ==
  [name : {"get"}, key : Keys] \cup [name : {"set"}, key : Keys, value : Values]

Init ==
  /\ stored = [k \in Keys |-> Absent]
  /\ asked = [c \in Callers |-> Idle]
  /\ answer = [c \in Callers |-> Absent]

(* stored without the keys in ks *)
Forgetting(ks) == [k \in Keys |-> IF k \in ks THEN Absent ELSE stored[k]]

-----------------------------------------------------------------------------

(* A caller begins a call; the answer to its last one is gone. *)
Call(c, request) ==
  /\ asked[c] = Idle
  /\ asked' = [asked EXCEPT ![c] = request]
  /\ answer' = [answer EXCEPT ![c] = Absent]
  /\ UNCHANGED stored

Return(c) == asked' = [asked EXCEPT ![c] = Idle]

Hit(c) ==
  /\ asked[c].name = "get"
  /\ stored[asked[c].key] # Absent
  /\ answer' = [answer EXCEPT ![c] = stored[asked[c].key]]
  /\ Return(c)
  /\ UNCHANGED stored

(* A miss says nothing of whether anything was stored; it may drop it. *)
Miss(c) ==
  /\ asked[c].name = "get"
  /\ stored' \in {stored, Forgetting({asked[c].key})}
  /\ Return(c)
  /\ UNCHANGED answer

(* A store may push anything else out. *)
Set(c) ==
  /\ asked[c].name = "set"
  /\ \E lost \in SUBSET (Keys \ {asked[c].key}) :
       stored' = [Forgetting(lost) EXCEPT ![asked[c].key] = asked[c].value]
  /\ Return(c)
  /\ UNCHANGED answer

Forget(ks) ==
  /\ stored' = Forgetting(ks)
  /\ UNCHANGED <<asked, answer>>

Next ==
  \/ \E c \in Callers :
       \/ Hit(c) \/ Miss(c) \/ Set(c)
       \/ \E request \in Requests : Call(c, request)
  \/ \E ks \in SUBSET Keys : Forget(ks)

Spec == Init /\ [][Next]_vars
=============================================================================
