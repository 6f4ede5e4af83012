------------------------------- MODULE Session -------------------------------
(***************************************************************************)
(* lsp/server.py, Session, and connections.py, open_catalog: one language  *)
(* server process.  Completion requests ("carets") run in a thread pool;   *)
(* the session's reentrant lock lets one of them at a time build the       *)
(* catalog, open the one connection and read.  A build, a connect or a     *)
(* read that raises degrades the session until the process ends, and tells *)
(* the client once.  A caret that got nothing from the catalog answers     *)
(* from its statement alone, outside the lock.                             *)
(***************************************************************************)
EXTENDS Integers, FiniteSets

CONSTANTS
  Carets,   \* the completion requests of a process
  NoOne,    \* the lock is free
  Profiles  \* what `initialize` may record, a subset of AllProfiles

(* No profile; a dialect without a bundled driver; one with a driver. *)
AllProfiles == {"none", "undriven", "driven"}

ASSUME NoOneAssumption == NoOne \notin Carets
ASSUME ProfilesAssumption == Profiles \subseteq AllProfiles

VARIABLES
  profile,    \* "unset" until `initialize`
  catalog,    \* _catalog: is there one
  tried,      \* _tried
  announced,  \* _announced
  owner,      \* who holds _lock
  held,       \* the connection open_cursor keeps: is there one
  at,         \* where each caret's handler is
  answer,     \* where each caret's suggestions came from
  \* history, read by properties alone
  attempts,   \* calls of the driver's connect
  notices     \* notifications sent to the client

vars ==
  <<profile, catalog, tried, announced, owner, held, at, answer, attempts, notices>>

session == <<profile, catalog, tried, announced, held, attempts, notices>>

-----------------------------------------------------------------------------

Places ==
  {"idle",      \* not sent yet
   "waiting",   \* in the pool, about to take the lock
   "entered",   \* in _from_catalog, before catalog()
   "reading",   \* in complete(), with the catalog
   "raised",    \* in `except`, before degrade()
   "empty",     \* leaving the lock with None
   "full",      \* leaving the lock with suggestions
   "bare",      \* outside the lock, before complete() without a catalog
   "answered"}

(* Between taking the lock and letting go of it. *)
Inside == {"entered", "reading", "raised", "empty", "full"}

TypeOK ==
  /\ profile \in Profiles \cup {"unset"}
  /\ catalog \in BOOLEAN
  /\ tried \in BOOLEAN
  /\ announced \in BOOLEAN
  /\ owner \in Carets \cup {NoOne}
  /\ held \in BOOLEAN
  /\ at \in [Carets -> Places]
  /\ answer \in [Carets -> {"pending", "nothing", "statement", "catalog"}]
  /\ attempts \in Nat
  /\ notices \in Nat

Init ==
  /\ profile = "unset"
  /\ catalog = FALSE
  /\ tried = FALSE
  /\ announced = FALSE
  /\ owner = NoOne
  /\ held = FALSE
  /\ at = [c \in Carets |-> "idle"]
  /\ answer = [c \in Carets |-> "pending"]
  /\ attempts = 0
  /\ notices = 0

-----------------------------------------------------------------------------

Move(c, from, to) == at[c] = from /\ at' = [at EXCEPT ![c] = to]

(* A mistake in Lockable: a plain lock, which its owner cannot take again. *)
LockablePlain(c) == owner = NoOne

(* An RLock: its owner takes it again, as catalog() and degrade() do. *)
Lockable(c) == owner \in {NoOne, c}

Initialize(p) ==
  /\ profile = "unset"
  /\ profile' = p
  /\ UNCHANGED <<catalog, tried, announced, owner, held, at, answer, attempts, notices>>

(* The client sends a completion, which it may not do before `initialize`. *)
Complete(c) ==
  /\ profile # "unset"
  /\ Move(c, "idle", "waiting")
  /\ UNCHANGED <<session, owner, answer>>

(* The document cannot be read: an empty list, and the session is not asked. *)
NoDocument(c) ==
  /\ Move(c, "waiting", "answered")
  /\ answer' = [answer EXCEPT ![c] = "nothing"]
  /\ UNCHANGED <<session, owner>>

(* A mistake in Enter: no lock around the read. *)
EnterUnlocked(c) ==
  /\ owner' = c
  /\ Move(c, "waiting", "entered")
  /\ UNCHANGED <<session, answer>>

(* _from_catalog takes the lock. *)
Enter(c) ==
  /\ Lockable(c)
  /\ owner' = c
  /\ Move(c, "waiting", "entered")
  /\ UNCHANGED <<session, answer>>

(* A mistake in DegradeBy: the catalog that failed is kept. *)
DegradeByKeeping(c) ==
  /\ Lockable(c)
  /\ tried' = TRUE
  /\ announced' = TRUE
  /\ notices' = IF announced THEN notices ELSE notices + 1
  /\ UNCHANGED catalog

(* degrade(): under the lock again; the client is told the first time. *)
DegradeBy(c) ==
  /\ Lockable(c)
  /\ catalog' = FALSE
  /\ tried' = TRUE
  /\ announced' = TRUE
  /\ notices' = IF announced THEN notices ELSE notices + 1

(* catalog(): what was built before, or None. *)
FindCatalog(c) ==
  /\ Lockable(c)
  /\ tried \/ profile = "none"
  /\ Move(c, "entered", IF catalog THEN "reading" ELSE "empty")
  /\ UNCHANGED <<session, owner, answer>>

(* catalog(): built on first use.  Nothing connects yet; a dialect without *)
(* a driver gives None, which is not a failure.                            *)
BuildCatalog(c) ==
  /\ Lockable(c)
  /\ ~tried /\ profile # "none"
  /\ tried' = TRUE
  /\ catalog' = (profile = "driven")
  /\ Move(c, "entered", IF profile = "driven" THEN "reading" ELSE "empty")
  /\ UNCHANGED <<profile, announced, owner, held, answer, attempts, notices>>

(* A mistake in BuildRaises: the error is logged and the session not degraded. *)
BuildRaisesSilently(c) ==
  /\ Lockable(c)
  /\ ~tried /\ profile = "driven"
  /\ tried' = TRUE
  /\ Move(c, "entered", "empty")
  /\ UNCHANGED <<profile, catalog, announced, owner, held, answer, attempts, notices>>

(* The catalog cannot be made; without a driver there is nothing to make. *)
BuildRaises(c) ==
  /\ ~tried /\ profile = "driven"
  /\ DegradeBy(c)
  /\ Move(c, "entered", "empty")
  /\ UNCHANGED <<profile, owner, held, answer, attempts>>

(* open_cursor: the first read of the process connects. *)
Connect(c) ==
  /\ at[c] = "reading"
  /\ ~held
  /\ attempts' = attempts + 1
  /\ \/ held' = TRUE /\ UNCHANGED at
     \/ Move(c, "reading", "raised") /\ UNCHANGED held
  /\ UNCHANGED <<profile, catalog, tried, announced, owner, answer, notices>>

(* A query raises: the statement, the server or the read timeout. *)
QueryRaises(c) ==
  /\ held
  /\ Move(c, "reading", "raised")
  /\ UNCHANGED <<session, owner, answer>>

(* complete() returns, having read over the connection or from the cache. *)
Suggest(c) ==
  /\ Move(c, "reading", "full")
  /\ UNCHANGED <<session, owner, answer>>

Degrade(c) ==
  /\ DegradeBy(c)
  /\ Move(c, "raised", "empty")
  /\ UNCHANGED <<profile, owner, held, answer, attempts>>

(* The end of the `with`. *)
LeaveFull(c) ==
  /\ Move(c, "full", "answered")
  /\ answer' = [answer EXCEPT ![c] = "catalog"]
  /\ owner' = NoOne
  /\ UNCHANGED session

(* A mistake in LeaveEmpty: the None is what the client gets. *)
LeaveEmptyAnswering(c) ==
  /\ Move(c, "empty", "answered")
  /\ answer' = [answer EXCEPT ![c] = "None"]
  /\ owner' = NoOne
  /\ UNCHANGED session

LeaveEmpty(c) ==
  /\ Move(c, "empty", "bare")
  /\ owner' = NoOne
  /\ UNCHANGED <<session, answer>>

AnswerBare(c) ==
  /\ Move(c, "bare", "answered")
  /\ answer' = [answer EXCEPT ![c] = "statement"]
  /\ UNCHANGED <<session, owner>>

Handle(c) ==
  \/ Enter(c)
  \/ FindCatalog(c) \/ BuildCatalog(c) \/ BuildRaises(c)
  \/ Connect(c) \/ QueryRaises(c) \/ Suggest(c)
  \/ Degrade(c)
  \/ LeaveFull(c) \/ LeaveEmpty(c) \/ AnswerBare(c)

Next ==
  \/ \E p \in Profiles : Initialize(p)
  \/ \E c \in Carets : Complete(c) \/ NoDocument(c) \/ Handle(c)

(* The pool runs every handler on.  A connect and a read each end, because *)
(* the socket has a timeout (CONNECT_TIMEOUT, READ_TIMEOUT, and the HTTP   *)
(* readers' own), and a completion makes finitely many reads.              *)
Fairness == \A c \in Carets : WF_vars(Handle(c))

Spec == Init /\ [][Next]_vars

FairSpec == Spec /\ Fairness

-----------------------------------------------------------------------------
(* Properties. *)

(* "One caret at a time reaches the database", and whoever is past the     *)
(* `with` holds the lock until the end of it.                              *)
OneCaretInside == \A c \in Carets : at[c] \in Inside <=> owner = c

(* A database that is down costs one blocking connection attempt in the    *)
(* life of the process, whatever is typed; one that is up, one connection. *)
OneConnectionAttempt == attempts <= 1

(* A degraded list looks healthy, so the client is told: whenever a caret  *)
(* of a session with a driver was answered from the statement alone, the   *)
(* notification was sent, before that answer, and sent once.               *)
DegradationIsAnnounced ==
  /\ notices <= 1
  /\ profile = "driven" =>
       \A c \in Carets : answer[c] = "statement" => notices = 1

(* A read that raises in one caret leaves no other reading: once the       *)
(* session is degraded, nobody is in complete() with the catalog.          *)
NoReadAfterDegrade ==
  announced => \A c \in Carets : at[c] \notin {"reading", "raised"}

(* A completion request never fails: each one sent is answered, whichever  *)
(* of the reads before it hangs until its timeout or raises.               *)
EveryCaretAnswered ==
  \A c \in Carets : at[c] = "waiting" ~> answer[c] # "pending"
=============================================================================
