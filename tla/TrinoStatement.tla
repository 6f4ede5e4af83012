---------------------------- MODULE TrinoStatement ----------------------------
(***************************************************************************)
(* catalogs/trino_http.py: one statement over Trino's REST protocol.  The  *)
(* statement is posted, and each answer that names a nextUri is followed   *)
(* with a get, until one names none.  An answer of a busy coordinator is   *)
(* retried after a pause.  One deadline is set for all of it.              *)
(*                                                                         *)
(* Time is a clock in ticks, 0 when `run` begins.  It passes while a       *)
(* request is out and while the reader sleeps; what the reader itself      *)
(* computes takes none, and every answer takes at least one tick.          *)
(***************************************************************************)
EXTENDS Integers, Sequences

CONSTANTS
  Pages,     \* the answers with rows the statement has
  Deadline,  \* DEFAULT_DEADLINE, in ticks
  Timeout,   \* _http.DEFAULT_TIMEOUT
  Dribble,   \* what an answer that keeps arriving may add to its timeout:
             \* urlopen's timeout bounds a wait on the socket, not a request
  Pause      \* _RETRY_PAUSE

ASSUME ConstantsAssumption ==
  /\ Pages \in Nat
  /\ Deadline \in Nat
  /\ Timeout \in Nat \ {0}
  /\ Dribble \in Nat
  /\ Pause \in Nat \ {0}

VARIABLES
  clock,  \* the monotonic clock
  at,     \* where `run` is
  next,   \* the page of rows the coordinator gives next
  spent,  \* ticks the request out, or the sleep, has taken
  limit,  \* the timeout of the request out
  rows,   \* run's local: the pages received, in order
  held    \* Cursor._rows: what fetchall gives

vars == <<clock, at, next, spent, limit, rows, held>>

-----------------------------------------------------------------------------

Ended == {"returned", "raised"}

TypeOK ==
  /\ clock \in Nat
  /\ at \in {"fetching", "waiting", "sleeping"} \cup Ended
  /\ next \in 1 .. (Pages + 1)
  /\ spent \in Nat
  /\ limit \in 0 .. Timeout
  /\ rows \in Seq(1 .. Pages)
  /\ held \in Seq(1 .. Pages)

(* run: the clock is read before anything is sent. *)
Init ==
  /\ clock = 0
  /\ at = "fetching"
  /\ next = 1
  /\ spent = 0
  /\ limit = 0
  /\ rows = <<>>
  /\ held = <<>>

-----------------------------------------------------------------------------

Least(a, b) == IF a < b THEN a ELSE b

(* expires - clock() *)
Remaining == Deadline - clock

(* A mistake in Allowed: each request gets the whole timeout. *)
AllowedInFull == Timeout

(* The timeout of one request: what is left of the statement's, at most. *)
Allowed == Least(Timeout, Remaining)

(* _fetch, the head of its loop: a request goes out while there is time. *)
Send ==
  /\ at = "fetching"
  /\ Remaining > 0
  /\ at' = "waiting"
  /\ spent' = 0
  /\ limit' = Allowed
  /\ UNCHANGED <<clock, next, rows, held>>

(* A mistake in GiveUp: the overdue statement is tried again. *)
GiveUpRetries ==
  /\ at = "fetching"
  /\ Remaining <= 0
  /\ at' = "sleeping"
  /\ spent' = Pause
  /\ UNCHANGED <<clock, next, limit, rows, held>>

(* And none once there is none left. *)
GiveUp ==
  /\ at = "fetching"
  /\ Remaining <= 0
  /\ at' = "raised"
  /\ UNCHANGED <<clock, next, spent, limit, rows, held>>

(* What the reader waits for takes time: a request its limit and what it     *)
(* dribbles, a sleep the pause.                                              *)
Tick ==
  /\ \/ at = "waiting" /\ spent < limit + Dribble
     \/ at = "sleeping" /\ spent < Pause
  /\ clock' = clock + 1
  /\ spent' = spent + 1
  /\ UNCHANGED <<at, next, limit, rows, held>>

Answered == at = "waiting" /\ spent > 0

(* _http.request raises TransportError, at once or after its timeout, and    *)
(* nobody retries it.  So ends any answer but a busy one that is not a page: *)
(* another status, a body that is no JSON, an error inside a 200.            *)
Fail ==
  /\ Answered
  /\ at' = "raised"
  /\ UNCHANGED <<clock, next, spent, limit, rows, held>>

(* A mistake in Busy: the retry takes the page for received. *)
BusySkips ==
  /\ Answered
  /\ at' = "sleeping"
  /\ next' = next + 1
  /\ spent' = 0
  /\ UNCHANGED <<clock, limit, rows, held>>

(* A status of RETRY_STATUSES: sleep, then the same request again. *)
Busy ==
  /\ Answered
  /\ at' = "sleeping"
  /\ spent' = 0
  /\ UNCHANGED <<clock, next, limit, rows, held>>

Wake ==
  /\ at = "sleeping"
  /\ spent = Pause
  /\ at' = "fetching"
  /\ UNCHANGED <<clock, next, spent, limit, rows, held>>

(* A mistake in IsLast: an answer without rows is taken for the last one. *)
IsLastOrEmpty(data, more) == ~more \/ ~data

(* run: only an answer without a nextUri ends the statement. *)
IsLast(data, more) == ~more

(* A page of the statement: with rows or none, a queued statement having     *)
(* none, and with a nextUri or none.  The coordinator leaves the nextUri out *)
(* only when every page of rows was given.                                   *)
Receive(data, more) ==
  /\ Answered
  /\ data => next <= Pages
  /\ LET following == IF data THEN next + 1 ELSE next
         received == IF data THEN Append(rows, next) ELSE rows
     IN /\ ~more => following = Pages + 1
        /\ next' = following
        /\ rows' = received
        /\ IF IsLast(data, more)
           THEN at' = "returned" /\ held' = received
           ELSE at' = "fetching" /\ UNCHANGED held
  /\ UNCHANGED <<clock, spent, limit>>

Next ==
  \/ Send
  \/ GiveUp
  \/ Tick
  \/ Fail
  \/ Busy
  \/ Wake
  \/ \E data, more \in BOOLEAN : Receive(data, more)

Spec == Init /\ [][Next]_vars

(* The reader is one thread that computes, waits or sleeps: it is never at   *)
(* rest before it ended, since a request is over when its time is.           *)
FairSpec == Spec /\ WF_vars(Next)

-----------------------------------------------------------------------------

(* The cursor gives every row of the statement, in the coordinator's order   *)
(* and none twice, or none at all: retries, empty pages and a failure half   *)
(* way never leave a part of a schema that would pass for all of it.         *)
WholeOrNothing ==
  held = IF at = "returned" THEN [page \in 1 .. Pages |-> page] ELSE <<>>

(* The deadline bounds the statement, however many pages and retries it      *)
(* takes, but for two things the code does not cut short: the last request   *)
(* may dribble and the last pause is slept out.                              *)
InTime == clock <= Deadline + Dribble + Pause

(* A coordinator that stays busy, queues for ever or says nothing does not   *)
(* hold the reader: the statement ends.                                      *)
Ends == <>(at \in Ended)
=============================================================================
