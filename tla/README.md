# pysqlsuggestions, specified

TLA+ specifications of the core of pysqlsuggestions and of the parts that keep
state: the analysis that says what a caret in half-written SQL admits; the cache,
the reader between a completion and the database, a statement over Trino's REST
protocol, the language server's session, the installation of its Python runtime
and the stored connections of the editor. TLC checks each on small instances;
TLAPS proves the safety properties of the stateful ones for every size, and of the
analysis that it finds the clause at every caret of every statement the `Author`
module can write.

The repository has three programs: the library (`src/pysqlsuggestions`), a
language server over it (`lsp/pysqlsuggestions_lsp`) and a VS Code extension that
ships and runs the server (`editors/vscode`). Paths below are relative to the
repository.

## 1. The system

| component | state | operations | what makes it correct |
| --- | --- | --- | --- |
| `caches/memory.py` | an `OrderedDict`, four counters, a lock | get, set, delete, clear, stats | never over maxsize, least recently used goes first, each answer is for the key asked, counters add up |
| `caches/redis.py`, `codec.py`, `keys.py` | the store's | get_bytes, set_bytes, encode, decode, cache_key | one key per question and identity; bytes that are not ours are a miss |
| `resolve.py` `_Reader` | memo and latch, per request | one read per question, one batch of columns | answers are the asker's own and do not change in a request; each question asked once; what was dropped stays dropped |
| `engine/analyse.py`, `engine/request.py` | none | pure functions of a token stream and a caret: clause, scope, outputs, kinds, words | what they answer is what the SQL being written says, for every prefix and every caret |
| `dialects/base.py`, `ansi.py` | none | the clause table and its questions | no clause twice, no word of the grammar withheld |
| the keyword family of `resolve.py`, `engine/local.py` | none | from a request to words on offer | the same |
| other candidates of `resolve.py`, `engine/rank.py`, `joins.py`, `api.py` | none | pure functions of a request and catalog rows | ranking equals its reference, edits splice where they should |
| `catalogs/trino_http.py` | per statement: a deadline, the rows so far | execute | every row once and in order, or none; a statement ends, in time |
| other `catalogs/*` | none | one query per read | - |
| `server.py` `Session` | profile, catalog, `_tried`, `_announced`, a reentrant lock | initialize, completion | one caret reads at a time, one connection attempt, degradation announced before it shows, every caret answered |
| `connections.py` | the connection kept by `open_cursor` | open, connect | attempted once, bounded |
| `runtime.ts` | a directory and a stamp file, for ever | ensureRuntime | ready means runnable; the stamp is never ahead of the tree |
| `extension.ts`, `store.ts`, `profiles.ts`, `secrets.ts`, `check.ts` | settings, secrets, the language client, the health of each connection | add, edit, remove, select, test, restart | the server runs what the settings say; an edit changes what was edited; a secret belongs to one connection |
| `tree.ts`, `rows.ts`, `status.ts` | the health of each connection, the status shown | set, render | what they say is so |

How they meet. A completion arrives in the server's thread pool; `Session` takes
its lock, builds the catalog on first use and calls `complete`, which derives a
request from the text, lets `_Reader` ask the cache and then the catalog, and
ranks what comes back. The cache is shared by all requests and belongs to the
caller; with the library alone there may be many threads on one `MemoryCache`,
or many processes on one redis. The first failure degrades the session, which
notifies the extension. The extension unpacks the runtime before it starts the
server, and restarts the server for every change of connection.

What is hard: every prefix of a statement is a legal input of the analysis, with
the caret anywhere in it; steps of threads between clock and lock; a read in flight while the
entry is deleted; a cache that fails in the middle of a request; reentrancy; a
window killed half-way through an installation, a downgrade, a second window; a
command that waits for its user while settings change under it.
`PROJECT.json` lists each hazard at its line with the properties that cover it.

## 2. The modules

| module | models | |
| --- | --- | --- |
| `CachePort` | `ports.py`, ObjectCache | abstract: an answer is what was last stored under the key that was asked, or nothing; an entry may go at any time |
| `MemoryCache` | `caches/memory.py` | implements `CachePort` |
| `CatalogReader` | `_Reader`, `_prefetch_scope_columns` | uses a cache as weak as the port, which moreover may raise |
| `Session` | `server.py` Session, `connections.py` open_catalog | one process |
| `TrinoStatement` | `trino_http.py` `run` and `_fetch` | one statement; the coordinator answers as it likes |
| `Runtime` | `runtime.ts` as `extension.ts` calls it | files that outlive windows |
| `Connections` | `extension.ts` commands, `store.ts`, `profiles.ts`, `secrets.ts`, `check.ts` | settings and secrets that a window's commands read and write |
| `Dialect` | `dialects/base.py` clauses, `dialects/ansi.py` | the clause table: data and its questions |
| `Positions`, `Clauses`, `Scopes` | `engine/analyse.py` | operators on a token stream: where the caret is; the clause there and what is written of it; the relations in view. Each extends the one before, the first extends `Dialect` |
| `Requests` | `engine/request.py`, the keyword family of `resolve.py`, `engine/local.py` | what is asked for at a caret and the words on offer |
| `Ranking` | `engine/rank.py` `rank` | one call: shortlists that grow until one suffices |
| `Author` | nothing: whoever types | writes SQL and knows what it means; the clause the engine finds is held against what it knows |
| `Answers` | nothing: whoever types | extends `Author` and `Requests`: asks at every step, and holds the rest of the answers against what it knows |
| `*Proofs` | theorems about the module they extend | |
| `MC*` | the instances for TLC | |

An operator with a name such as `OverfullByTwo`, whose comment begins "A mistake
in", is a plausible bug in the definition that follows it. No specification uses
it; it is there so that each property can be shown to notice something.

### MemoryCache

`get` and `set` read `time.monotonic` and then take the lock, so each call is two
actions: `CallGet`/`CallSet` take the time, `GetMiss`, `GetExpired`, `GetHit` and
`Set` are the critical sections. `Delete` and `Clear` read no clock and are one.
The `OrderedDict` is the sequence `entries`, the oldest use first, so
`move_to_end` is `WithNewest` and `popitem(last=False)` is `Tail`. `Tick` moves
the clock. `since`, `calls`, `added` and `dropped` are history: properties and
the bound on calls read them, no action's effect on the cache does. `__init__` raises for a maxsize below one, hence
`SizeAssumption`; `NoBound` and `Never` are the two Nones.

`CachePort` keeps the call each caller is in, `asked`, with the key and the value it was
made with; only that call can be answered or carried out. `Port` maps `op` to it
(`Asked`), so an answer found under any other key, or a value stored under one, is no
step of the port.

### CatalogReader

A request is at one of: `new`, `warming` (the loop of `prefetch_columns` over the
relations it has not looked up yet), `filing` (the answers of the batch it has
not stored yet), `ready`, `looking` (about to call the cache), `producing`
(about to call the catalog; `keep` says whether the answer is offered to the
cache), `storing`, `done`, `raised`. Every call to the cache or the catalog is a
step; each may raise. A cached value carries who asked, what, and at which
version of the schema, which is all the properties need to tell apart. The
environment alters the schema (`Alter`), loses entries (`Forget`: expiry,
eviction, delete) and writes foreign bytes (`Intrude`). The order in which
relations are warmed and filed is left open, which covers the order of the list.

### Session

A caret moves `waiting -> entered -> reading -> full -> answered` when all goes
well, through `raised` and `empty` to `bare` when it does not. `owner` is the
RLock; `Lockable` is its reentrancy, and `DegradeBy`, `FindCatalog` and
`BuildCatalog` take it again. A completion makes finitely many reads, of which
only the first connects (`Connect`); any may raise.

### TrinoStatement

`at` is where `run` is: about to send (`fetching`), in the transport (`waiting`),
in the pause of a retry (`sleeping`), or ended. `rows` is run's local and `held`
the cursor's `_rows`, which only a `run` that returns assigns. Every answer is
one action: `Receive` for a page, `Busy` for a retried status, `Fail` for all
that raises. The coordinator is not modelled beyond this: it gives its pages in order
and leaves the nextUri out when all were given, and may answer without rows as
often as it likes. `urlopen`'s timeout bounds one wait on the socket, so an
answer that trickles in may outlast it; by how much is `Dribble`. Whether a
retried post starts the statement twice on the server is the server's affair and
not modelled: the reader follows the one answered.

### Runtime

One action per call `ensureRuntime` makes: `Check`, `Remove`, `BeginExtract`,
`EndExtract`, `MakeExecutable`, `WriteStamp`; each may fail, and `Kill` ends a
window between, or half-way through, any of them. `Install` puts another version
of the extension in place, `Restart` is the extension's restart in a window that
still runs the version it was loaded with.

### Connections

A command is a *flow* that stops at every `await`: for its user (`asking`,
`prompting`, `asked`), for the settings (`writing`, `choosing`), a secret
(`looking`, `reading`, `keying`, `forgetting`), a process (`checking`, `unpacking`) or the
client (`stopping`, `launching`). What the code does between two awaits is one action:
`Submit` answers the last question and composes the list that is written,
`LandWrite` is `config.update` returning, with the restart the command asks for.
Nothing catches what those awaits reject: `Rejected`, `NotStopped` and `NotLaunched` end the
command where it is, with the settings unwritten, the test without a verdict or the
status at "starting"; the history `rejected` remembers that this happened. Only the
checker's failures are caught, and are a verdict.
Two scopes of settings exist, of which the workspace's wins if it is a list at all. An
entry is a profile or `Malformed`, which `readProfiles` drops (`Listed`), so a write of the
list loses it. A profile is a name, a host (standing for dialect, host, port and database),
whether a user is named, and `secure` (for `secure` and `verify`), which a write loses too. The
server is what it was given at its launch, `servers[launch]`, and may report once, at any
time it is up, that it is `Degraded`. `EditByHand` is the user in settings.json, at any time.

Little can be promised of this part: nothing in the code orders two commands, reverts
half of one, or ties the server, the health and the secrets to the settings beyond
the step that writes them. So the module has one property, the one the code's own
comment states, and the run shows where it fails.

### The analysis: Dialect, Positions, Clauses, Scopes, Requests

The engine is a pure function, so these modules are operators and no state. The
token is where the model ends: `[t, v, d, s]`, its type, its word, its paren
depth, and whether a space follows it; the lexer that makes them is not modelled.
White space and comments are no tokens, which makes the code's `_skip_back` and
`_skip_forward` the identity, and `s` is read where the code looks at the very
next token *without* skipping. A caret is a number of tokens before it and whether it touches
the last. A phrase like `GROUP BY` is a sequence of words, and "no clause" is the
empty one. Loops over tokens are sets of positions and their extremes (`MaxOf`,
`MinOf`) where the loop stops at the first hit, recursive functions where it
carries something along. The chain of scopes is flattened: a level carries
`relations`, its own, and `visible`, those and its parents'. The mutual recursion of
`_read_ctes` and `select_outputs` is that of `ReadCtes` and `SelectOutputs`, with the
code's budget `MaxNesting` (64 in the code; 12 exceeds what the runs can nest). The
names of operators are those of the functions, and `PROJECT.json` maps each.

Before anything was checked, the operators were compared with the functions on
4500 token streams (random statements, every caret): no difference was left.

### Author and Answers

An author writes a statement from left to right by the rules of SQL, one phrase
per action (`BeginFrom`, `Table`, `DerivedTable`, `CteBody`, `Operand`, `Close`,
...), and keeps for every gap between tokens the truth of it: `gaps[i]` has the query
`level`, the `clause` and the `slot` of the grammar (an item is due, an operand was
written, a type is due in a CAST, ...); `levels` has for each query its relations,
outputs and clauses, and which levels it sees. What tables, aliases and CTEs are called,
and in which order, is constant; all that is asked of the names is that none is a keyword
(`NamesAssumption`). A complete statement may be walked over
backwards (`Left`), so every caret in the middle of one, on a word or behind it, is
asked about as well. In `Answers`, `answer` is `DeriveRequest` at the caret. The two are apart
because scopes are read by RECURSIVE operators, and a module that reaches those cannot be
proved about: `Author` reaches none. The author's actions are the
environment and stand for no code; the grammar in them is SQL's, not the
engine's, and each property holds one answer against it:

- `ClauseAgrees`: `clause_at`, through groups side by side and nested;
- `ScopeAgrees`: `scope_of`, relations and CTEs;
- `OutputsAgree`: `select_outputs`, stars followed to the tables;
- `KindsAgree`: `derive_request`, slot by slot, and the suggested alias;
- `SelectListAgrees`: the select list as other clauses name it, as a star stands for
  it, and where the FROM it lacks would be inserted;
- `NoClauseTwice` and `WrittenWordOffered`: the two sides of the keyword list: nothing
  the query has already, and never less than what the author writes next.

The exceptions the properties make are positions at which the engine claims
nothing (`TypingARelation`, `OnASeam`, `NotABodyYet`) or is wrong, which section 3
lists (`LastIsLast`, `Alone`). What else it gets wrong the author does not write,
unless `Habits` says so. Two of these exceptions have runs that lift them and show what
happens: `author_scopes` gives the author the habit of a comma behind a derived
table, and `author_withheld` checks `NoWordWithheld`, which is `WrittenWordOffered`
without `Alone`.

### Ranking

One call of `rank` (`asked`), a step for each turn of its loop (`Round`), or one for a call
without limit (`RankAll`). Lists are sets of places: `Better` is the key `_order`
that needs no rendering, `Ahead` the key of the sort, made total by the place because the
sort is stable. So `Shortlist`, `Kept` (of what reads the same the first), and `Cut` are
counts of those ahead. A candidate carries the tier in which it matches and the place in the alphabet and the spelling
of what it is rendered to. Scores are in tenths.

## 3. The runs

| run | instance | what it shows |
| --- | --- | --- |
| `memory_cache` | 2 threads, 3 keys, 2 values, maxsize 2, ttl 1 or 2, clock to 3, 4 calls | type, `BoundKept`, `EveryEntryAccountedFor`, `WorkingSetSurvives`, `ImplementsPort` |
| `catalog_reader` | 2 requests, 2 identities, 2 relations, 1 schema change, 2 losses | type, `AnswersAreOwn`, `RepeatableReads`, `AskedOnce`, `DroppedStaysDropped` |
| `trino_statement` | 3 pages, deadline 8, timeout 3, pause 2, fair | type, `WholeOrNothing`, `InTime`, `Ends` |
| `session` | 3 carets, every kind of profile, fair | type, `OneCaretInside`, `OneConnectionAttempt`, `DegradationIsAnnounced`, `NoReadAfterDegrade`, `EveryCaretAnswered` |
| `runtime` | 1 window, 3 versions, 2 upgrades, 3 faults, fair | type, `ReadyMeansRunnable`, `StampIsBehindTree`, `DormantIsNotForEver` |
| `author` | 8 statement forms, up to 22 tokens, 3 query levels, 3 relations, 3 items | `ClauseAgrees`, `ScopeAgrees`, `OutputsAgree`, `KindsAgree`, `SelectListAgrees`, `NoClauseTwice`, `WrittenWordOffered` |
| `ranking` | lists of 3 candidates of some 16 sorts, lists of 10 with duplicates, limits from -1 to 5 and none | `ExactlyTheFullRanking`, `ReadableFirst` |
| `connections_orphan` | 1 command at a time, 2 commands, 2 names, 2 entries of which any malformed, 1 edit by hand | violates `NoOrphanedSecret` |
| `author_scopes` | queries and WITH up to 14 tokens, with the habit of the comma | violates `ScopeAgrees` |
| `author_withheld` | queries up to 12 tokens with subqueries in their select lists | violates `NoWordWithheld` |
| `runtime_downgrade` | 1 window, downgrades | violates `ReadyMeansRunnable` |
| `runtime_two_windows` | 2 windows | violates `StampIsBehindTree` |

Why the bounds are enough to see the interesting cases.

- *memory_cache*: four calls fill the cache, overfill it and look at what is
  left; three keys are one more than fit; two ttls against a clock of three
  steps let a read be called before an expiry and run after it. Threads, keys
  and values are interchangeable, which makes the symmetry sound; the two
  temporal properties are both safety, so symmetry does not endanger them.
- *catalog_reader*: two relations are the least that make a batch, and one of
  them found in the cache makes a batch that is given up. Two requests are
  filler and reader, under equal and unequal identities. Two losses let an
  entry go, come back stale and go again. A request stops at its end, so
  deadlock is not checked.
- *trino_statement*: the deadline is no multiple of what a request or a pause takes, so
  that the last request is cut short and the last pause overshoots. Nothing is
  bounded but the constants. The reader stops when its statement ended.
- *session*: the third caret is the one that waits while the first fails and the
  second has just been let in. A session stops when every caret is answered.
- *runtime*: three versions allow an upgrade to fail and another to follow;
  three faults let an installation fail, the next one too, and then a kill.
- *author*: the plan gives each statement form its own bounds, because a statement
  with a long head (`WITH`, `INSERT`) must be long for anything to happen in it and
  a query must be rich. Three levels put a body in a body beside a third; three relations
  are two in scope and one elsewhere; eleven tokens write
  `SELECT c FROM t1 JOIN t2 ON c = 1 WHERE`, a derived table with
  what follows it, or a branch and the next (94 000 states in all). The properties were
  also checked once with 12 and with 14 tokens (197 000 and 917 000 states). An author may stop anywhere, so deadlock is not checked.
- *connections_orphan*: the shortest counterexample is two commands, of which the first
  stores a password and the second renames its connection; nothing is rejected and
  nothing edited by hand on the way, which the property requires.
- *ranking*: three candidates tie, hide each other and are withheld in every combination;
  ten with up to nine duplicates take three rounds for a limit of two. A call ends, so deadlock is not checked.

Fairness. `TrinoStatement`: the one thread computes, waits or sleeps, so time
passes or it moves; a request whose time is over is answered or raises.
`Session`: the pool runs every handler on,
and a connect or a read that hangs ends at `CONNECT_TIMEOUT` or `READ_TIMEOUT`: fairness
assumes these timeouts, so `EveryCaretAnswered` would not show that one is missing.
The lock is not fair; weak fairness suffices since each caret asks for it
once and a process has finitely many. `Runtime`: a started activation
runs on, and the user whose window is dormant opens it again, which is what the
comment on `ensureRuntime` counts on. Faults are bounded, so the last promise
reads: once calls stop failing, it is mended.

### Where code and text disagree

1. *A stamp over a tree that is not there* (`runtime_downgrade`). An upgrade
   that fails has removed the tree and left the stamp of the version before;
   going back to that version reports ready. `runtime.ts` 107-109 says this
   cannot be.
2. *The same with two windows* (`runtime_two_windows`), without any downgrade:
   one window removes what the other is about to stamp.
3. *A password without a connection* (`connections_orphan`). A rename leaves the
   password under the old name, where the next connection of that name finds it.
   `extension.ts` 482-483 gives that as the reason why a removal deletes it.
4. *A relation that is not in scope* (`author_scopes`). `_read_relation_list` stops at what is
   no word, so a comma behind a derived table ends the reading of the list: `FROM (SELECT c
   FROM a) x, b` loses `b`. `_relations_in` (`analyse.py` 1484) is to find 'Every table
   reference introduced between `lo` and `hi`'. The same behind ON:
   `FROM a JOIN b ON c = 1, d` loses `d`.
5. *A clause of one subquery withheld from the next* (`author_withheld`).
   `clauses_written` reads all bodies of one depth as one: in `SELECT (SELECT c FROM a),
   (SELECT c |` FROM is not offered, and in `... IN (SELECT c FROM a WHERE c = 1) AND c IN (SELECT c
   FROM b |` WHERE is not. Its docstring (`analyse.py` 1614-1621) counts the clauses of the
   caret's branch alone.

Each is a counterexample of the model; the last two were also reproduced by calling
the library.

Found while modelling, without a run of its own:

- *A failed cache is called again.* `CHANGELOG.md` 487-489 says a transport failure disables
  the cache for the rest of the request. `_read_through` tests the latch before its read
  but not before the store that follows (`resolve.py` 379-380), so a failed look-up is
  followed by a store that may fail too; `prefetch_columns` does test it (line 537).
  `CatalogReader` has the latch as it is. Reproduced with the library.
- Editing one connection writes all of them in the six fields of `stored()`
  (`store.ts` 56), so `secure` and `verify` of its neighbours are lost, and with them
  every malformed entry; `test/unit/store.test.ts` 87 says 'editing keeps the other
  connections untouched'. `StoredForm` and `Listed` have both losses.
- `isInUse` (`extension.ts` 383) compares with the default alone, but the only
  connection is in use without one: editing it restarts nothing.
- A verdict is recorded by name (`extension.ts` 397) after as much as ten seconds, over whatever is
  known of the connection by then; where its password cannot be read, never.
- A test sends neither `secure` nor `verify` (`check.ts` 92), the server gets both.
- Two interleaved `restart`s each create a client and one is never stopped
  (`extension.ts` 315); a stop or a launch that rejects leaves the status at "starting".
- `plan_insertion` hands blanks back as "absolute offsets into the spliced text" (`types.py`
  529-536), but the FROM that comes with a column (`_relation_edit`) shifts neither them nor the caret that is one of
  them: in `SELECT  FROM  AS ` with blanks 17, 7 and 17 pending, a column accepted at 7 before
  its relation is chosen leaves the caret and a blank inside the FROM just written. Reproduced with the library.

The analysis, each reproduced with the library:

- A space behind the paren of a body, `WITH a AS ( SELECT c FROM b ...`, hides it:
  `_read_ctes` keys the body by the very next token and `_scope_level` looks it up by
  the first word, so the body sees what is outside, later CTEs included, against
  the docstring of `_read_ctes`. The same with `LATERAL (` and `_opens_a_query`. No run
  of its own: `MCAuthorScopes.cfg` with `Habits = {"spaces"}` gives the counterexample.
- The alias, and AS, go by the last relation in scope, and derived tables come last
  whatever the order they are written in (`LastIsLast`).
- `select_outputs` does not cut at a set operator: a star in one branch of a body stands
  for the relations of all.
- The tail of a set operation is not recognised inside a body; a star is not expanded in one,
  as `_enclosing_call` answers the keyword before the paren.
- `WITH a AS (WITH b |` offers what opens a body again, where the comment at
  `request.py` 433-435 says this cannot happen.
- A clause whose words are all spent falls through to the whole reserved list
  (`UPDATE t | SET ...`).
- The relation that is still being typed counts with the alias that follows it.

## 4. The proofs

All for arbitrary constants under the assumptions the modules declare. Each
proof module has an inductive invariant (`IInv`, in `AuthorProofs` it is `Right`), which
TLC checked on the instance of the run.

- **MemoryCacheProofs.** `TypeCorrect`, `BoundHolds`,
  `Accounted`. The invariant adds to the properties that the keys in `entries`
  are distinct, so that removing one place removes the key, a write grows the
  sequence by at most one, and one eviction is enough. The lemmas say what
  `RemoveAt`, `Append` and `Tail` leave of a sequence without repetitions.
- There too, `Refinement`: `Spec => ImplementsPort`. Taking the time maps to a `Call` of
  the port, which fixes the key, and each critical
  section to a step that answers or carries out that call: a hit to `Hit`, an expiry to `Miss`, a
  write that evicts to a `Set` that loses the evicted key; a tick is a stutter.
- There too, `LeastRecentlyUsed`: `Spec => WorkingSetSurvives`. The
  invariant is that every entry behind the one of key k in the sequence has its key
  in `since[k]`, so the front entry of an overfull sequence has seen maxsize
  others used.
- **CatalogReaderProofs.** `TypeCorrect`, `OwnAnswers`, `Repeatable`,
  `AtMostOneRead`, `DroppedForGood`.
  The invariant says of each request what its place implies: what was asked is
  memoised, in the batch, or in hand; what was given is what is memoised; and that a value on its
  way into the cache is what `Filling` says, so that a floor set while nothing
  is on its way stands.
- **TrinoStatementProofs.** `TypeCorrect`, `RowsWholeOrNothing`, `EndsInTime`. The
  invariant keeps the pages received equal to those before the next one, and says
  that the time a request began, plus its limit, is within the deadline: so only
  the dribble and the pause come on top.
- **SessionProofs.** `TypeCorrect`, `MutualExclusion`, `OneAttempt`, `Announced`,
  `DegradedForGood`. The invariant ties each place inside the
  lock to `owner`, `tried`, `catalog` and `held`: in particular a failed attempt
  leaves its caret in `raised` with the lock in its hand, so nobody can connect
  before it has degraded the session.
- **RuntimeProofs.** `TypeCorrect`, without conditions; `ReadyIsRunnable` and
  `StampBehindTree`, under `OneWindow` and `Downgrades = FALSE`; the two violation runs show that each is needed. The
  argument is that a stamp which a window has still to replace is *older* than
  what the window wants, so it cannot be mistaken for it later.
- **RankingProofs.** `TypeCorrect`, `ShortlistIsExact`, `ReadableIsKept`, `EveryRoundReachesFurther`.
  A shortlist is closed under `Ahead` (`ShortlistIsClosed`, where the ties are needed), so what is kept in it is kept
  among all and has its place there; once it fills the limit or is everything, nobody outside
  has a place left (`ClosedAnswers`). The last theorem is the variant of the loop.

- **AuthorProofs.** `ClauseAlwaysAgrees`: `Spec => []ClauseAgrees`, and `TypesHold`, for every
  plan, habit and choice of names under `NamesAssumption`: whatever the author has written,
  however long and however deeply nested, `clause_at` finds at every caret the clause
  it was written in. The invariant `Right` says more than the property: that *every* gap is told right,
  not only the caret's (`Told`), and that the open groups, one for each depth, are those the
  search outwards finds at the end of the text (`Nested`), since that is what a closing paren goes
  back to; that words are at the depth of the gap before them (`Text`), so a word being typed changes nothing;
  and that a frame in which a statement begins is in no clause, or in EXPLAIN (`Apt`), as
  only there a word such as DELETE, which a name could be, reads as a clause. The argument, from left to
  right: the scan of a group is decided by what ends before the caret (`SameScan`), so what is
  written behind a gap leaves it as it was (`GapsKept`); a piece that begins no clause stays
  under the one before it (`PlainlyWritten`); the words of a clause take over with the last of them
  (`ClauseWritten`); an opening paren begins a group in which nothing is found yet, so the
  clause around it governs, and a closing one goes back to its outside. The scan and the search outwards are
  recursive functions, `BestOf` and `ClauseFrom`; that each step of them is as it is written
  (`BestIsDefined`, `FromIsDefined`) is induction. The library's induction theorems take an
  operator and cannot be used, but `NatLessThanWellFounded` and `WFMin` can, and from them
  follows induction stated over a *set* of numbers. What depends on the clause table is
  kept apart: which words begin a clause (`TheFirstWords`), that no two of the clauses the author
  writes begin alike, and what EXPLAIN admits behind it.

Only model-checked: the liveness properties (`Ends`, `EveryCaretAnswered`, `DormantIsNotForEver`), which the prover does not
reach; and what `Answers` states (`ScopeAgrees`, `OutputsAgree`, `KindsAgree`, `SelectListAgrees`,
`NoClauseTwice`, `WrittenWordOffered`): scopes are read by RECURSIVE operators, of which the prover
can say nothing, and the request has them in it. `Connections` has no theorem: what it
is checked for does not hold.

## 5. What is not modelled, and what could follow

- The lexer, `convert.py` and `documents.py`: text into tokens and offsets. The
  models begin at tokens.
- What the other dialects add to the ANSI table, templates and placeholders,
  generated ON CONFLICT aliases, literal arguments, keyword case.
- Of `rank.py` the words, letters and quotes. `plan_insertion` of `api.py`,
  the free alias of `joins.py`, `cache_key`, `render`: pure functions on
  data rather than control, listed with their hazards. They come next, as
  recursive functions checked against reference definitions.
- Candidates from catalog rows: `_qualified`, `_unqualified`, `_values`, `_expansion`.
- Views, the test kit, the other HTTP and DB-API catalogs: nothing is kept.
- In the models: time is in whole seconds, one cache identity per request, no
  threads dying. `Connections` admits commands that interleave (`Flows`); its run has one
  at a time. `Runtime` has no restart while an activation is in flight, which `extension.ts`
  177 and 315-319 do not prevent; it would act as a second window does.

Worth proving next: that a reader over a `MemoryCache` is a reader over the port; that
`clauses_written` finds the clauses of the caret's own query and no others, from the same
lemmas about texts.
