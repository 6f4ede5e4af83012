------------------------------ MODULE Connections ------------------------------
(***************************************************************************)
(* The connections of one VS Code window: extension.ts with store.ts,      *)
(* profiles.ts, secrets.ts, check.ts and the state of tree.ts.  Settings   *)
(* hold the connections, the secret storage their passwords, and one       *)
(* server runs the connection that is in use.                              *)
(*                                                                         *)
(* A command is a flow that stops at every await: for the user, for the    *)
(* settings to be written, for a secret, a process or the client.  What    *)
(* it does between two awaits is one action.  Nothing catches what an      *)
(* await of settings, secrets or the client rejects, so there the command  *)
(* ends (Rejected); the test alone catches its checker.                    *)
(***************************************************************************)
EXTENDS Integers, Sequences, FiniteSets, SequencesExt

CONSTANTS
  Flows,        \* the commands that can be under way at once
  Names,        \* names of connections
  Hosts,        \* stands for dialect, host, port and database
  Passwords,
  None,         \* undefined; not a name, a password or a number
  Malformed,    \* an entry of a list that readProfiles drops
  MaxEntries,   \* bound: connections in one list
  MaxCommands,  \* bound: commands a user gives
  MaxHandEdits  \* bound: edits of settings.json by hand

VARIABLES
  lists,      \* scope -> the connections in it, or None
  default,    \* the setting defaultConnection
  secrets,    \* name -> the password stored for it
  client,     \* the language client: its launch, or None
  servers,    \* launch -> what that process was given
  inUse,      \* tree.inUse
  health,     \* tree.health
  status,     \* the status bar: a state and the name beside it
  declined,   \* names whose password was declined in this window
  python,     \* whether serverPython is known
  flow,       \* flow -> where its command is
  commands,   \* commands given so far
  handEdits,  \* edits by hand so far
  rejected    \* history: whether an await of a command was ever rejected

settings == <<lists, default>>
tree == <<inUse, health>>
bounds == <<commands, handEdits>>
vars == <<lists, default, secrets, client, servers, inUse, health, status,
          declined, python, flow, commands, handEdits, rejected>>

-----------------------------------------------------------------------------

Scopes == {"user", "workspace"}

(* `user` is whether one is named; `secure` stands for it and `verify`. *)
Profile == [name : Names, host : Hosts, user : BOOLEAN, secure : BOOLEAN]

Idle == [at |-> "idle", kind |-> "restart", name |-> None, profile |-> None,
         list |-> <<>>, scope |-> "user", launch |-> None]

EffectiveScope == IF lists["workspace"] # None THEN "workspace" ELSE "user"

(* What the setting holds, written by hand or by the commands. *)
Raw == IF lists[EffectiveScope] = None THEN <<>> ELSE lists[EffectiveScope]

(* readProfiles of the list in effect. *)
Listed == SelectSeq(Raw, LAMBDA entry : entry # Malformed)

Has(list, n) == \E i \in DOMAIN list : list[i] # Malformed /\ list[i].name = n

(* The first of a name, as `find` does. *)
FirstNamed(n) ==
  LET named == SelectSeq(Listed, LAMBDA p : p.name = n)
  IN  IF named = <<>> THEN None ELSE Head(named)

ResolveProfile ==
  IF default # None THEN FirstNamed(default)
  ELSE IF Len(Listed) = 1 THEN Listed[1] ELSE None

(* The six fields of the stored form: `secure` is none of them. *)
StoredForm(p) == [p EXCEPT !.secure = FALSE]

Forms(list) == [i \in DOMAIN list |-> StoredForm(list[i])]

IsInUse(n) == default = n

StoredPassword(n) == IF n \in DOMAIN secrets THEN secrets[n] ELSE None

With(map, key, value) == [k \in DOMAIN map \cup {key} |-> IF k = key THEN value ELSE map[k]]

Without(map, key) == [k \in DOMAIN map \ {key} |-> map[k]]

SetHealth(n, h) == health' = With(health, n, h)

SetStatus(is, n) == status' = [is |-> is, name |-> n]

NeedsPassword(p) == p.user /\ StoredPassword(p.name) = None /\ p.name \notin declined

At(f, place) == flow[f].at = place

Go(f, place) == flow' = [flow EXCEPT ![f].at = place]

End(f) == flow' = [flow EXCEPT ![f] = Idle]

-----------------------------------------------------------------------------
(* The end of a command: a restart, where the server holds what it changed. *)

BeginRestart(f) ==
  /\ flow' = [flow EXCEPT ![f] = [Idle EXCEPT !.at = "stopping", !.launch = client]]
  /\ SetStatus("starting", None)

RestartIfInUse(f, n) ==
  \/ IsInUse(n) /\ BeginRestart(f)
  \/ ~IsInUse(n) /\ End(f) /\ UNCHANGED status

(* runTest, up to the first await. *)
StartTest(f, p) ==
  IF python
  THEN /\ flow' = [flow EXCEPT ![f] = [Idle EXCEPT !.at = "reading", !.kind = "test",
                                                   !.profile = p]]
       /\ SetHealth(p.name, "testing")
  ELSE End(f) /\ SetHealth(p.name, "failed")

-----------------------------------------------------------------------------
(* Commands. *)

Call(f) ==
  /\ At(f, "idle") /\ commands < MaxCommands
  /\ commands' = commands + 1
  /\ UNCHANGED <<settings, secrets, client, servers, inUse, declined, python, handEdits, rejected>>

CallRestart(f) == Call(f) /\ BeginRestart(f) /\ UNCHANGED health

(* add and select; select keeps the list it shows. *)
CallAsking(f, kind) ==
  /\ Call(f)
  /\ kind = "select" => Listed # <<>>
  /\ flow' = [flow EXCEPT ![f] = [Idle EXCEPT !.at = "asking", !.kind = kind,
                                              !.list = IF kind = "select" THEN Listed ELSE <<>>]]
  /\ UNCHANGED <<health, status>>

(* The commands of a row of the tree, which hands over the entry it shows. *)
CallOnEntry(f, kind, place, p) ==
  /\ Call(f)
  /\ flow' = [flow EXCEPT ![f] = [Idle EXCEPT !.at = place, !.kind = kind, !.profile = p,
                                              !.name = p.name]]
  /\ UNCHANGED <<health, status>>

CallTest(f, p) == Call(f) /\ StartTest(f, p) /\ UNCHANGED status

CallAny(f) ==
  \/ CallRestart(f)
  \/ \E kind \in {"add", "select"} : CallAsking(f, kind)
  \/ \E i \in DOMAIN Listed :
       \/ \E kind \in {"edit", "remove"} : CallOnEntry(f, kind, "asking", Listed[i])
       \/ CallOnEntry(f, "use", "choosing", Listed[i])
       \/ CallOnEntry(f, "setPassword", "prompting", Listed[i])
       \/ CallOnEntry(f, "clearPassword", "forgetting", Listed[i])
       \/ CallTest(f, Listed[i])

(* Backing out of a question. *)
Dismiss(f) ==
  /\ At(f, "asking")
  /\ End(f)
  /\ UNCHANGED <<settings, secrets, client, servers, tree, status, declined, python, bounds, rejected>>

-----------------------------------------------------------------------------
(* Changes of the list.  It is read when the flow's last answer is given. *)

Write(f, name, p, list) ==
  /\ flow' = [flow EXCEPT ![f] = [@ EXCEPT !.at = "writing", !.name = name, !.profile = p,
                                          !.list = list, !.scope = EffectiveScope]]
  /\ UNCHANGED <<settings, secrets, client, servers, tree, status, declined, python, bounds, rejected>>

AddConnection(f, p) == Write(f, p.name, p, Append(Forms(Listed), StoredForm(p)))

UpdateConnection(f, p) ==
  LET old == flow[f].name
  IN IF Has(Listed, old)
     THEN Write(f, old, p, [i \in DOMAIN Listed |->
                              StoredForm(IF Listed[i].name = old THEN p ELSE Listed[i])])
     ELSE /\ RestartIfInUse(f, old)
          /\ UNCHANGED <<settings, secrets, client, servers, tree, declined, python, bounds, rejected>>

RemoveConnection(f) ==
  IF Has(Listed, flow[f].name)
  THEN Write(f, flow[f].name, flow[f].profile, SelectSeq(Forms(Listed), LAMBDA p : p.name # flow[f].name))
  ELSE /\ Go(f, "forgetting")
       /\ UNCHANGED <<settings, secrets, client, servers, tree, status, declined, python,
                      bounds, rejected>>

(* The profile of an answered edit: one field of the captured one changed. *)
Edited(p, q) ==
  \/ q = p
  \/ \E n \in Names : q = [p EXCEPT !.name = n]
  \/ \E h \in Hosts : q = [p EXCEPT !.host = h]
  \/ \E u \in BOOLEAN : q = [p EXCEPT !.user = u]

Submit(f) ==
  /\ At(f, "asking")
  /\ \/ /\ flow[f].kind = "add" /\ Len(Listed) < MaxEntries
        /\ \E p \in Profile : ~p.secure /\ AddConnection(f, p)
     \/ /\ flow[f].kind = "edit"
        /\ \E p \in Profile : Edited(flow[f].profile, p) /\ UpdateConnection(f, p)
     \/ flow[f].kind = "remove" /\ RemoveConnection(f)

(* config.update has ended. *)
LandWrite(f) ==
  /\ At(f, "writing")
  /\ lists' = [lists EXCEPT ![flow[f].scope] = flow[f].list]
  /\ \/ /\ flow[f].kind = "add" /\ flow[f].profile.user
        /\ Go(f, "prompting") /\ UNCHANGED <<health, status>>
     \/ /\ flow[f].kind = "add" /\ ~flow[f].profile.user
        /\ StartTest(f, flow[f].profile) /\ UNCHANGED status
     \/ flow[f].kind = "edit" /\ RestartIfInUse(f, flow[f].name) /\ UNCHANGED health
     \/ flow[f].kind = "remove" /\ Go(f, "forgetting") /\ UNCHANGED <<health, status>>
  /\ UNCHANGED <<default, secrets, client, servers, inUse, declined, python, bounds, rejected>>

(* forgetPassword has ended: the last step of a removal, or the command. *)
Forget(f) ==
  /\ At(f, "forgetting")
  /\ secrets' = Without(secrets, flow[f].name)
  /\ \/ /\ flow[f].kind = "remove"
        /\ RestartIfInUse(f, flow[f].name) /\ UNCHANGED health
     \/ /\ flow[f].kind = "clearPassword"
        /\ SetHealth(flow[f].name, "untested") /\ End(f) /\ UNCHANGED status
  /\ UNCHANGED <<settings, client, servers, inUse, declined, python, bounds, rejected>>

-----------------------------------------------------------------------------
(* Which connection is used. *)

(* The picker of select answers, or a row was clicked: the setting is written. *)
Pick(f, p) ==
  /\ At(f, "asking") /\ flow[f].kind = "select"
  /\ p \in Range(flow[f].list)
  /\ flow' = [flow EXCEPT ![f] = [@ EXCEPT !.at = "choosing", !.name = p.name, !.profile = p]]
  /\ UNCHANGED <<settings, secrets, client, servers, tree, status, declined, python, bounds, rejected>>

Choose(f) ==
  /\ At(f, "choosing")
  /\ default' = flow[f].name
  /\ \/ flow[f].kind = "use" /\ BeginRestart(f)
     \/ flow[f].kind = "select" /\ Go(f, "looking") /\ UNCHANGED status
  /\ UNCHANGED <<lists, secrets, client, servers, tree, declined, python, bounds, rejected>>

Look(f) ==
  /\ At(f, "looking")
  /\ \/ StoredPassword(flow[f].name) = None /\ Go(f, "prompting") /\ UNCHANGED status
     \/ StoredPassword(flow[f].name) # None /\ BeginRestart(f)
  /\ UNCHANGED <<settings, secrets, client, servers, tree, declined, python, bounds, rejected>>

(* promptForPassword of a command: a password stored, or None dismissed. *)
Prompted(f, password) ==
  /\ At(f, "prompting")
  /\ secrets' = IF password = None THEN secrets ELSE With(secrets, flow[f].name, password)
  /\ \/ flow[f].kind = "add" /\ StartTest(f, flow[f].profile) /\ UNCHANGED status
     \/ flow[f].kind = "select" /\ BeginRestart(f) /\ UNCHANGED health
     \/ flow[f].kind = "setPassword" /\ RestartIfInUse(f, flow[f].name) /\ UNCHANGED health
  /\ UNCHANGED <<settings, client, servers, inUse, declined, python, bounds, rejected>>

-----------------------------------------------------------------------------
(* A test. *)

ReadForTest(f) ==
  /\ At(f, "reading")
  /\ Go(f, "checking")
  /\ UNCHANGED <<settings, secrets, client, servers, tree, status, declined, python, bounds, rejected>>

(* The checker answers, or cannot be run. *)
Checked(f, verdict) ==
  /\ At(f, "checking")
  /\ SetHealth(flow[f].profile.name, verdict)
  /\ End(f)
  /\ UNCHANGED <<settings, secrets, client, servers, inUse, status, declined, python, bounds, rejected>>

(* It is killed after CHECK_TIMEOUT_MS, which counts as a failure. *)
TimedOut(f) == Checked(f, "failed")

-----------------------------------------------------------------------------
(* stop, then start. *)

Stopped(f) ==
  /\ At(f, "stopping")
  /\ servers' = Without(servers, flow[f].launch)
  /\ client' = None
  /\ flow' = [flow EXCEPT ![f] = [Idle EXCEPT !.at = "unpacking"]]
  /\ UNCHANGED <<settings, secrets, tree, status, declined, python, bounds, rejected>>

Fresh == CHOOSE n \in 1..(Cardinality(Flows) + Cardinality(DOMAIN servers) + 1) :
           /\ n \notin DOMAIN servers \cup {client}
           /\ \A f \in Flows : flow[f].launch # n

(* The client is made and its server is starting. *)
Launch(f, p, password) ==
  /\ client' = Fresh
  /\ servers' = With(servers, Fresh, [profile |-> p, password |-> password,
                                      up |-> FALSE, told |-> FALSE])
  /\ flow' = [flow EXCEPT ![f] = [Idle EXCEPT !.at = "launching", !.launch = Fresh,
                                              !.profile = p]]

(* ensureRuntime ends.  Settings are read at once. *)
Unpacked(f) ==
  /\ At(f, "unpacking")
  /\ python' = TRUE
  /\ \/ ResolveProfile = None /\ Launch(f, None, None)
     \/ /\ ResolveProfile # None
        /\ flow' = [flow EXCEPT ![f] = [@ EXCEPT !.at = "keying", !.profile = ResolveProfile]]
        /\ UNCHANGED <<client, servers>>
  /\ UNCHANGED <<settings, secrets, tree, status, declined, bounds, rejected>>

NotUnpacked(f) ==
  /\ At(f, "unpacking")
  /\ SetStatus("dormant", None)
  /\ End(f)
  /\ UNCHANGED <<settings, secrets, client, servers, tree, declined, python, bounds, rejected>>

ReadKey(f) ==
  LET p == flow[f].profile
  IN /\ At(f, "keying")
     /\ \/ NeedsPassword(p) /\ Go(f, "asked") /\ UNCHANGED <<client, servers>>
        \/ ~NeedsPassword(p) /\ Launch(f, p, StoredPassword(p.name))
     /\ UNCHANGED <<settings, secrets, tree, status, declined, python, bounds, rejected>>

AnswerAsked(f, password) ==
  LET p == flow[f].profile
  IN /\ At(f, "asked")
     /\ Launch(f, p, password)
     /\ secrets' = IF password = None THEN secrets ELSE With(secrets, p.name, password)
     /\ declined' = IF password = None THEN declined \cup {p.name} ELSE declined
     /\ UNCHANGED <<settings, tree, status, python, bounds, rejected>>

(* client.start() has ended.  setInUse forgets the health of the connection. *)
Launched(f) ==
  LET p == flow[f].profile
      n == IF p = None THEN None ELSE p.name
  IN /\ At(f, "launching")
     /\ servers' = [servers EXCEPT ![flow[f].launch].up = TRUE]
     /\ inUse' = n
     /\ health' = Without(health, n)
     /\ SetStatus(IF p = None THEN "no-profile" ELSE "bound", n)
     /\ End(f)
     /\ UNCHANGED <<settings, secrets, client, declined, python, bounds, rejected>>

(* client.start() is rejected, and the command with it. *)
NotLaunched(f) ==
  /\ At(f, "launching")
  /\ servers' = Without(servers, flow[f].launch)
  /\ rejected' = TRUE
  /\ End(f)
  /\ UNCHANGED <<settings, secrets, client, tree, status, declined, python, bounds>>

-----------------------------------------------------------------------------
(* What an await rejects. *)

(* Where a command waits for the settings, the secrets or the disk. *)
Storing == {"writing", "choosing", "looking", "prompting", "forgetting", "reading",
            "unpacking", "keying", "asked"}

(* The command ends where it is: what it was to write is not written, a test  *)
(* shows no verdict, and a restart leaves no client and "starting".           *)
Rejected(f) ==
  /\ flow[f].at \in Storing
  /\ rejected' = TRUE
  /\ End(f)
  /\ UNCHANGED <<settings, secrets, client, servers, tree, status, declined, python, bounds>>

(* client.stop() rejects: the client is kept, whether its process ended or not. *)
NotStopped(f) ==
  /\ At(f, "stopping") /\ client # None
  /\ servers' \in {servers, Without(servers, flow[f].launch)}
  /\ rejected' = TRUE
  /\ End(f)
  /\ UNCHANGED <<settings, secrets, client, tree, status, declined, python, bounds>>

-----------------------------------------------------------------------------
(* What is not a command. *)

(* A server that runs says once that its catalog is unusable, also one that   *)
(* was given no connection or is being stopped: the handler tests neither.    *)
Degraded(launch) ==
  LET p == servers[launch].profile
  IN /\ servers[launch].up /\ ~servers[launch].told
     /\ servers' = [servers EXCEPT ![launch].told = TRUE]
     /\ \/ p = None /\ SetStatus("degraded", None) /\ UNCHANGED health
        \/ p # None /\ SetStatus("degraded", p.name) /\ SetHealth(p.name, "failed")
     /\ UNCHANGED <<settings, secrets, client, inUse, declined, python, flow, bounds, rejected>>

(* Somebody edits settings.json, at any moment. *)
EditByHand ==
  /\ handEdits < MaxHandEdits
  /\ handEdits' = handEdits + 1
  /\ \/ /\ default' \in (Names \cup {None}) \ {default}
        /\ UNCHANGED lists
     \/ /\ \E s \in Scopes, p \in Profile \cup {Malformed} :
             lists' = [lists EXCEPT ![s] =
                         IF @ # None /\ Len(@) < MaxEntries THEN Append(@, p) ELSE <<p>>]
        /\ UNCHANGED default
     \/ /\ lists' = [lists EXCEPT !["workspace"] = IF @ = None THEN <<>> ELSE None]
        /\ UNCHANGED default
  /\ UNCHANGED <<secrets, client, servers, tree, status, declined, python, flow, commands, rejected>>

-----------------------------------------------------------------------------

(* activate registers the commands and starts. *)
Init ==
  /\ \E list \in {None} \cup SeqOf(Profile \cup {Malformed}, MaxEntries) :
       lists = [user |-> list, workspace |-> None]
  /\ default \in Names \cup {None}
  /\ secrets = <<>>
  /\ client = None /\ servers = <<>>
  /\ inUse = None /\ health = <<>>
  /\ status = [is |-> "starting", name |-> None]
  /\ declined = {} /\ python = FALSE
  /\ \E g \in Flows : flow = [f \in Flows |-> IF f = g THEN [Idle EXCEPT !.at = "unpacking"]
                                                    ELSE Idle]
  /\ commands = 0 /\ handEdits = 0
  /\ rejected = FALSE

(* Steps that wait for nobody. *)
Proceed(f) ==
  \/ LandWrite(f) \/ Forget(f) \/ Choose(f) \/ Look(f)
  \/ ReadForTest(f) \/ TimedOut(f)
  \/ Stopped(f) \/ Unpacked(f) \/ NotUnpacked(f) \/ ReadKey(f)
  \/ Launched(f) \/ NotLaunched(f) \/ Rejected(f) \/ NotStopped(f)

(* The user's. *)
Answer(f) ==
  \/ CallAny(f) \/ Dismiss(f) \/ Submit(f)
  \/ \E p \in Profile : Pick(f, p)
  \/ \E password \in Passwords \cup {None} : Prompted(f, password) \/ AnswerAsked(f, password)

Next ==
  \/ \E f \in Flows : Proceed(f) \/ Answer(f)
  \/ \E f \in Flows, verdict \in {"ok", "failed"} : Checked(f, verdict)
  \/ \E launch \in DOMAIN servers : Degraded(launch)
  \/ EditByHand

Spec == Init /\ [][Next]_vars

-----------------------------------------------------------------------------

AllIdle == \A f \in Flows : At(f, "idle")

(* "an orphaned secret means a later connection reusing that name silently    *)
(* inherits somebody else's password": with every command ended, none of them *)
(* cut short by what an await rejected and nothing edited by hand, a password *)
(* is stored only under the name of a connection.                             *)
NoOrphanedSecret ==
  AllIdle /\ ~rejected /\ handEdits = 0 =>
    \A n \in DOMAIN secrets : \E s \in Scopes : lists[s] # None /\ Has(lists[s], n)
=============================================================================
