------------------------------- MODULE Runtime -------------------------------
(***************************************************************************)
(* editors/vscode/src/runtime.ts, ensureRuntime, as extension.ts calls it  *)
(* on every activation: the archive the extension ships is unpacked once   *)
(* per version into one directory, beside which a stamp file says which    *)
(* version is there.                                                       *)
(*                                                                         *)
(* Each call to the file system is a step; any of them may fail, and the   *)
(* window may be killed between any two.  Directory and stamp outlive the  *)
(* window and the extension version.                                       *)
(***************************************************************************)
EXTENDS Integers

CONSTANTS
  Windows,     \* editor windows sharing the extension's storage
  Downgrades,  \* may an older extension be installed over a newer one
  MaxVersion,  \* bound: versions of the extension, 1 .. MaxVersion
  MaxInstalls, \* bound: times another version is installed
  MaxFaults    \* bound: calls that fail and windows that are killed

ASSUME ConstantsAssumption ==
  /\ Downgrades \in BOOLEAN
  /\ MaxVersion \in Nat \ {0}
  /\ MaxInstalls \in Nat
  /\ MaxFaults \in Nat

VARIABLES
  shipped,   \* the extension version installed now
  stamp,     \* what installed.txt says; 0 when there is no such file
  tree,      \* the runtime directory: whose archive, and how much of it
  at,        \* where each window's activation is
  wanted,    \* the version each window's activation runs with
  \* history, read by properties and bounds alone
  installs,
  faults

vars == <<shipped, stamp, tree, at, wanted, installs, faults>>

-----------------------------------------------------------------------------

Versions == 1 .. MaxVersion

NoStamp == 0

NoTree == [version |-> 0, extent |-> "absent"]

(* "partial": tar or rm stopped halfway.  "unpacked": not executable yet.  *)
Trees == {NoTree} \cup [version : Versions, extent : {"partial", "unpacked", "runnable"}]

Places ==
  {"closed", "checking", "removing", "extracting", "unpacking", "marking",
   "stamping", "ready", "dormant"}

TypeOK ==
  /\ shipped \in Versions
  /\ stamp \in Versions \cup {NoStamp}
  /\ tree \in Trees
  /\ at \in [Windows -> Places]
  /\ wanted \in [Windows -> Versions]
  /\ installs \in 0 .. MaxInstalls
  /\ faults \in 0 .. MaxFaults

Init ==
  /\ shipped = 1
  /\ stamp = NoStamp
  /\ tree = NoTree
  /\ at = [w \in Windows |-> "closed"]
  /\ wanted = [w \in Windows |-> 1]
  /\ installs = 0
  /\ faults = 0

-----------------------------------------------------------------------------

Move(w, from, to) == at[w] = from /\ at' = [at EXCEPT ![w] = to]

NoFault == faults' = faults

Fault == faults < MaxFaults /\ faults' = faults + 1

(* Another version of the extension is installed. *)
Install(v) ==
  /\ installs < MaxInstalls
  /\ v > shipped \/ (Downgrades /\ v < shipped)
  /\ shipped' = v
  /\ installs' = installs + 1
  /\ UNCHANGED <<stamp, tree, at, wanted, faults>>

(* activate -> start -> ensureRuntime, with the version of this window. *)
Activate(w) ==
  /\ Move(w, "closed", "checking")
  /\ wanted' = [wanted EXCEPT ![w] = shipped]
  /\ NoFault
  /\ UNCHANGED <<shipped, stamp, tree, installs>>

(* needsInstall: any difference means install.  An unreadable stamp is no  *)
(* stamp.                                                                  *)
NeedsInstall(existing, version) == existing # version

Check(w) ==
  /\ Move(w, "checking",
          IF NeedsInstall(stamp, wanted[w]) THEN "removing" ELSE "ready")
  /\ NoFault
  /\ UNCHANGED <<shipped, stamp, tree, wanted, installs>>

(* What a removal that stops short may leave behind. *)
Broken ==
  IF tree = NoTree THEN {NoTree}
                   ELSE {tree, [version |-> tree.version, extent |-> "partial"]}

(* A mistake in Remove: rm without `force`, which fails on what is not there. *)
RemoveUnforced(w) ==
  /\ \/ tree # NoTree /\ tree' = NoTree /\ Move(w, "removing", "extracting")
     \/ tree = NoTree /\ tree' = NoTree /\ Move(w, "removing", "dormant")
  /\ NoFault
  /\ UNCHANGED <<shipped, stamp, wanted, installs>>

Remove(w) ==
  /\ \/ tree' = NoTree /\ Move(w, "removing", "extracting") /\ NoFault
     \/ tree' \in Broken /\ Move(w, "removing", "dormant") /\ Fault
  /\ UNCHANGED <<shipped, stamp, wanted, installs>>

(* A mistake in BeginExtract: the stamp is written before the archive is unpacked. *)
BeginExtractStamped(w) ==
  /\ Move(w, "extracting", "unpacking")
  /\ tree' = [version |-> wanted[w], extent |-> "partial"]
  /\ stamp' = wanted[w]
  /\ NoFault
  /\ UNCHANGED <<shipped, wanted, installs>>

(* A mistake in BeginExtract: the directory is made for no version. *)
BeginExtractNothing(w) ==
  /\ Move(w, "extracting", "unpacking")
  /\ tree' = [version |-> tree.version, extent |-> "partial"]
  /\ NoFault
  /\ UNCHANGED <<shipped, stamp, wanted, installs>>

(* extract: mkdir, then tar writes files until it is done. *)
BeginExtract(w) ==
  /\ Move(w, "extracting", "unpacking")
  /\ tree' = [version |-> wanted[w], extent |-> "partial"]
  /\ NoFault
  /\ UNCHANGED <<shipped, stamp, wanted, installs>>

(* A mistake in EndExtract: a failed unpacking is stamped too. *)
EndExtractStamping(w) ==
  /\ \/ /\ Move(w, "unpacking", "marking")
        /\ tree' = [version |-> wanted[w], extent |-> "unpacked"]
        /\ NoFault
        /\ UNCHANGED stamp
     \/ /\ Move(w, "unpacking", "dormant")
        /\ stamp' = wanted[w]
        /\ Fault
        /\ UNCHANGED tree
  /\ UNCHANGED <<shipped, wanted, installs>>

EndExtract(w) ==
  /\ \/ /\ Move(w, "unpacking", "marking")
        /\ tree' = [version |-> wanted[w], extent |-> "unpacked"]
        /\ NoFault
     \/ Move(w, "unpacking", "dormant") /\ Fault /\ UNCHANGED tree
  /\ UNCHANGED <<shipped, stamp, wanted, installs>>

(* chmod of the interpreter; what another window took away is not mended. *)
MakeExecutable(w) ==
  /\ \/ /\ tree.extent # "absent"
        /\ tree' = IF tree.extent = "unpacked"
                     THEN [version |-> tree.version, extent |-> "runnable"]
                     ELSE tree
        /\ Move(w, "marking", "stamping")
        /\ NoFault
     \/ Move(w, "marking", "dormant") /\ Fault /\ UNCHANGED tree
  /\ UNCHANGED <<shipped, stamp, wanted, installs>>

(* Outside the try: a failure rejects the activation, the file perhaps     *)
(* truncated.                                                              *)
WriteStamp(w) ==
  /\ \/ stamp' = wanted[w] /\ Move(w, "stamping", "ready") /\ NoFault
     \/ stamp' \in {stamp, NoStamp} /\ Move(w, "stamping", "dormant") /\ Fault
  /\ UNCHANGED <<shipped, tree, wanted, installs>>

(* restart: the window starts again with the version it was loaded with,    *)
(* whatever has been installed since.                                      *)
Restart(w) ==
  /\ \E from \in {"ready", "dormant"} : Move(w, from, "checking")
  /\ NoFault
  /\ UNCHANGED <<shipped, stamp, tree, wanted, installs>>

Close(w) ==
  /\ at[w] \in {"ready", "dormant"}
  /\ at' = [at EXCEPT ![w] = "closed"]
  /\ NoFault
  /\ UNCHANGED <<shipped, stamp, tree, wanted, installs>>

(* The window is killed; what it was removing is left as it is. *)
Kill(w) ==
  /\ at[w] \notin {"closed", "ready", "dormant"}
  /\ at' = [at EXCEPT ![w] = "closed"]
  /\ tree' \in IF at[w] = "removing" THEN Broken ELSE {tree}
  /\ Fault
  /\ UNCHANGED <<shipped, stamp, wanted, installs>>

EnsureRuntime(w) ==
  Check(w) \/ Remove(w) \/ BeginExtract(w) \/ EndExtract(w) \/ MakeExecutable(w) \/ WriteStamp(w)

Next ==
  \/ \E v \in Versions : Install(v)
  \/ \E w \in Windows :
       Activate(w) \/ Restart(w) \/ EnsureRuntime(w) \/ Close(w) \/ Kill(w)

(* An activation runs on; a user whose window is dormant reloads it.       *)
Fairness ==
  \A w \in Windows : WF_vars(EnsureRuntime(w)) /\ WF_vars(Activate(w)) /\ WF_vars(Close(w))

Spec == Init /\ [][Next]_vars

FairSpec == Spec /\ Fairness

-----------------------------------------------------------------------------
(* Properties. *)

(* "Nothing is written on failure, so the next activation tries again      *)
(* rather than trusting a stamp over a tree that is not there": a window   *)
(* told that the runtime is ready has its whole version on disk.           *)
ReadyMeansRunnable ==
  \A w \in Windows :
    at[w] = "ready" => tree = [version |-> wanted[w], extent |-> "runnable"]

(* The stamp is never ahead of the tree: whenever no window is at work,    *)
(* after failures and kills too, a stamp that names the installed version  *)
(* stands beside the whole runtime of that version.                        *)
StampIsBehindTree ==
  (\A w \in Windows : at[w] \in {"closed", "ready", "dormant"}) /\ stamp = shipped
    => tree = [version |-> shipped, extent |-> "runnable"]

(* A failed activation is not remembered: while reloading is all the user  *)
(* can do, reloading does bring a runnable runtime in the end.             *)
DormantIsNotForEver ==
  \A w \in Windows : at[w] = "dormant" ~> at[w] = "ready"
=============================================================================
