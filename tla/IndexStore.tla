----------------------------- MODULE IndexStore -----------------------------
(***************************************************************************)
(* The directory of indexes on disk and who changes it: `op index build`   *)
(* (engine/index.py::build_index, _seal), `op index retire`                *)
(* (cli.py::_index_retire), both under storage.exclusive after a           *)
(* storage.sweep; the operator's hand-run promotion (`ln -sfn`) and        *)
(* recovery (`mv`); the API's reload; and record saves (api/records.py     *)
(* ::create_record, records.py::freeze), which take no lock.  A build or a *)
(* retire may be interrupted (Ctrl-C: its handlers run) or killed (they do *)
(* not) at any step.                                                       *)
(*                                                                         *)
(* A directory holds part of an index, a whole one, or a whole one made    *)
(* read-only.  The names a version goes by are indexes/<v>, .retiring-<v>  *)
(* (set aside by a retire, touched by no sweep) and .tmp-retire-<v> (given *)
(* up: any sweep removes it); a build stages in a .tmp- directory.         *)
(***************************************************************************)
EXTENDS Naturals, FiniteSets

CONSTANTS
    Procs,       \* op processes: each runs builds and retires
    Savers,      \* requests that save a search record
    Versions,
    None,        \* no version, no process
    MaxRuns,     \* bound: builds and retires in a behaviour
    MaxByHand    \* bound: promotions and reloads in a behaviour

ASSUME IndexStoreConstants ==
    /\ None \notin Procs \cup Versions
    /\ MaxRuns \in Nat /\ MaxByHand \in Nat

VARIABLES
    index,      \* what indexes/<v> holds
    aside,      \* what .retiring-<v> holds
    doomed,     \* versions with a .tmp-retire-<v>
    staging,    \* process -> its .tmp- build directory: "none", "part", "whole"
    flock,      \* the process holding indexes/.lock, or None
    current,    \* the version the `current` symlink names, or None
    pinned,     \* versions named by a stored search record
    served,     \* the version the API serves, or None
    pc, target, \* per process: where it stands, and the version it works on
    saving,     \* per saver: "idle", "freeze", "search"
    saves,      \* per saver: the version it saves against, or None
    runs, byHand,            \* how many so far (only to bound them)
    pinnedHere, linkedHere   \* history: versions pinned, and the version
                             \* promoted, while they stood under their name

dirs == <<index, aside, doomed, staging>>
procVars == <<pc, target>>
saveVars == <<pinned, saving, saves, pinnedHere>>
linkVars == <<current, linkedHere>>
bounds == <<runs, byHand>>
vars == <<dirs, flock, linkVars, served, procVars, saveVars, bounds>>

Contents == {"absent", "part", "whole", "sealed"}

Building == {"buildSweep", "buildCheck", "add", "place", "seal", "verify"}
SettingAside == {"lastPins", "lastLinks", "commit"}
Retiring == {"retireSweep", "retireCheck", "setAside", "remove", "removed"} \cup SettingAside
Locked == Building \cup Retiring
PCs == Locked \cup {"idle", "buildWait", "retireFirst", "retireWait"}

Init ==
    /\ index \in [Versions -> {"absent", "sealed"}]
    /\ aside = [v \in Versions |-> "absent"]
    /\ doomed = {}
    /\ staging = [p \in Procs |-> "none"]
    /\ flock = None
    /\ current \in {v \in Versions : index[v] = "sealed"} \cup {None}
    /\ pinned = {}
    /\ served = current
    /\ pc = [p \in Procs |-> "idle"]
    /\ target = [p \in Procs |-> None]
    /\ saving = [s \in Savers |-> "idle"]
    /\ saves = [s \in Savers |-> None]
    /\ runs = 0 /\ byHand = 0
    /\ pinnedHere = {} /\ linkedHere = current

----------------------------------------------------------------------------
(* What a process may do next.                                             *)

Goto(p, label) == pc' = [pc EXCEPT ![p] = label]

Start(p, v, label) ==
    /\ pc[p] = "idle"
    /\ runs < MaxRuns
    /\ runs' = runs + 1
    /\ Goto(p, label)
    /\ target' = [target EXCEPT ![p] = v]
    /\ UNCHANGED <<dirs, flock, linkVars, served, saveVars, byHand>>

\* storage.exclusive: blocks until the lock is free.
Lock(p, from, to) ==
    /\ pc[p] = from
    /\ flock = None
    /\ flock' = p
    /\ Goto(p, to)
    /\ UNCHANGED <<dirs, linkVars, served, target, saveVars, bounds>>

\* The command ends, letting the lock go if it has it.
Done(p) ==
    /\ Goto(p, "idle")
    /\ target' = [target EXCEPT ![p] = None]
    /\ flock' = IF flock = p THEN None ELSE flock

\* Mutant of Sweep: what a retire set aside goes too.
SweepAll(p, from, to) ==
    /\ pc[p] = from
    /\ staging' = [q \in Procs |-> "none"]
    /\ aside' = [v \in Versions |-> "absent"]
    /\ doomed' = {}
    /\ Goto(p, to)
    /\ UNCHANGED <<index, flock, linkVars, served, target, saveVars, bounds>>

\* storage.sweep: every .tmp- directory goes, whoever left it.
Sweep(p, from, to) ==
    /\ pc[p] = from
    /\ staging' = [q \in Procs |-> "none"]
    /\ doomed' = {}
    /\ Goto(p, to)
    /\ UNCHANGED <<index, aside, flock, linkVars, served, target, saveVars, bounds>>

----------------------------------------------------------------------------
(* build_index.                                                            *)

StartBuild(p, v) == Start(p, v, "buildWait")
LockBuild(p) == Lock(p, "buildWait", "buildSweep")
SweepBuild(p) == Sweep(p, "buildSweep", "buildCheck")

\* The version that exists is verified, and sealed if a crash left it open
\* (one that does not verify is refused: FailBuild).
CheckBuild(p) ==
    LET v == target[p] IN
    /\ pc[p] = "buildCheck"
    /\ \/ /\ index[v] = "absent"
          /\ staging' = [staging EXCEPT ![p] = "part"]
          /\ Goto(p, "add")
          /\ UNCHANGED <<index, flock, target>>
       \/ /\ index[v] \in {"whole", "sealed"}
          /\ index' = [index EXCEPT ![v] = "sealed"]
          /\ Done(p)
          /\ UNCHANGED staging
    /\ UNCHANGED <<aside, doomed, linkVars, served, saveVars, bounds>>

\* Every document added and committed, the manifest written, all synced.
AddAll(p) ==
    /\ pc[p] = "add"
    /\ staging' = [staging EXCEPT ![p] = "whole"]
    /\ Goto(p, "place")
    /\ UNCHANGED <<index, aside, doomed, flock, linkVars, served, target, saveVars, bounds>>

Place(p) ==
    LET v == target[p] IN
    /\ pc[p] = "place"
    /\ index[v] = "absent"
    /\ index' = [index EXCEPT ![v] = staging[p]]
    /\ staging' = [staging EXCEPT ![p] = "none"]
    /\ Goto(p, "seal")
    /\ UNCHANGED <<aside, doomed, flock, linkVars, served, target, saveVars, bounds>>

Seal(p) ==
    /\ pc[p] = "seal"
    /\ index' = [index EXCEPT ![target[p]] = "sealed"]
    /\ Goto(p, "verify")
    /\ UNCHANGED <<aside, doomed, staging, flock, linkVars, served, target, saveVars, bounds>>

VerifyBuild(p) ==
    /\ pc[p] = "verify"
    /\ Done(p)
    /\ UNCHANGED <<dirs, linkVars, served, saveVars, bounds>>

\* Anything raised before the rename: the `finally` removes the staging
\* directory, or leaves what it cannot remove to a later sweep.
FailBuild(p) ==
    /\ pc[p] \in {"buildWait"} \cup Building
    /\ \/ staging' = [staging EXCEPT ![p] = "none"]
       \/ staging[p] # "none" /\ UNCHANGED staging
    /\ Done(p)
    /\ UNCHANGED <<index, aside, doomed, linkVars, served, saveVars, bounds>>

----------------------------------------------------------------------------
(* _index_retire.                                                          *)

Named(v) == current = v

\* check(): not set aside by a retire cut short, present, named by no
\* symlink, pinned by no record.
MayRetire(v) ==
    /\ aside[v] = "absent"
    /\ index[v] # "absent"
    /\ ~Named(v)
    /\ v \notin pinned

StartRetire(p, v) == Start(p, v, "retireFirst")

Refuse(p) ==
    /\ Done(p)
    /\ UNCHANGED <<dirs, linkVars, served, saveVars, bounds>>

FirstCheck(p) ==
    /\ pc[p] = "retireFirst"
    /\ \/ /\ MayRetire(target[p])
          /\ Goto(p, "retireWait")
          /\ UNCHANGED <<dirs, flock, linkVars, served, target, saveVars, bounds>>
       \/ /\ ~MayRetire(target[p])
          /\ Refuse(p)

LockRetire(p) == Lock(p, "retireWait", "retireSweep")
SweepRetire(p) == Sweep(p, "retireSweep", "retireCheck")

CheckRetire(p) ==
    /\ pc[p] = "retireCheck"
    /\ \/ /\ MayRetire(target[p])
          /\ Goto(p, "setAside")
          /\ UNCHANGED <<dirs, flock, linkVars, served, target, saveVars, bounds>>
       \/ /\ ~MayRetire(target[p])
          /\ Refuse(p)

\* indexes/<v> renamed to .retiring-<v>
SetAside(p) ==
    LET v == target[p] IN
    /\ pc[p] = "setAside"
    /\ index[v] # "absent"
    /\ index' = [index EXCEPT ![v] = "absent"]
    /\ aside' = [aside EXCEPT ![v] = index[v]]
    /\ Goto(p, "lastPins")
    /\ UNCHANGED <<doomed, staging, flock, linkVars, served, target, saveVars, bounds>>

\* restore(): .retiring-<v> renamed back; the rename may fail, and then the
\* directory waits for the operator.
Restore(p) ==
    LET v == target[p] IN
    /\ \/ /\ index' = [index EXCEPT ![v] = aside[v]]
          /\ aside' = [aside EXCEPT ![v] = "absent"]
       \/ UNCHANGED <<index, aside>>
    /\ Done(p)
    /\ UNCHANGED <<doomed, staging, linkVars, served, saveVars, bounds>>

\* Mutant of LastPins: the check before the name went is trusted.
LastPinsSkipped(p) ==
    /\ pc[p] = "lastPins"
    /\ Goto(p, "lastLinks")
    /\ UNCHANGED <<dirs, flock, linkVars, served, target, saveVars, bounds>>

\* The checks made once more now that the name is gone: the pins ...
LastPins(p) ==
    /\ pc[p] = "lastPins"
    /\ \/ /\ target[p] \notin pinned
          /\ Goto(p, "lastLinks")
          /\ UNCHANGED <<dirs, flock, linkVars, served, target, saveVars, bounds>>
       \/ /\ target[p] \in pinned
          /\ Restore(p)

\* Mutant of LastLinks: the same of the symlinks.
LastLinksSkipped(p) ==
    /\ pc[p] = "lastLinks"
    /\ Goto(p, "commit")
    /\ UNCHANGED <<dirs, flock, linkVars, served, target, saveVars, bounds>>

\* ... and every symlink's target, by name.
LastLinks(p) ==
    /\ pc[p] = "lastLinks"
    /\ \/ /\ ~Named(target[p])
          /\ Goto(p, "commit")
          /\ UNCHANGED <<dirs, flock, linkVars, served, target, saveVars, bounds>>
       \/ /\ Named(target[p])
          /\ Restore(p)

\* Renamed to .tmp-retire-<v>: the commit point.
Commit(p) ==
    LET v == target[p] IN
    /\ pc[p] = "commit"
    /\ aside' = [aside EXCEPT ![v] = "absent"]
    /\ doomed' = doomed \cup {v}
    /\ Goto(p, "remove")
    /\ UNCHANGED <<index, staging, flock, linkVars, served, target, saveVars, bounds>>

\* rmtree with ignore_errors: what it cannot remove stays for a sweep.
RemoveRetired(p) ==
    /\ pc[p] = "remove"
    /\ doomed' \in {doomed, doomed \ {target[p]}}
    /\ Done(p)
    /\ UNCHANGED <<index, aside, staging, linkVars, served, saveVars, bounds>>

\* Ctrl-C or any other exception: before the commit the index goes back.
InterruptRetire(p) ==
    /\ pc[p] \in {"retireFirst", "retireWait"} \cup Retiring
    /\ \/ /\ pc[p] \in SettingAside
          /\ Restore(p)
       \/ /\ pc[p] \notin SettingAside
          /\ Refuse(p)

----------------------------------------------------------------------------
(* kill -9, power: no handler runs, and the lock goes with the process.    *)
Kill(p) ==
    /\ pc[p] # "idle"
    /\ Done(p)
    /\ UNCHANGED <<dirs, linkVars, served, saveVars, bounds>>

----------------------------------------------------------------------------
(* The API and the operator.                                               *)

\* ln -sfn <v> current, by hand, without the lock.
Promote(v) ==
    /\ byHand < MaxByHand
    /\ byHand' = byHand + 1
    /\ current # v
    /\ current' = v
    /\ linkedHere' = IF index[v] # "absent" THEN v ELSE None
    /\ UNCHANGED <<dirs, flock, served, procVars, saveVars, runs>>

\* SIGHUP: what `current` names, if it verifies; else what was served.
Reload ==
    /\ byHand < MaxByHand
    /\ byHand' = byHand + 1
    /\ served' = IF current # None /\ index[current] \in {"whole", "sealed"} THEN current ELSE served
    /\ UNCHANGED <<dirs, flock, linkVars, procVars, saveVars, runs>>

\* mv .retiring-<v> <v>, or one copy removed if <v> was rebuilt: what a
\* refused retire tells the operator to do, with no build or retire running.
Recover(v) ==
    /\ aside[v] # "absent"
    /\ flock = None
    /\ aside' = [aside EXCEPT ![v] = "absent"]
    /\ index' = [index EXCEPT ![v] = IF @ = "absent" THEN aside[v] ELSE @]
    /\ UNCHANGED <<doomed, staging, flock, linkVars, served, procVars, saveVars, bounds>>

\* POST /records: against the index served now.
BeginSave(s) ==
    /\ saving[s] = "idle"
    /\ served # None
    /\ saving' = [saving EXCEPT ![s] = "freeze"]
    /\ saves' = [saves EXCEPT ![s] = served]
    /\ UNCHANGED <<dirs, flock, linkVars, served, procVars, pinned, pinnedHere, bounds>>

EndSave(s) ==
    /\ saving' = [saving EXCEPT ![s] = "idle"]
    /\ saves' = [saves EXCEPT ![s] = None]

\* freeze: the index's manifest is read first; without it the save is
\* refused (500).  Then the query runs.
Freeze(s) ==
    /\ saving[s] = "freeze"
    /\ \/ /\ index[saves[s]] # "absent"
          /\ saving' = [saving EXCEPT ![s] = "search"]
          /\ UNCHANGED saves
       \/ /\ index[saves[s]] = "absent"
          /\ EndSave(s)
    /\ UNCHANGED <<dirs, flock, linkVars, served, procVars, pinned, pinnedHere, bounds>>

\* store.insert, once the query has run; or it raised, and nothing is saved.
Insert(s) ==
    LET v == saves[s] IN
    /\ saving[s] = "search"
    /\ \/ /\ pinned' = pinned \cup {v}
          /\ pinnedHere' = IF index[v] # "absent" THEN pinnedHere \cup {v} ELSE pinnedHere
       \/ UNCHANGED <<pinned, pinnedHere>>
    /\ EndSave(s)
    /\ UNCHANGED <<dirs, flock, linkVars, served, procVars, bounds>>

Build(p) ==
    \/ LockBuild(p) \/ SweepBuild(p) \/ CheckBuild(p) \/ AddAll(p) \/ Place(p)
    \/ Seal(p) \/ VerifyBuild(p) \/ FailBuild(p)

Retire(p) ==
    \/ FirstCheck(p) \/ LockRetire(p) \/ SweepRetire(p) \/ CheckRetire(p)
    \/ SetAside(p) \/ LastPins(p) \/ LastLinks(p) \/ Commit(p) \/ RemoveRetired(p)
    \/ InterruptRetire(p)

Save(s) == BeginSave(s) \/ Freeze(s) \/ Insert(s)

Next ==
    \/ \E p \in Procs :
          \/ \E v \in Versions : StartBuild(p, v) \/ StartRetire(p, v)
          \/ Build(p)
          \/ Retire(p)
          \/ Kill(p)
    \/ \E v \in Versions : Promote(v) \/ Recover(v)
    \/ Reload
    \/ \E s \in Savers : Save(s)

Spec == Init /\ [][Next]_vars

----------------------------------------------------------------------------
(* Properties.                                                             *)

\* Under its own name, or set aside for the operator.
OnMachine(v) == index[v] # "absent" \/ aside[v] # "absent"

(* Every variable holds what the code can put in it, and the lock goes with *)
(* the command that took it, however that ends.                             *)
TypeOK ==
    /\ index \in [Versions -> Contents] /\ aside \in [Versions -> Contents]
    /\ doomed \subseteq Versions
    /\ staging \in [Procs -> {"none", "part", "whole"}]
    /\ flock \in Procs \cup {None}
    /\ flock # None => pc[flock] \in Locked
    /\ current \in Versions \cup {None} /\ linkedHere \in Versions \cup {None}
    /\ pinned \subseteq Versions /\ pinnedHere \subseteq pinned
    /\ served \in Versions \cup {None}
    /\ pc \in [Procs -> PCs]
    /\ target \in [Procs -> Versions \cup {None}]
    /\ saving \in [Savers -> {"idle", "freeze", "search"}]
    /\ saves \in [Savers -> Versions \cup {None}]
    /\ runs \in 0..MaxRuns /\ byHand \in 0..MaxByHand

(* No reader ever finds half an index under its version: whatever is        *)
(* interrupted or killed, a name a reader resolves holds a whole index.     *)
NoHalfIndex == \A v \in Versions : index[v] # "part" /\ aside[v] # "part"

(* A record saved while its index stood under its name keeps that index on  *)
(* disk: no retire, restore, sweep or crash loses it, and at worst it waits *)
(* under .retiring-<v> for the operator.                                    *)
PinnedIndexKept == \A v \in pinnedHere : OnMachine(v)

(* The same of the index `current` names, promoted while it was there:      *)
(* neither the promotion nor the retire takes a lock the other respects.    *)
PromotedIndexKept ==
    linkedHere # None => OnMachine(linkedHere)

(* A sweep never touches a live run's staging directory.                    *)
LiveStagingKept ==
    \A p \in Procs : /\ pc[p] = "add" => staging[p] = "part"
                     /\ pc[p] = "place" => staging[p] = "whole"

(* No sweep deletes a .retiring-<v>: it goes back under a name, or the    *)
(* retire that made it commits to its removal.                              *)
AsideNeverSwept ==
    [][\A v \in Versions :
          aside[v] # "absent" /\ aside'[v] = "absent"
          => index'[v] # "absent" \/ v \in doomed']_vars

(* Whole indexes, kept for whoever names them, and staged in peace.         *)
IndexesKept == NoHalfIndex /\ PinnedIndexKept /\ PromotedIndexKept /\ LiveStagingKept

(* The whole of it implements HeldIndexes: a version is held while it       *)
(* stands under its name or in .retiring-<v>.                               *)
Held == INSTANCE HeldIndexes WITH
            held <- {v \in Versions : OnMachine(v)},
            pins <- pinnedHere,
            link <- linkedHere

(* Readers, records and `current` are promised what HeldIndexes promises:   *)
(* whatever is built, retired, interrupted or killed meanwhile, an index    *)
(* leaves the machine in one step, and never while it is named.             *)
ImplementsHeldIndexes == Held!Spec

=============================================================================
