---------------------------- MODULE ServedIndex ----------------------------
(***************************************************************************)
(* The served index and its takedown list (api/state.py::IndexState.load,  *)
(* _load, _bundle, _keep_index_take_list, _build_matches, MatchTable).     *)
(*                                                                         *)
(* A load (at startup, and on every SIGHUP) reads the takedown list, then  *)
(* what `current` names, then opens that index and its snapshot, makes one *)
(* bundle and, a step later, swaps it in; loads take turns.  A bundle is   *)
(* an index version, the list it was loaded with, the snapshots whose      *)
(* merges were read when it was made, and a match table that a background  *)
(* thread builds after the swap.  Between any two of these steps the       *)
(* operator may promote or roll back an index, edit or lose the list,      *)
(* place a snapshot or damage one, and the process may restart.            *)
(***************************************************************************)
EXTENDS Naturals, Sequences, FiniteSets, Takedowns

CONSTANTS
    Versions,       \* index_versions, each with the snapshot it was built from
    None,           \* no version, no bundle
    Holds,          \* version -> the ids of its records
    BuiltWithout,   \* version -> the ids its snapshot withheld (records.withheld)
    Merges,         \* version -> the (survivor, merged) pairs of its merges.csv
    Lists,          \* the takedown lists an operator may write
    ListRequired,   \* list_required: `op serve` off loopback
    MaxLoads,       \* bound: SIGHUPs and restarts in a behaviour
    MaxChanges      \* bound: operator changes in a behaviour

ASSUME ServedConstants ==
    /\ Holds \in [Versions -> SUBSET Ids]
    /\ BuiltWithout \in [Versions -> SUBSET Ids]
    /\ Merges \in [Versions -> SUBSET IdPairs]
    /\ Lists \subseteq SUBSET Ids
    /\ ListRequired \in BOOLEAN
    /\ MaxLoads \in Nat \ {0} /\ MaxChanges \in Nat

VARIABLES
    onDisk,     \* versions whose index and snapshot are placed
    broken,     \* versions that do not open (files, snapshot or coverage)
    damaged,    \* versions whose snapshot's merges.csv is not its manifest's
    current,    \* what the `current` symlink names; None: nothing there
    listFile,   \* the takedown list: [kind, ids], kind "ids", "missing" or "bad"
    readable,   \* whether the directory of snapshots can be listed
    served,     \* IndexState.served: a bundle, or None
    listSeen,   \* whether the list existed when `served` was loaded
    loader,     \* where the load that holds `_reloading` stands
    read,       \* what it read: [listed, present, version]
    made,       \* the bundle it made and has not swapped in, or None
    waiting,    \* loads asked for and not begun
    tables,     \* every MatchTable made: [version, state]
    building,   \* the table whose build holds `_matches_building`, or 0
    loads, changes,   \* how many so far (only to bound them)
    fresh,      \* history: nothing on disk changed since the last load began
    stood       \* history: the snapshots on disk when it began

diskVars == <<onDisk, broken, damaged, current, listFile, readable>>
serveVars == <<served, listSeen>>
tableVars == <<tables, building>>
boundVars == <<loads, changes>>
loadVars == <<loader, read, made>>
historyVars == <<fresh, stood>>
vars == <<diskVars, serveVars, loadVars, waiting, tableVars, boundVars, historyVars>>

(* What an operator may leave at takedowns/withheld.txt.                    *)
ListFiles ==
    [kind : {"ids"}, ids : Lists] \cup [kind : {"missing", "bad"}, ids : {{}}]

NothingRead == [listed |-> {}, present |-> FALSE, version |-> None]

Init ==
    /\ onDisk \in SUBSET Versions
    /\ broken = {} /\ damaged = {}
    /\ current \in onDisk \cup {None}
    /\ listFile \in {f \in ListFiles : f.kind # "bad"}
    /\ readable = TRUE
    /\ served = None /\ listSeen = FALSE
    /\ loader = "idle" /\ read = NothingRead /\ made = None
    /\ waiting = 1        \* the load at startup
    /\ tables = <<>> /\ building = 0
    /\ loads = 1 /\ changes = 0
    /\ fresh = FALSE /\ stood = {}

----------------------------------------------------------------------------
(* Bundles.                                                                *)

\* merges_on_disk: a snapshot whose merges.csv is damaged is skipped alone.
WholeMerges == onDisk \ damaged

MergesOf(snapshots) == UNION {Merges[s] : s \in snapshots}

\* _bundle reads merges only when the list names something; `snapshots` are
\* the ones whose merges Served.merges holds.
Bundle(v, listed, table) ==
    [version |-> v, listed |-> listed,
     snapshots |-> IF listed = {} THEN {} ELSE WholeMerges,
     table |-> table]

\* _bundle lists the snapshots' directory, unless there is nothing to follow.
CanBundle(listed) == listed = {} \/ readable

\* Served.withheld_in: what a response from version v withholds.
WithheldIn(bundle, v) ==
    bundle.listed
        \cup SamePaper(bundle.listed, MergesOf(bundle.snapshots), Holds[v])
        \cup BuiltWithout[v]

\* any_withheld: proof that this deployment has takedowns.
AnyWithheld == \E v \in onDisk : BuiltWithout[v] # {}

----------------------------------------------------------------------------
(* A load, one step per look at the disk.                                  *)

LoadEnds ==
    /\ loader' = "idle"
    /\ read' = NothingRead
    /\ made' = None

\* Mutant of Fail: the old list stays with the old index.
FailKeepsList == LoadEnds

NewList == served # None /\ read.listed # served.listed

(* The handler of a failed load: the engine stays; if the list parsed and   *)
(* says something new, the old index is to be served with the new list.     *)
Fail ==
    \/ /\ NewList
       /\ loader' = "keep"
       /\ UNCHANGED <<read, made>>
    \/ ~NewList /\ LoadEnds

(* The bundle is made: merges are read now, and it is swapped in later.     *)
Make(v, table) ==
    /\ CanBundle(read.listed)
    /\ made' = Bundle(v, read.listed, table)
    /\ loader' = "swap"
    /\ UNCHANGED read

\* Mutant of MissingIsFailure: the list in force is not looked at.
MissingIsFailureAtStart == ListRequired \/ ~readable \/ AnyWithheld

\* A missing list that would lift a takedown is a failure.
MissingIsFailure ==
    \/ ListRequired
    \/ served # None /\ served.listed # {}
    \/ ~readable
    \/ AnyWithheld

\* Only the swap changes what is served.
Looks == UNCHANGED <<diskVars, serveVars, tableVars, boundVars>>

\* A list that cannot be read or parsed fails the load with nothing to take.
ReadList ==
    /\ loader = "idle" /\ waiting > 0
    /\ waiting' = waiting - 1
    /\ fresh' = TRUE /\ stood' = onDisk
    /\ \/ /\ listFile.kind = "ids"
          /\ loader' = "resolve"
          /\ read' = [NothingRead EXCEPT !.listed = listFile.ids, !.present = TRUE]
          /\ UNCHANGED made
       \/ /\ listFile.kind = "missing" /\ ~MissingIsFailure
          /\ loader' = "resolve"
          /\ read' = NothingRead
          /\ UNCHANGED made
       \/ /\ listFile.kind = "bad" \/ (listFile.kind = "missing" /\ MissingIsFailure)
          /\ LoadEnds
    /\ Looks

Serves(v) == served # None /\ served.version = v

TableFailed == tables[served.table].state = "failed"

NewTable == Len(tables) + 1

(* index_path, and the branch for the version already served: the same      *)
(* engine and records with the list now on disk, and another table when the *)
(* last one failed to build.                                                *)
ResolveServed ==
    /\ loader = "resolve"
    /\ Serves(current)
    /\ \/ /\ read.listed = served.listed /\ ~TableFailed
          /\ LoadEnds
       \/ /\ read.listed # served.listed \/ TableFailed
          /\ \/ Make(served.version, IF TableFailed THEN NewTable ELSE served.table)
             \/ ~CanBundle(read.listed) /\ Fail
    /\ Looks
    /\ UNCHANGED <<waiting, historyVars>>

ResolveOther ==
    /\ loader = "resolve"
    /\ ~Serves(current)
    /\ \/ /\ current \in onDisk
          /\ loader' = "open"
          /\ read' = [read EXCEPT !.version = current]
          /\ UNCHANGED made
       \/ current \notin onDisk /\ Fail
    /\ Looks
    /\ UNCHANGED <<waiting, historyVars>>

\* The engine and its snapshot's records verify, and a missing list is not
\* contradicted by what that snapshot withheld.
Opens(v) ==
    /\ v \in onDisk \ broken
    /\ read.present \/ BuiltWithout[v] = {}

\* The index is opened and its bundle made.
Open ==
    /\ loader = "open"
    /\ \/ Opens(read.version) /\ Make(read.version, NewTable)
       \/ ~(Opens(read.version) /\ CanBundle(read.listed)) /\ Fail
    /\ Looks
    /\ UNCHANGED <<waiting, historyVars>>

\* Mutant of KeepIndexTakeList: the merges of the bundle kept are not read
\* again.
KeepWithOldMerges ==
    /\ loader = "keep"
    /\ made' = [served EXCEPT !.listed = read.listed]
    /\ loader' = "swap"
    /\ Looks
    /\ UNCHANGED <<read, waiting, historyVars>>

\* _keep_index_take_list.
KeepIndexTakeList ==
    /\ loader = "keep"
    /\ \/ Make(served.version, served.table)
       \/ ~CanBundle(read.listed) /\ LoadEnds
    /\ Looks
    /\ UNCHANGED <<waiting, historyVars>>

(* The atomic swap, whatever the disk now says; a new table is queued after *)
(* it.                                                                      *)
Swap ==
    /\ loader = "swap"
    /\ served' = made
    /\ listSeen' = read.present
    /\ tables' = IF made.table = NewTable
                 THEN Append(tables, [version |-> made.version, state |-> "queued"])
                 ELSE tables
    /\ LoadEnds
    /\ UNCHANGED <<diskVars, building, waiting, boundVars, historyVars>>

Load ==
    \/ ReadList
    \/ ResolveServed \/ ResolveOther
    \/ Open
    \/ KeepIndexTakeList
    \/ Swap

----------------------------------------------------------------------------
(* The background builds of match tables, one at a time.                   *)

SetTable(i, state) == tables' = [tables EXCEPT ![i].state = state]

ServesTable(i) == served # None /\ served.table = i

\* Mutant of StartBuild: a build is skipped when a load is about to swap.
StartBuildUnlessLoading(i) ==
    /\ building = 0
    /\ i \in DOMAIN tables /\ tables[i].state = "queued"
    /\ \/ /\ ServesTable(i) /\ loader # "swap"
          /\ SetTable(i, "building")
          /\ building' = i
       \/ /\ ~ServesTable(i) \/ loader = "swap"
          /\ SetTable(i, "skipped")
          /\ UNCHANGED building
    /\ UNCHANGED <<diskVars, serveVars, loadVars, waiting, boundVars, historyVars>>

\* A table whose bundle is no longer served when its turn comes is skipped.
StartBuild(i) ==
    /\ building = 0
    /\ i \in DOMAIN tables /\ tables[i].state = "queued"
    /\ \/ /\ ServesTable(i)
          /\ SetTable(i, "building")
          /\ building' = i
       \/ /\ ~ServesTable(i)
          /\ SetTable(i, "skipped")
          /\ UNCHANGED building
    /\ UNCHANGED <<diskVars, serveVars, loadVars, waiting, boundVars, historyVars>>

FinishBuild(outcome) ==
    /\ building # 0
    /\ SetTable(building, outcome)
    /\ building' = 0
    /\ UNCHANGED <<diskVars, serveVars, loadVars, waiting, boundVars, historyVars>>

Build(i) ==
    \/ StartBuild(i)
    \/ building = i /\ \E outcome \in {"built", "failed"} : FinishBuild(outcome)

----------------------------------------------------------------------------
(* The operator and the process.                                           *)

Sighup ==
    /\ loads < MaxLoads
    /\ loads' = loads + 1
    /\ waiting' = waiting + 1
    /\ UNCHANGED <<diskVars, serveVars, loadVars, tableVars, changes, historyVars>>

\* The process dies and starts again: nothing but the disk is left.
Restart ==
    /\ loads < MaxLoads
    /\ loads' = loads + 1
    /\ served' = None /\ listSeen' = FALSE
    /\ LoadEnds
    /\ waiting' = 1
    /\ tables' = <<>> /\ building' = 0
    /\ fresh' = FALSE
    /\ UNCHANGED <<diskVars, changes, stood>>

Operate ==
    /\ changes < MaxChanges
    /\ changes' = changes + 1
    /\ fresh' = FALSE
    /\ UNCHANGED <<serveVars, loadVars, waiting, tableVars, loads, stood>>

Place(v) ==
    /\ Operate
    /\ v \notin onDisk
    /\ onDisk' = onDisk \cup {v}
    /\ UNCHANGED <<broken, damaged, current, listFile, readable>>

Promote(v) ==
    /\ Operate
    /\ current # v
    /\ current' = v
    /\ UNCHANGED <<onDisk, broken, damaged, listFile, readable>>

Damage(v) ==
    /\ Operate
    /\ v \in onDisk \ broken
    /\ broken' = broken \cup {v}
    /\ UNCHANGED <<onDisk, damaged, current, listFile, readable>>

DamageMerges(v) ==
    /\ Operate
    /\ v \in onDisk \ damaged
    /\ damaged' = damaged \cup {v}
    /\ UNCHANGED <<onDisk, broken, current, listFile, readable>>

WriteList(file) ==
    /\ Operate
    /\ listFile # file
    /\ listFile' = file
    /\ UNCHANGED <<onDisk, broken, damaged, current, readable>>

LoseSnapshotsListing ==
    /\ Operate
    /\ readable
    /\ readable' = FALSE
    /\ UNCHANGED <<onDisk, broken, damaged, current, listFile>>

Operator ==
    \/ \E v \in Versions : Place(v) \/ Damage(v) \/ DamageMerges(v)
    \/ \E v \in Versions \cup {None} : Promote(v)
    \/ \E file \in ListFiles : WriteList(file)
    \/ LoseSnapshotsListing

Next ==
    \/ Load
    \/ \E i \in 1..MaxLoads : Build(i)
    \/ Sighup
    \/ Restart
    \/ Operator

Spec == Init /\ [][Next]_vars

\* The loading thread and the building threads run on.
FairSpec ==
    /\ Spec
    /\ WF_vars(Load)
    /\ \A i \in 1..MaxLoads : WF_vars(Build(i))

----------------------------------------------------------------------------
(* Properties.                                                             *)

(* Every variable holds what the code can put in it; in particular builds   *)
(* run one at a time, and the table being built is the one that says so.    *)
TypeOK ==
    /\ onDisk \subseteq Versions /\ broken \subseteq onDisk
    /\ damaged \subseteq onDisk /\ stood \subseteq onDisk
    /\ current \in Versions \cup {None}
    /\ listFile \in ListFiles
    /\ readable \in BOOLEAN /\ listSeen \in BOOLEAN /\ fresh \in BOOLEAN
    /\ served # None =>
          /\ served.version \in Versions
          /\ served.listed \in Lists \cup {{}}
          /\ served.snapshots \subseteq onDisk
          /\ served.table \in DOMAIN tables
    /\ loader \in {"idle", "resolve", "open", "keep", "swap"}
    /\ loader # "swap" => made = None
    /\ read \in [listed : Lists \cup {{}}, present : BOOLEAN, version : Versions \cup {None}]
    /\ waiting \in 0..MaxLoads /\ loads \in 1..MaxLoads /\ changes \in 0..MaxChanges
    /\ building \in 0..Len(tables)
    /\ \A i \in DOMAIN tables :
          /\ tables[i] \in [version : Versions,
                            state : {"queued", "building", "built", "failed", "skipped"}]
          /\ tables[i].state = "building" <=> building = i

(* "Once a list is applied, a missing file is a failure, never a silent     *)
(* lifting of every takedown": while the process runs, an id leaves the     *)
(* list in force only because a list that exists no longer names it.        *)
TakedownsLiftedOnlyByTheList ==
    [][served # None /\ served' # None =>
          \A i \in served.listed \ served'.listed : read.present /\ i \notin read.listed]_vars

(* A deployment whose snapshot withheld abstracts is never served with the  *)
(* list gone, even when that snapshot arrived between the list's reading    *)
(* and the index's opening.                                                 *)
MissingListNeverLifts ==
    served # None /\ ~listSeen => BuiltWithout[served.version] = {}

(* No takedown is lifted silently: neither one in force, nor one of a       *)
(* deployment that has withheld abstracts and lost its list.                *)
TakedownsHold == TakedownsLiftedOnlyByTheList /\ []MissingListNeverLifts

(* "A takedown sent with a bad promotion still applies, and so does a       *)
(* lifting": after a load that read the disk as it now is, the list in      *)
(* force is the one on disk, whether or not that load kept the old index.   *)
LatestListApplies ==
    /\ loader = "idle" /\ fresh /\ readable
    /\ served # None
    /\ listFile.kind = "ids"
    => served.listed = listFile.ids

(* "A swap can never pair one index's results with another's table."        *)
TableIsOfTheServedIndex ==
    served # None => tables[served.table].version = served.version

(* The table of the bundle being served is never skipped as superseded,     *)
(* whatever lists were taken while its build waited.                        *)
ServedTableNeverSkipped ==
    served # None => tables[served.table].state # "skipped"

(* "One damaged snapshot never drops the others' merges", and a reload never *)
(* lifts what an earlier one followed: whatever was placed or damaged while *)
(* a load ran, the bundle it swaps in withholds, in every version, each     *)
(* other id of a listed paper that is linked to it by the snapshots that    *)
(* stood when the load began or that the bundle it replaces followed, those *)
(* damaged since excepted.  (A snapshot placed while the load ran may be    *)
(* missed, and one placed since is, by a reload that finds the index and    *)
(* the list it serves unchanged.)                                           *)
OtherIdsStayWithheld ==
    [][served' # served /\ served' # None =>
          LET followed == IF served = None THEN {} ELSE served.snapshots
              owed == (stood \cup followed) \ damaged
          IN \A v \in Versions :
                SamePaper(served'.listed, MergesOf(owed), Holds[v]) \subseteq WithheldIn(served', v)]_vars

(* The served index's match table is built, or reported failed, unless the  *)
(* index is swapped out first.                                              *)
ServedTableSettles ==
    \A i \in 1..MaxLoads :
        (served # None /\ served.table = i)
            ~> (served = None \/ served.table # i \/ tables[i].state \in {"built", "failed"})

(* Every load asked for runs to its end.                                    *)
LoadsFinish == waiting > 0 ~> (waiting = 0 /\ loader = "idle")

(* However reloads, restarts and builds queue up: loads end, and the table   *)
(* of the index they leave served is decided (IndexState.load and           *)
(* _build_matches).                                                         *)
ReloadsSettle == LoadsFinish /\ ServedTableSettles

=============================================================================
