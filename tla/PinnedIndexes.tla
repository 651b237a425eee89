--------------------------- MODULE PinnedIndexes ---------------------------
(***************************************************************************)
(* The one loader of pinned index versions (api/state.py): IndexState      *)
(* .pinned, .pinned_records, ._cached, ._remember, open_pinned and         *)
(* _open_turn, together with the part of IndexState.load that touches the  *)
(* refusal maps.                                                           *)
(*                                                                         *)
(* A request thread looks a version up in an LRU of opened engines and in  *)
(* two bounded maps of refusals; on a miss it takes that version's own     *)
(* lock (created on demand in `_opening`), looks again, resolves the name, *)
(* takes the one open slot, re-hashes the index, remembers what it found,  *)
(* and lets go of both locks.  Both waits are bounded by open_wait_seconds *)
(* and end in 503 API_BUSY.  An operator may change what the disk holds,   *)
(* and a SIGHUP clears the refusals and then swaps the served index.       *)
(*                                                                         *)
(* Every step below is one critical section of `_cache_lock`, one lock     *)
(* operation, or one look at the disk.  An open takes as long as it takes: *)
(* a thread is inside the slot from TakeSlot to OpenIndex.                 *)
(***************************************************************************)
EXTENDS Naturals, Sequences, OrderedDicts

CONSTANTS
    Threads,       \* request threads
    Versions,      \* index_versions a client may name
    DiskStates,    \* what a directory indexes/<v> may be (bound)
    Locks,         \* identities of threading.Lock objects in `_opening`
    None,          \* no thread, no version, no lock
    Keep,          \* ApiConfig.pinned_indexes (keep_pinned)
    MaxRefusals,   \* MAX_REFUSALS, per map
    RefusalTicks,  \* pinned_refusal_seconds, in clock ticks
    Exporters,     \* threads whose request may go on to the records (bound)
    MaxClock,      \* bound: the clock stops here
    MaxChanges     \* bound: disk changes and reloads in a behaviour

ASSUME PinnedConstants ==
    /\ DiskStates \subseteq {"ok", "absent", "unloadable", "tampered"}
    /\ {"ok", "absent"} \subseteq DiskStates
    /\ Keep \in Nat \ {0}
    /\ MaxRefusals \in Nat \ {0}
    /\ RefusalTicks \in Nat \ {0}
    /\ Exporters \subseteq Threads
    /\ MaxClock \in Nat /\ MaxChanges \in Nat
    /\ None \notin Threads \cup Versions \cup Locks

VARIABLES
    disk,            \* what indexes/<v> is now: "ok", "absent" or at fault
    snapshots,       \* versions whose snapshot verifies now
    clock,
    changes,         \* how often the world changed so far (only to bound it)
    served,          \* the version IndexState.served holds, or None
    reload,          \* the reloading thread: "idle" or "loading"
    pinned,          \* _pinned: LRU of opened engines
    pinnedRecords,   \* _pinned_records: LRU of verified snapshots
    refused,         \* _refused: unloadable and tampered pins
    absent,          \* _absent: refusals a client can cause at will
    recordsRefused,  \* _records_refused
    opening,         \* _opening: version -> its lock, or None
    holder,          \* lock -> the thread holding it, or None
    slot,            \* the thread holding _open_slot, or None
    pc, version, lock, found   \* per request thread

cacheVars == <<pinned, pinnedRecords, refused, absent, recordsRefused>>
lockVars == <<opening, holder, slot>>
worldVars == <<disk, snapshots, clock, changes, served, reload>>
vars == <<worldVars, cacheVars, lockVars, pc, version, lock, found>>

Faults == {"unloadable", "tampered"}

(* Where a thread stands.  It holds its version's lock at Critical, waits  *)
(* for it at "lock", and still has to drop it from `_opening` at "forget". *)
Critical == {"recheck", "resolve", "slot", "open", "remember", "release"}
WithLock == Critical \cup {"lock", "forget"}
InSlot == {"open", "verify"}
PCs == WithLock \cup InSlot
       \cup {"idle", "lookup", "enter", "answered", "lookupRecords", "slotRecords"}

Init ==
    /\ disk \in [Versions -> DiskStates]
    /\ snapshots = Versions
    /\ clock = 0
    /\ changes = 0
    /\ served \in {v \in Versions : disk[v] = "ok"} \cup {None}
    /\ reload = "idle"
    /\ pinned = <<>> /\ pinnedRecords = <<>>
    /\ refused = <<>> /\ absent = <<>> /\ recordsRefused = <<>>
    /\ opening = [v \in Versions |-> None]
    /\ holder = [l \in Locks |-> None]
    /\ slot = None
    /\ pc = [t \in Threads |-> "idle"]
    /\ version = [t \in Threads |-> None]
    /\ lock = [t \in Threads |-> None]
    /\ found = [t \in Threads |-> "none"]

----------------------------------------------------------------------------
(* The caches.                                                             *)

Engine(v) == [key |-> v]
Refusal(v, reason) == [key |-> v, reason |-> reason, until |-> clock + RefusalTicks]

\* A remembered refusal that has not run out (`until > self._clock()`).
Live(refusals, v) == v \in KeysOf(refusals) /\ EntryOf(refusals, v).until > clock

\* _cached: what the maps say of v ("miss" when nothing), ...
Cached(v) ==
    IF v \in KeysOf(pinned) THEN "ok"
    ELSE IF Live(refused, v) THEN EntryOf(refused, v).reason
    ELSE IF Live(absent, v) THEN "absent"
    ELSE "miss"

\* ... and what looking does to them: a hit is the most recently used, and
\* a refusal that has run out is dropped when it is met.
Look(v) ==
    /\ pinned' = MoveToEnd(pinned, v)
    /\ refused' = IF Cached(v) \in {"absent", "miss"} /\ ~Live(refused, v)
                  THEN Without(refused, v) ELSE refused
    /\ absent' = IF Cached(v) = "miss" THEN Without(absent, v) ELSE absent

\* Mutant of Remembered: every refusal in one map.
RememberedInOneMap(v, outcome) ==
    /\ pinned' = IF outcome = "ok" THEN Newest(Put(pinned, Engine(v)), Keep)
                 ELSE pinned
    /\ refused' = IF outcome \in Faults \cup {"absent"}
                  THEN Newest(Put(refused, Refusal(v, outcome)), MaxRefusals)
                  ELSE refused
    /\ UNCHANGED absent

\* _remember: each outcome in the map of its kind, each map bounded.
Remembered(v, outcome) ==
    /\ pinned' = IF outcome = "ok" THEN Newest(Put(pinned, Engine(v)), Keep)
                 ELSE pinned
    /\ absent' = IF outcome = "absent"
                 THEN Newest(Put(absent, Refusal(v, outcome)), MaxRefusals)
                 ELSE absent
    /\ refused' = IF outcome \in Faults
                  THEN Newest(Put(refused, Refusal(v, outcome)), MaxRefusals)
                  ELSE refused

----------------------------------------------------------------------------
(* A request for a pinned version.                                         *)

Goto(t, label) == pc' = [pc EXCEPT ![t] = label]

\* The answer is decided: the next step of t is `label`.
Answer(t, outcome, label) ==
    /\ found' = [found EXCEPT ![t] = outcome]
    /\ Goto(t, label)

\* pinned(v): the served engine if it is that version, else the caches.
Request(t, v) ==
    /\ pc[t] = "idle"
    /\ version' = [version EXCEPT ![t] = v]
    /\ IF served = v THEN Answer(t, "ok", "answered")
                     ELSE Answer(t, "none", "lookup")
    /\ UNCHANGED <<worldVars, cacheVars, lockVars, lock>>

LookUp(t) ==
    LET v == version[t] IN
    /\ pc[t] = "lookup"
    /\ Look(v)
    /\ IF Cached(v) = "miss" THEN Answer(t, "none", "enter")
                             ELSE Answer(t, Cached(v), "answered")
    /\ UNCHANGED <<worldVars, pinnedRecords, recordsRefused, lockVars, version, lock>>

\* A lock object nobody refers to: what `threading.Lock()` returns.
Unused(l) ==
    /\ \A v \in Versions : opening[v] # l
    /\ \A t \in Threads : lock[t] # l

\* self._opening.setdefault(version, threading.Lock())
EnterOpening(t) ==
    LET v == version[t] IN
    /\ pc[t] = "enter"
    /\ \/ /\ opening[v] # None
          /\ lock' = [lock EXCEPT ![t] = opening[v]]
          /\ UNCHANGED opening
       \/ /\ opening[v] = None
          /\ \E l \in Locks :
                /\ Unused(l)
                /\ lock' = [lock EXCEPT ![t] = l]
                /\ opening' = [opening EXCEPT ![v] = l]
    /\ Goto(t, "lock")
    /\ UNCHANGED <<worldVars, cacheVars, holder, slot, version, found>>

TakeLock(t) ==
    /\ pc[t] = "lock"
    /\ holder[lock[t]] = None
    /\ holder' = [holder EXCEPT ![lock[t]] = t]
    /\ Goto(t, "recheck")
    /\ UNCHANGED <<worldVars, cacheVars, opening, slot, version, lock, found>>

\* The wait outlasts open_wait_seconds: 503, before the try, so nothing to undo.
LockTimeout(t) ==
    /\ pc[t] = "lock"
    /\ holder[lock[t]] # None
    /\ lock' = [lock EXCEPT ![t] = None]
    /\ Answer(t, "busy", "answered")
    /\ UNCHANGED <<worldVars, cacheVars, lockVars, version>>

Recheck(t) ==
    LET v == version[t] IN
    /\ pc[t] = "recheck"
    /\ Look(v)
    /\ IF Cached(v) = "miss" THEN Answer(t, "none", "resolve")
                             ELSE Answer(t, Cached(v), "release")
    /\ UNCHANGED <<worldVars, pinnedRecords, recordsRefused, lockVars, version, lock>>

\* index_path: a name that is absent (or an alias) never waits for the slot.
Resolve(t) ==
    /\ pc[t] = "resolve"
    /\ IF disk[version[t]] = "absent" THEN Answer(t, "absent", "remember")
                                      ELSE Answer(t, "none", "slot")
    /\ UNCHANGED <<worldVars, cacheVars, lockVars, version, lock>>

TakeSlot(t) ==
    /\ pc[t] = "slot"
    /\ slot = None
    /\ slot' = t
    /\ Goto(t, "open")
    /\ UNCHANGED <<worldVars, cacheVars, opening, holder, version, lock, found>>

\* Mutant of SlotTimeout: raised past the `finally`.
SlotTimeoutUnreleased(t) ==
    /\ pc[t] = "slot"
    /\ slot # None
    /\ Answer(t, "busy", "answered")
    /\ UNCHANGED <<worldVars, cacheVars, lockVars, version, lock>>

\* 503 API_BUSY, raised through the `finally`: never remembered.
SlotTimeout(t) ==
    /\ pc[t] = "slot"
    /\ slot # None
    /\ Answer(t, "busy", "release")
    /\ UNCHANGED <<worldVars, cacheVars, lockVars, version, lock>>

\* The open re-hashes every file.  A directory that went away since its name
\* was resolved has no manifest to read: an IndexBuildError, so "tampered".
Opened(v) == IF disk[v] = "absent" THEN "tampered" ELSE disk[v]

OpenIndex(t) ==
    /\ pc[t] = "open"
    /\ slot' = None
    /\ Answer(t, Opened(version[t]), "remember")
    /\ UNCHANGED <<worldVars, cacheVars, opening, holder, version, lock>>

Remember(t) ==
    /\ pc[t] = "remember"
    /\ Remembered(version[t], found[t])
    /\ Goto(t, "release")
    /\ UNCHANGED <<worldVars, pinnedRecords, recordsRefused, lockVars, version, lock, found>>

ReleaseLock(t) ==
    /\ pc[t] = "release"
    /\ holder' = [holder EXCEPT ![lock[t]] = None]
    /\ Goto(t, "forget")
    /\ UNCHANGED <<worldVars, cacheVars, opening, slot, version, lock, found>>

\* if self._opening.get(version) is opening: del self._opening[version]
ForgetLock(t) ==
    /\ pc[t] = "forget"
    /\ opening' = [v \in Versions |->
                      IF v = version[t] /\ opening[v] = lock[t] THEN None
                      ELSE opening[v]]
    /\ lock' = [lock EXCEPT ![t] = None]
    /\ Goto(t, "answered")
    /\ UNCHANGED <<worldVars, cacheVars, holder, slot, version, found>>

Finish(t) ==
    /\ pc[t] = "answered"
    /\ version' = [version EXCEPT ![t] = None]
    /\ Answer(t, "none", "idle")
    /\ UNCHANGED <<worldVars, cacheVars, lockVars, lock>>

----------------------------------------------------------------------------
(* A pinned export goes on to that version's snapshot records.             *)

WantRecords(t) ==
    /\ t \in Exporters
    /\ pc[t] = "answered"
    /\ found[t] = "ok"
    /\ IF served = version[t] THEN Answer(t, "records", "answered")
                              ELSE Answer(t, "none", "lookupRecords")
    /\ UNCHANGED <<worldVars, cacheVars, lockVars, version, lock>>

LookUpRecords(t) ==
    LET v == version[t] IN
    /\ pc[t] = "lookupRecords"
    /\ pinnedRecords' = MoveToEnd(pinnedRecords, v)
    /\ \/ /\ v \in KeysOf(pinnedRecords)
          /\ Answer(t, "records", "answered")
          /\ UNCHANGED recordsRefused
       \/ /\ v \notin KeysOf(pinnedRecords)
          /\ Live(recordsRefused, v)
          /\ Answer(t, "noRecords", "answered")
          /\ UNCHANGED recordsRefused
       \/ /\ v \notin KeysOf(pinnedRecords)
          /\ ~Live(recordsRefused, v)
          /\ recordsRefused' = Without(recordsRefused, v)
          /\ Answer(t, "none", "slotRecords")
    /\ UNCHANGED <<worldVars, pinned, refused, absent, lockVars, version, lock>>

\* Mutant of TakeRecordsSlot: another version's open is not waited for.
TakeRecordsSlotAtOnce(t) ==
    /\ pc[t] = "slotRecords"
    /\ slot' = t
    /\ Answer(t, "none", "verify")
    /\ UNCHANGED <<worldVars, cacheVars, opening, holder, version, lock>>

\* Inside the slot the maps are read again: a waiter takes what the open
\* before it found, and lets the slot go at once.
TakeRecordsSlot(t) ==
    LET v == version[t] IN
    /\ pc[t] = "slotRecords"
    /\ slot = None
    /\ \/ /\ v \in KeysOf(pinnedRecords)
          /\ Answer(t, "records", "answered")
          /\ UNCHANGED slot
       \/ /\ v \notin KeysOf(pinnedRecords)
          /\ Live(recordsRefused, v)
          /\ Answer(t, "noRecords", "answered")
          /\ UNCHANGED slot
       \/ /\ v \notin KeysOf(pinnedRecords)
          /\ ~Live(recordsRefused, v)
          /\ slot' = t
          /\ Answer(t, "none", "verify")
    /\ UNCHANGED <<worldVars, cacheVars, opening, holder, version, lock>>

\* Mutant of RecordsSlotTimeout: no bound on the wait.
NoRecordsSlotTimeout(t) == pc[t] = "slotRecords" /\ FALSE

RecordsSlotTimeout(t) ==
    /\ pc[t] = "slotRecords"
    /\ slot # None
    /\ Answer(t, "busy", "answered")
    /\ UNCHANGED <<worldVars, cacheVars, lockVars, version, lock>>

\* snapshot_records, then the outcome remembered, still inside the slot.
VerifyRecords(t) ==
    LET v == version[t] IN
    /\ pc[t] = "verify"
    /\ \/ /\ v \in snapshots /\ disk[v] # "absent"
          /\ pinnedRecords' = Newest(Put(pinnedRecords, Engine(v)), Keep)
          /\ Answer(t, "records", "answered")
          /\ UNCHANGED recordsRefused
       \/ /\ v \notin snapshots \/ disk[v] = "absent"
          /\ recordsRefused' =
                Newest(Put(recordsRefused, Refusal(v, "noRecords")), MaxRefusals)
          /\ Answer(t, "noRecords", "answered")
          /\ UNCHANGED pinnedRecords
    /\ slot' = None
    /\ UNCHANGED <<worldVars, pinned, refused, absent, opening, holder, version, lock>>

----------------------------------------------------------------------------
(* The rest of the world.                                                  *)

Tick ==
    /\ clock < MaxClock
    /\ clock' = clock + 1
    /\ UNCHANGED <<disk, snapshots, changes, served, reload, cacheVars, lockVars,
                   pc, version, lock, found>>

Change ==
    /\ changes < MaxChanges
    /\ changes' = changes + 1

\* Someone builds, damages, repairs or retires an index directory.
ChangeDisk(v, s) ==
    /\ Change
    /\ disk[v] # s
    /\ disk' = [disk EXCEPT ![v] = s]
    /\ UNCHANGED <<snapshots, clock, served, reload, cacheVars, lockVars,
                   pc, version, lock, found>>

ChangeSnapshot(v) ==
    /\ Change
    /\ snapshots' = IF v \in snapshots THEN snapshots \ {v} ELSE snapshots \cup {v}
    /\ UNCHANGED <<disk, clock, served, reload, cacheVars, lockVars,
                   pc, version, lock, found>>

\* load() begins: a reload looks at every refused pin again.
ClearRefusals ==
    /\ Change
    /\ reload = "idle"
    /\ reload' = "loading"
    /\ refused' = <<>> /\ absent' = <<>> /\ recordsRefused' = <<>>
    /\ UNCHANGED <<disk, snapshots, clock, served, pinned, pinnedRecords, lockVars,
                   pc, version, lock, found>>

\* load() ends: the swap, or the bundle kept after a failure (ServedIndex
\* models the choice).
FinishReload ==
    /\ reload = "loading"
    /\ reload' = "idle"
    /\ served' \in {served} \cup {v \in Versions : disk[v] = "ok"}
    /\ UNCHANGED <<disk, snapshots, clock, changes, cacheVars, lockVars,
                   pc, version, lock, found>>

\* A step of t's own request, once it has begun.
Step(t) ==
    \/ LookUp(t) \/ EnterOpening(t) \/ TakeLock(t) \/ LockTimeout(t)
    \/ Recheck(t) \/ Resolve(t) \/ TakeSlot(t) \/ SlotTimeout(t)
    \/ OpenIndex(t) \/ Remember(t) \/ ReleaseLock(t) \/ ForgetLock(t)
    \/ LookUpRecords(t) \/ TakeRecordsSlot(t) \/ RecordsSlotTimeout(t)
    \/ VerifyRecords(t)

World ==
    \/ Tick
    \/ \E v \in Versions, s \in DiskStates : ChangeDisk(v, s)
    \/ \E v \in Versions : ChangeSnapshot(v)
    \/ ClearRefusals
    \/ FinishReload

Next ==
    \/ \E t \in Threads :
          \/ \E v \in Versions : Request(t, v)
          \/ Step(t)
          \/ WantRecords(t)
          \/ Finish(t)
    \/ World

Spec == Init /\ [][Next]_vars

\* A thread that runs goes on running: each step of a begun request is taken.
FairSpec == Spec /\ \A t \in Threads : WF_vars(Step(t))

----------------------------------------------------------------------------
(* Properties.                                                             *)

LocksTypeOK ==
    /\ opening \in [Versions -> Locks \cup {None}]
    /\ holder \in [Locks -> Threads \cup {None}]
    /\ slot \in Threads \cup {None}
    /\ pc \in [Threads -> PCs]
    /\ version \in [Threads -> Versions \cup {None}]
    /\ lock \in [Threads -> Locks \cup {None}]

(* Every variable holds what the code can put in it; in particular each map *)
(* has one entry per version, whatever order entries came and went in.      *)
TypeOK ==
    /\ disk \in [Versions -> DiskStates]
    /\ snapshots \subseteq Versions
    /\ clock \in 0..MaxClock /\ changes \in 0..MaxChanges
    /\ served \in Versions \cup {None}
    /\ reload \in {"idle", "loading"}
    /\ \A d \in {pinned, pinnedRecords, refused, absent, recordsRefused} :
          IsOrderedDict(d) /\ KeysOf(d) \subseteq Versions
    /\ LocksTypeOK
    /\ found \in [Threads -> Faults \cup {"none", "ok", "absent", "busy", "records", "noRecords"}]

(* "At most one pinned index is opened (and so re-hashed) at a time,        *)
(* whatever its version": engine opens and snapshot verifications together. *)
OneOpenAtATime ==
    \A t, u \in Threads : pc[t] \in InSlot /\ pc[u] \in InSlot => t = u

(* The engines held never pass pinned_indexes, nor any refusal map          *)
(* MAX_REFUSALS, however many versions clients name.                        *)
CachesBounded ==
    /\ Len(pinned) <= Keep /\ Len(pinnedRecords) <= Keep
    /\ Len(refused) <= MaxRefusals /\ Len(absent) <= MaxRefusals
    /\ Len(recordsRefused) <= MaxRefusals

(* No lock is left behind in `_opening`: each entry belongs to a request    *)
(* that is still under way and will drop it.                                *)
OpeningHasOwner ==
    \A v \in Versions : opening[v] # None =>
        \E t \in Threads : /\ version[t] = v
                           /\ lock[t] = opening[v]
                           /\ pc[t] \in WithLock

(* A thread only ever waits for a lock whose holder is going on: no request *)
(* leaves holding a version's lock or the slot, however it ended.           *)
LocksAreHeldByTheLiving ==
    /\ \A l \in Locks : holder[l] # None => pc[holder[l]] \in Critical
    /\ slot # None => pc[slot] \in InSlot

(* Whatever way a request for a version ends, it lets go of the lock, the   *)
(* slot and its entry of `_opening`.                                        *)
LocksComeBack == LocksAreHeldByTheLiving /\ OpeningHasOwner

(* "Naming many absent versions can't evict a remembered tampered or        *)
(* unloadable one": an engine refusal leaves its map only by a reload, once *)
(* it has run out, or for another engine refusal.                           *)
FaultsOutliveAbsents ==
    [][\A v \in KeysOf(refused) :
          v \in KeysOf(refused') \/ reload' # reload \/ ~Live(refused, v)
          \/ \E u \in KeysOf(refused') \ KeysOf(refused) :
                EntryOf(refused', u).reason \in Faults]_vars

(* Every request is answered, whatever the others do: each wait is bounded. *)
EveryRequestAnswered ==
    \A t \in Threads : pc[t] # "idle" ~> pc[t] \in {"answered", "idle"}
=============================================================================
