------------------------------ MODULE Records ------------------------------
(***************************************************************************)
(* The record store and its routes: POST /records (api/records.py          *)
(* ::create_record, SaveCeiling; records.py::RecordStore), GET             *)
(* /records/{id} and /diff with the memo of removal causes (RemovalMemo),  *)
(* over one records.sqlite that an operator may remove or write to by      *)
(* hand, while the server reloads other versions and restarts with newer   *)
(* code.                                                                   *)
(*                                                                         *)
(* One save ceiling stands for both (RateLimit models their buckets), in a *)
(* time too short for a refill.  The store's size is counted in rows.      *)
(***************************************************************************)
EXTENDS Replays, OrderedDicts, FiniteSetsExt

CONSTANTS
    Threads,     \* request threads
    RecordIds,   \* ids new_record_id may draw
    Burst,       \* saves the ceiling allows
    MaxBytes,    \* records_max_bytes, in rows
    InsertTries, \* _INSERT_TRIES
    MaxIds,      \* RemovalMemo.max_ids
    MaxEntries,  \* RemovalMemo.max_entries
    MaxEvents    \* bound: reloads, restarts, and what an operator does

ASSUME RecordsConstants ==
    /\ Burst \in Nat /\ MaxBytes \in Nat /\ InsertTries \in Nat \ {0}
    /\ MaxIds \in Nat /\ MaxEntries \in Nat /\ MaxEvents \in Nat
    /\ IsFiniteSet(Threads)
    /\ None \notin Threads \cup RecordIds

VARIABLES
    file,        \* records.sqlite: "absent", "bare" (no tables), "ready"
    records,     \* record id -> the record stored under it
    idSets,      \* the id sets stored, one row each
    ready,       \* _ready: this process has made the tables
    creating,    \* the thread holding _init while it makes them, or None
    tokens,      \* saves the ceiling still allows
    served, qv,  \* the version served, the code's query version
    kept,        \* versions with an index on disk
    pc, engine, fields, conn, tries,   \* per thread
    job,         \* per thread: a memo entry worked out, not stored yet
    memo, memoIds,   \* RemovalMemo: _held, _ids
    events,
    forged,      \* history: records written to by hand
    gone,        \* history: ids of a removed file (72 random bits: none is
                 \* drawn twice once its row is gone)
    charged      \* history: saves stored since the process started

fileVars == <<file, records, idSets, forged, gone>>
procVars == <<ready, creating, tokens, charged>>
worldVars == <<served, qv, kept, events>>
saveVars == <<engine, fields, conn, tries>>
memoVars == <<job, memo, memoIds>>
vars == <<fileVars, procVars, worldVars, pc, saveVars, memoVars>>

(* A save has taken its token from "taken" to "connected", and has found   *)
(* room from "roomy" on.                                                   *)
PastCheck == {"roomy", "creating", "ensured", "connected"}
Charged == PastCheck \cup {"taken", "frozen"}
PCs == Charged \cup {"idle", "removals"}

Init ==
    /\ file = "absent" /\ records = <<>> /\ idSets = {}
    /\ ready = FALSE /\ creating = None
    /\ tokens = Burst /\ charged = 0
    /\ served \in Versions /\ kept = Versions
    /\ qv \in {q \in QueryVersions : \A w \in QueryVersions : q <= w}
    /\ events = 0 /\ forged = {} /\ gone = {}
    /\ pc = [t \in Threads |-> "idle"]
    /\ engine = [t \in Threads |-> None]
    /\ fields = [t \in Threads |-> None]
    /\ conn = [t \in Threads |-> "none"]
    /\ tries = [t \in Threads |-> 0]
    /\ job = [t \in Threads |-> None]
    /\ memo = <<>> /\ memoIds = 0

Goto(t, s) == pc' = [pc EXCEPT ![t] = s]

Idle(t) ==
    /\ Goto(t, "idle")
    /\ engine' = [engine EXCEPT ![t] = None]
    /\ fields' = [fields EXCEPT ![t] = None]
    /\ conn' = [conn EXCEPT ![t] = "none"]
    /\ tries' = [tries EXCEPT ![t] = 0]

----------------------------------------------------------------------------
(* POST /records.                                                          *)

\* The index is the one served now, and stays the request's; then the
\* ceiling, after the query parsed and before it runs.
TakeSave(t) ==
    /\ pc[t] = "idle"
    /\ tokens > 0
    /\ tokens' = tokens - 1
    /\ engine' = [engine EXCEPT ![t] = served]
    /\ Goto(t, "taken")
    /\ UNCHANGED <<fileVars, ready, creating, charged, worldVars, fields, conn,
                   tries, memoVars>>

\* The manifest of the request's index is read, and the query run on it.
Freeze(t) ==
    /\ pc[t] = "taken"
    /\ engine[t] \in kept
    /\ \E q \in Strings :
          /\ Searchable(engine[t], q, qv)
          /\ fields' = [fields EXCEPT ![t] = Frozen(engine[t], q, qv)]
    /\ Goto(t, "frozen")
    /\ UNCHANGED <<fileVars, procVars, worldVars, engine, conn, tries,
                   memoVars>>

UsedBytes == Cardinality(DOMAIN records) + Cardinality(idSets)

HasRoom == UsedBytes < MaxBytes

CheckRoom(t) ==
    /\ pc[t] = "frozen"
    /\ HasRoom
    /\ Goto(t, "roomy")
    /\ UNCHANGED <<fileVars, procVars, worldVars, saveVars, memoVars>>

\* _ensure, with the tables there: nothing to do.
FindTables(t) ==
    /\ pc[t] = "roomy"
    /\ creating = None
    /\ ready /\ file # "absent"
    /\ Goto(t, "ensured")
    /\ UNCHANGED <<fileVars, procVars, worldVars, engine, fields, conn, tries,
                   memoVars>>

\* _ensure: the file first, ...
CreateFile(t) ==
    /\ pc[t] = "roomy"
    /\ creating = None
    /\ ~ready \/ file = "absent"
    /\ creating' = t
    /\ file' = IF file = "absent" THEN "bare" ELSE file
    /\ conn' = [conn EXCEPT ![t] = "live"]
    /\ Goto(t, "creating")
    /\ UNCHANGED <<records, idSets, forged, gone, ready, tokens, charged, worldVars,
                   engine, fields, tries, memoVars>>

\* ... then its tables, in one transaction that leaves those there alone.
CreateTables(t) ==
    /\ pc[t] = "creating"
    /\ file' = IF conn[t] = "live" THEN "ready" ELSE file
    /\ ready' = TRUE
    /\ creating' = None
    /\ conn' = [conn EXCEPT ![t] = "none"]
    /\ Goto(t, "ensured")
    /\ UNCHANGED <<records, idSets, forged, gone, tokens, charged, worldVars, engine,
                   fields, tries, memoVars>>

\* One try's connection: SQLite makes the file if it is not there.
Connect(t) ==
    /\ pc[t] = "ensured"
    /\ file' = IF file = "absent" THEN "bare" ELSE file
    /\ conn' = [conn EXCEPT ![t] = "live"]
    /\ Goto(t, "connected")
    /\ UNCHANGED <<records, idSets, forged, gone, procVars, worldVars, engine, fields,
                   tries, memoVars>>

WithIdSet(ids) == idSets \cup {ids}

\* Its transaction: an unused id takes the record, and its id set with it
\* unless that is stored.  A removed file takes them too, and keeps nothing.
Insert(t, id) ==
    /\ pc[t] = "connected"
    /\ \/ /\ conn[t] = "live" /\ file = "ready"
          /\ id \notin DOMAIN records \cup gone
          /\ records' = [i \in DOMAIN records \cup {id} |->
                            IF i = id THEN fields[t] ELSE records[i]]
          /\ idSets' = WithIdSet(fields[t].ids)
       \/ /\ conn[t] = "removed"
          /\ UNCHANGED <<records, idSets>>
    /\ charged' = charged + 1
    /\ Idle(t)
    /\ UNCHANGED <<file, forged, gone, ready, creating, tokens, worldVars, memoVars>>

\* A drawn id that is taken: rolled back, and drawn again.
Redraw(t, id) ==
    /\ pc[t] = "connected" /\ conn[t] = "live" /\ file = "ready"
    /\ id \in DOMAIN records
    /\ tries[t] + 1 < InsertTries
    /\ tries' = [tries EXCEPT ![t] = @ + 1]
    /\ conn' = [conn EXCEPT ![t] = "none"]
    /\ Goto(t, "ensured")
    /\ UNCHANGED <<fileVars, procVars, worldVars, engine, fields,
                   memoVars>>

\* Mutant of SaveFails: a save refused for want of room is not given back.
SaveFailsFull(t) ==
    /\ pc[t] \in Charged
    /\ creating' = IF creating = t THEN None ELSE creating
    /\ tokens' = IF pc[t] = "frozen" \/ tokens = Burst THEN tokens ELSE tokens + 1
    /\ Idle(t)
    /\ UNCHANGED <<fileVars, ready, charged, worldVars, memoVars>>

\* Anything raised between the charge and the commit: the search is busy,
\* refused or its manifest gone, the store full, newer or locked, the file
\* without tables, every drawn id taken.  Nothing was stored; the save is
\* given back, capped at the burst.
SaveFails(t) ==
    /\ pc[t] \in Charged
    /\ creating' = IF creating = t THEN None ELSE creating
    /\ tokens' = IF tokens < Burst THEN tokens + 1 ELSE tokens
    /\ Idle(t)
    /\ UNCHANGED <<fileVars, ready, charged, worldVars, memoVars>>

----------------------------------------------------------------------------
(* GET /records/{id}/diff, and the memo of its removal causes.             *)

\* IndexState.pinned: the engine of an index on disk.
Pinned == [v \in Versions |-> IF v \in kept THEN v ELSE None]

Compares(id, withheld) ==
    LET r == records[id]
        v == RanOn(r, served, Pinned)
    IN  v \in kept /\ Refusal(r, v, qv, withheld) = "none"

MemoKey(id) == <<id, RanOn(records[id], served, Pinned)>>

\* The causes are kept: the most recently used now.
DiffFromMemo(t, id) ==
    /\ pc[t] = "idle"
    /\ id \in DOMAIN records
    /\ \E withheld \in BOOLEAN : Compares(id, withheld)
    /\ MemoKey(id) \in KeysOf(memo)
    /\ memo' = MoveToEnd(memo, MemoKey(id))
    /\ UNCHANGED <<fileVars, procVars, worldVars, pc, saveVars, job, memoIds>>

\* They are not: worked out with no lock held.
WorkOutRemovals(t, id) ==
    /\ pc[t] = "idle"
    /\ id \in DOMAIN records
    /\ \E withheld \in BOOLEAN : Compares(id, withheld)
    /\ MemoKey(id) \notin KeysOf(memo)
    /\ job' = [job EXCEPT ![t] =
                 [key |-> MemoKey(id),
                  why |-> Removals(records[id], MemoKey(id)[2], qv)]]
    /\ Goto(t, "removals")
    /\ UNCHANGED <<fileVars, procVars, worldVars, saveVars, memo, memoIds>>

Cost(entry) == Cardinality(DOMAIN entry.why) + 1

\* The removed ids, each under its entry's key: no two entries share one.
IdsOf(held) == UNION {{held[i].key} \X DOMAIN held[i].why : i \in DOMAIN held}

CostOf(held) == Len(held) + Cardinality(IdsOf(held))

\* Mutant of Stored: an entry another thread stored meanwhile is counted
\* again.
StoredTwice(entry) ==
    IF Cost(entry) <= MaxIds
    THEN [held |-> Put(memo, entry), ids |-> memoIds + Cost(entry)]
    ELSE [held |-> memo, ids |-> memoIds]

Fits(held, ids) == ids <= MaxIds /\ Len(held) <= MaxEntries

\* The memo with an entry stored, before anything is dropped: none that
\* costs more than all may, and none twice.
Stored(entry) ==
    IF Cost(entry) <= MaxIds /\ entry.key \notin KeysOf(memo)
    THEN [held |-> Put(memo, entry), ids |-> memoIds + Cost(entry)]
    ELSE [held |-> memo, ids |-> memoIds]

\* The oldest entries go until the rest fits.
StoreRemovals(t) ==
    /\ pc[t] = "removals"
    /\ LET new == Stored(job[t])
           After(n) == SubSeq(new.held, n + 1, Len(new.held))
           IdsAfter(n) == new.ids - CostOf(SubSeq(new.held, 1, n))
           dropped == Min({n \in 0..Len(new.held) : Fits(After(n), IdsAfter(n))})
       IN  /\ memo' = After(dropped)
           /\ memoIds' = IdsAfter(dropped)
    /\ job' = [job EXCEPT ![t] = None]
    /\ Goto(t, "idle")
    /\ UNCHANGED <<fileVars, procVars, worldVars, saveVars>>

----------------------------------------------------------------------------
(* The world.                                                              *)

Happen == events < MaxEvents /\ events' = events + 1

\* A reload (SIGHUP) opens another index; requests keep the one they read.
Reload(v) ==
    /\ Happen
    /\ v \in kept \ {served}
    /\ served' = v
    /\ UNCHANGED <<fileVars, procVars, qv, kept, pc, saveVars, memoVars>>

\* An index is retired, or put back.
ChangeKept(v) ==
    /\ Happen
    /\ kept' = IF v \in kept THEN kept \ {v} ELSE kept \cup {v}
    /\ UNCHANGED <<fileVars, procVars, served, qv, pc, saveVars, memoVars>>

\* The server stops anywhere and starts again, perhaps with newer code.
Restart ==
    /\ Happen
    /\ served' \in kept
    /\ qv' \in {q \in QueryVersions : q >= qv}
    /\ ready' = FALSE /\ creating' = None
    /\ tokens' = Burst /\ charged' = 0
    /\ pc' = [t \in Threads |-> "idle"]
    /\ engine' = [t \in Threads |-> None]
    /\ fields' = [t \in Threads |-> None]
    /\ conn' = [t \in Threads |-> "none"]
    /\ tries' = [t \in Threads |-> 0]
    /\ job' = [t \in Threads |-> None]
    /\ memo' = <<>> /\ memoIds' = 0
    /\ UNCHANGED <<fileVars, kept>>

\* Someone removes the file.  A connection keeps the file it opened.
RemoveFile ==
    /\ Happen
    /\ file # "absent"
    /\ file' = "absent" /\ records' = <<>> /\ idSets' = {} /\ forged' = {}
    /\ gone' = gone \cup DOMAIN records
    /\ conn' = [t \in Threads |->
                  IF conn[t] # "live" THEN conn[t]
                  ELSE IF file = "ready" THEN "removed" ELSE "broken"]
    /\ UNCHANGED <<procVars, served, qv, kept, pc, engine, fields, tries, memoVars>>

\* The rows a hand-written statement may leave of r: one column or one
\* field of its body changed.
Forgeries(r) ==
    {[r EXCEPT !.input = q] : q \in Strings}
    \cup {[r EXCEPT !.facts = Facts[v]] : v \in Versions}
    \cup {[r EXCEPT !.version = v] : v \in Versions}
    \cup {[r EXCEPT !.query_version = q] : q \in QueryVersions}
    \cup {[r EXCEPT !.inputs = Inputs[v]] : v \in Versions}
    \cup {[r EXCEPT !.canonical = c] : c \in Strings}
    \cup {[r EXCEPT !.identification = Identifications[c]] : c \in Strings}
    \cup {[r EXCEPT !.ids = s] : s \in idSets}
    \cup {[r EXCEPT !.ids_hash = s] : s \in idSets}
    \cup {[r EXCEPT !.total = n] : n \in {0, r.total + 1}}
    \cup {[r EXCEPT !.excluded = Excluded[x]] : x \in Versions \X Strings}

Forge(id) ==
    /\ Happen
    /\ id \in DOMAIN records
    /\ \E r \in Forgeries(records[id]) \ {records[id]} :
          records' = [records EXCEPT ![id] = r]
    /\ forged' = forged \cup {id}
    /\ UNCHANGED <<file, idSets, gone, procVars, served, qv, kept, pc, saveVars, memoVars>>

Step(t) ==
    \/ TakeSave(t) \/ Freeze(t) \/ CheckRoom(t)
    \/ FindTables(t) \/ CreateFile(t) \/ CreateTables(t) \/ Connect(t)
    \/ \E id \in RecordIds :
          Insert(t, id) \/ Redraw(t, id) \/ DiffFromMemo(t, id) \/ WorkOutRemovals(t, id)
    \/ SaveFails(t) \/ StoreRemovals(t)

Next ==
    \/ \E t \in Threads : Step(t)
    \/ \E v \in Versions : Reload(v) \/ ChangeKept(v)
    \/ Restart \/ RemoveFile
    \/ \E id \in RecordIds : Forge(id)

Spec == Init /\ [][Next]_vars

----------------------------------------------------------------------------

(* Every variable has its type.  A request between the ceiling and its      *)
(* answer knows its index, one past the freeze its record, and only the     *)
(* thread making the tables holds the store's lock.                         *)
TypeOK ==
    /\ file \in {"absent", "bare", "ready"}
    /\ DOMAIN records \subseteq RecordIds \ gone
    /\ forged \subseteq DOMAIN records
    /\ file # "ready" => records = <<>> /\ idSets = {}
    /\ \A id \in DOMAIN records : records[id].ids \in idSets
    /\ ready \in BOOLEAN
    /\ \A t \in Threads : creating = t <=> pc[t] = "creating"
    /\ creating \in Threads \cup {None}
    /\ tokens \in 0..Burst /\ charged \in Nat
    /\ served \in Versions /\ kept \subseteq Versions /\ qv \in QueryVersions
    /\ pc \in [Threads -> PCs]
    /\ engine \in [Threads -> Versions \cup {None}]
    /\ \A t \in Threads : pc[t] \in Charged <=> engine[t] # None
    /\ \A t \in Threads : pc[t] \in PastCheck => fields[t] # None
    /\ conn \in [Threads -> {"none", "live", "removed", "broken"}]
    /\ tries \in [Threads -> 0..(InsertTries - 1)]
    /\ \A t \in Threads : pc[t] = "removals" <=> job[t] # None
    /\ IsOrderedDict(memo) /\ memoIds \in Nat

(* Every save the ceiling allowed is under way, was stored, or was given    *)
(* back: a client whose saves fail is not kept from saving, and none saves  *)
(* more than allowed (create_record's refund on every failure).             *)
SavesCharged ==
    tokens + Cardinality({t \in Threads : pc[t] \in Charged}) + charged = Burst

(* The room is looked for before the transaction, so saves under way may    *)
(* pass the bound together, but by no more than one record each             *)
(* (_check_room, insert).                                                   *)
RoomOvershootBounded ==
    MaxBytes > 0 => UsedBytes < MaxBytes + 2 * Cardinality(Threads)

(* Neither limit on what clients may save leaks or is passed by more than   *)
(* the saves under way: not a client's ceiling, nor the store's room.       *)
SavesLimited == SavesCharged /\ RoomOvershootBounded

(* Whatever is served, kept or upgraded meanwhile, a record this code       *)
(* stored reproduces on its own index under its own query version, or       *)
(* drifts when the run is withheld; elsewhere it drifts and names a changed *)
(* input.  It is a mismatch just where its canonical nests too deep to be   *)
(* read back on its own index and query version (replay).                   *)
HonestReplays ==
    \A id \in DOMAIN records \ forged, v \in Versions, withheld \in BOOLEAN,
       p \in [Versions -> Versions \cup {None}] :
       LET r == records[id]
           status == Status(r, v, p, qv, withheld)
           same == Own(r, v, p) /\ r.query_version = qv
           readsBack ==
              Reads[<<r.canonical, Tokenizer(r.version), r.query_version>>] # Unreadable
       IN  /\ status = "mismatch" <=> same /\ ~readsBack
           /\ same /\ readsBack =>
                 status = IF withheld THEN "drifted" ELSE "reproduced"
           /\ ~same => Changed(r, RanOn(r, v, p), qv) # {}

(* A replay says reproduced of a row, also of one written to by hand,       *)
(* exactly when it ran on the row's own index, was not withheld, and every  *)
(* field it compares is what saving the row's canonical there would store   *)
(* now: nothing hides a change to one of them, and no other field is        *)
(* vouched for (input, dates, sources, dedup counts).                       *)
ReplayIsExact ==
    \A id \in DOMAIN records, v \in Versions, withheld \in BOOLEAN,
       p \in [Versions -> Versions \cup {None}] :
       LET r == records[id]
           save == Frozen(r.version, r.canonical, qv)
       IN  Status(r, v, p, qv, withheld) = "reproduced" <=>
              /\ Own(r, v, p) /\ ~withheld
              /\ Searchable(r.version, r.canonical, qv)
              /\ \A f \in Compared : r[f] = save[f]

(* The memo counts what it holds, within both its bounds, and gives for a   *)
(* record the causes a replay on that index would work out now, whichever   *)
(* of several threads stored them (RemovalMemo).                            *)
MemoSound ==
    /\ memoIds = CostOf(memo)
    /\ memoIds <= MaxIds /\ Len(memo) <= MaxEntries
    /\ \A i \in DOMAIN memo :
          LET id == memo[i].key[1] IN
          id \in DOMAIN records \ forged =>
             memo[i].why = Removals(records[id], memo[i].key[2], qv)

=============================================================================
