------------------------- MODULE ServedIndex_proofs -------------------------
(***************************************************************************)
(* Proofs about ServedIndex: every safety property of the served index and *)
(* its takedown list, for any versions, merges and lists, any number of    *)
(* loads and any changes of the disk between two looks at it.              *)
(*                                                                         *)
(* What makes it work: a load that found no list knows, until it ends, that *)
(* the list in force is empty and that the version served withheld nothing; *)
(* and the bundle it makes follows every snapshot that stood when it began, *)
(* which holds all that the bundle served follows.  Both because loads take *)
(* turns and a placed version stays.                                        *)
(***************************************************************************)
EXTENDS ServedIndex, TLAPS

AnyList == Lists \cup {{}}

Table == [version : Versions,
          state : {"queued", "building", "built", "failed", "skipped"}]

(* The disk and the counters.                                               *)
DiskInv ==
    /\ onDisk \subseteq Versions /\ broken \subseteq onDisk /\ damaged \subseteq onDisk
    /\ current \in Versions \cup {None}
    /\ listFile \in ListFiles
    /\ readable \in BOOLEAN
    /\ changes \in 0..MaxChanges

(* What only loads and restarts change.                                     *)
CountInv ==
    /\ listSeen \in BOOLEAN /\ fresh \in BOOLEAN
    /\ stood \subseteq onDisk
    /\ waiting \in Nat /\ loads \in 1..MaxLoads /\ waiting <= loads

(* One build at a time, and its table says so.                              *)
TablesInv ==
    /\ tables \in Seq(Table)
    /\ building \in 0..Len(tables)
    /\ \A i \in 1..Len(tables) : tables[i].state = "building" <=> building = i

(* The bundle served: a placed version, its own table, never a superseded   *)
(* one, and nothing withheld at build if no list has been seen.             *)
ServedInv ==
    served # None =>
        /\ served.version \in onDisk
        /\ served.listed \in AnyList
        /\ served.snapshots \subseteq onDisk
        /\ served.table \in 1..Len(tables)
        /\ tables[served.table].version = served.version
        /\ tables[served.table].state # "skipped"
        /\ ~listSeen => BuiltWithout[served.version] = {}

(* A load that found no list lifts nothing, whatever it swaps in.           *)
LoaderInv ==
    /\ loader \in {"idle", "resolve", "open", "keep", "swap"}
    /\ read \in [listed : AnyList, present : BOOLEAN, version : Versions \cup {None}]
    /\ loader = "keep" => served # None
    /\ loader # "swap" => made = None
    /\ loader # "idle" /\ ~read.present =>
          /\ read.listed = {}
          /\ served # None => served.listed = {} /\ BuiltWithout[served.version] = {}

(* The bundle about to be swapped in: of a placed version, with the list    *)
(* read, and with a table to be made or the one its version is served with. *)
MadeInv ==
    loader = "swap" =>
        /\ made.version \in onDisk
        /\ made.listed = read.listed
        /\ made.snapshots \subseteq onDisk
        /\ ~read.present => BuiltWithout[made.version] = {}
        /\ \/ made.table = NewTable
           \/ served # None /\ made.table = served.table /\ made.version = served.version

(* What the running load owes: all that the bundle served follows stood     *)
(* when it began, and what it made follows all that stood and is whole.     *)
OwedInv ==
    loader # "idle" =>
        /\ served # None => served.snapshots \subseteq stood
        /\ loader = "swap" => made.listed = {} \/ stood \ damaged \subseteq made.snapshots

(* A load that saw the list as it is carries it to its end.                 *)
FreshInv ==
    fresh /\ listFile.kind = "ids" =>
        /\ loader # "idle" => read.listed = listFile.ids
        /\ loader = "idle" /\ readable /\ served # None => served.listed = listFile.ids

IInv ==
    /\ DiskInv /\ CountInv /\ TablesInv /\ ServedInv
    /\ LoaderInv /\ MadeInv /\ OwedInv /\ FreshInv

----------------------------------------------------------------------------

(* Nothing is served and no table is made at the start.                     *)
LEMMA Initially == Init => IInv
<1> SUFFICES ASSUME Init PROVE IInv
    OBVIOUS
<1>1. CountInv
    <2>1. waiting \in Nat /\ loads \in 1..MaxLoads /\ waiting <= loads
        BY ServedConstants DEF Init
    <2>2. listSeen \in BOOLEAN /\ fresh \in BOOLEAN /\ stood \subseteq onDisk
        BY DEF Init
    <2> QED BY <2>1, <2>2 DEF CountInv
<1>2. DiskInv
    <2>1. changes \in 0..MaxChanges
        BY ServedConstants DEF Init
    <2>2. /\ onDisk \subseteq Versions /\ broken \subseteq onDisk /\ damaged \subseteq onDisk
          /\ current \in Versions \cup {None} /\ listFile \in ListFiles
        BY DEF Init
    <2>3. readable \in BOOLEAN
        BY DEF Init
    <2> QED BY <2>1, <2>2, <2>3 DEF DiskInv
<1>3. TablesInv /\ ServedInv
    BY DEF Init, TablesInv, ServedInv
<1>4. LoaderInv /\ MadeInv /\ OwedInv /\ FreshInv
    BY DEF Init, LoaderInv, MadeInv, OwedInv, FreshInv, NothingRead, AnyList
<1> QED BY <1>1, <1>2, <1>3, <1>4 DEF IInv

(* The invariant is strong enough for the type invariant and the state      *)
(* properties.                                                              *)
LEMMA Suffices ==
    IInv => TypeOK /\ MissingListNeverLifts /\ LatestListApplies
                   /\ TableIsOfTheServedIndex /\ ServedTableNeverSkipped
<1> SUFFICES ASSUME IInv
             PROVE  TypeOK /\ MissingListNeverLifts /\ LatestListApplies
                           /\ TableIsOfTheServedIndex /\ ServedTableNeverSkipped
    OBVIOUS
<1>1. DOMAIN tables = 1..Len(tables) /\ \A i \in DOMAIN tables : tables[i] \in Table
    BY DEF IInv, TablesInv
<1>2. waiting \in 0..MaxLoads
    BY ServedConstants DEF IInv, CountInv
<1>3. TypeOK
    BY <1>1, <1>2
    DEF TypeOK, IInv, DiskInv, CountInv, TablesInv, ServedInv, LoaderInv, AnyList, Table
<1>4. MissingListNeverLifts /\ TableIsOfTheServedIndex /\ ServedTableNeverSkipped
    BY DEF MissingListNeverLifts, TableIsOfTheServedIndex, ServedTableNeverSkipped,
           IInv, ServedInv
<1>5. LatestListApplies
    BY DEF LatestListApplies, IInv, FreshInv
<1> QED BY <1>3, <1>4, <1>5

----------------------------------------------------------------------------
(* A load's steps.                                                          *)

(* What every step of a load but the swap leaves as it was.                 *)
LEMMA LookFacts ==
    ASSUME IInv, Looks
    PROVE  /\ DiskInv' /\ TablesInv' /\ ServedInv' /\ NewTable' = NewTable
           /\ listSeen' \in BOOLEAN /\ loads' \in 1..MaxLoads
           /\ UNCHANGED <<onDisk, damaged, listFile, readable, served, tables, loads>>
<1>1. UNCHANGED <<onDisk, broken, damaged, current, listFile, readable, served, listSeen,
                  tables, building, loads, changes>>
    BY DEF Looks, diskVars, serveVars, tableVars, boundVars
<1>2. DiskInv' /\ TablesInv' /\ ServedInv'
    BY <1>1 DEF IInv, DiskInv, TablesInv, ServedInv
<1>3. listSeen' \in BOOLEAN /\ loads' \in 1..MaxLoads
    BY <1>1 DEF IInv, CountInv
<1> QED BY <1>1, <1>2, <1>3 DEF NewTable

(* A look that asks for no load and begins none.                            *)
LEMMA LaterLook ==
    ASSUME IInv, Looks, UNCHANGED <<waiting, historyVars>>
    PROVE  CountInv'
BY LookFacts DEF IInv, CountInv, historyVars

(* A load that ends without a swap has the list it read in force already,   *)
(* or could not apply it.                                                   *)
LEMMA EndStep ==
    ASSUME IInv, loader # "idle", LoadEnds, Looks, UNCHANGED <<waiting, historyVars>>,
           served # None /\ readable => read.listed = served.listed
    PROVE  IInv'
<1>1. loader' = "idle" /\ read' = NothingRead /\ made' = None /\ fresh' = fresh
    BY DEF LoadEnds, historyVars
<1>2. LoaderInv' /\ MadeInv' /\ OwedInv'
    BY <1>1 DEF LoaderInv, MadeInv, OwedInv, NothingRead, AnyList
<1>3. FreshInv'
    BY <1>1, LookFacts DEF IInv, FreshInv
<1> QED BY <1>2, <1>3, LookFacts, LaterLook DEF IInv

(* A failed load ends, or goes on to take its list.                         *)
LEMMA FailStep ==
    ASSUME IInv, loader \in {"resolve", "open"}, Fail, Looks,
           UNCHANGED <<waiting, historyVars>>
    PROVE  IInv'
<1>1. CASE ~NewList /\ LoadEnds
    BY <1>1, EndStep DEF NewList
<1>2. CASE NewList /\ loader' = "keep" /\ UNCHANGED <<read, made>>
    <2>1. LoaderInv' /\ MadeInv' /\ OwedInv' /\ FreshInv'
        BY <1>2, LookFacts
        DEF NewList, IInv, LoaderInv, MadeInv, OwedInv, FreshInv, historyVars
    <2> QED BY <2>1, LookFacts, LaterLook DEF IInv
<1> QED BY <1>1, <1>2 DEF Fail

(* A bundle of a placed version, with the list read and the merges on disk. *)
LEMMA MakeStep ==
    ASSUME IInv, loader # "idle", NEW v \in onDisk, NEW t, Make(v, t), Looks,
           UNCHANGED <<waiting, historyVars>>,
           ~read.present => BuiltWithout[v] = {},
           \/ t = NewTable
           \/ served # None /\ t = served.table /\ v = served.version
    PROVE  IInv'
<1>1. /\ made' = Bundle(v, read.listed, t) /\ loader' = "swap" /\ read' = read
      /\ fresh' = fresh /\ stood' = stood
    BY DEF Make, historyVars
<1>2. /\ made'.version = v /\ made'.listed = read.listed /\ made'.table = t
      /\ made'.snapshots = IF read.listed = {} THEN {} ELSE onDisk \ damaged
    BY <1>1 DEF Bundle, WholeMerges
<1>3. LoaderInv'
    BY <1>1, LookFacts DEF IInv, LoaderInv
<1>4. MadeInv'
    BY <1>1, <1>2, LookFacts DEF MadeInv
<1>5. OwedInv'
    BY <1>1, <1>2, LookFacts DEF IInv, CountInv, OwedInv
<1>6. FreshInv'
    BY <1>1, LookFacts DEF IInv, FreshInv
<1> QED BY <1>3, <1>4, <1>5, <1>6, LookFacts, LaterLook DEF IInv

(* The list read is the one there; none is read only if none is in force.   *)
LEMMA ReadListStep ==
    ASSUME IInv, ReadList PROVE IInv'
<1>1. /\ loader = "idle" /\ waiting > 0 /\ waiting' = waiting - 1
      /\ fresh' = TRUE /\ stood' = onDisk /\ Looks
    BY DEF ReadList
<1>2. CountInv'
    BY <1>1, LookFacts DEF IInv, CountInv
<1>3. made = None /\ (served # None => served.snapshots \subseteq stood')
    BY <1>1 DEF IInv, LoaderInv, ServedInv
<1>4. CASE /\ listFile.kind = "ids" /\ loader' = "resolve" /\ UNCHANGED made
           /\ read' = [NothingRead EXCEPT !.listed = listFile.ids, !.present = TRUE]
    <2>1. listFile.ids \in AnyList
        BY <1>4 DEF IInv, DiskInv, ListFiles, AnyList
    <2>2. read' = [listed |-> listFile.ids, present |-> TRUE, version |-> None]
        BY <1>4 DEF NothingRead
    <2>3. read' \in [listed : AnyList, present : BOOLEAN, version : Versions \cup {None}]
        BY <2>1, <2>2
    <2>4. LoaderInv'
        BY <1>3, <1>4, <2>2, <2>3 DEF LoaderInv
    <2>5. MadeInv' /\ OwedInv' /\ FreshInv'
        BY <1>1, <1>3, <1>4, <2>2, LookFacts DEF MadeInv, OwedInv, FreshInv
    <2> QED BY <1>1, <1>2, <2>4, <2>5, LookFacts DEF IInv
<1>5. CASE /\ listFile.kind = "missing" /\ ~MissingIsFailure
           /\ loader' = "resolve" /\ read' = NothingRead /\ UNCHANGED made
    <2>1. /\ served # None => served.listed = {}
          /\ \A v \in onDisk : BuiltWithout[v] = {}
        BY <1>5 DEF MissingIsFailure, AnyWithheld
    <2>2. served # None => served.listed = {} /\ BuiltWithout[served.version] = {}
        BY <2>1 DEF IInv, ServedInv
    <2>3. LoaderInv'
        BY <1>1, <1>3, <1>5, <2>2, LookFacts DEF LoaderInv, NothingRead, AnyList
    <2>4. MadeInv' /\ OwedInv' /\ FreshInv'
        BY <1>1, <1>3, <1>5, LookFacts DEF MadeInv, OwedInv, FreshInv
    <2> QED BY <1>1, <1>2, <2>3, <2>4, LookFacts DEF IInv
<1>6. CASE listFile.kind \in {"bad", "missing"} /\ LoadEnds
    <2>1. LoaderInv' /\ MadeInv' /\ OwedInv'
        BY <1>6 DEF LoadEnds, LoaderInv, MadeInv, OwedInv, NothingRead, AnyList
    <2>2. FreshInv'
        BY <1>1, <1>6, LookFacts DEF FreshInv
    <2> QED BY <1>1, <1>2, <2>1, <2>2, LookFacts DEF IInv
<1> QED BY <1>4, <1>5, <1>6 DEF ReadList

(* The served index with another list keeps its table, or is given a new    *)
(* one of its own version.                                                  *)
LEMMA ResolveServedStep ==
    ASSUME IInv, ResolveServed PROVE IInv'
<1>1. /\ loader = "resolve" /\ served # None /\ Looks /\ UNCHANGED <<waiting, historyVars>>
    BY DEF ResolveServed, Serves
<1>2. CASE read.listed = served.listed /\ LoadEnds
    BY <1>1, <1>2, EndStep
<1>3. CASE Make(served.version, IF TableFailed THEN NewTable ELSE served.table)
    <2> DEFINE t == IF TableFailed THEN NewTable ELSE served.table
    <2>1. t = NewTable \/ t = served.table
        OBVIOUS
    <2>2. /\ served.version \in onDisk
          /\ ~read.present => BuiltWithout[served.version] = {}
        BY <1>1 DEF IInv, ServedInv, LoaderInv
    <2>3. Make(served.version, t)
        BY <1>3
    <2> HIDE DEF t
    <2> QED BY <1>1, <2>1, <2>2, <2>3, MakeStep
<1>4. CASE Fail
    BY <1>1, <1>4, FailStep
<1> QED BY <1>2, <1>3, <1>4 DEF ResolveServed

LEMMA ResolveOtherStep ==
    ASSUME IInv, ResolveOther PROVE IInv'
<1>1. /\ loader = "resolve" /\ Looks /\ UNCHANGED <<waiting, historyVars>>
    BY DEF ResolveOther
<1>2. CASE /\ current \in onDisk /\ loader' = "open" /\ UNCHANGED made
           /\ read' = [read EXCEPT !.version = current]
    <2>1. read \in [listed : AnyList, present : BOOLEAN, version : Versions \cup {None}]
        BY DEF IInv, LoaderInv
    <2>2. current \in Versions
        BY <1>2 DEF IInv, DiskInv
    <2>3. /\ read' \in [listed : AnyList, present : BOOLEAN, version : Versions \cup {None}]
          /\ read'.listed = read.listed /\ read'.present = read.present
        BY <1>2, <2>1, <2>2
    <2>4. LoaderInv'
        BY <1>1, <1>2, <2>3, LookFacts DEF IInv, LoaderInv
    <2>5. MadeInv' /\ OwedInv' /\ FreshInv'
        BY <1>1, <1>2, <2>3, LookFacts
        DEF IInv, MadeInv, OwedInv, FreshInv, historyVars
    <2> QED BY <1>1, <2>4, <2>5, LookFacts, LaterLook DEF IInv
<1>3. CASE Fail
    BY <1>1, <1>3, FailStep
<1> QED BY <1>2, <1>3 DEF ResolveOther

LEMMA OpenStep ==
    ASSUME IInv, Open PROVE IInv'
<1>1. /\ loader = "open" /\ Looks /\ UNCHANGED <<waiting, historyVars>>
    BY DEF Open
<1>2. CASE Opens(read.version) /\ Make(read.version, NewTable)
    <2>1. /\ read.version \in onDisk
          /\ ~read.present => BuiltWithout[read.version] = {}
        BY <1>2 DEF Opens
    <2> QED BY <1>1, <1>2, <2>1, MakeStep
<1>3. CASE Fail
    BY <1>1, <1>3, FailStep
<1> QED BY <1>2, <1>3 DEF Open

LEMMA KeepStep ==
    ASSUME IInv, KeepIndexTakeList PROVE IInv'
<1>1. /\ loader = "keep" /\ served # None /\ Looks /\ UNCHANGED <<waiting, historyVars>>
    BY DEF KeepIndexTakeList, IInv, LoaderInv
<1>2. CASE Make(served.version, served.table)
    <2>1. /\ served.version \in onDisk
          /\ ~read.present => BuiltWithout[served.version] = {}
        BY <1>1 DEF IInv, ServedInv, LoaderInv
    <2> QED BY <1>1, <1>2, <2>1, MakeStep
<1>3. CASE ~CanBundle(read.listed) /\ LoadEnds
    <2>1. ~readable
        BY <1>3 DEF CanBundle
    <2> QED BY <1>1, <1>3, <2>1, EndStep
<1> QED BY <1>2, <1>3 DEF KeepIndexTakeList

(* A new table is the last one, queued, and disturbs none of the others.    *)
LEMMA NewTableFacts ==
    ASSUME TablesInv, NEW v \in Versions, UNCHANGED building,
           tables' = Append(tables, [version |-> v, state |-> "queued"])
    PROVE  /\ TablesInv'
           /\ Len(tables') = Len(tables) + 1
           /\ tables'[Len(tables) + 1] = [version |-> v, state |-> "queued"]
<1> DEFINE new == [version |-> v, state |-> "queued"]
<1>1. new \in Table
    BY DEF Table
<1>2. /\ tables' \in Seq(Table) /\ Len(tables') = Len(tables) + 1
      /\ tables'[Len(tables) + 1] = new
      /\ \A i \in 1..Len(tables) : tables'[i] = tables[i]
    BY <1>1 DEF TablesInv
<1>3. building \in 0..Len(tables) /\ Len(tables) \in Nat
    BY DEF TablesInv
<1>4. ASSUME NEW i \in 1..Len(tables')
      PROVE  tables'[i].state = "building" <=> building' = i
    <2>1. CASE i \in 1..Len(tables)
        BY <2>1, <1>2 DEF TablesInv
    <2>2. CASE i = Len(tables) + 1
        BY <2>2, <1>2, <1>3
    <2> QED BY <1>2, <1>3, <2>1, <2>2
<1> QED BY <1>2, <1>3, <1>4 DEF TablesInv

(* The bundle made is served as it is, with its new table or its old one.   *)
LEMMA SwapStep ==
    ASSUME IInv, Swap PROVE IInv'
<1>1. /\ loader = "swap" /\ served' = made /\ listSeen' = read.present /\ LoadEnds
      /\ UNCHANGED <<onDisk, broken, damaged, current, listFile, readable, building,
                     waiting, loads, changes, fresh, stood>>
    BY DEF Swap, diskVars, boundVars, historyVars
<1>2. /\ made.version \in onDisk /\ made.listed = read.listed /\ made.snapshots \subseteq onDisk
      /\ ~read.present => BuiltWithout[made.version] = {}
      /\ \/ made.table = NewTable
         \/ served # None /\ made.table = served.table /\ made.version = served.version
    BY <1>1 DEF IInv, MadeInv
<1>3. read.listed \in AnyList /\ read.present \in BOOLEAN /\ made.version \in Versions
    BY <1>2 DEF IInv, LoaderInv, DiskInv
<1>4. DiskInv' /\ CountInv'
    BY <1>1, <1>3 DEF IInv, DiskInv, CountInv
<1>5. LoaderInv' /\ MadeInv' /\ OwedInv' /\ FreshInv'
    BY <1>1, <1>2
    DEF IInv, LoadEnds, LoaderInv, MadeInv, OwedInv, FreshInv, NothingRead, AnyList
<1>6. CASE made.table = NewTable
    <2>1. tables' = Append(tables, [version |-> made.version, state |-> "queued"])
        BY <1>6 DEF Swap
    <2>2. /\ TablesInv' /\ Len(tables') = Len(tables) + 1 /\ Len(tables) \in Nat
          /\ tables'[Len(tables) + 1] = [version |-> made.version, state |-> "queued"]
        BY <1>1, <1>3, <2>1, NewTableFacts DEF IInv, TablesInv
    <2>3. ServedInv'
        BY <1>1, <1>2, <1>3, <1>6, <2>2 DEF ServedInv, NewTable
    <2> QED BY <1>4, <1>5, <2>2, <2>3 DEF IInv
<1>7. CASE made.table # NewTable
    <2>1. tables' = tables
        BY <1>7 DEF Swap
    <2>2. TablesInv'
        BY <1>1, <2>1 DEF IInv, TablesInv
    <2>3. ServedInv'
        BY <1>1, <1>2, <1>3, <1>7, <2>1 DEF IInv, ServedInv
    <2> QED BY <1>4, <1>5, <2>2, <2>3 DEF IInv
<1> QED BY <1>6, <1>7

----------------------------------------------------------------------------
(* The builds, the process and the operator.                                *)

(* A table's state changes, and nothing else of it or of another.           *)
LEMMA SetTableFacts ==
    ASSUME TablesInv, NEW i \in 1..Len(tables),
           NEW st \in {"queued", "building", "built", "failed", "skipped"},
           SetTable(i, st)
    PROVE  /\ tables' \in Seq(Table) /\ Len(tables') = Len(tables)
           /\ tables'[i].state = st
           /\ \A j \in 1..Len(tables) :
                 /\ tables'[j].version = tables[j].version
                 /\ j # i => tables'[j] = tables[j]
<1>1. /\ tables \in Seq(Table) /\ Len(tables) \in Nat /\ DOMAIN tables = 1..Len(tables)
      /\ \A j \in 1..Len(tables) : tables[j] \in Table
    BY DEF TablesInv
<1>2. tables' = [tables EXCEPT ![i] = [tables[i] EXCEPT !.state = st]]
    BY DEF SetTable
<1>3. /\ [tables[i] EXCEPT !.state = st] \in Table
      /\ [tables[i] EXCEPT !.state = st].state = st
      /\ [tables[i] EXCEPT !.state = st].version = tables[i].version
    BY <1>1 DEF Table
<1>4. tables' \in Seq(Table) /\ Len(tables') = Len(tables)
    BY <1>1, <1>2, <1>3
<1>5. tables'[i] = [tables[i] EXCEPT !.state = st]
    BY <1>1, <1>2
<1>6. \A j \in 1..Len(tables) : j # i => tables'[j] = tables[j]
    BY <1>1, <1>2
<1> QED BY <1>3, <1>4, <1>5, <1>6

(* A build disturbs only its table; the table served is never skipped,      *)
(* because a build is skipped only after looking at what is served.         *)
LEMMA BuildStep ==
    ASSUME IInv, NEW i \in 1..MaxLoads, Build(i) PROVE IInv'
<1>1. UNCHANGED <<diskVars, serveVars, loadVars, waiting, boundVars, historyVars>>
    BY DEF Build, StartBuild, FinishBuild
<1>2. TablesInv
    BY DEF IInv
<1>3. DiskInv' /\ CountInv' /\ LoaderInv' /\ OwedInv' /\ FreshInv'
    BY <1>1
    DEF IInv, DiskInv, CountInv, LoaderInv, OwedInv, FreshInv,
        diskVars, serveVars, loadVars, boundVars, historyVars
<1>6. ASSUME Len(tables') = Len(tables) PROVE MadeInv'
    BY <1>1, <1>6 DEF IInv, MadeInv, NewTable, diskVars, serveVars, loadVars
<1>4. CASE StartBuild(i)
    <2>1. building = 0 /\ i \in 1..Len(tables) /\ tables[i].state = "queued"
        BY <1>2, <1>4 DEF StartBuild, TablesInv
    <2>2. CASE SetTable(i, "building") /\ building' = i
        <3>1. /\ tables' \in Seq(Table) /\ Len(tables') = Len(tables)
              /\ tables'[i].state = "building"
              /\ \A j \in 1..Len(tables) :
                    /\ tables'[j].version = tables[j].version
                    /\ j # i => tables'[j] = tables[j]
            BY <1>2, <2>1, <2>2, SetTableFacts
        <3>2. TablesInv'
            BY <1>2, <2>1, <2>2, <3>1 DEF TablesInv
        <3>3. ServedInv'
            BY <1>1, <3>1 DEF IInv, ServedInv, diskVars, serveVars
        <3> QED BY <1>3, <1>6, <3>1, <3>2, <3>3 DEF IInv
    <2>3. CASE ~ServesTable(i) /\ SetTable(i, "skipped") /\ UNCHANGED building
        <3>1. /\ tables' \in Seq(Table) /\ Len(tables') = Len(tables)
              /\ tables'[i].state = "skipped"
              /\ \A j \in 1..Len(tables) :
                    /\ tables'[j].version = tables[j].version
                    /\ j # i => tables'[j] = tables[j]
            BY <1>2, <2>1, <2>3, SetTableFacts
        <3>2. TablesInv'
            BY <1>2, <2>1, <2>3, <3>1 DEF TablesInv
        <3>3. ServedInv'
            BY <1>1, <2>3, <3>1 DEF IInv, ServedInv, ServesTable, diskVars, serveVars
        <3> QED BY <1>3, <1>6, <3>1, <3>2, <3>3 DEF IInv
    <2> QED BY <1>4, <2>2, <2>3 DEF StartBuild
<1>5. ASSUME NEW outcome \in {"built", "failed"}, building = i, FinishBuild(outcome)
      PROVE  IInv'
    <2>1. i \in 1..Len(tables) /\ SetTable(i, outcome) /\ building' = 0
        BY <1>2, <1>5 DEF FinishBuild, TablesInv
    <2>2. /\ tables' \in Seq(Table) /\ Len(tables') = Len(tables)
          /\ tables'[i].state = outcome
          /\ \A j \in 1..Len(tables) :
                /\ tables'[j].version = tables[j].version
                /\ j # i => tables'[j] = tables[j]
        BY <1>2, <2>1, SetTableFacts
    <2>3. TablesInv'
        BY <1>2, <1>5, <2>1, <2>2 DEF TablesInv
    <2>4. ServedInv'
        BY <1>1, <2>2 DEF IInv, ServedInv, diskVars, serveVars
    <2> QED BY <1>3, <1>6, <2>2, <2>3, <2>4 DEF IInv
<1> QED BY <1>4, <1>5 DEF Build

(* A step that changes neither what is served nor its tables.               *)
LEMMA ServedKept ==
    ASSUME IInv, UNCHANGED <<serveVars, loadVars, tableVars, stood>>,
           onDisk \subseteq onDisk', damaged \subseteq damaged'
    PROVE  TablesInv' /\ ServedInv' /\ LoaderInv' /\ MadeInv' /\ OwedInv'
<1>1. UNCHANGED <<served, listSeen, loader, read, made, tables, building, stood>>
    BY DEF serveVars, loadVars, tableVars
<1>2. TablesInv' /\ ServedInv' /\ LoaderInv'
    BY <1>1 DEF IInv, TablesInv, ServedInv, LoaderInv
<1>3. MadeInv' /\ OwedInv'
    BY <1>1 DEF IInv, MadeInv, OwedInv, NewTable
<1> QED BY <1>2, <1>3

LEMMA SighupStep ==
    ASSUME IInv, Sighup PROVE IInv'
<1>1. /\ loads < MaxLoads /\ loads' = loads + 1 /\ waiting' = waiting + 1
      /\ UNCHANGED <<diskVars, serveVars, loadVars, tableVars, changes, fresh, stood>>
    BY DEF Sighup, historyVars
<1>2. DiskInv' /\ CountInv' /\ FreshInv'
    BY <1>1, ServedConstants
    DEF IInv, DiskInv, CountInv, FreshInv, diskVars, serveVars, loadVars
<1> QED BY <1>1, <1>2, ServedKept DEF IInv, diskVars

(* A restart forgets everything but the disk.                               *)
LEMMA RestartStep ==
    ASSUME IInv, Restart PROVE IInv'
<1>1. /\ loads < MaxLoads /\ loads' = loads + 1 /\ waiting' = 1
      /\ served' = None /\ listSeen' = FALSE /\ fresh' = FALSE
      /\ LoadEnds /\ tables' = <<>> /\ building' = 0
      /\ UNCHANGED <<diskVars, changes, stood>>
    BY DEF Restart
<1>2. DiskInv' /\ CountInv'
    <2>1. waiting' \in Nat /\ loads' \in 1..MaxLoads /\ waiting' <= loads'
        BY <1>1, ServedConstants DEF IInv, CountInv
    <2>2. listSeen' \in BOOLEAN /\ fresh' \in BOOLEAN
        BY <1>1
    <2> QED BY <1>1, <2>1, <2>2 DEF IInv, DiskInv, CountInv, diskVars
<1>3. TablesInv' /\ ServedInv'
    BY <1>1 DEF TablesInv, ServedInv
<1>4. LoaderInv' /\ MadeInv' /\ OwedInv' /\ FreshInv'
    BY <1>1 DEF LoadEnds, LoaderInv, MadeInv, OwedInv, FreshInv, NothingRead, AnyList
<1> QED BY <1>2, <1>3, <1>4 DEF IInv

LEMMA OperatorStep ==
    ASSUME IInv, Operator PROVE IInv'
<1>1. /\ changes < MaxChanges /\ changes' = changes + 1 /\ fresh' = FALSE
      /\ UNCHANGED <<serveVars, loadVars, waiting, tableVars, loads, stood>>
    BY DEF Operator, Place, Damage, DamageMerges, Promote, WriteList, LoseSnapshotsListing,
           Operate
<1>2. /\ onDisk' \subseteq Versions /\ broken' \subseteq onDisk' /\ damaged' \subseteq onDisk'
      /\ current' \in Versions \cup {None} /\ listFile' \in ListFiles
      /\ readable' \in BOOLEAN
      /\ onDisk \subseteq onDisk' /\ damaged \subseteq damaged'
    <2> USE DEF IInv, DiskInv
    <2>1. CASE \E v \in Versions : Place(v)
        BY <2>1 DEF Place
    <2>2. CASE \E v \in Versions : Damage(v)
        BY <2>2 DEF Damage
    <2>3. CASE \E v \in Versions : DamageMerges(v)
        BY <2>3 DEF DamageMerges
    <2>4. CASE \E v \in Versions \cup {None} : Promote(v)
        BY <2>4 DEF Promote
    <2>5. CASE \E file \in ListFiles : WriteList(file)
        BY <2>5 DEF WriteList
    <2>6. CASE LoseSnapshotsListing
        BY <2>6 DEF LoseSnapshotsListing
    <2> QED BY <2>1, <2>2, <2>3, <2>4, <2>5, <2>6 DEF Operator
<1>3. changes' \in 0..MaxChanges
    BY <1>1, ServedConstants DEF IInv, DiskInv
<1>4. DiskInv'
    BY <1>2, <1>3 DEF DiskInv
<1>5. CountInv' /\ FreshInv'
    BY <1>1, <1>2 DEF IInv, CountInv, FreshInv, serveVars
<1> QED BY <1>1, <1>2, <1>4, <1>5, ServedKept DEF IInv

----------------------------------------------------------------------------
(* The theorems.                                                            *)

LEMMA Step == IInv /\ [Next]_vars => IInv'
<1> SUFFICES ASSUME IInv, [Next]_vars PROVE IInv'
    OBVIOUS
<1>1. CASE Load
    BY <1>1, ReadListStep, ResolveServedStep, ResolveOtherStep, OpenStep, KeepStep, SwapStep
    DEF Load
<1>2. CASE \E i \in 1..MaxLoads : Build(i)
    BY <1>2, BuildStep
<1>3. CASE Sighup
    BY <1>3, SighupStep
<1>4. CASE Restart
    BY <1>4, RestartStep
<1>5. CASE Operator
    BY <1>5, OperatorStep
<1>6. CASE UNCHANGED vars
    BY <1>6
    DEF vars, diskVars, serveVars, loadVars, tableVars, boundVars, historyVars, NewTable,
        IInv, DiskInv, CountInv, TablesInv, ServedInv, LoaderInv, MadeInv, OwedInv, FreshInv
<1> QED BY <1>1, <1>2, <1>3, <1>4, <1>5, <1>6 DEF Next

LEMMA Inductive == Spec => []IInv
BY Initially, Step, PTL DEF Spec

(* Every variable of IndexState holds what the code can put in it, and one  *)
(* match table is built at a time.                                          *)
THEOREM Typed == Spec => []TypeOK
BY Inductive, Suffices, PTL

(* _load: a deployment whose snapshot withheld abstracts is never served    *)
(* with the list gone.                                                      *)
THEOREM MissingLists == Spec => []MissingListNeverLifts
BY Inductive, Suffices, PTL

(* _load and _keep_index_take_list: a load that saw the disk as it is       *)
(* leaves the list that is there in force, whether it swapped, kept or      *)
(* failed.                                                                  *)
THEOREM LatestLists == Spec => []LatestListApplies
BY Inductive, Suffices, PTL

(* _bundle: the match table of the index served is of that index.           *)
THEOREM TablesMatch == Spec => []TableIsOfTheServedIndex
BY Inductive, Suffices, PTL

(* _build_matches: the table of the index served is never skipped.          *)
THEOREM TablesNotSkipped == Spec => []ServedTableNeverSkipped
BY Inductive, Suffices, PTL

----------------------------------------------------------------------------
(* What a step may do to the bundle served.                                 *)

(* Only a load that has made a bundle swaps one in.                         *)
LEMMA Swaps ==
    ASSUME [Next]_vars
    PROVE  \/ served' = served
           \/ served' = None
           \/ loader = "swap" /\ served' = made
<1>1. CASE Load
    BY <1>1
    DEF Load, ReadList, ResolveServed, ResolveOther, Open, KeepIndexTakeList, Swap,
        Looks, serveVars
<1>2. CASE \E i \in 1..MaxLoads : Build(i)
    BY <1>2 DEF Build, StartBuild, FinishBuild, serveVars
<1>3. CASE Sighup \/ Restart \/ Operator \/ UNCHANGED vars
    BY <1>3
    DEF Sighup, Restart, Operator, Place, Damage, DamageMerges, Promote, WriteList,
        LoseSnapshotsListing, Operate, serveVars, vars
<1> QED BY <1>1, <1>2, <1>3 DEF Next

(* _load: while the process runs, an id leaves the list in force only       *)
(* because a list that exists no longer names it.                           *)
THEOREM TakedownsLifted == Spec => TakedownsLiftedOnlyByTheList
<1>1. ASSUME IInv, [Next]_vars, served # None, served' # None,
             NEW i \in served.listed \ served'.listed
      PROVE  read.present /\ i \notin read.listed
    <2>1. loader = "swap" /\ served' = made
        BY <1>1, Swaps
    <2>2. made.listed = read.listed
        BY <1>1, <2>1 DEF IInv, MadeInv
    <2>3. read.present \in BOOLEAN /\ (~read.present => served.listed = {})
        BY <1>1, <2>1 DEF IInv, LoaderInv
    <2> QED BY <1>1, <2>1, <2>2, <2>3
<1>2. IInv /\ [Next]_vars =>
        [served # None /\ served' # None =>
            \A i \in served.listed \ served'.listed : read.present /\ i \notin read.listed]_vars
    BY <1>1
<1> QED BY Inductive, <1>2, PTL DEF Spec, TakedownsLiftedOnlyByTheList

(* _load: no takedown is lifted but by a list that exists and drops it.     *)
THEOREM TakedownsKept == Spec => TakedownsHold
BY TakedownsLifted, MissingLists DEF TakedownsHold

(* same_paper: an empty list names no paper.                                *)
LEMMA NothingListed ==
    ASSUME NEW pairs, NEW held PROVE SamePaper({}, pairs, held) = {}
<1> DEFINE universe == Universe({}, pairs, held)
<1>1. LinkClosed({}, universe, pairs)
    BY DEF LinkClosed
<1>2. Reached({}, universe, pairs) = {}
    <2> HIDE DEF universe
    <2>1. {} \in SUBSET universe /\ {} \subseteq {}
        OBVIOUS
    <2> QED BY <1>1, <2>1 DEF Reached
<1> QED BY <1>2 DEF SamePaper

(* same_paper: more merges reach no fewer papers.                           *)
LEMMA MoreMerges ==
    ASSUME NEW listed, NEW held, NEW pairs, NEW more, pairs \subseteq more
    PROVE  SamePaper(listed, pairs, held) \subseteq SamePaper(listed, more, held)
<1> DEFINE few == Universe(listed, pairs, held)
           all == Universe(listed, more, held)
<1>1. few \subseteq all
    BY DEF Universe
<1>2. ASSUME NEW r \in Reached(listed, few, pairs) PROVE r \in Reached(listed, all, more)
    <2>1. r \in all
        BY <1>1, <1>2 DEF Reached
    <2>2. ASSUME NEW S \in SUBSET all, listed \subseteq S, LinkClosed(S, all, more)
          PROVE  r \in S
        <3>1. LinkClosed(S \cap few, few, pairs)
            BY <1>1, <2>2 DEF LinkClosed, Linked
        <3>2. listed \subseteq S \cap few /\ S \cap few \in SUBSET few
            BY <2>2 DEF Universe
        <3> QED BY <1>2, <3>1, <3>2 DEF Reached
    <2> QED BY <2>1, <2>2 DEF Reached
<1> QED BY <1>2 DEF SamePaper

(* _bundle and merges_on_disk: what a load swaps in withholds a listed      *)
(* paper under each id that the whole snapshots it found, and those the     *)
(* replaced bundle followed, link to it.                                    *)
THEOREM OtherIdsKept == Spec => OtherIdsStayWithheld
<1> DEFINE followed == IF served = None THEN {} ELSE served.snapshots
           owed == (stood \cup followed) \ damaged
<1>1. ASSUME IInv, [Next]_vars, served' # served, served' # None, NEW v \in Versions
      PROVE  SamePaper(served'.listed, MergesOf(owed), Holds[v]) \subseteq WithheldIn(served', v)
    <2>1. loader = "swap" /\ served' = made
        BY <1>1, Swaps
    <2>2. /\ owed \subseteq stood \ damaged
          /\ made.listed = {} \/ stood \ damaged \subseteq made.snapshots
        BY <1>1, <2>1 DEF IInv, OwedInv
    <2>3. CASE made.listed = {}
        BY <2>1, <2>3, NothingListed
    <2>4. CASE owed \subseteq made.snapshots
        <3>1. MergesOf(owed) \subseteq MergesOf(made.snapshots)
            BY <2>4 DEF MergesOf
        <3>2. SamePaper(made.listed, MergesOf(owed), Holds[v])
                \subseteq SamePaper(made.listed, MergesOf(made.snapshots), Holds[v])
            BY <3>1, MoreMerges
        <3> QED BY <2>1, <3>2 DEF WithheldIn
    <2> QED BY <2>2, <2>3, <2>4
<1>2. IInv /\ [Next]_vars =>
        [served' # served /\ served' # None =>
            \A v \in Versions :
                SamePaper(served'.listed, MergesOf(owed), Holds[v]) \subseteq WithheldIn(served', v)]_vars
    BY <1>1
<1> QED BY Inductive, <1>2, PTL DEF Spec, OtherIdsStayWithheld
=============================================================================
