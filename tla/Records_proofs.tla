--------------------------- MODULE Records_proofs ---------------------------
(***************************************************************************)
(* Proofs about the record store and replay: the ceiling's accounts, the   *)
(* bound on the store, and what a replay says of a record this code        *)
(* stored, for any indexes, queries, threads and bounds.                   *)
(***************************************************************************)
EXTENDS Records, FiniteSetTheorems, SequenceTheorems, TLAPS

----------------------------------------------------------------------------
(* What a replay says of a record frozen here.                             *)

Stores(r) ==
    \E v \in Versions, c \in Strings, q \in QueryVersions :
        Searchable(v, c, q) /\ r = Frozen(v, c, q)

ReadsBack(r) ==
    Reads[<<r.canonical, Tokenizer(r.version), r.query_version>>] # Unreadable

HonestStatus(r, v, p, q, withheld) ==
    LET status == Status(r, v, p, q, withheld)
        same == Own(r, v, p) /\ r.query_version = q
    IN  /\ status = "mismatch" <=> same /\ ~ReadsBack(r)
        /\ same /\ ReadsBack(r) => status = IF withheld THEN "drifted" ELSE "reproduced"
        /\ ~same => Changed(r, RanOn(r, v, p), q) # {}

(* On its own index under its own query version, a frozen record passes     *)
(* every check, unless its canonical does not read back: then the canonical *)
(* re-parse fails.                                                          *)
LEMMA OwnReproduces ==
    ASSUME NEW v \in Versions, NEW c \in Strings, NEW q \in QueryVersions,
           Searchable(v, c, q), NEW withheld \in BOOLEAN
    PROVE  OwnStatus(Frozen(v, c, q), q, withheld) =
               IF ~ReadsBack(Frozen(v, c, q)) THEN "mismatch"
               ELSE IF withheld THEN "drifted" ELSE "reproduced"
<1> DEFINE k == Reads[<<c, Tokenizer(v), q>>]
           r == Frozen(v, c, q)
<1>1. k \in Strings /\ k # Unreadable /\ <<v, k>> \notin Refuses
  BY ReplaysConstants DEF Searchable
<1>2. Reads[<<k, Tokenizer(v), q>>] \in {k, Unreadable}
  BY <1>1, CanonicalsReadAsThemselves
<1>3. /\ r.version = v /\ r.canonical = k /\ r.inputs = Inputs[v]
      /\ r.query_version = q /\ r.identification = Identifications[k]
      /\ r.ids = Matching(v, k) /\ r.ids_hash = Matching(v, k)
      /\ r.total = Cardinality(Matching(v, k))
      /\ r.excluded = Excluded[<<v, k>>]
  BY DEF Frozen
<1> HIDE DEF k, r
<1>4. Reading(r, r.version, q) = Reads[<<k, Tokenizer(v), q>>]
  BY <1>3 DEF Reading
<1>5. CASE Reading(r, r.version, q) = k
  <2>1. RunFree(r, k) /\ RunMatches(r, k)
    BY <1>3 DEF RunFree, RunMatches
  <2>2. Refusal(r, r.version, q, withheld) = IF withheld THEN "withheld" ELSE "none"
    BY <1>1, <1>3, <1>5 DEF Refusal
  <2>3. OwnStatus(r, q, withheld) = IF withheld THEN "drifted" ELSE "reproduced"
    BY <1>5, <2>1, <2>2 DEF OwnStatus
  <2>4. ReadsBack(r)
    BY <1>1, <1>3, <1>4, <1>5 DEF ReadsBack
  <2> QED BY <2>3, <2>4 DEF r
<1>6. CASE Reading(r, r.version, q) = Unreadable
  <2>1. ~RunFree(r, Unreadable)
    BY <1>1, <1>3 DEF RunFree
  <2>2. OwnStatus(r, q, withheld) = "mismatch"
    BY <1>6, <2>1 DEF OwnStatus
  <2>3. ~ReadsBack(r)
    BY <1>3, <1>4, <1>6 DEF ReadsBack
  <2> QED BY <2>2, <2>3 DEF r
<1> QED BY <1>2, <1>4, <1>5, <1>6

LEMMA FrozenIsHonest ==
    ASSUME NEW r, Stores(r), NEW v \in Versions, NEW p, NEW q \in QueryVersions,
           NEW withheld \in BOOLEAN
    PROVE  HonestStatus(r, v, p, q, withheld)
<1>1. PICK w \in Versions, c \in Strings, qw \in QueryVersions :
         Searchable(w, c, qw) /\ r = Frozen(w, c, qw)
  BY DEF Stores
<1>2. r.version = w /\ r.query_version = qw /\ r.inputs = Inputs[w]
  BY <1>1 DEF Frozen
<1>3. CASE Own(r, v, p) /\ qw = q
  <2>1. Status(r, v, p, q, withheld) =
           IF ~ReadsBack(r) THEN "mismatch"
           ELSE IF withheld THEN "drifted" ELSE "reproduced"
    BY <1>1, <1>2, <1>3, OwnReproduces DEF Status
  <2> QED BY <2>1, <1>2, <1>3 DEF HonestStatus
<1>4. CASE Own(r, v, p) /\ qw # q
  <2>1. Status(r, v, p, q, withheld) = "drifted"
    BY <1>2, <1>4 DEF Status
  <2>2. "query_version" \in Changed(r, RanOn(r, v, p), q)
    BY <1>2, <1>4 DEF Changed
  <2> QED BY <2>1, <2>2, <1>2, <1>4 DEF HonestStatus
<1>5. CASE ~Own(r, v, p)
  <2>1. v # w /\ RanOn(r, v, p) = v
    BY <1>2, <1>5 DEF Own, RanOn
  <2>2. PICK i \in IndexInputs : Inputs[w][i] # Inputs[v][i]
    BY <2>1, VersionsNameInputs
  <2>3. i \in Changed(r, v, q) \ {"query_version"}
    BY <2>2, <1>2 DEF Changed, IndexInputs
  <2>4. Status(r, v, p, q, withheld) = "drifted"
    BY <2>1, <2>3, <1>5 DEF Status
  <2> QED BY <2>1, <2>3, <2>4, <1>5 DEF HonestStatus
<1> QED BY <1>3, <1>4, <1>5

----------------------------------------------------------------------------
(* The inductive invariant.                                                *)

InState(S) == {t \in Threads : pc[t] \in S}

Held == Cardinality(InState(PastCheck))

RoomKept == MaxBytes > 0 => UsedBytes + 2 * Held < MaxBytes + 2 * Cardinality(Threads)

Places ==
    /\ pc \in [Threads -> PCs]
    /\ engine \in [Threads -> Versions \cup {None}]
    /\ \A t \in Threads : pc[t] \in Charged => engine[t] \in Versions
    /\ served \in Versions /\ kept \subseteq Versions /\ qv \in QueryVersions
    /\ fields = [t \in Threads |-> fields[t]]

Counts ==
    /\ tokens \in Nat /\ charged \in Nat
    /\ IsFiniteSet(DOMAIN records) /\ IsFiniteSet(idSets)

HonestRows ==
    /\ \A id \in DOMAIN records \ forged : Stores(records[id])
    /\ \A t \in Threads :
          pc[t] \in PastCheck \cup {"frozen"} => Stores(fields[t])

RecordsInv == Places /\ Counts /\ SavesCharged /\ RoomKept /\ HonestRows

(* Moving one thread to place s adds it to the sets of places s is in, and  *)
(* takes it from the others.                                                *)
LEMMA Moved ==
    ASSUME NEW S, NEW t \in Threads, NEW s, pc \in [Threads -> PCs],
           pc' = [pc EXCEPT ![t] = s]
    PROVE  /\ s \in S => InState(S)' = InState(S) \cup {t}
           /\ s \notin S => InState(S)' = InState(S) \ {t}
<1>1. \A u \in Threads : pc'[u] = IF u = t THEN s ELSE pc[u]
  OBVIOUS
<1> QED BY <1>1 DEF InState

LEMMA InStateFinite ==
    ASSUME NEW S
    PROVE  /\ IsFiniteSet(InState(S))
           /\ Cardinality(InState(S)) \in Nat
           /\ Cardinality(InState(S)) <= Cardinality(Threads)
           /\ Cardinality(Threads) \in Nat
<1>1. InState(S) \subseteq Threads /\ IsFiniteSet(Threads)
  BY RecordsConstants DEF InState
<1> QED BY <1>1, FS_Subset, FS_CardinalityType

(* How the counts of two sets of places follow one thread's move.           *)
LEMMA MovedCount ==
    ASSUME NEW S, NEW t \in Threads, NEW s, pc \in [Threads -> PCs],
           pc' = [pc EXCEPT ![t] = s]
    PROVE  Cardinality(InState(S))' =
              IF s \in S /\ pc[t] \notin S THEN Cardinality(InState(S)) + 1
              ELSE IF s \notin S /\ pc[t] \in S THEN Cardinality(InState(S)) - 1
              ELSE Cardinality(InState(S))
<1>1. t \in InState(S) <=> pc[t] \in S
  BY DEF InState
<1>2. IsFiniteSet(InState(S)) /\ Cardinality(InState(S)) \in Nat
  BY InStateFinite
<1>3. CASE s \in S
  <2>1. InState(S)' = InState(S) \cup {t}
    BY <1>3, Moved
  <2>2. Cardinality(InState(S) \cup {t}) =
          IF t \in InState(S) THEN Cardinality(InState(S)) ELSE Cardinality(InState(S)) + 1
    BY <1>2, FS_AddElement
  <2> QED BY <1>1, <1>3, <2>1, <2>2
<1>4. CASE s \notin S
  <2>1. InState(S)' = InState(S) \ {t}
    BY <1>4, Moved
  <2>2. Cardinality(InState(S) \ {t}) =
          IF t \in InState(S) THEN Cardinality(InState(S)) - 1 ELSE Cardinality(InState(S))
    BY <1>2, FS_RemoveElement
  <2> QED BY <1>1, <1>4, <2>1, <2>2
<1> QED BY <1>3, <1>4

LEMMA PlacesApart ==
    /\ \A s \in PastCheck : s \in Charged
    /\ {"idle", "removals"} \cap Charged = {}
    /\ {"idle", "removals"} \cap PastCheck = {}
    /\ {"taken", "frozen"} \cap PastCheck = {}
    /\ {"taken", "frozen"} \subseteq Charged
BY DEF PastCheck, Charged

LEMMA SavesChargedDef ==
    SavesCharged <=> tokens + Cardinality(InState(Charged)) + charged = Burst
BY DEF SavesCharged, InState
----------------------------------------------------------------------------
(* Every step keeps it.                                                    *)

LEMMA InitHolds == Init => RecordsInv
<1> SUFFICES ASSUME Init PROVE RecordsInv
  OBVIOUS
<1>1. InState(Charged) = {} /\ InState(PastCheck) = {}
  BY DEF Init, InState, Charged, PastCheck
<1>2. Cardinality({}) = 0 /\ IsFiniteSet({})
  BY FS_EmptySet
<1>3. DOMAIN records = {} /\ idSets = {}
  BY DEF Init
<1>4. SavesCharged
  BY <1>1, <1>2, SavesChargedDef, RecordsConstants DEF Init
<1>5. RoomKept
  BY <1>1, <1>2, <1>3, RecordsConstants, InStateFinite DEF RoomKept, UsedBytes, Held
<1>6. Places
  BY DEF Init, Places, PCs, Charged, PastCheck
<1>7. Counts
  BY <1>2, <1>3, RecordsConstants DEF Init, Counts
<1>8. HonestRows
  BY <1>3 DEF Init, HonestRows, PastCheck
<1> QED BY <1>4, <1>5, <1>6, <1>7, <1>8 DEF RecordsInv

LEMMA InStateFiniteNext ==
    ASSUME NEW S
    PROVE  /\ Cardinality(InState(S))' \in Nat
           /\ Cardinality(InState(S))' <= Cardinality(Threads)
<1>1. InState(S)' \subseteq Threads /\ IsFiniteSet(Threads)
  BY RecordsConstants DEF InState
<1>2. Cardinality(InState(S)') = Cardinality(InState(S))'
  OBVIOUS
<1> QED BY <1>1, <1>2, FS_Subset, FS_CardinalityType

(* A move that leaves the store, the ceiling and the rest of the thread's   *)
(* record alone, between two places that both count as charged and that     *)
(* enters no place past the check it was not in already.                    *)
LEMMA PlainMove ==
    ASSUME RecordsInv, NEW t \in Threads, NEW s \in Charged,
           pc' = [pc EXCEPT ![t] = s], pc[t] \in Charged,
           s \in PastCheck => pc[t] \in PastCheck \cup {"frozen"},
           s \in PastCheck => pc[t] \in PastCheck \/ UsedBytes < MaxBytes,
           s # "frozen",
           UNCHANGED <<records, idSets, forged, tokens, charged>>,
           UNCHANGED <<served, qv, kept, engine, fields>>
    PROVE  RecordsInv'
<1> USE DEF RecordsInv
<1>1. Cardinality(InState(Charged))' = Cardinality(InState(Charged))
  BY MovedCount DEF Places
<1>2. Held' = IF s \in PastCheck /\ pc[t] \notin PastCheck THEN Held + 1
              ELSE IF s \notin PastCheck /\ pc[t] \in PastCheck THEN Held - 1 ELSE Held
  BY MovedCount DEF Places, Held
<1>3. SavesCharged'
  <2>1. SavesCharged' <=> tokens' + Cardinality(InState(Charged))' + charged' = Burst
    BY DEF SavesCharged, InState
  <2> QED BY <1>1, <2>1, SavesChargedDef
<1>4. RoomKept'
  <2>1. UsedBytes' = UsedBytes /\ UsedBytes \in Nat
    BY FS_CardinalityType DEF UsedBytes, Counts
  <2>2. Held \in Nat /\ Held' \in Nat /\ Held' <= Cardinality(Threads) /\ Cardinality(Threads) \in Nat
    BY InStateFinite, InStateFiniteNext DEF Held
  <2> QED BY <1>2, <2>1, <2>2, RecordsConstants DEF RoomKept
<1>5. Places'
  BY DEF Places, PCs
<1>6. Counts'
  BY DEF Counts
<1>7. HonestRows'
  BY DEF HonestRows, Places
<1> QED BY <1>3, <1>4, <1>5, <1>6, <1>7

LEMMA PlainSteps ==
    ASSUME RecordsInv, NEW t \in Threads,
           \/ CheckRoom(t) \/ FindTables(t) \/ CreateFile(t) \/ CreateTables(t)
           \/ Connect(t) \/ \E id \in RecordIds : Redraw(t, id)
    PROVE  RecordsInv'
<1>1. CASE CheckRoom(t)
  BY <1>1, PlainMove
     DEF CheckRoom, HasRoom, Goto, fileVars, procVars, worldVars, saveVars, Charged, PastCheck
<1>2. CASE FindTables(t)
  BY <1>2, PlainMove DEF FindTables, Goto, fileVars, procVars, worldVars, Charged, PastCheck
<1>3. CASE CreateFile(t)
  BY <1>3, PlainMove DEF CreateFile, Goto, fileVars, procVars, worldVars, Charged, PastCheck
<1>4. CASE CreateTables(t)
  BY <1>4, PlainMove DEF CreateTables, Goto, fileVars, procVars, worldVars, Charged, PastCheck
<1>5. CASE Connect(t)
  BY <1>5, PlainMove DEF Connect, Goto, fileVars, procVars, worldVars, Charged, PastCheck
<1>6. CASE \E id \in RecordIds : Redraw(t, id)
  BY <1>6, PlainMove DEF Redraw, Goto, fileVars, procVars, worldVars, Charged, PastCheck
<1> QED BY <1>1, <1>2, <1>3, <1>4, <1>5, <1>6

(* The counts when a thread moves between any two places.                   *)
LEMMA CountsMove ==
    ASSUME Places, NEW t \in Threads, NEW s, pc' = [pc EXCEPT ![t] = s]
    PROVE  /\ Cardinality(InState(Charged))' =
                IF s \in Charged /\ pc[t] \notin Charged THEN Cardinality(InState(Charged)) + 1
                ELSE IF s \notin Charged /\ pc[t] \in Charged
                THEN Cardinality(InState(Charged)) - 1 ELSE Cardinality(InState(Charged))
           /\ Held' = IF s \in PastCheck /\ pc[t] \notin PastCheck THEN Held + 1
                      ELSE IF s \notin PastCheck /\ pc[t] \in PastCheck THEN Held - 1 ELSE Held
           /\ SavesCharged' <=> tokens' + Cardinality(InState(Charged))' + charged' = Burst
           /\ Held \in Nat /\ Held' \in Nat /\ Held' <= Cardinality(Threads)
           /\ Cardinality(Threads) \in Nat /\ Cardinality(InState(Charged)) \in Nat
<1>1. SavesCharged' <=> tokens' + Cardinality(InState(Charged))' + charged' = Burst
  BY DEF SavesCharged, InState
<1>2. Held \in Nat /\ Held' \in Nat /\ Held' <= Cardinality(Threads)
      /\ Cardinality(Threads) \in Nat /\ Cardinality(InState(Charged)) \in Nat
  BY InStateFinite, InStateFiniteNext DEF Held
<1> QED BY <1>1, <1>2, MovedCount DEF Places, Held

LEMMA TakeStep ==
    ASSUME RecordsInv, NEW t \in Threads, TakeSave(t)
    PROVE  RecordsInv'
<1> USE DEF RecordsInv
<1>1. pc' = [pc EXCEPT ![t] = "taken"] /\ pc[t] = "idle" /\ engine' = [engine EXCEPT ![t] = served]
      /\ tokens > 0 /\ tokens' = tokens - 1
      /\ UNCHANGED <<records, idSets, forged, charged, served, qv, kept, fields>>
  BY DEF TakeSave, Goto, fileVars, worldVars
<1>2. SavesCharged'
  <2>1. Cardinality(InState(Charged))' = Cardinality(InState(Charged)) + 1
    BY <1>1, CountsMove, PlacesApart
  <2>2. SavesCharged' <=> tokens' + Cardinality(InState(Charged))' + charged' = Burst
    BY <1>1, CountsMove
  <2> QED BY <1>1, <2>1, <2>2, SavesChargedDef, InStateFinite, RecordsConstants DEF Counts
<1>3. UsedBytes' = UsedBytes /\ UsedBytes \in Nat
  BY <1>1, FS_CardinalityType DEF UsedBytes, Counts
<1>4. RoomKept'
  <2>1. Held' = Held /\ Held \in Nat
    BY <1>1, CountsMove, PlacesApart
  <2> QED BY <1>3, <2>1 DEF RoomKept
<1>5. Places'
  BY <1>1 DEF Places, PCs, Charged, PastCheck
<1>6. Counts'
  BY <1>1 DEF Counts
<1>7. HonestRows'
  BY <1>1 DEF HonestRows, Places, PastCheck
<1> QED BY <1>2, <1>4, <1>5, <1>6, <1>7

LEMMA FreezeStep ==
    ASSUME RecordsInv, NEW t \in Threads, Freeze(t)
    PROVE  RecordsInv'
<1> USE DEF RecordsInv
<1>1. /\ pc' = [pc EXCEPT ![t] = "frozen"] /\ pc[t] = "taken"
      /\ UNCHANGED <<records, idSets, forged, charged, tokens, served, qv, kept, engine>>
      /\ engine[t] \in Versions /\ qv \in QueryVersions
  BY DEF Freeze, Goto, fileVars, procVars, worldVars, Places, Charged
<1>2. PICK c \in Strings : Searchable(engine[t], c, qv)
                              /\ fields' = [fields EXCEPT ![t] = Frozen(engine[t], c, qv)]
  BY DEF Freeze
<1>3. SavesCharged'
  <2>1. Cardinality(InState(Charged))' = Cardinality(InState(Charged))
    BY <1>1, CountsMove, PlacesApart
  <2>2. SavesCharged' <=> tokens' + Cardinality(InState(Charged))' + charged' = Burst
    BY <1>1, CountsMove
  <2> QED BY <1>1, <2>1, <2>2, SavesChargedDef, InStateFinite, RecordsConstants DEF Counts
<1>4. UsedBytes' = UsedBytes /\ UsedBytes \in Nat
  BY <1>1, FS_CardinalityType DEF UsedBytes, Counts
<1>5. RoomKept'
  <2>1. Held \in Nat /\ Held' \in Nat
    BY InStateFinite, InStateFiniteNext DEF Held
  <2>2. Held' = Held \/ Held' = Held - 1
    BY <1>1, CountsMove, PlacesApart
  <2>3. Held' <= Held
    BY <2>1, <2>2
  <2> QED BY <1>4, <2>1, <2>3, InStateFinite, RecordsConstants DEF RoomKept
<1>6. Places'
  BY <1>1, <1>2 DEF Places, PCs, Charged, PastCheck
<1>7. Counts'
  BY <1>1 DEF Counts
<1>8. HonestRows'
  <2>1. Stores(Frozen(engine[t], c, qv))
    BY <1>1, <1>2 DEF Stores
  <2>2. fields'[t] = Frozen(engine[t], c, qv) /\ \A u \in Threads \ {t} : fields'[u] = fields[u]
    BY <1>2 DEF Places
  <2>3. pc'[t] = "frozen" /\ \A u \in Threads \ {t} : pc'[u] = pc[u]
    BY <1>1 DEF Places
  <2> QED BY <1>1, <2>1, <2>2, <2>3 DEF HonestRows
<1> QED BY <1>3, <1>5, <1>6, <1>7, <1>8

(* A thread that ends its request.                                          *)
LEMMA EndPlaces ==
    ASSUME Places, NEW t \in Threads, Idle(t), UNCHANGED <<served, kept, qv>>
    PROVE  /\ Places' /\ pc' = [pc EXCEPT ![t] = "idle"]
           /\ \A u \in Threads \ {t} : pc'[u] = pc[u] /\ fields'[u] = fields[u]
           /\ pc'[t] = "idle"
BY DEF Places, Idle, Goto, PCs, Charged, PastCheck

LEMMA FailStep ==
    ASSUME RecordsInv, NEW t \in Threads, SaveFails(t)
    PROVE  RecordsInv'
<1> USE DEF RecordsInv
<1>1. /\ Places' /\ pc' = [pc EXCEPT ![t] = "idle"] /\ pc'[t] = "idle"
      /\ \A u \in Threads \ {t} : pc'[u] = pc[u] /\ fields'[u] = fields[u]
      /\ pc[t] \in Charged
      /\ UNCHANGED <<records, idSets, forged, charged>>
      /\ tokens' = IF tokens < Burst THEN tokens + 1 ELSE tokens
  BY EndPlaces DEF SaveFails, fileVars, worldVars
<1>2. Cardinality(InState(Charged)) >= 1
  <2>1. InState(Charged) # {} /\ IsFiniteSet(InState(Charged))
    BY <1>1, InStateFinite DEF InState
  <2> QED BY <2>1, FS_EmptySet, InStateFinite
<1>3. SavesCharged'
  <2>1. Cardinality(InState(Charged))' = Cardinality(InState(Charged)) - 1
    BY <1>1, CountsMove, PlacesApart
  <2>2. SavesCharged' <=> tokens' + Cardinality(InState(Charged))' + charged' = Burst
    BY <1>1, CountsMove
  <2>3. tokens < Burst
    BY <1>2, SavesChargedDef, InStateFinite, RecordsConstants DEF Counts
  <2> QED BY <1>1, <2>1, <2>2, <2>3, SavesChargedDef, InStateFinite, RecordsConstants DEF Counts
<1>4. UsedBytes' = UsedBytes /\ UsedBytes \in Nat
  BY <1>1, FS_CardinalityType DEF UsedBytes, Counts
<1>5. RoomKept'
  <2>1. Held \in Nat /\ Held' \in Nat
    BY InStateFinite, InStateFiniteNext DEF Held
  <2>2. Held' = Held \/ Held' = Held - 1
    BY <1>1, CountsMove, PlacesApart
  <2>3. Held' <= Held
    BY <2>1, <2>2
  <2> QED BY <1>4, <2>1, <2>3, InStateFinite, RecordsConstants DEF RoomKept
<1>6. Counts'
  BY <1>1 DEF Counts
<1>7. HonestRows'
  BY <1>1 DEF HonestRows, PastCheck
<1> QED BY <1>1, <1>3, <1>5, <1>6, <1>7

LEMMA InsertStep ==
    ASSUME RecordsInv, NEW t \in Threads, NEW id \in RecordIds, Insert(t, id)
    PROVE  RecordsInv'
<1> USE DEF RecordsInv
<1>1. /\ Places' /\ pc' = [pc EXCEPT ![t] = "idle"] /\ pc'[t] = "idle"
      /\ \A u \in Threads \ {t} : pc'[u] = pc[u] /\ fields'[u] = fields[u]
      /\ pc[t] = "connected" /\ pc[t] \in Charged /\ pc[t] \in PastCheck
      /\ UNCHANGED <<forged, tokens>> /\ charged' = charged + 1
  BY EndPlaces DEF Insert, worldVars, Charged, PastCheck
<1>2. SavesCharged'
  <2>1. Cardinality(InState(Charged))' = Cardinality(InState(Charged)) - 1
    BY <1>1, CountsMove, PlacesApart
  <2>2. SavesCharged' <=> tokens' + Cardinality(InState(Charged))' + charged' = Burst
    BY <1>1, CountsMove
  <2> QED BY <1>1, <2>1, <2>2, SavesChargedDef, InStateFinite, RecordsConstants DEF Counts
<1>3. \/ UNCHANGED <<records, idSets>>
      \/ /\ records' = [i \in DOMAIN records \cup {id} |->
                          IF i = id THEN fields[t] ELSE records[i]]
         /\ idSets' = idSets \cup {fields[t].ids}
  BY DEF Insert, WithIdSet
<1>4. IsFiniteSet(DOMAIN records') /\ IsFiniteSet(idSets')
      /\ Cardinality(DOMAIN records') <= Cardinality(DOMAIN records) + 1
      /\ Cardinality(idSets') <= Cardinality(idSets) + 1
      /\ Cardinality(DOMAIN records') \in Nat /\ Cardinality(idSets') \in Nat
      /\ Cardinality(DOMAIN records) \in Nat /\ Cardinality(idSets) \in Nat
  <2>1. CASE UNCHANGED <<records, idSets>>
    BY <2>1, FS_CardinalityType DEF Counts
  <2>2. CASE ~UNCHANGED <<records, idSets>>
    <3>1. DOMAIN records' = DOMAIN records \cup {id} /\ idSets' = idSets \cup {fields[t].ids}
      BY <1>3, <2>2
    <3>2. IsFiniteSet(DOMAIN records) /\ IsFiniteSet(idSets)
      BY DEF Counts
    <3>3. /\ IsFiniteSet(DOMAIN records \cup {id})
          /\ Cardinality(DOMAIN records \cup {id}) =
               IF id \in DOMAIN records THEN Cardinality(DOMAIN records)
               ELSE Cardinality(DOMAIN records) + 1
      BY <3>2, FS_AddElement
    <3>4. /\ IsFiniteSet(idSets \cup {fields[t].ids})
          /\ Cardinality(idSets \cup {fields[t].ids}) =
               IF fields[t].ids \in idSets THEN Cardinality(idSets)
               ELSE Cardinality(idSets) + 1
      BY <3>2, FS_AddElement
    <3>5. Cardinality(DOMAIN records) \in Nat /\ Cardinality(idSets) \in Nat
      BY <3>2, FS_CardinalityType
    <3> QED BY <3>1, <3>3, <3>4, <3>5
  <2> QED BY <2>1, <2>2
<1>5. UsedBytes' <= UsedBytes + 2 /\ UsedBytes \in Nat /\ UsedBytes' \in Nat
  BY <1>4 DEF UsedBytes
<1>6. RoomKept'
  <2>1. Held' = Held - 1 /\ Held \in Nat /\ Held' \in Nat /\ Cardinality(Threads) \in Nat
    BY <1>1, CountsMove DEF PastCheck
  <2> QED BY <1>5, <2>1, RecordsConstants DEF RoomKept
<1>7. Counts'
  BY <1>1, <1>4 DEF Counts
<1>8. HonestRows'
  <2>1. Stores(fields[t])
    BY <1>1 DEF HonestRows
  <2>2. \A i \in DOMAIN records' \ forged' : Stores(records'[i])
    BY <1>1, <1>3, <2>1 DEF HonestRows
  <2> QED BY <1>1, <2>2 DEF HonestRows, PastCheck
<1> QED BY <1>1, <1>2, <1>6, <1>7, <1>8

LEMMA MemoSteps ==
    ASSUME RecordsInv, NEW t \in Threads,
           \/ StoreRemovals(t)
           \/ \E id \in RecordIds : DiffFromMemo(t, id) \/ WorkOutRemovals(t, id)
    PROVE  RecordsInv'
<1> USE DEF RecordsInv
<1>1. /\ UNCHANGED <<records, idSets, forged, tokens, charged, served, qv, kept, engine, fields>>
      /\ \/ UNCHANGED pc
         \/ pc[t] = "removals" /\ pc' = [pc EXCEPT ![t] = "idle"]
         \/ pc[t] = "idle" /\ pc' = [pc EXCEPT ![t] = "removals"]
  BY DEF StoreRemovals, DiffFromMemo, WorkOutRemovals, Goto, fileVars, procVars,
         worldVars, saveVars
<1>2. UsedBytes' = UsedBytes
  BY <1>1 DEF UsedBytes
<1>3. CASE UNCHANGED pc
  BY <1>1, <1>2, <1>3, InStateFinite
     DEF Places, Counts, SavesCharged, RoomKept, HonestRows, Held, InState
<1>4. CASE ~UNCHANGED pc
  <2>1. SavesCharged' /\ Held' = Held
    BY <1>1, <1>4, CountsMove, SavesChargedDef, PlacesApart DEF Counts, PastCheck
  <2>2. Places' /\ Counts' /\ HonestRows'
    BY <1>1, <1>4 DEF Places, Counts, HonestRows, PCs, Charged, PastCheck
  <2>3. RoomKept'
    BY <1>2, <2>1 DEF RoomKept
  <2> QED BY <2>1, <2>2, <2>3
<1> QED BY <1>3, <1>4

LEMMA WorldSteps ==
    ASSUME RecordsInv,
           \/ \E v \in Versions : Reload(v) \/ ChangeKept(v)
           \/ Restart \/ RemoveFile
           \/ \E id \in RecordIds : Forge(id)
    PROVE  RecordsInv'
<1> USE DEF RecordsInv
<1>0. Cardinality({}) = 0 /\ IsFiniteSet({})
  BY FS_EmptySet
<1>1. CASE \E v \in Versions : Reload(v) \/ ChangeKept(v)
  BY <1>1 DEF Reload, ChangeKept, Places, Counts, SavesCharged, RoomKept, HonestRows, Held,
              InState, UsedBytes, fileVars, procVars, saveVars
<1>2. CASE Restart
  <2>1. /\ \A t \in Threads : pc'[t] = "idle"
        /\ pc' = [t \in Threads |-> "idle"]
        /\ engine' = [t \in Threads |-> None] /\ fields' = [t \in Threads |-> None]
        /\ UNCHANGED <<records, idSets, forged, kept>>
        /\ tokens' = Burst /\ charged' = 0 /\ served' \in kept /\ qv' \in QueryVersions
    BY <1>2 DEF Restart, fileVars
  <2>2. InState(Charged)' = {} /\ InState(PastCheck)' = {}
    BY <2>1 DEF InState, Charged, PastCheck
  <2>3. SavesCharged'
    <3>1. {t \in Threads : pc'[t] \in Charged} = {}
      BY <2>1, PlacesApart
    <3> QED BY <1>0, <2>1, <3>1, RecordsConstants DEF SavesCharged
  <2>4. RoomKept'
    <3>1. UsedBytes' = UsedBytes /\ UsedBytes \in Nat
      BY <2>1, FS_CardinalityType DEF UsedBytes, Counts
    <3>2. Held' = 0
      BY <1>0, <2>2 DEF Held
    <3>3. Held \in Nat
      BY InStateFinite DEF Held
    <3> QED BY <3>1, <3>2, <3>3, InStateFinite, RecordsConstants DEF RoomKept
  <2>5. Places' /\ Counts' /\ HonestRows'
    BY <2>1, RecordsConstants DEF Places, Counts, HonestRows, PCs, Charged, PastCheck
  <2> QED BY <2>3, <2>4, <2>5
<1>3. CASE RemoveFile
  <2>1. /\ DOMAIN records' = {} /\ idSets' = {}
        /\ UNCHANGED <<tokens, charged, served, qv, kept, pc, engine, fields>>
    BY <1>3 DEF RemoveFile, procVars
  <2>2. UsedBytes' = 0 /\ UsedBytes \in Nat
    BY <1>0, <2>1, FS_CardinalityType DEF UsedBytes, Counts
  <2>3. Held' = Held /\ Held \in Nat
    BY <2>1, InStateFinite DEF Held, InState
  <2>4. RoomKept'
    BY <2>2, <2>3, InStateFinite, RecordsConstants DEF RoomKept
  <2> QED BY <1>0, <2>1, <2>4 DEF Places, Counts, SavesCharged, HonestRows
<1>4. CASE \E id \in RecordIds : Forge(id)
  <2>1. PICK id \in RecordIds : Forge(id)
    BY <1>4
  <2>2. /\ DOMAIN records' = DOMAIN records /\ forged' = forged \cup {id}
        /\ \A i \in DOMAIN records \ {id} : records'[i] = records[i]
        /\ UNCHANGED <<idSets, tokens, charged, served, qv, kept, pc, engine, fields>>
    BY <2>1 DEF Forge, procVars, saveVars
  <2>3. UsedBytes' = UsedBytes /\ Held' = Held
    BY <2>2 DEF UsedBytes, Held, InState
  <2> QED BY <2>2, <2>3 DEF Places, Counts, SavesCharged, RoomKept, HonestRows
<1> QED BY <1>1, <1>2, <1>3, <1>4

(* The inductive invariant: where each save stands, how many are charged    *)
(* and past the check, and that what is stored or about to be is what a     *)
(* search of that index froze.                                              *)
THEOREM Invariant == Spec => []RecordsInv
<1>1. RecordsInv /\ [Next]_vars => RecordsInv'
  <2> SUFFICES ASSUME RecordsInv, [Next]_vars PROVE RecordsInv'
    OBVIOUS
  <2>1. CASE \E t \in Threads : Step(t)
    BY <2>1, PlainSteps, TakeStep, FreezeStep, FailStep, InsertStep, MemoSteps DEF Step
  <2>2. CASE ~\E t \in Threads : Step(t)
    <3>1. CASE Next
      BY <3>1, <2>2, WorldSteps DEF Next
    <3>2. CASE UNCHANGED vars
      <4>1. UNCHANGED <<records, idSets, forged, tokens, charged, served, qv, kept, pc, engine, fields>>
        BY <3>2 DEF vars, fileVars, procVars, worldVars, saveVars
      <4> QED BY <4>1 DEF RecordsInv, Places, Counts, SavesCharged, RoomKept, HonestRows,
                          Held, InState, UsedBytes
    <3> QED BY <3>1, <3>2
  <2> QED BY <2>1, <2>2
<1> QED BY <1>1, InitHolds, PTL DEF Spec

(* SavesCharged, for any ceiling and any number of requests.                *)
THEOREM Charges == Spec => []SavesCharged
BY Invariant, PTL DEF RecordsInv

(* RoomOvershootBounded, for any number of requests.                        *)
THEOREM Overshoot == Spec => []RoomOvershootBounded
<1>1. RecordsInv => RoomOvershootBounded
  <2>1. ASSUME RecordsInv PROVE UsedBytes \in Nat /\ Held \in Nat
    <3>1. Cardinality(DOMAIN records) \in Nat /\ Cardinality(idSets) \in Nat
      BY <2>1, FS_CardinalityType DEF RecordsInv, Counts
    <3> QED BY <3>1, InStateFinite DEF UsedBytes, Held
  <2>2. Cardinality(Threads) \in Nat /\ MaxBytes \in Nat
    BY InStateFinite, RecordsConstants
  <2>3. RecordsInv => RoomKept
    BY DEF RecordsInv
  <2> QED BY <2>1, <2>2, <2>3 DEF RoomKept, RoomOvershootBounded
<1> QED BY <1>1, Invariant, PTL

(* SavesLimited: both limits together.                                      *)
THEOREM Limits == Spec => []SavesLimited
BY Charges, Overshoot, PTL DEF SavesLimited

(* HonestReplays, for any indexes, queries and query versions.              *)
THEOREM Replayed == Spec => []HonestReplays
<1>1. RecordsInv => HonestReplays
  <2> SUFFICES ASSUME RecordsInv,
                      NEW id \in DOMAIN records \ forged, NEW v \in Versions,
                      NEW withheld \in BOOLEAN, NEW p \in [Versions -> Versions \cup {None}]
               PROVE  HonestStatus(records[id], v, p, qv, withheld)
    BY DEF HonestReplays, HonestStatus, ReadsBack
  <2> QED BY FrozenIsHonest DEF RecordsInv, HonestRows, Places
<1> QED BY <1>1, Invariant, PTL

----------------------------------------------------------------------------
(* The rows, also those written to by hand: every column has its type, and  *)
(* an id set is a set of papers of some index.                              *)

Papers == UNION {DOMAIN Values[v] : v \in Versions}

PaperSets == {s \in SUBSET Papers : IsFiniteSet(s)}

Row(r) ==
    /\ r = [input |-> r.input, facts |-> r.facts,
            version |-> r.version, query_version |-> r.query_version, inputs |-> r.inputs,
            canonical |-> r.canonical, identification |-> r.identification,
            ids |-> r.ids, ids_hash |-> r.ids_hash, total |-> r.total, excluded |-> r.excluded]
    /\ r.version \in Versions /\ r.query_version \in QueryVersions
    /\ r.canonical \in Strings /\ r.ids \in PaperSets

Rows ==
    /\ \A id \in DOMAIN records : Row(records[id])
    /\ idSets \subseteq PaperSets

LEMMA StoredRow ==
    ASSUME NEW r, Stores(r)
    PROVE  Row(r)
<1>1. PICK v \in Versions, c \in Strings, q \in QueryVersions :
         Searchable(v, c, q) /\ r = Frozen(v, c, q)
  BY DEF Stores
<1>2. Reads[<<c, Tokenizer(v), q>>] \in Strings
  BY <1>1, ReplaysConstants DEF Searchable
<1>3. Matching(v, Reads[<<c, Tokenizer(v), q>>]) \in PaperSets
  <2>1. Matching(v, Reads[<<c, Tokenizer(v), q>>]) \in SUBSET DOMAIN Values[v]
    BY DEF Matching
  <2>2. IsFiniteSet(DOMAIN Values[v])
    BY ReplaysConstants
  <2> QED BY <2>1, <2>2, FS_Subset DEF PaperSets, Papers
<1> QED BY <1>1, <1>2, <1>3 DEF Frozen, Row

LEMMA ForgedRow ==
    ASSUME NEW r, Row(r), idSets \subseteq PaperSets, NEW f \in Forgeries(r)
    PROVE  Row(f)
BY DEF Row, Forgeries

LEMMA RowsStep ==
    ASSUME RecordsInv, Rows, [Next]_vars
    PROVE  Rows'
<1> USE DEF Rows
<1>1. CASE UNCHANGED <<records, idSets>>
  BY <1>1
<1>2. ASSUME NEW t \in Threads, NEW id \in RecordIds, Insert(t, id) PROVE Rows'
  <2>1. Row(fields[t])
    BY <1>2, StoredRow DEF Insert, RecordsInv, HonestRows, PastCheck
  <2>2. \/ UNCHANGED <<records, idSets>>
        \/ /\ records' = [i \in DOMAIN records \cup {id} |->
                            IF i = id THEN fields[t] ELSE records[i]]
           /\ idSets' = idSets \cup {fields[t].ids}
    BY <1>2 DEF Insert, WithIdSet
  <2>3. idSets' \subseteq PaperSets
    BY <2>1, <2>2 DEF Row
  <2> QED BY <2>1, <2>2, <2>3
<1>3. CASE RemoveFile
  BY <1>3 DEF RemoveFile
<1>4. ASSUME NEW id \in RecordIds, Forge(id) PROVE Rows'
  <2>1. PICK r \in Forgeries(records[id]) : records' = [records EXCEPT ![id] = r]
    BY <1>4 DEF Forge
  <2>2. Row(r)
    BY <1>4, <2>1, ForgedRow DEF Forge
  <2> QED BY <1>4, <2>1, <2>2 DEF Forge
<1>5. CASE \E t \in Threads : Step(t) /\ ~\E id \in RecordIds : Insert(t, id)
  BY <1>1, <1>5
  DEF Step, TakeSave, Freeze, CheckRoom, FindTables, CreateFile, CreateTables, Connect,
      Redraw, DiffFromMemo, WorkOutRemovals, SaveFails, StoreRemovals, fileVars
<1>6. CASE Restart \/ \E v \in Versions : Reload(v) \/ ChangeKept(v)
  BY <1>1, <1>6 DEF Restart, Reload, ChangeKept, fileVars
<1> QED BY <1>1, <1>2, <1>3, <1>4, <1>5, <1>6 DEF Next, vars, fileVars

(* A row has its columns' types whoever wrote it, and the id sets are of    *)
(* papers.                                                                  *)
THEOREM RowsTyped == Spec => []Rows
<1>1. Init => Rows
  BY DEF Init, Rows
<1> QED BY <1>1, RowsStep, Invariant, PTL DEF Spec

(* A run on the record's own index that passes every check makes every      *)
(* compared column what a save of its canonical would store ...             *)
LEMMA ReproducedMatches ==
    ASSUME NEW r, NEW v, NEW p, NEW q, NEW withheld,
           Status(r, v, p, q, withheld) = "reproduced"
    PROVE  /\ Own(r, v, p) /\ ~withheld
           /\ Searchable(r.version, r.canonical, q)
           /\ \A f \in Compared : r[f] = Frozen(r.version, r.canonical, q)[f]
<1> DEFINE c == Reading(r, r.version, q)
<1>1. /\ Own(r, v, p) /\ r.query_version = q
      /\ OwnStatus(r, q, withheld) = "reproduced"
  BY DEF Status
<1>2. RunFree(r, c) /\ Refusal(r, r.version, q, withheld) = "none" /\ RunMatches(r, c)
  BY <1>1 DEF OwnStatus
<1>3. c = r.canonical /\ c # Unreadable /\ ~withheld /\ <<r.version, c>> \notin Refuses
  BY <1>2 DEF RunFree, Refusal
<1>4. /\ Identifications[c] = r.identification /\ r.inputs = Inputs[r.version]
      /\ r.ids = Matching(r.version, c) /\ r.ids_hash = Matching(r.version, c)
      /\ r.total = Cardinality(Matching(r.version, c))
      /\ r.excluded = Excluded[<<r.version, c>>]
  BY <1>2, <1>3 DEF RunFree, RunMatches
<1>5. Reads[<<r.canonical, Tokenizer(r.version), q>>] = c
  BY DEF Reading
<1> HIDE DEF c
<1>6. Searchable(r.version, r.canonical, q)
  BY <1>3, <1>5 DEF Searchable
<1> QED BY <1>1, <1>3, <1>4, <1>5, <1>6 DEF Compared, Frozen

(* ... and, the other way, no check fails on a row whose compared columns   *)
(* are those.                                                               *)
LEMMA MatchesReproduce ==
    ASSUME NEW r, NEW v, NEW p, NEW q, NEW withheld,
           Own(r, v, p), ~withheld, Searchable(r.version, r.canonical, q),
           \A f \in Compared : r[f] = Frozen(r.version, r.canonical, q)[f]
    PROVE  Status(r, v, p, q, withheld) = "reproduced"
<1> DEFINE c == Reads[<<r.canonical, Tokenizer(r.version), q>>]
<1>1. /\ r.query_version = q /\ r.inputs = Inputs[r.version] /\ r.canonical = c
      /\ r.identification = Identifications[c]
      /\ r.ids = Matching(r.version, c) /\ r.ids_hash = Matching(r.version, c)
      /\ r.total = Cardinality(Matching(r.version, c))
      /\ r.excluded = Excluded[<<r.version, c>>]
  BY DEF Compared, Frozen
<1>2. c # Unreadable /\ <<r.version, c>> \notin Refuses
  BY DEF Searchable
<1>3. Reading(r, r.version, q) = c
  BY DEF Reading
<1> HIDE DEF c
<1>4. RunFree(r, c) /\ RunMatches(r, c)
  BY <1>1 DEF RunFree, RunMatches
<1>5. Refusal(r, r.version, q, withheld) = "none"
  BY <1>2, <1>3 DEF Refusal
<1>6. OwnStatus(r, q, withheld) = "reproduced"
  BY <1>3, <1>4, <1>5 DEF OwnStatus
<1> QED BY <1>1, <1>6 DEF Status

(* ReplayIsExact, for any indexes, queries and edits of the rows.           *)
THEOREM ReplaysExact == Spec => []ReplayIsExact
<1>1. ReplayIsExact
  <2> SUFFICES ASSUME NEW id \in DOMAIN records, NEW v \in Versions,
                      NEW withheld \in BOOLEAN, NEW p \in [Versions -> Versions \cup {None}]
               PROVE  Status(records[id], v, p, qv, withheld) = "reproduced" <=>
                        /\ Own(records[id], v, p) /\ ~withheld
                        /\ Searchable(records[id].version, records[id].canonical, qv)
                        /\ \A f \in Compared : records[id][f] =
                              Frozen(records[id].version, records[id].canonical, qv)[f]
    BY DEF ReplayIsExact
  <2> QED BY ReproducedMatches, MatchesReproduce
<1> QED BY <1>1, PTL

----------------------------------------------------------------------------
(* The memo of removal causes.                                              *)

Causes == {"not_in_index", "still_eligible", "track_changed", "status_changed", "filter_changed"}

MemoEntries ==
    [key : RecordIds \X Versions, why : UNION {[s -> Causes] : s \in PaperSets}]

(* No entry is of a row yet to come, and one of a row this code wrote says  *)
(* why each paper left.                                                     *)
RightEntries ==
    {e \in MemoEntries :
        /\ e.key[1] \in DOMAIN records \cup gone
        /\ e.key[1] \in DOMAIN records \ forged =>
             e.why = Removals(records[e.key[1]], e.key[2], qv)}

MemoKept ==
    /\ memo \in Seq(MemoEntries) /\ IsOrderedDict(memo)
    /\ memoIds = CostOf(memo) /\ memoIds <= MaxIds /\ Len(memo) <= MaxEntries

MemoRight ==
    /\ Range(memo) \subseteq RightEntries
    /\ \A t \in Threads : pc[t] = "removals" => job[t] \in RightEntries
    /\ job = [t \in Threads |-> job[t]]

(* A memo's cost depends on the entries it holds alone; each is finite.     *)
LEMMA IdsFacts ==
    ASSUME NEW d \in Seq(MemoEntries)
    PROVE  /\ IdsOf(d) = UNION {{e.key} \X DOMAIN e.why : e \in Range(d)}
           /\ IsFiniteSet(IdsOf(d)) /\ Cardinality(IdsOf(d)) \in Nat
           /\ CostOf(d) \in Nat /\ Len(d) \in Nat /\ DOMAIN d = 1..Len(d)
           /\ \A i \in 1..Len(d) : d[i] \in MemoEntries
<1>1. Len(d) \in Nat /\ DOMAIN d = 1..Len(d) /\ d \in [1..Len(d) -> MemoEntries]
  BY LenProperties
<1>2. \A i \in 1..Len(d) : d[i] \in MemoEntries /\ IsFiniteSet(DOMAIN d[i].why)
  BY <1>1 DEF MemoEntries, PaperSets
<1>3. IdsOf(d) = UNION {{e.key} \X DOMAIN e.why : e \in Range(d)}
  BY DEF IdsOf, Range
<1>4. IsFiniteSet(IdsOf(d))
  <2> DEFINE F == [i \in 1..Len(d) |-> {d[i].key} \X DOMAIN d[i].why]
             parts == {F[i] : i \in 1..Len(d)}
  <2>1. F \in Surjection(1..Len(d), parts)
    BY DEF Surjection
  <2>2. IsFiniteSet(1..Len(d))
    BY <1>1, FS_Interval
  <2>3. IsFiniteSet(parts)
    <3> HIDE DEF F, parts
    <3> QED BY <2>1, <2>2, FS_Surjection
  <2>4. \A x \in parts : IsFiniteSet(x)
    <3> SUFFICES ASSUME NEW i \in 1..Len(d) PROVE IsFiniteSet({d[i].key} \X DOMAIN d[i].why)
      OBVIOUS
    <3>1. IsFiniteSet({d[i].key})
      BY FS_Singleton
    <3> QED BY <1>2, <3>1, FS_Product
  <2>5. IdsOf(d) = UNION parts
    BY <1>1 DEF IdsOf
  <2> HIDE DEF parts
  <2> QED BY <2>3, <2>4, <2>5, FS_UNION
<1>5. Cardinality(IdsOf(d)) \in Nat
  BY <1>4, FS_CardinalityType
<1> QED BY <1>1, <1>2, <1>3, <1>4, <1>5 DEF CostOf

(* move_to_end keeps the entries, and so their cost.                        *)
LEMMA MovedToEnd ==
    ASSUME NEW d \in Seq(MemoEntries), IsOrderedDict(d), NEW k
    PROVE  /\ MoveToEnd(d, k) \in Seq(MemoEntries) /\ IsOrderedDict(MoveToEnd(d, k))
           /\ Range(MoveToEnd(d, k)) = Range(d) /\ Len(MoveToEnd(d, k)) = Len(d)
<1>0. Len(d) \in Nat /\ DOMAIN d = 1..Len(d) /\ \A i \in 1..Len(d) : d[i] \in MemoEntries
  BY IdsFacts
<1>1. CASE k \notin KeysOf(d)
  BY <1>1 DEF MoveToEnd
<1>2. CASE k \in KeysOf(d)
  <2> DEFINE p == PlaceOf(d, k)
             n == Len(d)
             w == Without(d, k)
             m == Append(w, d[p])
  <2>1. p \in 1..n /\ d[p].key = k
    BY <1>0, <1>2 DEF PlaceOf, KeysOf
  <2>2. w = [i \in 1..(n - 1) |-> IF i < p THEN d[i] ELSE d[i + 1]]
    BY <1>2 DEF Without
  <2>3. w \in Seq(MemoEntries) /\ Len(w) = n - 1
    <3>1. n - 1 \in Nat /\ w \in [1..(n - 1) -> MemoEntries]
      BY <1>0, <2>1, <2>2
    <3> QED BY <2>2, <3>1, SeqDef, LenProperties
  <2>4. MoveToEnd(d, k) = m
    BY <1>2 DEF MoveToEnd, EntryOf
  <2>5. \A i \in 1..(n - 1) : w[i] = IF i < p THEN d[i] ELSE d[i + 1]
    BY <2>2
  <2> HIDE DEF p, w, n
  <2>6. /\ m \in Seq(MemoEntries) /\ Len(m) = n /\ DOMAIN m = 1..n
        /\ \A i \in 1..(n - 1) : m[i] = IF i < p THEN d[i] ELSE d[i + 1]
        /\ m[n] = d[p]
    <3>1. d[p] \in MemoEntries /\ n \in Nat /\ n >= 1
      BY <1>0, <2>1 DEF n
    <3> QED BY <2>3, <2>5, <3>1, AppendProperties, LenProperties
  <2> HIDE DEF m
  <2> DEFINE from == [i \in 1..n |-> IF i = n THEN p ELSE IF i < p THEN i ELSE i + 1]
  <2>7. /\ n \in Nat /\ \A i \in 1..n : from[i] \in 1..n /\ m[i] = d[from[i]]
        /\ \A i, j \in 1..n : from[i] = from[j] => i = j
        /\ \A j \in 1..n : \E i \in 1..n : from[i] = j
    <3>1. n \in Nat /\ p \in 1..n
      BY <1>0, <2>1 DEF n
    <3>2. \A i \in 1..n : from[i] \in 1..n /\ m[i] = d[from[i]]
      BY <2>6, <3>1
    <3>3. \A i, j \in 1..n : from[i] = from[j] => i = j
      BY <3>1
    <3>4. ASSUME NEW j \in 1..n PROVE \E i \in 1..n : from[i] = j
      <4> DEFINE i == IF j = p THEN n ELSE IF j < p THEN j ELSE j - 1
      <4>1. i \in 1..n /\ from[i] = j
        BY <3>1
      <4> QED BY <4>1
    <3> QED BY <3>1, <3>2, <3>3, <3>4
  <2> HIDE DEF from
  <2>8. DOMAIN d = 1..n
    BY <1>0 DEF n
  <2>9. IsOrderedDict(m)
    <3> SUFFICES ASSUME NEW i \in 1..n, NEW j \in 1..n, m[i].key = m[j].key PROVE i = j
      BY <2>6 DEF IsOrderedDict
    <3>1. from[i] \in 1..n /\ from[j] \in 1..n /\ d[from[i]].key = d[from[j]].key
      BY <2>7
    <3>2. from[i] = from[j]
      BY <2>8, <3>1 DEF IsOrderedDict
    <3> QED BY <2>7, <3>2
  <2>10. Range(m) = Range(d)
    <3>1. ASSUME NEW i \in 1..n PROVE m[i] \in Range(d)
      <4>1. from[i] \in DOMAIN d /\ m[i] = d[from[i]]
        BY <2>7, <2>8
      <4> QED BY <4>1 DEF Range
    <3>2. ASSUME NEW j \in 1..n PROVE d[j] \in Range(m)
      <4>1. PICK i \in 1..n : from[i] = j
        BY <2>7
      <4> QED BY <2>6, <2>7, <4>1 DEF Range
    <3> QED BY <2>6, <2>8, <3>1, <3>2 DEF Range
  <2> QED BY <2>4, <2>6, <2>9, <2>10 DEF n
<1> QED BY <1>1, <1>2

(* A new entry adds its own cost.                                           *)
LEMMA PutCost ==
    ASSUME NEW d \in Seq(MemoEntries), IsOrderedDict(d), NEW e \in MemoEntries,
           e.key \notin KeysOf(d)
    PROVE  /\ Put(d, e) = Append(d, e)
           /\ Append(d, e) \in Seq(MemoEntries) /\ IsOrderedDict(Append(d, e))
           /\ Range(Append(d, e)) = Range(d) \cup {e}
           /\ CostOf(Append(d, e)) = CostOf(d) + Cost(e) /\ Cost(e) \in Nat
<1> DEFINE a == Append(d, e)
           n == Len(d)
           own == {e.key} \X DOMAIN e.why
<1>0. n \in Nat /\ DOMAIN d = 1..n /\ \A i \in 1..n : d[i] \in MemoEntries
  BY IdsFacts
<1>1. /\ a \in Seq(MemoEntries) /\ Len(a) = n + 1 /\ DOMAIN a = 1..(n + 1)
      /\ \A i \in 1..n : a[i] = d[i]
      /\ a[n + 1] = e
  BY <1>0, AppendProperties, LenProperties
<1> HIDE DEF a
<1>2. \A i \in 1..n : d[i].key # e.key
  BY <1>0 DEF KeysOf
<1>3. IsOrderedDict(a)
  <2> HIDE DEF n
  <2> QED BY <1>0, <1>1, <1>2 DEF IsOrderedDict
<1>4. Range(a) = Range(d) \cup {e}
  <2> HIDE DEF n
  <2>1. Range(a) \subseteq Range(d) \cup {e}
    <3>1. \A i \in 1..(n + 1) : i \in 1..n \/ i = n + 1
      BY <1>0
    <3> QED BY <1>0, <1>1, <3>1 DEF Range
  <2>2. 1..n \subseteq 1..(n + 1) /\ n + 1 \in 1..(n + 1)
    BY <1>0
  <2> QED BY <1>0, <1>1, <2>1, <2>2 DEF Range
<1>5. IsFiniteSet(DOMAIN e.why) /\ Cardinality(DOMAIN e.why) \in Nat
  BY FS_CardinalityType DEF MemoEntries, PaperSets
<1>6. IsFiniteSet(own) /\ Cardinality(own) = Cardinality(DOMAIN e.why)
  <2>1. IsFiniteSet({e.key}) /\ Cardinality({e.key}) = 1
    BY FS_Singleton
  <2>2. IsFiniteSet(own) /\ Cardinality(own) = Cardinality({e.key}) * Cardinality(DOMAIN e.why)
    BY <1>5, <2>1, FS_Product
  <2> QED BY <1>5, <2>1, <2>2
<1>7. IdsOf(a) = IdsOf(d) \cup own /\ IdsOf(d) \cap own = {}
  <2>1. IdsOf(a) = UNION {{x.key} \X DOMAIN x.why : x \in Range(d) \cup {e}}
    BY <1>1, <1>4, IdsFacts
  <2>2. IdsOf(d) = UNION {{x.key} \X DOMAIN x.why : x \in Range(d)}
    BY IdsFacts
  <2>3. \A x \in Range(d) : x.key # e.key
    <3> HIDE DEF n
    <3> QED BY <1>0, <1>2 DEF Range
  <2> QED BY <2>1, <2>2, <2>3
<1>8. Cardinality(IdsOf(a)) = Cardinality(IdsOf(d)) + Cardinality(own)
  <2>1. IsFiniteSet(IdsOf(d)) /\ Cardinality(IdsOf(d)) \in Nat
    BY IdsFacts
  <2>2. Cardinality(IdsOf(d) \cap own) = 0
    BY <1>7, FS_EmptySet
  <2> HIDE DEF own
  <2>3. Cardinality(IdsOf(d) \cup own)
          = Cardinality(IdsOf(d)) + Cardinality(own) - Cardinality(IdsOf(d) \cap own)
    BY <1>6, <2>1, FS_Union
  <2>4. Cardinality(IdsOf(a)) = Cardinality(IdsOf(d) \cup own)
    BY <1>7
  <2> QED BY <1>5, <1>6, <2>1, <2>2, <2>3, <2>4
<1>9. CostOf(a) = CostOf(d) + Cost(e) /\ Cost(e) \in Nat
  <2>1. Cardinality(IdsOf(d)) \in Nat
    BY IdsFacts
  <2>2. CostOf(a) = Len(a) + Cardinality(IdsOf(a)) /\ CostOf(d) = n + Cardinality(IdsOf(d))
        /\ Cost(e) = Cardinality(DOMAIN e.why) + 1
    BY DEF CostOf, Cost
  <2> HIDE DEF own, n
  <2> QED BY <1>0, <1>1, <1>5, <1>6, <1>8, <2>1, <2>2
<1> QED BY <1>1, <1>3, <1>4, <1>9 DEF Put, a

(* Dropping the oldest entries takes their cost and no other.               *)
LEMMA OldestDropped ==
    ASSUME NEW d \in Seq(MemoEntries), IsOrderedDict(d), NEW n \in 0..Len(d)
    PROVE  LET rest == SubSeq(d, n + 1, Len(d))
               old == SubSeq(d, 1, n)
           IN /\ rest \in Seq(MemoEntries) /\ IsOrderedDict(rest) /\ Len(rest) = Len(d) - n
              /\ Range(rest) \subseteq Range(d)
              /\ CostOf(rest) = CostOf(d) - CostOf(old)
<1> DEFINE rest == SubSeq(d, n + 1, Len(d))
           old == SubSeq(d, 1, n)
           l == Len(d)
<1>0. l \in Nat /\ DOMAIN d = 1..l /\ \A i \in 1..l : d[i] \in MemoEntries
  BY IdsFacts
<1>00. n \in Nat /\ n <= l /\ n \in Int /\ n + 1 \in Int
  BY <1>0
<1>1. /\ rest \in Seq(MemoEntries) /\ Len(rest) = l - n /\ DOMAIN rest = 1..(l - n)
      /\ \A i \in 1..(l - n) : rest[i] = d[n + i]
  <2>1. \A i \in (n + 1)..l : d[i] \in MemoEntries
    BY <1>0, <1>00
  <2>2. /\ rest \in Seq(MemoEntries)
        /\ Len(rest) = IF n + 1 <= l THEN l - (n + 1) + 1 ELSE 0
        /\ \A i \in 1..(l - (n + 1) + 1) : rest[i] = d[n + 1 + i - 1]
    <3> HIDE DEF l
    <3> QED BY <1>0, <1>00, <2>1, SubSeqProperties DEF l
  <2>3. DOMAIN rest = 1..Len(rest)
    BY <2>2, LenProperties
  <2> HIDE DEF rest, l
  <2> QED BY <1>0, <1>00, <2>2, <2>3
<1>2. /\ old \in Seq(MemoEntries) /\ Len(old) = n /\ DOMAIN old = 1..n
      /\ \A i \in 1..n : old[i] = d[i]
  <2>1. \A i \in 1..n : d[i] \in MemoEntries
    BY <1>0, <1>00
  <2>2. /\ old \in Seq(MemoEntries) /\ Len(old) = IF 1 <= n THEN n - 1 + 1 ELSE 0
        /\ \A i \in 1..(n - 1 + 1) : old[i] = d[1 + i - 1]
    BY <1>00, <2>1, SubSeqProperties
  <2>3. DOMAIN old = 1..Len(old)
    BY <2>2, LenProperties
  <2> HIDE DEF old
  <2> QED BY <1>00, <2>2, <2>3
<1> HIDE DEF rest, old
<1>3. IsOrderedDict(rest)
  <2> HIDE DEF l
  <2>1. \A i \in 1..(l - n) : n + i \in 1..l
    BY <1>0, <1>00
  <2> SUFFICES ASSUME NEW i \in 1..(l - n), NEW j \in 1..(l - n), rest[i].key = rest[j].key
               PROVE  i = j
    BY <1>1 DEF IsOrderedDict
  <2>2. n + i \in DOMAIN d /\ n + j \in DOMAIN d /\ d[n + i].key = d[n + j].key
    BY <1>0, <1>1, <2>1
  <2>3. n + i = n + j
    BY <2>2 DEF IsOrderedDict
  <2> QED BY <1>0, <1>00, <2>3
<1>4. Range(d) = Range(rest) \cup Range(old)
  <2> HIDE DEF l
  <2>1. \A i \in 1..(l - n) : n + i \in 1..l
    BY <1>0, <1>00
  <2>2. \A i \in 1..n : i \in 1..l
    BY <1>0, <1>00
  <2>3. Range(rest) \cup Range(old) \subseteq Range(d)
    <3>1. \A i \in DOMAIN rest : rest[i] \in Range(d)
      <4> SUFFICES ASSUME NEW i \in 1..(l - n) PROVE rest[i] \in Range(d)
        BY <1>1
      <4>1. n + i \in DOMAIN d /\ rest[i] = d[n + i]
        BY <1>0, <1>1, <2>1
      <4> QED BY <4>1 DEF Range
    <3>2. \A i \in DOMAIN old : old[i] \in Range(d)
      BY <1>0, <1>2, <2>2 DEF Range
    <3> QED BY <3>1, <3>2 DEF Range
  <2>4. \A j \in 1..l : j \in 1..n \/ (j - n \in 1..(l - n) /\ d[j] = rest[j - n])
    BY <1>0, <1>00, <1>1
  <2>5. Range(d) \subseteq Range(rest) \cup Range(old)
    <3> SUFFICES ASSUME NEW j \in 1..l PROVE d[j] \in Range(rest) \cup Range(old)
      BY <1>0 DEF Range
    <3>1. CASE j \in 1..n
      BY <1>2, <3>1 DEF Range
    <3>2. CASE j - n \in 1..(l - n) /\ d[j] = rest[j - n]
      BY <1>1, <3>2 DEF Range
    <3> QED BY <2>4, <3>1, <3>2
  <2> QED BY <2>3, <2>5
<1>5. \A x \in Range(rest), y \in Range(old) : x.key # y.key
  <2> HIDE DEF l
  <2>1. ASSUME NEW i \in 1..(l - n), NEW j \in 1..n PROVE rest[i].key # old[j].key
    <3>1. n + i \in 1..l /\ j \in 1..l /\ n + i # j
      BY <1>0, <1>00
    <3> QED BY <1>0, <1>1, <1>2, <3>1 DEF IsOrderedDict
  <2> QED BY <1>1, <1>2, <2>1 DEF Range
<1>6. IdsOf(d) = IdsOf(rest) \cup IdsOf(old) /\ IdsOf(rest) \cap IdsOf(old) = {}
  <2>1. /\ IdsOf(d) = UNION {{x.key} \X DOMAIN x.why : x \in Range(d)}
        /\ IdsOf(rest) = UNION {{x.key} \X DOMAIN x.why : x \in Range(rest)}
        /\ IdsOf(old) = UNION {{x.key} \X DOMAIN x.why : x \in Range(old)}
    BY <1>1, <1>2, IdsFacts
  <2>2. IdsOf(rest) \cap IdsOf(old) = {}
    BY <1>5, <2>1
  <2>3. IdsOf(d) = IdsOf(rest) \cup IdsOf(old)
    BY <1>4, <2>1
  <2> QED BY <2>2, <2>3
<1>7. /\ IsFiniteSet(IdsOf(rest)) /\ Cardinality(IdsOf(rest)) \in Nat
      /\ IsFiniteSet(IdsOf(old)) /\ Cardinality(IdsOf(old)) \in Nat
  BY <1>1, <1>2, IdsFacts
<1>8. Cardinality(IdsOf(d)) = Cardinality(IdsOf(rest)) + Cardinality(IdsOf(old))
  <2>1. Cardinality(IdsOf(rest) \cup IdsOf(old))
          = Cardinality(IdsOf(rest)) + Cardinality(IdsOf(old)) - Cardinality(IdsOf(rest) \cap IdsOf(old))
    BY <1>7, FS_Union
  <2>2. Cardinality(IdsOf(rest) \cap IdsOf(old)) = 0
    BY <1>6, FS_EmptySet
  <2>3. Cardinality(IdsOf(d)) = Cardinality(IdsOf(rest) \cup IdsOf(old))
    BY <1>6
  <2> QED BY <1>7, <2>1, <2>2, <2>3
<1>9. CostOf(rest) = CostOf(d) - CostOf(old)
  <2> HIDE DEF l
  <2> QED BY <1>0, <1>00, <1>1, <1>2, <1>7, <1>8 DEF CostOf, l
<1> QED BY <1>1, <1>3, <1>4, <1>9 DEF rest, old

(* A set of numbers up to one has a least.                                  *)
LEMMA LeastOne ==
    ASSUME NEW n \in Nat, NEW S \in SUBSET (0..n), S # {}
    PROVE  Min(S) \in S
<1> DEFINE Below(x) == {y \in S : y < x}
           Belows == {Below(x) : x \in S}
           Smaller == StrictSubsetOrdering(0..n)
<1>0. \A x \in S : x \in Nat
  OBVIOUS
<1>1. IsFiniteSet(0..n)
  BY FS_Interval
<1>2. PICK a \in Belows : \A b \in Belows : <<b, a>> \notin Smaller
  <2>1. Belows \subseteq FiniteSubsetsOf(0..n)
    BY <1>1, FS_Subset DEF FiniteSubsetsOf
  <2>2. Belows # {}
    <3>1. PICK x : x \in S
      OBVIOUS
    <3> QED BY <3>1
  <2>3. IsWellFoundedOn(Smaller, FiniteSubsetsOf(0..n))
    BY FS_StrictSubsetOrderingWellFounded
  <2> HIDE DEF Belows, Smaller
  <2> QED BY <2>1, <2>2, <2>3, WFMin
<1>3. PICK x \in S : a = Below(x)
  BY <1>2
<1>4. \A y \in S : x <= y
  <2> SUFFICES ASSUME NEW y \in S, y < x PROVE FALSE
    BY <1>0
  <2>1. Below(y) \subseteq Below(x) /\ y \in Below(x) /\ y \notin Below(y)
    <3>1. x \in Nat /\ y \in Nat /\ \A z \in S : z \in Nat
      BY <1>0
    <3>2. \A z \in S : z < y => z < x
      BY <3>1
    <3>3. y \in Below(x) /\ y \notin Below(y)
      BY <3>1
    <3>4. Below(y) \subseteq Below(x)
      BY <3>2
    <3> QED BY <3>3, <3>4
  <2>2. <<Below(y), Below(x)>> \in Smaller
    BY <2>1 DEF StrictSubsetOrdering
  <2> QED BY <1>2, <1>3, <2>2
<1> QED BY <1>4 DEF Min

LEMMA RightEntry ==
    ASSUME Places, Rows, NEW id \in DOMAIN records, id \in RecordIds
    PROVE  LET e == [key |-> MemoKey(id), why |-> Removals(records[id], MemoKey(id)[2], qv)]
           IN e \in RightEntries
<1> DEFINE r == records[id]
           v == RanOn(r, served, Pinned)
           why == Removals(r, v, qv)
<1>1. Row(r) /\ v \in Versions
  BY DEF Rows, Row, RanOn, Places
<1>2. why \in [Removed(r, v, qv) -> Causes]
  BY DEF Removals, Cause, Causes
<1>3. Removed(r, v, qv) \in PaperSets
  <2>1. Removed(r, v, qv) \in SUBSET r.ids
    BY DEF Removed
  <2> QED BY <1>1, <2>1, FS_Subset DEF Row, PaperSets
<1>4. MemoKey(id) = <<id, v>>
  BY DEF MemoKey
<1> HIDE DEF why, v, r
<1>5. [key |-> <<id, v>>, why |-> why] \in MemoEntries
  BY <1>1, <1>2, <1>3 DEF MemoEntries
<1>6. [key |-> <<id, v>>, why |-> why] \in RightEntries
  BY <1>5 DEF RightEntries, why, r
<1> QED BY <1>4, <1>6 DEF why, r

(* What is stored is dropped from until the rest fits, and the last of      *)
(* nothing always does.                                                     *)
LEMMA StoredKept ==
    ASSUME MemoKept, NEW t \in Threads, job[t] \in MemoEntries, StoreRemovals(t)
    PROVE  MemoKept' /\ Range(memo') \subseteq Range(memo) \cup {job[t]}
<1> DEFINE e == job[t]
           new == Stored(e)
           After(n) == SubSeq(new.held, n + 1, Len(new.held))
           IdsAfter(n) == new.ids - CostOf(SubSeq(new.held, 1, n))
           fit == {n \in 0..Len(new.held) : Fits(After(n), IdsAfter(n))}
           dropped == Min(fit)
<1>1. memo' = After(dropped) /\ memoIds' = IdsAfter(dropped)
  BY DEF StoreRemovals
<1>2. /\ new.held \in Seq(MemoEntries) /\ IsOrderedDict(new.held)
      /\ new.ids = CostOf(new.held)
      /\ Range(new.held) \subseteq Range(memo) \cup {e}
  BY PutCost DEF MemoKept, Stored
<1> HIDE DEF new
<1> DEFINE h == new.held
<1>3. Len(h) \in Nat /\ CostOf(h) \in Nat
  BY <1>2, IdsFacts
<1>4. ASSUME NEW n \in 0..Len(h)
      PROVE  /\ After(n) \in Seq(MemoEntries) /\ IsOrderedDict(After(n))
             /\ Len(After(n)) = Len(h) - n /\ Range(After(n)) \subseteq Range(h)
             /\ IdsAfter(n) = CostOf(After(n))
  BY <1>2, OldestDropped
<1>5. Len(h) \in fit
  <2>1. Len(h) \in 0..Len(h)
    BY <1>3
  <2>2. Len(After(Len(h))) = 0 /\ After(Len(h)) \in Seq(MemoEntries)
    BY <1>3, <1>4, <2>1
  <2>3. IdsOf(After(Len(h))) = {}
    <3>1. DOMAIN After(Len(h)) = {}
      BY <2>2, LenProperties
    <3> QED BY <3>1 DEF IdsOf
  <2>4. CostOf(After(Len(h))) = 0
    <3>1. Cardinality(IdsOf(After(Len(h)))) = 0
      BY <2>3, FS_EmptySet
    <3> QED BY <2>2, <3>1 DEF CostOf
  <2> QED BY <1>4, <2>1, <2>2, <2>4, RecordsConstants DEF Fits
<1>6. dropped \in fit
  <2>1. fit \in SUBSET (0..Len(h)) /\ fit # {}
    BY <1>5
  <2> HIDE DEF fit
  <2> QED BY <1>3, <2>1, LeastOne
<1>7. dropped \in 0..Len(h) /\ Fits(After(dropped), IdsAfter(dropped))
  BY <1>6
<1> HIDE DEF dropped
<1>8. /\ memo' \in Seq(MemoEntries) /\ IsOrderedDict(memo') /\ Range(memo') \subseteq Range(h)
      /\ memoIds' = CostOf(memo')
  BY <1>1, <1>4, <1>7
<1>9. memoIds' <= MaxIds /\ Len(memo') <= MaxEntries
  BY <1>1, <1>7 DEF Fits
<1> QED BY <1>2, <1>8, <1>9 DEF MemoKept, CostOf, IdsOf, IsOrderedDict

LEMMA MemoStep ==
    ASSUME RecordsInv, Rows, DOMAIN records \subseteq RecordIds, MemoKept, MemoRight, [Next]_vars
    PROVE  MemoKept' /\ MemoRight'
<1> USE DEF RecordsInv
<1>1. ASSUME UNCHANGED <<memo, memoIds>> PROVE MemoKept'
  BY <1>1 DEF MemoKept, CostOf, IdsOf, IsOrderedDict
(* Rows come under new ids and change only by hand, so what was right is.   *)
<1>2. ASSUME UNCHANGED qv,
             \/ /\ \A id \in DOMAIN records' \ forged' :
                     id \in DOMAIN records \ forged \/ id \notin DOMAIN records \cup gone
                /\ \A id \in DOMAIN records \cap DOMAIN records' :
                     id \notin forged' => records'[id] = records[id]
                /\ DOMAIN records \cup gone \subseteq DOMAIN records' \cup gone'
      PROVE  RightEntries \subseteq RightEntries'
  BY <1>2 DEF RightEntries
<1>3. ASSUME UNCHANGED <<memo, memoIds, job>>, UNCHANGED qv,
             \A t \in Threads : pc'[t] = "removals" => pc[t] = "removals",
             RightEntries \subseteq RightEntries'
      PROVE  MemoKept' /\ MemoRight'
  BY <1>1, <1>3 DEF MemoRight, Range
<1>4. ASSUME UNCHANGED <<records, forged, gone, qv>> PROVE RightEntries \subseteq RightEntries'
  BY <1>4 DEF RightEntries
<1>5. ASSUME NEW t \in Threads,
             \/ TakeSave(t) \/ Freeze(t) \/ CheckRoom(t) \/ FindTables(t) \/ CreateFile(t)
             \/ CreateTables(t) \/ Connect(t) \/ SaveFails(t)
             \/ \E id \in RecordIds : Redraw(t, id)
      PROVE  MemoKept' /\ MemoRight'
  <2>1. /\ UNCHANGED <<memo, memoIds, job, records, forged, gone, qv>>
        /\ \E s \in PCs \ {"removals"} : pc' = [pc EXCEPT ![t] = s]
    BY <1>5 DEF TakeSave, Freeze, CheckRoom, FindTables, CreateFile, CreateTables, Connect,
                SaveFails, Redraw, Idle, Goto, fileVars, worldVars, memoVars, PCs, Charged, PastCheck
  <2> QED BY <1>3, <1>4, <2>1 DEF Places
<1>6. ASSUME NEW t \in Threads, NEW id \in RecordIds, Insert(t, id)
      PROVE  MemoKept' /\ MemoRight'
  <2>1. /\ UNCHANGED <<memo, memoIds, job, forged, gone, qv>>
        /\ pc' = [pc EXCEPT ![t] = "idle"]
        /\ \/ UNCHANGED records
           \/ /\ id \notin DOMAIN records \cup gone
              /\ records' = [i \in DOMAIN records \cup {id} |->
                               IF i = id THEN fields[t] ELSE records[i]]
    BY <1>6 DEF Insert, Idle, Goto, worldVars, memoVars
  <2>2. RightEntries \subseteq RightEntries'
    BY <1>2, <1>4, <2>1
  <2> QED BY <1>3, <2>1, <2>2 DEF Places
<1>7. ASSUME NEW t \in Threads, NEW id \in RecordIds, DiffFromMemo(t, id)
      PROVE  MemoKept' /\ MemoRight'
  <2>1. /\ memo' = MoveToEnd(memo, MemoKey(id))
        /\ UNCHANGED <<memoIds, job, records, forged, gone, qv, pc>>
    BY <1>7 DEF DiffFromMemo, fileVars, worldVars
  <2>2. /\ memo' \in Seq(MemoEntries) /\ IsOrderedDict(memo')
        /\ Range(memo') = Range(memo) /\ Len(memo') = Len(memo)
    BY <2>1, MovedToEnd DEF MemoKept
  <2>3. CostOf(memo') = CostOf(memo)
    BY <2>2, IdsFacts DEF MemoKept, CostOf
  <2>4. MemoKept'
    BY <2>1, <2>2, <2>3 DEF MemoKept, CostOf, IdsOf, IsOrderedDict
  <2>5. MemoRight'
    BY <1>4, <2>1, <2>2 DEF MemoRight, Range
  <2> QED BY <2>4, <2>5
<1>8. ASSUME NEW t \in Threads, NEW id \in RecordIds, WorkOutRemovals(t, id)
      PROVE  MemoKept' /\ MemoRight'
  <2>1. PICK e : /\ e = [key |-> MemoKey(id), why |-> Removals(records[id], MemoKey(id)[2], qv)]
                 /\ job' = [job EXCEPT ![t] = e]
    BY <1>8 DEF WorkOutRemovals
  <2>2. /\ UNCHANGED <<memo, memoIds, records, forged, gone, qv>>
        /\ pc' = [pc EXCEPT ![t] = "removals"]
    BY <1>8 DEF WorkOutRemovals, Goto, fileVars, worldVars
  <2>3. e \in RightEntries
    BY <1>8, <2>1, RightEntry DEF WorkOutRemovals
  <2>4. RightEntries \subseteq RightEntries'
    BY <1>4, <2>2
  <2>5. job'[t] = e /\ \A u \in Threads \ {t} : job'[u] = job[u] /\ pc'[u] = pc[u]
    BY <2>1, <2>2 DEF MemoRight, Places
  <2>6. Range(memo)' \subseteq RightEntries'
    BY <2>2, <2>4 DEF MemoRight, Range
  <2>7. \A u \in Threads : pc'[u] = "removals" => job'[u] \in RightEntries'
    BY <2>3, <2>4, <2>5 DEF MemoRight
  <2>8. job' = [u \in Threads |-> job'[u]]
    BY <2>1 DEF MemoRight
  <2> QED BY <1>1, <2>2, <2>6, <2>7, <2>8 DEF MemoRight
<1>9. ASSUME NEW t \in Threads, StoreRemovals(t)
      PROVE  MemoKept' /\ MemoRight'
  <2>1. /\ UNCHANGED <<records, forged, gone, qv>> /\ job' = [job EXCEPT ![t] = None]
        /\ pc[t] = "removals" /\ pc' = [pc EXCEPT ![t] = "idle"]
    BY <1>9 DEF StoreRemovals, Goto, fileVars, worldVars
  <2>2. job[t] \in RightEntries /\ job[t] \in MemoEntries
    BY <2>1 DEF MemoRight, RightEntries
  <2>3. MemoKept' /\ Range(memo') \subseteq Range(memo) \cup {job[t]}
    BY <1>9, <2>2, StoredKept
  <2>4. RightEntries \subseteq RightEntries'
    BY <1>4, <2>1
  <2>6. Range(memo') \subseteq RightEntries'
    BY <2>2, <2>3, <2>4 DEF MemoRight
  <2>7. \A u \in Threads : pc'[u] = "removals" => u # t /\ pc[u] = "removals" /\ job'[u] = job[u]
    BY <2>1 DEF MemoRight, Places
  <2>8. \A u \in Threads : pc'[u] = "removals" => job'[u] \in RightEntries'
    BY <2>4, <2>7 DEF MemoRight
  <2>9. job' = [u \in Threads |-> job'[u]]
    BY <2>1 DEF MemoRight
  <2> QED BY <2>3, <2>6, <2>8, <2>9 DEF MemoRight, Range
<1>10. ASSUME \E v \in Versions : Reload(v) \/ ChangeKept(v) PROVE MemoKept' /\ MemoRight'
  BY <1>3, <1>4, <1>10 DEF Reload, ChangeKept, fileVars, memoVars
<1>11. ASSUME Restart PROVE MemoKept' /\ MemoRight'
  <2>1. /\ memo' = <<>> /\ memoIds' = 0 /\ job' = [t \in Threads |-> None]
        /\ \A t \in Threads : pc'[t] = "idle"
    BY <1>11 DEF Restart
  <2>2. IdsOf(<<>>) = {} /\ Len(<<>>) = 0 /\ <<>> \in Seq(MemoEntries) /\ DOMAIN <<>> = {}
    BY EmptySeq, LenProperties DEF IdsOf
  <2>3. CostOf(<<>>) = 0
    BY <2>2, FS_EmptySet DEF CostOf
  <2> QED BY <2>1, <2>2, <2>3, RecordsConstants DEF MemoKept, MemoRight, IsOrderedDict, CostOf, IdsOf, Range
<1>12. ASSUME RemoveFile PROVE MemoKept' /\ MemoRight'
  <2>1. /\ DOMAIN records' = {} /\ gone' = gone \cup DOMAIN records
        /\ UNCHANGED <<memo, memoIds, job, qv, pc>>
    BY <1>12 DEF RemoveFile, memoVars
  <2>2. RightEntries \subseteq RightEntries'
    BY <2>1 DEF RightEntries
  <2> QED BY <1>3, <2>1, <2>2
<1>13. ASSUME NEW id \in RecordIds, Forge(id) PROVE MemoKept' /\ MemoRight'
  <2>1. /\ DOMAIN records' = DOMAIN records /\ forged' = forged \cup {id}
        /\ \A i \in DOMAIN records \ {id} : records'[i] = records[i]
        /\ UNCHANGED <<memo, memoIds, job, gone, qv, pc>>
    BY <1>13 DEF Forge, memoVars
  <2>2. RightEntries \subseteq RightEntries'
    BY <2>1 DEF RightEntries
  <2> QED BY <1>3, <2>1, <2>2
<1>14. CASE UNCHANGED vars
  BY <1>3, <1>4, <1>14 DEF vars, fileVars, worldVars, memoVars
<1> QED BY <1>5, <1>6, <1>7, <1>8, <1>9, <1>10, <1>11, <1>12, <1>13, <1>14 DEF Next, Step

(* MemoSound, for any records, threads and bounds.                          *)
THEOREM MemoIsSound == Spec => []MemoSound
<1>1. Init => DOMAIN records \subseteq RecordIds
  BY DEF Init
<1>2. DOMAIN records \subseteq RecordIds /\ [Next]_vars => (DOMAIN records \subseteq RecordIds)'
  <2> SUFFICES ASSUME DOMAIN records \subseteq RecordIds, [Next]_vars
               PROVE  DOMAIN records' \subseteq RecordIds
    OBVIOUS
  <2>1. \/ UNCHANGED records
        \/ \E t \in Threads, id \in RecordIds : Insert(t, id)
        \/ RemoveFile \/ \E id \in RecordIds : Forge(id)
    BY DEF Next, Step, TakeSave, Freeze, CheckRoom, FindTables, CreateFile, CreateTables, Connect,
           Redraw, DiffFromMemo, WorkOutRemovals, SaveFails, StoreRemovals, Restart, Reload,
           ChangeKept, fileVars, vars
  <2>2. ASSUME NEW t \in Threads, NEW id \in RecordIds, Insert(t, id)
        PROVE  DOMAIN records' \subseteq RecordIds
    BY <2>2 DEF Insert
  <2>3. ASSUME NEW id \in RecordIds, Forge(id) PROVE DOMAIN records' \subseteq RecordIds
    BY <2>3 DEF Forge
  <2>4. ASSUME RemoveFile PROVE DOMAIN records' \subseteq RecordIds
    BY <2>4 DEF RemoveFile
  <2> QED BY <2>1, <2>2, <2>3, <2>4
<1>3. Init => MemoKept /\ MemoRight
  <2>1. IdsOf(<<>>) = {} /\ Len(<<>>) = 0 /\ <<>> \in Seq(MemoEntries) /\ DOMAIN <<>> = {}
    BY EmptySeq, LenProperties DEF IdsOf
  <2>2. CostOf(<<>>) = 0
    BY <2>1, FS_EmptySet DEF CostOf
  <2> QED BY <2>1, <2>2, RecordsConstants DEF Init, MemoKept, MemoRight, IsOrderedDict, Range
<1>4. MemoKept /\ MemoRight => MemoSound
  BY DEF MemoKept, MemoRight, MemoSound, RightEntries, Range
<1> QED BY <1>1, <1>2, <1>3, <1>4, MemoStep, Invariant, RowsTyped, PTL DEF Spec
=============================================================================
