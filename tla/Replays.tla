------------------------------ MODULE Replays ------------------------------
(***************************************************************************)
(* What a search record freezes (records.py::freeze, identify) and what a  *)
(* replay says of it (replay, changed_inputs, _run), with why each removed *)
(* paper left (removals, removal_cause).  Pure: an index never changes     *)
(* under its version, so a search is a function of the index, the query    *)
(* and the code's query version.                                           *)
(*                                                                         *)
(* A query string is what was typed or what a query is saved as, the       *)
(* canonical, which stands for its hash as well.  Excluded stands for the  *)
(* exclusion accounting and the expansions, which a replay compares in the *)
(* same way; a record's input also stands for how and when it was typed    *)
(* (mode, translations, warnings, searched_at).                            *)
(***************************************************************************)
EXTENDS Naturals, FiniteSets

CONSTANTS
    Versions,       \* index versions
    Inputs,         \* version -> its snapshot_hash, tokenizer_version, ...
    Facts,          \* version -> what its snapshot's manifest tells: crawl
                    \* dates, sources, what is citable, dedup counts
    Strings,        \* query strings, typed or canonical
    QueryVersions,  \* versions of the code's query language
    Reads,          \* <<query, tokenizer, query version>> -> the canonical
                    \* it is read as, or Unreadable
    Unreadable,
    Identifications,\* canonical -> its identification query
    Texts,          \* <<version, canonical>> -> the papers its text matches
    Values,         \* version -> (paper -> its filter values there)
    Filters,        \* canonical -> (field -> the values it admits)
    Excluded,       \* <<version, canonical>> -> its accounting
    Refuses,        \* <<version, canonical>> the engine refuses (a wildcard)
    None

IndexInputs == {"snapshot_hash", "tokenizer_version", "schema_version", "ranking_params"}

Fields == {"track", "status", "other"}

Tokenizer(v) == Inputs[v].tokenizer_version

ASSUME ReplaysConstants ==
    /\ None \notin Versions \cup Strings
    /\ Unreadable \notin Strings
    /\ \A v \in Versions : DOMAIN Inputs[v] = IndexInputs /\ IsFiniteSet(DOMAIN Values[v])
    /\ QueryVersions \subseteq Nat
    /\ \A q \in Strings, v \in Versions, qv \in QueryVersions :
          /\ <<q, Tokenizer(v), qv>> \in DOMAIN Reads
          /\ Reads[<<q, Tokenizer(v), qv>>] \in Strings \cup {Unreadable}

\* index_version is a hash of the four inputs.
ASSUME VersionsNameInputs ==
    \A v, w \in Versions :
        v # w => \E i \in IndexInputs : Inputs[v][i] # Inputs[w][i]
\* A canonical is read as itself by the tokenizer and code that wrote it, or
\* not at all: with its defaults and scopes written out it may nest past
\* MAX_DEPTH although what was typed did not (CanonicalReplays.cfg).
ASSUME CanonicalsReadAsThemselves ==
    \A q \in Strings, v \in Versions, qv \in QueryVersions :
        LET c == Reads[<<q, Tokenizer(v), qv>>] IN
        c # Unreadable => Reads[<<c, Tokenizer(v), qv>>] \in {c, Unreadable}

----------------------------------------------------------------------------
(* A search, and the record of one.                                        *)

\* The filter fields a paper of v fails (passes, clause by clause).
Failing(v, c, p) ==
    {f \in DOMAIN Filters[c] : Values[v][p][f] \notin Filters[c][f]}

Matching(v, c) ==
    {p \in DOMAIN Values[v] : p \in Texts[<<v, c>>] /\ Failing(v, c, p) = {}}

\* freeze, of the query q typed on v.
Frozen(v, q, qv) ==
    LET c == Reads[<<q, Tokenizer(v), qv>>] IN
    [input |-> q, facts |-> Facts[v],
     version |-> v, query_version |-> qv, inputs |-> Inputs[v],
     canonical |-> c, identification |-> Identifications[c],
     ids |-> Matching(v, c), ids_hash |-> Matching(v, c),
     total |-> Cardinality(Matching(v, c)), excluded |-> Excluded[<<v, c>>]]

\* The fields a replay compares; the input and the facts it does not.
Compared == {"version", "query_version", "inputs", "canonical",
             "identification", "ids", "ids_hash", "total", "excluded"}

\* A search that a record can be made of: it parses and the engine runs it.
Searchable(v, q, qv) ==
    LET c == Reads[<<q, Tokenizer(v), qv>>] IN
    c # Unreadable /\ <<v, c>> \notin Refuses

----------------------------------------------------------------------------
(* A replay of record r, where `served` is served, pinned[v] is the engine *)
(* the loader returns for v (or None), qv is the code's query version, and *)
(* withheld says whether the instance's limits hold the run back.          *)

Own(r, served, pinned) ==
    served = r.version \/ pinned[r.version] = r.version

\* The record's own index if it is here, else the served one.
RanOn(r, served, pinned) ==
    IF Own(r, served, pinned) THEN r.version ELSE served

\* Mutant: the canonical is read with the tokenizer of the code.
ReadingByServed(r, v, qv) == Reads[<<r.canonical, "new", qv>>]

\* The canonical re-read with the tokenizer of the index it runs on.
Reading(r, v, qv) == Reads[<<r.canonical, Tokenizer(v), qv>>]

\* _run: why the canonical does not run on v, or "none".
Refusal(r, v, qv, withheld) ==
    LET c == Reading(r, v, qv) IN
    IF c = Unreadable THEN "unreadable"
    ELSE IF withheld THEN "withheld"
    ELSE IF <<v, c>> \in Refuses THEN "refused" ELSE "none"

Changed(r, v, qv) ==
    {i \in IndexInputs : r.inputs[i] # Inputs[v][i]}
    \cup (IF r.query_version # qv THEN {"query_version"} ELSE {})

\* Mutant of RunFree: the stored list is not counted.
RunFreeUncounted(r, c) ==
    /\ c = r.canonical
    /\ c # Unreadable => Identifications[c] = r.identification
    /\ r.inputs = Inputs[r.version]
    /\ r.ids = r.ids_hash

\* The checks that need no run ...
RunFree(r, c) ==
    /\ c = r.canonical
    /\ c # Unreadable => Identifications[c] = r.identification
    /\ r.inputs = Inputs[r.version]
    /\ r.ids = r.ids_hash
    /\ r.total = Cardinality(r.ids)

\* ... and those of what the run found.
RunMatches(r, c) ==
    /\ Matching(r.version, c) = r.ids_hash
    /\ Excluded[<<r.version, c>>] = r.excluded

OwnStatus(r, qv, withheld) ==
    LET c == Reading(r, r.version, qv)
        refusal == Refusal(r, r.version, qv, withheld)
    IN  IF ~RunFree(r, c) THEN "mismatch"
        ELSE CASE refusal = "withheld" -> "drifted"
               [] refusal = "none" /\ RunMatches(r, c) -> "reproduced"
               [] OTHER -> "mismatch"

Status(r, served, pinned, qv, withheld) ==
    IF Own(r, served, pinned) /\ r.query_version = qv
    THEN OwnStatus(r, qv, withheld)
    ELSE IF \/ Own(r, served, pinned)
            \/ Changed(r, RanOn(r, served, pinned), qv) \ {"query_version"} # {}
         THEN "drifted"
         ELSE "mismatch"

\* The ids the record holds that the replay on v did not match.
Removed(r, v, qv) == r.ids \ Matching(v, Reading(r, v, qv))

\* removal_cause: track first, then status, then any other field.
Cause(v, c, p) ==
    CASE p \notin DOMAIN Values[v] -> "not_in_index"
      [] p \in DOMAIN Values[v] /\ Failing(v, c, p) = {} -> "still_eligible"
      [] OTHER -> IF "track" \in Failing(v, c, p) THEN "track_changed"
                  ELSE IF "status" \in Failing(v, c, p) THEN "status_changed"
                  ELSE "filter_changed"

Removals(r, v, qv) ==
    [p \in Removed(r, v, qv) |-> Cause(v, Reading(r, v, qv), p)]
=============================================================================
