----------------------------- MODULE PaperClaims -----------------------------
(***************************************************************************)
(* What a paper's claims say (ingest/dedup.py): which claim each field is  *)
(* resolved from, what a cluster of records is for the rules, and whether  *)
(* clusters may be one record.  Pure: the steps that merge are in Dedup.   *)
(*                                                                         *)
(* A title stands for its key, an abstract for its digest; NoKey is that   *)
(* of a title of punctuation alone and of an abstract too short to count.  *)
(* A URL stands for the forum or the proceedings paper it names.  Ids and  *)
(* links that the ingest caps cut are left out.                            *)
(***************************************************************************)
EXTENDS Integers, FiniteSets, Sequences

CONSTANTS
    Forums,            \* OpenReview forum ids
    Papers,            \* proceedings ids
    CreativePapers,    \* those whose URL names the Creative AI track
    NeurIPSYears,      \* NeurIPS's venue-years, which alone have that track
    ValueOrder,        \* every value and evidence a claim may have, as sorted
    NoKey, None

ASSUME NoneAssumption == None \notin {"ambiguous_not_merged", "track_not_merged"}
ASSUME NativesAssumption == Forums \cap Papers = {} /\ CreativePapers \subseteq Papers

Imported == {"ris"}
OpenReview == {"openreview_v2", "openreview_v1"}
Proceedings == {"iclr_archive", "neurips_proceedings", "pmlr"}
ProceedingsTracks == {"main", "datasets_benchmarks", "position"}
Listable == {"accepted", "unknown"}   \* the statuses a listed paper may have

TextOrder ==
    <<"openreview_v2", "openreview_v1", "iclr_archive", "neurips_proceedings", "pmlr", "dblp",
      "icml_site", "ojs", "aaai_library", "crossref", "facct_site", "ris", "openalex">>
AcceptanceOrder ==
    <<"iclr_archive", "neurips_proceedings", "pmlr", "dblp", "ojs", "crossref",
      "openreview_v2", "openreview_v1", "ris">>

Place(x, order) == CHOOSE i \in DOMAIN order : order[i] = x

(* The evidence of reconcile's statement that a listing lacks a paper.      *)
Absent == "not listed"
Absence(c) == c.source \in Proceedings /\ c.field = "status" /\ c.evidence = Absent

(* When, then what a claim says, then what it rests on.                     *)
SortKey(c) == <<c.at, Place(c.value, ValueOrder), Place(c.evidence, ValueOrder)>>
Before(a, b) == \E i \in 1..3 : a[i] < b[i] /\ \A j \in 1..(i - 1) : a[j] = b[j]

(* The newest claim of each field and source.                               *)
Kept(claims) ==
    {c \in claims : ~\E d \in claims :
        d.field = c.field /\ d.source = c.source /\ Before(SortKey(c), SortKey(d))}

Rank(c) == Place(c.source, IF c.field = "status" THEN AcceptanceOrder ELSE TextOrder)

(* The value of a field, from its best-ranked source.                       *)
Resolved(kept, field) ==
    LET said == {c \in kept : c.field = field}
    IN  IF said = {} THEN None
        ELSE (CHOOSE c \in said : \A d \in said : Rank(c) <= Rank(d)).value

Values(kept, field) == {c.value : c \in {d \in kept : d.field = field}}

(* One source's claims show the Creative AI track, and nothing else.        *)
NamesCreativeAI(claims) ==
    LET said == {c \in claims : c.field \in {"venue_id", "proceedings"}}
    IN  said # {} /\ \A c \in said : c.value \in CreativePapers \cup {"creative_ai"}

CreativeAI(id, kept) ==
    /\ id[1] \in NeurIPSYears
    /\ Resolved(kept, "track") = "other"
    /\ \A c \in kept : c.field = "track" =>
          c.value = "other" /\ NamesCreativeAI({d \in kept : d.source = c.source})

(* The side of the track rule, or None for a track no listing merges with.  *)
Family(id, kept, listed, sources) ==
    LET track == Resolved(kept, "track")
    IN  IF CreativeAI(id, kept) THEN "creative_ai"
        ELSE IF \/ track \in ProceedingsTracks
                \/ (listed /\ track = "unknown" /\ sources \cap OpenReview = {})
        THEN "proceedings" ELSE None

(* An abstract that is the text of the record's own page.                   *)
OwnAbstract(c, id, papers) ==
    c.field = "abstract" /\ (c.source \in Imported => c.evidence \in {id[2]} \cup papers)

(* A cluster, judged as the record its claims resolve to under its id, a    *)
(* pair of venue-year and native id.                                       *)
Cluster(id, claims, from) ==
    LET kept == Kept(claims)
        sources == {c.source : c \in {d \in claims : ~Absence(d)}}
        papers == Values(kept, "proceedings")
        crawledPapers == Values({c \in kept : c.source \notin Imported}, "proceedings")
        listed == papers # {} \/ sources \cap Proceedings # {}
    IN  [id |-> id, claims |-> claims, from |-> from, sources |-> sources,
         titles |-> Values(kept, "title") \ {NoKey},
         abstracts |-> {c \in kept : OwnAbstract(c, id, papers) /\ c.value # NoKey},
         papers |-> papers,
         forums |-> Values(kept, "forum") \cup ({id[2]} \cap Forums),
         listed |-> listed,
         crawled |-> crawledPapers # {} \/ sources \cap Proceedings # {},
         track |-> Resolved(kept, "track"), status |-> Resolved(kept, "status"),
         family |-> Family(id, kept, listed, sources)]

OnlyImported(c) == c.sources = Imported

AbstractKeys(c) == {a.value : a \in c.abstracts}
ImportedAbstracts(c) == {a.value : a \in {b \in c.abstracts : b.source \in Imported}}
CrawledAbstracts(c) == {a.value : a \in {b \in c.abstracts : b.source \notin Imported}}

-----------------------------------------------------------------------------
(* Whether clusters may be one record: None, or why they may not.          *)

(* A status no listing has would outlast a merge with imports alone.        *)
ImportWouldTakeItsStatus(group) ==
    \E c \in group :
        /\ group # {c}
        /\ ~c.crawled /\ c.status \notin Listable
        /\ \A d \in group \ {c} : OnlyImported(d)

(* Two candidates of one source, two submissions, two proceedings papers, or *)
(* a status that would be lost.                                            *)
Ambiguous(group, linked) ==
    \/ ~linked /\ \E c, d \in group :
           c # d /\ (c.sources \cap d.sources) \ Imported # {}
    \/ Cardinality(UNION {c.forums : c \in group}) > 1
    \/ Cardinality(UNION {c.papers : c \in group}) > 1
    \/ ~linked /\ ImportWouldTakeItsStatus(group)

(* Beside a listing, one family and a known one.                            *)
TracksDiffer(group) ==
    LET families == {c.family : c \in group}
    IN  (\E c \in group : c.listed) /\ (None \in families \/ Cardinality(families) > 1)

Refusal(group, linked) ==
    IF Ambiguous(group, linked) THEN "ambiguous_not_merged"
    ELSE IF TracksDiffer(group) THEN "track_not_merged" ELSE None

(* Why a cluster can never be the paper of a listing in the group.          *)
NotTheListedPaper(c, group) ==
    LET listed == {d.family : d \in {e \in group : e.listed}} \ {None}
    IN  IF c.listed THEN None
        ELSE IF c.track # "unknown" /\ (c.family = None \/ (listed # {} /\ c.family \notin listed))
        THEN "track_not_merged"
        ELSE IF c.status \notin Listable THEN "ambiguous_not_merged" ELSE None

(* Those of a group that share a title which merge, or nobody.              *)
TitleMerging(group) ==
    LET rest == {c \in group : NotTheListedPaper(c, group) = None}
    IN  IF Refusal(group, FALSE) = None THEN group
        ELSE IF (\E c \in group : c.listed) /\ Cardinality(rest) > 1 /\ Refusal(rest, FALSE) = None
        THEN rest ELSE {}

(* Why a cluster can never be the paper of an import with its abstract.     *)
AbstractAside(c, group) ==
    IF c.listed THEN IF c.crawled \/ c.status \in Listable THEN None ELSE "ambiguous_not_merged"
    ELSE IF \E d \in group : d.listed THEN NotTheListedPaper(c, group)
    ELSE IF c.status \in Listable THEN None ELSE "ambiguous_not_merged"

AbstractRefusal(group) ==
    LET crawled == {c \in group : ~OnlyImported(c)}
    IN  IF \/ Cardinality(crawled) > 1 \/ crawled = group
           \/ \E c \in group : ~c.crawled /\ c.status \notin Listable
        THEN "ambiguous_not_merged" ELSE Refusal(group, FALSE)

AbstractMerging(group) ==
    LET rest == {c \in group : AbstractAside(c, group) = None}
    IN  IF Cardinality(rest) < 2 \/ AbstractRefusal(rest) # None THEN {} ELSE rest
=============================================================================
