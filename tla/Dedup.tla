-------------------------------- MODULE Dedup --------------------------------
(***************************************************************************)
(* Deduplication and reconciliation (ingest/dedup.py::_dedup, reconcile.py)*)
(* as `op snapshot build` runs them: records of one id, then passes of the *)
(* forum link, the title step and the abstract step until one merges       *)
(* nothing, then the records, the not-merged rows, and the status of what  *)
(* the crawled proceedings do not list.  Then all of it once more, on what *)
(* came out: a second run is to change nothing.                            *)
(*                                                                         *)
(* Order is by id, as the code sorts, so no order of the input matters.    *)
(* Left out: the conflict rows on values, the reason of a not-merged row,  *)
(* the key and the sources of a merge row, what reconcile counts.          *)
(***************************************************************************)
EXTENDS PaperClaims

CONSTANTS
    VenueYears,
    Inputs,        \* the record sets that may come from the caches
    Crawls,        \* the <<proceedings source, venue-year>> that may be crawled
    ListedAt,      \* when the listings were fetched
    NoNative       \* the global native id of a proceedings paper

VARIABLES
    phase,         \* the step that comes next
    run,           \* the first run, or the second over its output
    complete,      \* the <<proceedings source, venue-year>> crawled completely
    clusters,      \* the clusters so far
    before,        \* how many there were when the pass began
    merges,        \* <<survivor, merged>> of every merge of this run
    records,       \* the records: what came in, then what comes out
    rows,          \* the not-merged rows
    asked,         \* history: the clusters of one id each
    linked,        \* history: the clusters after the first forum link
    last           \* history: the first run's records and rows

vars == <<phase, run, complete, clusters, before, merges, records, rows, asked, linked, last>>

-----------------------------------------------------------------------------
(* Groups of clusters that share a key, by the keys each has.              *)

Sharing(keys, v, k) == {c \in DOMAIN keys : c.id[1] = v /\ k \in keys[c]}

Groups(keys) ==
    {g \in {Sharing(keys, v, k) : v \in VenueYears, k \in UNION {keys[c] : c \in DOMAIN keys}} :
        Cardinality(g) > 1}

ByForum(all) == Groups([c \in all |-> c.forums])
ByTitle(all) == Groups([c \in all |-> c.titles])

(* The abstracts that make a group: an import's own and, for the rows, those *)
(* of a listing an import may have merged into.                             *)
Anchors(c, mergedToo) ==
    IF OnlyImported(c) THEN ImportedAbstracts(c)
    ELSE IF mergedToo /\ c.listed /\ c.sources \cap Imported # {} THEN AbstractKeys(c) ELSE {}

ByAbstract(all, mergedToo) ==
    LET keys == [c \in all |-> AbstractKeys(c)]
    IN  {g \in Groups(keys) :
            \E c \in g : \E k \in Anchors(c, mergedToo) : g = Sharing(keys, c.id[1], k)}

(* An import whose abstract a crawler gave another record of its venue-year, *)
(* and none of those it shares a title with.                               *)
Yields(c, group, all) ==
    /\ OnlyImported(c)
    /\ \E k \in AbstractKeys(c) :
          /\ \E d \in all : ~OnlyImported(d) /\ d.id[1] = c.id[1] /\ k \in CrawledAbstracts(d)
          /\ \A d \in group \ {c} : k \notin AbstractKeys(d)

Yielding(group, all) == {c \in group : Yields(c, group, all)}

-----------------------------------------------------------------------------
(* Merging.                                                                *)

IdBefore(a, b) ==
    \/ Place(a[1], ValueOrder) < Place(b[1], ValueOrder)
    \/ a[1] = b[1] /\ Place(a[2], ValueOrder) < Place(b[2], ValueOrder)

First(group) == CHOOSE c \in group : \A d \in group \ {c} : IdBefore(c.id, d.id)

(* The id with a forum id, if any has one, else the smallest.               *)
Survivor(group) ==
    LET notes == {c \in group : c.id[2] \in Forums}
    IN  IF notes # {} THEN First(notes).id ELSE First(group).id

(* The clusters chained together by the groups that merge.                  *)
Chains(groups) ==
    LET touched == UNION groups
        Closed(S) == \A g \in groups : g \subseteq S \/ g \cap S = {}
    IN  {S \in SUBSET touched :
            S # {} /\ Closed(S) /\ \A T \in SUBSET S : Closed(T) => T \in {{}, S}}

Joined(chain) ==
    Cluster(Survivor(chain), UNION {c.claims : c \in chain}, UNION {c.from : c \in chain})

(* As in a merge whose step writes its own rows only.                       *)
MergeForgetting(chains, next) ==
    /\ clusters' = (clusters \ UNION chains) \cup {Joined(c) : c \in chains}
    /\ merges' = UNION {{<<Survivor(g), c.id>> : c \in {d \in g : d.id # Survivor(g)}} : g \in chains}
    /\ phase' = next

(* One step: each chain becomes one cluster, unless its clusters must not    *)
(* share a record.                                                         *)
Merge(chains, next) ==
    /\ clusters' = (clusters \ UNION chains) \cup {Joined(c) : c \in chains}
    /\ merges' = merges \cup
          UNION {{<<Survivor(g), c.id>> : c \in {d \in g : d.id # Survivor(g)}} : g \in chains}
    /\ phase' = next

LinkChains(all) ==
    {g \in Chains({h \in ByForum(all) : Refusal(h, TRUE) = None}) : Refusal(g, TRUE) = None}

TitleGroups(all) ==
    {TitleMerging(g) : g \in {h \ Yielding(h, all) : h \in ByTitle(all)}} \ {{}}

(* As in a step that trusts its groups, and not what they chain.            *)
TitleChainsUnchecked(all) == Chains({h \in TitleGroups(all) : Cardinality(h) > 1})

TitleChains(all) ==
    {g \in Chains({h \in TitleGroups(all) : Cardinality(h) > 1}) : Refusal(g, FALSE) = None}

AbstractChains(all) ==
    {g \in Chains({AbstractMerging(h) : h \in ByAbstract(all, FALSE)} \ {{}}) :
        AbstractRefusal(g) = None}

-----------------------------------------------------------------------------
(* The not-merged rows, judged on the records that come out.               *)

Star(field, c, group) == {<<field, c.id, d.id>> : d \in group \ {c}}

ForumRows(all) ==
    UNION {Star("forum", First(g), g) : g \in ByForum(all)}

ElsewhereRows(all) ==
    UNION {LET same == {c \in all : f \in c.forums}
               first == First(same)
           IN  Star("elsewhere", first, {c \in same : c.id[1] # first.id[1]}) :
               f \in UNION {c.forums : c \in all}}

(* Those that yield, against the first that does not; those that cannot be   *)
(* the listed paper, against the listing; the rest, against the first.      *)
TitleRowsOf(group, all) ==
    LET yielding == Yielding(group, all)
        bucket == group \ yielding
        listings == {c \in bucket : c.listed}
        aside == IF listings # {} /\ Refusal(bucket, FALSE) # None
                 THEN {c \in bucket : NotTheListedPaper(c, bucket) # None} ELSE {}
        rest == bucket \ aside
    IN  UNION {IF bucket = {} THEN {} ELSE Star("title", First(bucket), yielding),
               IF aside = {} THEN {} ELSE Star("title", First(listings), aside),
               IF Cardinality(rest) < 2 THEN {} ELSE Star("title", First(rest), rest)}

TitleRows(all) == UNION {TitleRowsOf(g, all) : g \in ByTitle(all)}

AbstractRowsOf(group) ==
    LET out == {c \in group : AbstractAside(c, group) # None}
        aside == IF out = group THEN {} ELSE out
        rest == group \ aside
    IN  UNION {Star("abstract", First(rest), aside), Star("abstract", First(rest), rest)}

AbstractRows(all) == UNION {AbstractRowsOf(g) : g \in ByAbstract(all, TRUE)}

Pairs(r) == {{row[2], row[3]} : row \in r}

NotMergedRows(all) ==
    ElsewhereRows(all) \cup ForumRows(all) \cup TitleRows(all)
        \cup {row \in AbstractRows(all) : {row[2], row[3]} \notin Pairs(TitleRows(all))}

-----------------------------------------------------------------------------
(* Reconciliation with the proceedings crawled completely, none of them or   *)
(* any.                                                                    *)

Bare(r) == [r EXCEPT !.claims = {c \in @ : ~Absence(c)}]

Says(r, field) == Resolved(r.claims, field)

(* The tracks a crawl's listings hold; one that cannot say covers its record's.*)
Covered(all, crawl) ==
    UNION {{IF c.value = "unknown" THEN Says(r, "track") ELSE c.value :
              c \in {d \in r.claims : d.field = "track" /\ d.source = crawl[1]}} :
              r \in {s \in all : s.id[1] = crawl[2]}} \cap ProceedingsTracks

Names(r) ==
    LET c == Cluster(r.id, r.claims, {}) IN ({"title"} \X c.titles) \cup ({"forum"} \X c.forums)

Lists(r) == Cluster(r.id, r.claims, {}).listed

(* OpenReview says accepted, and nothing that decides acceptance says more.  *)
AcceptedByOpenReview(r) ==
    LET said == {c \in r.claims : c.field = "status"}
    IN  /\ Says(r, "status") = "accepted"
        /\ \E c \in said : c.source \in OpenReview /\ \A d \in said : Rank(c) <= Rank(d)

AbsenceClaim(source) ==
    [source |-> source, field |-> "status", value |-> "unknown", at |-> ListedAt, evidence |-> Absent]

Judging(r, all, crawls) ==
    {s \in Proceedings : <<s, r.id[1]>> \in crawls
                           /\ Says(r, "track") \in Covered(all, <<s, r.id[1]>>)}

SharesListing(r, all) ==
    \E s \in all : Lists(s) /\ s.id[1] = r.id[1] /\ Names(s) \cap Names(r) # {}

(* A record the listings should hold and do not loses its acceptance.       *)
Reconciled(r, all, crawls) ==
    IF AcceptedByOpenReview(r) /\ ~Lists(r) /\ ~SharesListing(r, all)
    THEN [r EXCEPT !.claims = Kept(@ \cup {AbsenceClaim(s) : s \in Judging(r, all, crawls)})]
    ELSE r

-----------------------------------------------------------------------------
(* What comes in: each record from one source, which gives it a status; the *)
(* abstracts of some are filled in from a conference's site.                *)
Text == {ValueOrder[i] : i \in DOMAIN ValueOrder}
Natives == Forums \cup Papers
Fields == {"title", "abstract", "track", "status", "venue_id", "forum", "proceedings"}
Claims ==
    [source : {TextOrder[i] : i \in DOMAIN TextOrder}, field : Fields, value : Text, evidence : Text, at : Nat]

From(r, s) ==
    /\ \E c \in r.claims : c.source = s /\ c.field = "status"
    /\ \A c \in r.claims :
          c.source # s => s \in {"dblp", "crossref"} /\ c.field = "abstract" /\ c.source \in {"icml_site", "facct_site"}

(* A note's crawler names no proceedings paper, a listing's only its own; no  *)
(* listing states that a paper was not accepted.                           *)
InputRecord(r) ==
    /\ r \in [id : VenueYears \X Natives, claims : SUBSET Claims] /\ IsFiniteSet(r.claims)
    /\ \E s \in {AcceptanceOrder[i] : i \in DOMAIN AcceptanceOrder} :
          /\ From(r, s)
          /\ r.id[2] \in Forums => s \in OpenReview \cup Imported
          /\ s \in OpenReview => r.id[2] \in Forums /\ Values(r.claims, "proceedings") = {}
          /\ s \notin OpenReview \cup Imported => Values(r.claims, "status") \subseteq Listable
    /\ r.id[2] \in Papers => Values(r.claims, "proceedings") \subseteq {r.id[2]}
    /\ \A c \in r.claims : ~Absence(c)

ASSUME InputsAssumption ==
    /\ ValueOrder \in Seq(Text) /\ VenueYears \cup Natives \subseteq Text
    /\ NoNative \notin Forums
    /\ {"unknown", Absent} \subseteq Text /\ ListedAt \in Nat
    /\ \A R \in Inputs : IsFiniteSet(R) /\ \A r \in R : InputRecord(r)

(* Dedup refuses a proceedings record that does not name itself.            *)
NamesItself(r) == r.id[2] \in Forums \/ r.id[2] \in Values(r.claims, "proceedings")

Init ==
    /\ records \in Inputs
    /\ \A r \in records : NamesItself(r)
    /\ complete = {}
    /\ phase = "ids" /\ run = 1
    /\ clusters = {} /\ before = 0 /\ merges = {} /\ rows = {}
    /\ asked = {} /\ linked = {} /\ last = <<{}, {}>>

(* Records of one id are one paper, from any source.                        *)
ById ==
    /\ phase = "ids"
    /\ clusters' = {Cluster(i, UNION {r.claims : r \in {s \in records : s.id = i}}, {i}) :
                       i \in {r.id : r \in records}}
    /\ merges' = {<<i, i>> : i \in {r.id : r \in {s \in records : \E t \in records \ {s} : s.id = t.id}}}
    /\ before' = Cardinality(clusters')
    /\ asked' = clusters' /\ linked' = {} /\ phase' = "link"
    /\ UNCHANGED <<run, complete, records, rows, last>>

Link ==
    /\ phase = "link"
    /\ Merge(LinkChains(clusters), "titles")
    /\ linked' = IF linked = {} THEN clusters' ELSE linked
    /\ UNCHANGED <<run, complete, before, records, rows, asked, last>>

JoinTitles ==
    /\ phase = "titles"
    /\ Merge(TitleChains(clusters), "abstracts")
    /\ UNCHANGED <<run, complete, before, records, rows, asked, linked, last>>

(* As in one pass of the three steps.                                       *)
JoinAbstractsOnce ==
    /\ phase = "abstracts"
    /\ Merge(AbstractChains(clusters), "write")
    /\ before' = Cardinality(clusters')
    /\ UNCHANGED <<run, complete, records, rows, asked, linked, last>>

(* Another pass, unless this one merged nothing.                            *)
JoinAbstracts ==
    /\ phase = "abstracts"
    /\ Merge(AbstractChains(clusters), IF Cardinality(clusters') = before THEN "write" ELSE "link")
    /\ before' = Cardinality(clusters')
    /\ UNCHANGED <<run, complete, records, rows, asked, linked, last>>

Write ==
    /\ phase = "write"
    /\ records' = {[id |-> c.id, claims |-> Kept(c.claims)] : c \in clusters}
    /\ rows' = NotMergedRows({Cluster(r.id, r.claims, {}) : r \in records'})
    /\ phase' = "reconcile"
    /\ UNCHANGED <<run, complete, clusters, before, merges, asked, linked, last>>

Reconcile ==
    /\ phase = "reconcile"
    /\ complete' \in IF run = 1 THEN SUBSET Crawls ELSE {complete}
    /\ LET bare == {Bare(r) : r \in records}
       IN  records' = {Reconciled(r, bare, complete') : r \in bare}
    /\ phase' = "done"
    /\ UNCHANGED <<run, clusters, before, merges, rows, asked, linked, last>>

Again ==
    /\ phase = "done" /\ run = 1
    /\ phase' = "ids" /\ run' = 2 /\ last' = <<records, rows>>
    /\ UNCHANGED <<complete, clusters, before, merges, records, rows, asked, linked>>

Next == ById \/ Link \/ JoinTitles \/ JoinAbstracts \/ Write \/ Reconcile \/ Again

Spec == Init /\ [][Next]_vars

-----------------------------------------------------------------------------
Ended(phases) == run = 1 /\ phase \in phases

(* A run over its own output, reconciled or not, merges nothing, gives the   *)
(* same records and reports the same pairs (dedup.py, reconcile.py).        *)
SecondRunChangesNothing ==
    run = 2 /\ phase = "done" => merges = {} /\ <<records, rows>> = last

(* However records come together, in one step or over passes: one venue and *)
(* year, one submission, one proceedings paper, one side of the track rule. *)
OnePaper(c) ==
    LET parts == {a \in asked : a.from \subseteq c.from}
    IN  Cardinality(parts) > 1 =>
          /\ Cardinality({a.id[1] : a \in parts}) = 1
          /\ Cardinality(UNION {a.forums : a \in parts}) <= 1
          /\ Cardinality(UNION {a.papers : a \in parts}) <= 1
          /\ (\E a \in parts : a.listed) => ~TracksDiffer(parts)

(* What a title or an abstract joined never keeps a status no listing has:   *)
(* no accepted import is lost to a rejected note.                           *)
StatusOutlived(c) ==
    Cardinality({a \in linked : a.from \subseteq c.from}) > 1 => c.status \in Listable

(* The link repeats with the other steps "though no later pass is known to   *)
(* link": none does, whatever a title or an abstract joined since.          *)
OnlyTheFirstPassLinks ==
    Ended({"link"}) /\ linked # {} => LinkChains(clusters) = {}

(* No two papers become one record, and no later link could make them one.   *)
NeverFoldsTwoPapers ==
    /\ Ended({"write"}) => \A c \in clusters : OnePaper(c) /\ StatusOutlived(c)
    /\ OnlyTheFirstPassLinks

(* What a takedown of an id reaches through this run's merge rows           *)
(* (takedowns.py::same_paper).                                             *)
Ids == {a.id : a \in asked}
GlobalNative == [i \in Ids |-> IF i[2] \in Forums THEN i[2] ELSE NoNative]
Reach == INSTANCE Takedowns WITH Ids <- Ids, Native <- GlobalNative

Out(i) == CHOOSE c \in clusters : i \in c.from
ForumsIn(c) == {i[2] : i \in c.from} \cap Forums

(* Each id that went in is an id that comes out, or the merged side of one   *)
(* row; and a takedown of any of them reaches the record its claims are in, *)
(* and no other but those of the same submission elsewhere.                 *)
EveryIdAccounted ==
    Ended({"write"}) =>
        LET out == {c.id : c \in clusters}
        IN  \A i \in Ids :
              /\ Cardinality({p \in merges : p[2] = i /\ p[1] # i}) = IF i \in out THEN 0 ELSE 1
              /\ Reach!SamePaper({i}, merges, out) =
                    {c.id : c \in {d \in clusters : i \in d.from \/ ForumsIn(d) \cap ForumsIn(Out(i)) # {}}}

Reported(g) == \A c \in g : \E d \in g \ {c} : {c.id, d.id} \in Pairs(rows)

(* Records that stay apart though they share a title or a submission are     *)
(* reported, except imports that all yield to their abstracts.              *)
NothingApartSilently ==
    Ended({"reconcile"}) =>
        LET all == {Cluster(r.id, r.claims, {}) : r \in records}
        IN  \A g \in ByForum(all) \cup ByTitle(all) : Reported(g) \/ Yielding(g, all) = g

(* The audit tells all: merges.csv leads from every id that went in to the   *)
(* record that holds its claims, over as many passes as it took, and         *)
(* conflicts.csv names whoever stayed apart (dedup.py::dedup, _refusals).   *)
AuditTellsAll == EveryIdAccounted /\ NothingApartSilently
=============================================================================
