---------------------------- MODULE ListingCrawl ----------------------------
(***************************************************************************)
(* One OpenReview venue-year's crawl and its replay: openreview_v2.crawl   *)
(* over the response cache of ingest/sources/http.py, run live by `op      *)
(* ingest openreview` under the source's lock and offline, with no lock,   *)
(* by `op snapshot build` (ingest/sources/common.py).                      *)
(*                                                                         *)
(* The server lists each venueid's notes sorted by number, PageSize to a   *)
(* page, every page stating the listing's count.  Notes move between       *)
(* listings and come and go while crawls run.  A run asks for one page at  *)
(* a time; between any two pages the server changes, time passes, another  *)
(* process reads or writes the cache, or the run dies.                     *)
(***************************************************************************)
EXTENDS Integers, SequencesExt, FiniteSetsExt

CONSTANTS
    Notes,       \* the submissions, by number
    Listings,    \* a sequence: the venueids, in the order they are crawled
    Submitted,   \* the notes the first listing may hold when the model starts
    PageSize,    \* notes to a page
    TTL,         \* how long a cached page stays fresh
    Ingesters,   \* the processes that run `op ingest openreview`
    Builder,     \* the process that runs `op snapshot build`
    Nothing,     \* no entry, no lock holder
    MaxClock, MaxChanges, MaxCrawls, MaxBuilds   \* bounds

(* An entry of the cache: a page, when it was fetched, and whether an older  *)
(* release left it.                                                        *)
Entries == [items : SUBSET Notes, count : Nat, at : Nat, raw : BOOLEAN]

(* A group's venueids are listed once each (`dict.fromkeys`).                *)
ASSUME CrawlAssumption ==
    /\ Listings \in Seq(Range(Listings)) /\ IsInjective(Listings)
    /\ Submitted \subseteq SUBSET Notes
    /\ Notes \subseteq Nat /\ IsFiniteSet(Notes)
    /\ PageSize \in Nat \ {0} /\ TTL \in Nat
    /\ Builder \notin Ingesters /\ Nothing \notin Ingesters
    /\ Nothing \notin Entries /\ Nothing \notin Range(Listings)

VARIABLES
    server,      \* listing |-> the notes it holds now
    deaf,        \* does the API ignore the offset?
    cache,       \* <<listing, page>> |-> the entry on disk, or Nothing
    clock,
    lock,        \* who holds the source's lock, or Nothing
    run,         \* process |-> how far its run has come
    moments,     \* history: listing |-> the sets of notes the server has listed
    finished,    \* what the crawls that wrote their marker returned, in order
    dirty,       \* history: was an entry written since the last crawl finished?
    changes, crawls, builds   \* counters of the bounds

crawlVars == <<server, deaf, cache, clock, lock, run, moments, finished, dirty,
               changes, crawls, builds>>

Crawlers == Ingesters \cup {Builder}
Venues == Range(Listings)

(* A full page that is not refused brings a new note, however the pages mix. *)
MaxPage == Cardinality(Notes)
Pages == 0..MaxPage

-----------------------------------------------------------------------------
(* What the server answers, and what the run makes of it.                  *)

(* Page k of a set of notes, at `offset = k * PageSize` sorted `number:asc`. *)
Rank(notes, n) == Cardinality({m \in notes : m < n})

Slice(notes, k) ==
    {n \in notes : Rank(notes, n) \in (k * PageSize)..(k * PageSize + PageSize - 1)}

PageOf(l, k) == Slice(server[l], IF deaf THEN 0 ELSE k)

Entry(l, k) == [items |-> PageOf(l, k), count |-> Cardinality(server[l]),
                at |-> clock, raw |-> FALSE]

Expired(entry) == clock - entry.at > TTL

(* A run: where it is, what it has counted of the listing, and what it holds *)
(* of them all.  Of its past: `again`, the pages it fetched again because    *)
(* they had expired or a refresh was asked for; whether the server moved; and *)
(* whether the cache was written under it.                                  *)
Idle == [pc |-> "idle", i |-> 0, page |-> 0, stale |-> FALSE, rows |-> 0, seen |-> {},
         counts |-> {}, got |-> {}, refresh |-> FALSE, again |-> {}, moved |-> FALSE,
         touched |-> FALSE]

(* A run at the start of listing i; `got` is what it holds of the others.   *)
At(i, got, r) ==
    [r EXCEPT !.pc = IF i > Len(Listings) THEN "read" ELSE "reading",
              !.i = i, !.page = 0, !.stale = FALSE, !.rows = 0, !.seen = {},
              !.counts = {}, !.got = got]

Listed(r) == Listings[r.i]

(* A page holding only ids already seen: the API ignored the offset.        *)
Repeats(r, entry) == entry.items # {} /\ entry.items \subseteq r.seen

(* A note of another listing read before, whose data names that listing.    *)
Conflicts(r, entry) ==
    \E n \in entry.items, l \in Venues \ {Listed(r)} : <<n, l>> \in r.got

(* As in a check of the rows and ids alone, whatever the pages counted.      *)
DisagreesInRows(r) == r.rows # Cardinality(r.seen)

(* The whole listing, once a short page ended it: rows, ids and counts.     *)
Disagrees(r) == r.rows # Cardinality(r.seen) \/ r.counts # {r.rows}

(* One page into the records (_pages, then _listing), and on to the next     *)
(* page, to the next listing, or to a CrawlError.                           *)
Take(r, entry) ==
    LET read == [r EXCEPT !.rows = @ + Cardinality(entry.items),
                          !.seen = @ \cup entry.items,
                          !.counts = @ \cup {entry.count},
                          !.got = @ \cup {<<n, Listed(r)>> : n \in entry.items}]
    IN  IF Repeats(r, entry) \/ Conflicts(r, entry) THEN [r EXCEPT !.pc = "refused"]
        ELSE IF Cardinality(entry.items) = PageSize THEN [read EXCEPT !.page = @ + 1]
        ELSE IF Disagrees(read) THEN [read EXCEPT !.pc = "refused"]
        ELSE At(r.i + 1, read.got, read)

-----------------------------------------------------------------------------
CrawlInit ==
    /\ \E held \in Submitted : server = [l \in Venues |-> IF l = Listings[1] THEN held ELSE {}]
    /\ deaf \in BOOLEAN
    /\ \E raw \in BOOLEAN :   \* an empty cache, or one an older release left
         cache = [at \in Venues \X Pages |->
                    IF raw THEN [items |-> {}, count |-> 0, at |-> 0, raw |-> TRUE] ELSE Nothing]
    /\ clock = 0 /\ lock = Nothing
    /\ run = [p \in Crawlers |-> Idle]
    /\ moments = [l \in Venues |-> {server[l]}]
    /\ finished = <<>> /\ dirty = FALSE
    /\ changes = 0 /\ crawls = 0 /\ builds = 0

Running(p) == run[p].pc \in {"reading", "read"}
Live(p) == p \in Ingesters
Continues(p, r) == run' = [run EXCEPT ![p] = r]
Ends(p) == lock' = IF Live(p) THEN Nothing ELSE lock

(* Crawls.ingest: the lock is held for the whole run.                       *)
StartIngest(p) ==
    /\ Live(p) /\ ~Running(p) /\ lock = Nothing /\ crawls < MaxCrawls
    /\ \E refresh \in BOOLEAN : Continues(p, At(1, {}, [Idle EXCEPT !.refresh = refresh]))
    /\ lock' = p /\ crawls' = crawls + 1
    /\ UNCHANGED <<server, deaf, cache, clock, moments, finished, dirty, changes, builds>>

(* Crawls.replay: a marked crawl again, with no lock and no transport.      *)
StartReplay ==
    /\ ~Running(Builder) /\ finished # <<>> /\ builds < MaxBuilds
    /\ Continues(Builder, At(1, {}, [Idle EXCEPT !.touched = dirty]))
    /\ builds' = builds + 1
    /\ UNCHANGED <<server, deaf, cache, clock, lock, moments, finished, dirty, changes, crawls>>

Wanted(p) == <<Listed(run[p]), run[p].page>>
Cached(p) == cache[Wanted(p)]

(* As in a listing fetched again only where its pages have expired.          *)
AsksForExpired(p) == run[p].refresh

Asks(p) == run[p].refresh \/ run[p].stale

(* As in a client that expires pages offline too.                            *)
HitFresh(p) == Cached(p) # Nothing /\ ~Cached(p).raw /\ ~Asks(p) /\ ~Expired(Cached(p))

(* May the cached entry answer? Offline nothing expires; live, a listing is *)
(* fetched again from its first expired page on.                            *)
Hit(p) ==
    /\ Cached(p) # Nothing /\ ~Cached(p).raw /\ ~Asks(p)
    /\ Live(p) => ~Expired(Cached(p))

(* A run that is over: of a replay its result stays.                         *)
Over(p, how) == IF Live(p) THEN Idle ELSE [run[p] EXCEPT !.pc = how]

(* A page from the cache, and what the run makes of it: a refused listing    *)
(* ends the run and gives up the lock.                                      *)
TakeCached(p) ==
    /\ run[p].pc = "reading" /\ Hit(p)
    /\ LET next == Take(run[p], Cached(p))
       IN  /\ Continues(p, next)
           /\ IF next.pc = "refused" THEN Ends(p) ELSE UNCHANGED lock
    /\ UNCHANGED <<server, deaf, cache, clock, moments, finished, dirty,
                   changes, crawls, builds>>

(* A page from the server, kept in the cache before it is looked at.  An     *)
(* entry of the layout before the public projection is removed first.       *)
Fetch(p) ==
    /\ run[p].pc = "reading" /\ ~Hit(p) /\ Live(p)
    /\ LET entry == Entry(Listed(run[p]), run[p].page)
           aged == ~Asks(p) /\ Cached(p) # Nothing /\ ~Cached(p).raw
           again == IF aged \/ run[p].refresh THEN {Wanted(p)} ELSE {}
           next == Take([run[p] EXCEPT !.stale = @ \/ aged, !.again = @ \cup again], entry)
       IN  /\ cache' = [cache EXCEPT ![Wanted(p)] = entry]
           /\ run' = [run EXCEPT ![p] = next, ![Builder].touched = TRUE]
           /\ IF next.pc = "refused" THEN Ends(p) ELSE UNCHANGED lock
    /\ dirty' = TRUE
    /\ UNCHANGED <<server, deaf, clock, moments, finished, changes, crawls, builds>>

(* Offline, a page that is not cached, or is of the older layout, is an      *)
(* error; live, a fetch may fail, and the page's older entry stays.         *)
Fails(p) ==
    /\ run[p].pc = "reading" /\ ~Hit(p)
    /\ Continues(p, Over(p, "failed"))
    /\ Ends(p)
    /\ UNCHANGED <<server, deaf, cache, clock, moments, finished, dirty,
                   changes, crawls, builds>>

(* The process is killed: the lock goes with it, the cache stays.           *)
Dies(p) ==
    /\ Running(p)
    /\ Continues(p, Over(p, "idle"))
    /\ Ends(p)
    /\ UNCHANGED <<server, deaf, cache, clock, moments, finished, dirty,
                   changes, crawls, builds>>

(* Every listing is read: an ingest writes its marker and lets go.          *)
Finish(p) ==
    /\ run[p].pc = "read"
    /\ Continues(p, Over(p, "done"))
    /\ Ends(p)
    /\ IF Live(p)
       THEN dirty' = FALSE /\ finished' = Append(finished, run[p].got)
       ELSE UNCHANGED <<dirty, finished>>
    /\ UNCHANGED <<server, deaf, cache, clock, moments, changes, crawls, builds>>

-----------------------------------------------------------------------------
(* The server: between two requests any notes appear, move or go away.      *)
Change ==
    /\ changes < MaxChanges
    /\ \E at \in [Notes -> Venues \cup {Nothing}] :
         server' = [l \in Venues |-> {n \in Notes : at[n] = l}]
    /\ server' # server
    /\ moments' = [l \in Venues |-> moments[l] \cup {server'[l]}]
    /\ run' = [p \in Crawlers |-> [run[p] EXCEPT !.moved = @ \/ Running(p)]]
    /\ changes' = changes + 1
    /\ UNCHANGED <<deaf, cache, clock, lock, finished, dirty, crawls, builds>>

Tick ==
    /\ clock < MaxClock
    /\ clock' = clock + 1
    /\ UNCHANGED <<server, deaf, cache, lock, run, moments, finished, dirty,
                   changes, crawls, builds>>

CrawlNext ==
    \/ \E p \in Crawlers :
         StartIngest(p) \/ TakeCached(p) \/ Fetch(p) \/ Fails(p) \/ Dies(p) \/ Finish(p)
    \/ StartReplay \/ Change \/ Tick

CrawlSpec == CrawlInit /\ [][CrawlNext]_crawlVars

-----------------------------------------------------------------------------
(* A replay of a cache nobody wrote to since its crawl finished, or while it *)
(* ran, never fails and gives what that crawl gave, however old the pages    *)
(* are by then ("a snapshot is a function of the cache").                   *)
OfflineReplaysCrawl ==
    LET r == run[Builder]
    IN  ~r.touched =>
          /\ r.pc \notin {"failed", "refused"}
          /\ r.pc = "done" => r.got = Last(finished)

(* With --refresh, and a server that stands still meanwhile, whatever is in  *)
(* the cache: the listing is never found to have changed, and the crawl      *)
(* gives what the server lists ("re-run with --refresh to fetch it again").  *)
RefreshRepairs ==
    \A p \in Ingesters :
        LET r == run[p]
        IN  r.refresh /\ ~r.moved /\ ~deaf /\ r.pc \in {"refused", "read"} =>
              r.pc = "read" /\ r.got = {note \in Notes \X Venues : note[1] \in server[note[2]]}

(* What a run holds of a listing.                                           *)
Holds(got, l) == {n \in Notes : <<n, l>> \in got}

(* A listing whose first page had expired, or is refreshed, is read anew to   *)
(* its end: no page of the cache answers for it, fresh as it may be, and     *)
(* however the crawls before were cut short (openreview_v2.py:356-365).     *)
ExpiredListingsAreReread ==
    \A p \in Ingesters, l \in Venues :
        LET r == run[p]
        IN  r.pc = "read" /\ ~r.moved /\ ~deaf /\ <<l, 0>> \in r.again =>
              Holds(r.got, l) = server[l]

(* An API that ignores the offset is refused, never looped on: no run asks   *)
(* for a page past the one after the last.                                  *)
OffsetBounded == \A p \in Crawlers : run[p].page <= MaxPage

(* Whatever the cache or the server holds and whoever died before: a crawl    *)
(* asked to refresh ends with what is listed, a listing read anew is read    *)
(* anew to its end, and no crawl goes on for ever (openreview_v2._pages).    *)
ListingsAreWhole == RefreshRepairs /\ ExpiredListingsAreReread /\ OffsetBounded

(* As many notes as were listed there at some moment, each of them listed at  *)
(* a moment that had as many.                                              *)
CountKept(listed, held) ==
    LET asMany == {m \in listed : Cardinality(m) = Cardinality(held)}
    IN  asMany # {} /\ held \subseteq UNION asMany

(* Pages of several moments may meet in a crawl, or in a replay while one     *)
(* writes.  Whatever is read to its end keeps the count of every listing: a  *)
(* mix is not told apart only where a note came for every one that went      *)
(* (openreview_v2.py:611).                                                 *)
MixesKeepTheCount ==
    LET read == {p \in Crawlers : run[p].pc \in {"read", "done"}}
    IN  \A got \in Range(finished) \cup {run[p].got : p \in read}, l \in Venues :
            CountKept(moments[l], Holds(got, l))

(* What the code says of it: "once one page has expired, every later page is *)
(* fetched again too, so the pages come from one moment" (openreview_v2.py:  *)
(* 356-358).  The earlier pages are not fetched again.                      *)
OneMoment ==
    \A p \in Ingesters, l \in Venues :
        LET r == run[p]
        IN  r.pc = "read" /\ ~r.moved /\ (\E k \in Pages : <<l, k>> \in r.again) =>
              Holds(r.got, l) \in moments[l]
=============================================================================
