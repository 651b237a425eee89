# Formal models of openproceedings

TLA+ models of openproceedings: the server's index state, its limits and
slots, the directory of indexes and the record store on disk, the crawls, the
merging of their records, the threads a search runs on, and the query language
from lexemes to counted hits.
TLC checks them on small instances; TLAPS proves the safety properties that
matter most of all but the query language for every value of the constants.

Source paths below are under `src/backend/src/openproceedings/`.

## The system

`op` crawls sites into a *response cache*, builds *snapshots* of paper records
from it, and builds an *index* (a Tantivy directory, named by its
index_version, immutable) from a snapshot. It serves one index over HTTP. An
operator promotes an index by pointing the `current` symlink at it and sends
SIGHUP. A query is parsed, given default filters, made canonical and compiled
for the engine; the search counts its hits, facets, exclusions and concept
groups. A user may save a search as a *record*, which pins the index it was
made on; a record can be replayed, or an export made, on any pinned version the
instance still has. An operator's *takedown list* withholds abstracts from
every response.

| Component | State | Operations | Interacts with | Hard behaviours | What makes it correct |
|---|---|---|---|---|---|
| Pinned versions (`api/state.py`) | LRUs of engines and snapshot records, three maps of refusals, `_opening` (a lock per version being opened), the one open slot | `pinned`, `pinned_records`, a reload's clearing | disk (reads), served index, every request thread | threads between two locks, waits that time out, a disk and a reload that change under an open | one open at a time; no lock left held; a fault is not pushed out by harmless refusals; every request answered |
| Served index (`api/state.py`, `takedowns.py`, `ingest/snapshot.py`) | the bundle: version, list, merges, match table; loads waiting; builds queued | `load`, SIGHUP, table builds, restart | disk, the operator, requests (one reference read) | a load is several looks at a disk that changes; it fails at each of them; builds queue behind swaps | takedowns lifted by the list alone; the latest list applies even when the index fails; a bundle is of one piece; its table comes up |
| Directory of indexes (`engine/index.py`, `storage.py`, `cli.py`) | index directories, set-aside and `.tmp-` directories, the lock file, `current` | `op index build`, `op index retire`, sweep, promotion, recovery by hand | record store (pins), API (loads, saves) | crashes between renames, saves and promotions that take no lock | nobody finds half an index; what a record pins or `current` names is never lost |
| Rate limit (`api/middleware.py`, `api/records.py::SaveCeiling`) | a token bucket per client and per network, a bounded number of them | take, charge, refund, debit, evict | every route | several buckets taken together, refunds and debits long after the charge, eviction in between | nothing minted, debts kept, refusals free, Retry-After honest |
| Comparisons (`api/compare.py`) | slots, the networks running, a pause per network in a map and a heap with stale entries | enter, leave, take and release a slot | match table, rate limit | four exits between four awaits; pauses forgotten at a bound | slots never leak; no network locked out; a network's share of a slot bounded |
| Record store and replay (`records.py`, `api/records.py`) | SQLite rows and id sets; whether this process made the tables; the memo of removal causes | save, read, replay, diff | rate limit, served and pinned indexes, an operator at the file | a save fails at seven places after it was charged; concurrent saves against the room; reloads, upgrades and hand edits between a save and its replay | saves limited and never leaked; a replay's status is that of the run that happened; the memo says what a replay would |
| Verification slot and clause memos (`api/state.py`, `engine/tantivy_engine.py`, `engine/compile.py`) | a semaphore; a scope per request; two memos with lock-free ledgers | compile, verify, trim | search threads | memos cleared by other requests between a caller's compile and its worker's | workers never verify; nothing verified twice; the budget holds |
| Group counting (`search.py`, `engine/tantivy_engine.py`) | the pool's queue, the count of waiting jobs, trees and bitmaps shared by two threads | submit, count, help, give up, cancel | verification, search routes | timeouts and failures while two threads share a search's trees | counts whole or not given; queued jobs before helpers; no lock-up |
| Query language (`query/`) | none | parse, canonicalise, apply defaults, render, report clauses | routes, records, frontend | edits by the program of text a user typed | nothing dropped; canonical forms, readings and clicks keep the search |
| Engine (`engine/`) | the immutable index | compile, verify positions, facets, exclusions | search | the compiled query against the reference engine's definition | the engine matches what the reference does; exclusions add up |
| Crawls and sources (`ingest/sources/`) | a response cache, the source's lock, the client's waits, the OpenReview session | ingest, refresh, offline replay, retry, log in | remote sites, disk | listings that change between pages; kills; expiry page by page; waits a server names | an offline replay gives what the crawl gave; a refresh repairs; waits kept and bounded; every request ends |
| Deduplication, reconciliation (`ingest/dedup.py`, `reconcile.py`) | clusters of records | merge on ids, forum ids, titles, abstracts, until nothing merges; report what did not; judge acceptance | crawls, snapshots, takedowns (merge rows) | merges over several steps and passes, each of which may drop the claim that kept a group apart; keys that chain | no two papers folded into one; a second run changes nothing; the audit files account for every id |
| Snapshots (`ingest/snapshot.py`) | snapshot directories | write, place, read | deduplication, index build, server | none concurrent | the same snapshot from the same cache |
| Routes, assembly, CLI, logs, evaluation, frontend, deployment | none that outlives a call | | | | |

`PROJECT.json` lists each with its status, and `hazards` the places where they
can go wrong.

## The modules

```
OrderedDicts ---- PinnedIndexes -------------- MCPinnedIndexes, PinnedIndexes_proofs
Replays --------- Records -------------------- MCRecords, Records_proofs
Takedowns ------- ServedIndex ---------------- MCServedIndex, ServedIndex_proofs
HeldIndexes <= (implements) IndexStore ------- MCOpCommands, OpCommands_proofs
                  RateLimit ------------------ MCRateLimit, RateLimit_proofs
                  Comparisons ---------------- MCComparisons, Comparisons_proofs
                  Verification --------------- MCSearchThreads, SearchThreads_proofs
                  GroupCounting -------------- MCSearchThreads, SearchThreads_proofs
                  HttpClient ----------------- MCHttpClient, OpCommands_proofs
                  ListingCrawl --------------- MCListingCrawl, MCOpCommands, OpCommands_proofs
PaperClaims ----- Dedup ---------------------- MCDedup, Dedup_proofs
Takedowns -------/
QueryTrees ------ QueryParsing --- FilterClauses --- Queries --- MCQueries
          \------ QueryMatching --------------------/
```

An MC module gives the constants values and the symmetry; a `_proofs` module
holds the theorems. In each component's module some operators are a definition
with a plausible mistake, and are named for it (`SweepAll` beside `Sweep`);
they take no part in the specification, and show that the property they are
listed with can fail.

### PinnedIndexes

One process per request thread. A step is one critical section of
`_cache_lock`, one operation on a lock, or one look at the disk, so threads,
reloads and the operator come between any two. `pc` names where the thread is
in `pinned()` (`lookup`, `enter`, `lock`, `recheck`, `resolve`, `slot`, `open`,
`remember`, `release`, `forget`) and in `pinned_records()` (`lookupRecords`,
`slotRecords`, `verify`).

- `_pinned`, `_pinned_records`, `_refused`, `_absent`, `_records_refused` are
  the variables `pinned`, `pinnedRecords`, `refused`, `absent`,
  `recordsRefused`: OrderedDicts as sequences (module `OrderedDicts`, which
  models Python's class from how the code calls it).
- `_opening` is `opening`; a lock is an identity in `Locks`, free to be made
  again once nothing refers to it; `holder` says which thread has it. Waits end
  in `TakeLock`/`TakeSlot` or, while the lock is taken, in `LockTimeout`/
  `SlotTimeout`: how long a wait lasts is left open.
- `disk` is what opening a version would find: intact, absent, not loadable,
  not verifying. `ChangeDisk` may turn any into any other.
- A reload is two steps, `ClearRefusals` and `FinishReload`; what it decides to
  serve in between is ServedIndex's subject, and any intact version here.

### ServedIndex

A load is a list read (`ReadList`), a look at `current` (`ResolveServed`,
`ResolveOther`), an open (`Open`) and a swap (`Swap`); the operator may change
the disk between any two. A bundle is made (`Make`), its merges read, in the
step before the swap, so a snapshot placed or damaged between the two is not
seen. Each step has the code's failure branches: `Fail` is the `except` of
`_load`, which may leave the index to be kept with the new list
(`KeepIndexTakeList`). Loads take turns (`_reloading`): `loader` is where the
current one stands, `waiting` how many were asked for. `Restart` is a crash or
a redeployment: only the disk is left.

The takedown list is a set of ids; `Takedowns` says which ids of a version are
the same paper as a listed one, by the closure `same_paper` computes (defined
as what every closed set contains, not by the code's work list). A table's
build is `StartBuild` and `FinishBuild`; builds take turns in no fixed order,
as threads waiting for a `threading.Lock` do.

Twin claims link records as merges do and are not told apart from them. A
snapshot whose merges.csv is damaged is skipped alone (`WholeMerges`). A disk
whose directory listing comes back is not modelled, nor a snapshots directory
missing altogether. `stood` is a history variable: the snapshots on disk when
the load under way began.

### IndexStore and HeldIndexes

One process per `op` command, running builds and retires one after the other.
Each rename, sweep, check and removal is a step. `Kill` (SIGKILL, power) is
enabled everywhere and runs no handler; `InterruptRetire` and `FailBuild` are
the exceptions, whose handlers run. `Recover` is the `mv` a refused retire asks
the operator for, taken when no command holds the lock, as its message demands.
Record saves are three steps (`BeginSave`, `Freeze`, `Insert`) and promotions
one; neither takes the lock. The record store is the set `pinned`.

A directory's content is absent, partial, whole, or whole and read-only. Which
documents it holds is left out: an index_version is a hash of what goes in.

`HeldIndexes` is what all this promises: versions come and go in one step, and
never go while a record that was saved against them, or `current`, names them.
`IndexStore` implements it under the mapping at its end: `held` is what stands
under its name or waits in `.retiring-<v>`, `pins` and `link` are the history
variables `pinnedHere` and `linkedHere`, which record the pins and promotions
made while the version stood under its name. (A promotion or a save of a
version that is not there promises nothing: the code cannot prevent it.)

### RateLimit

Two levels of buckets (client and network; for the save ceilings instance and
network). `take_each` holds both locks, so a take is one step; `refund` and
`debit` take one bucket's lock at a time, so they are a step per level, with
other requests between; so is the second look a refused charge takes to tell
its Retry-After (`TellWait`). A token is one clock tick of refill. The two
debits after a request (verification, comparison) are one here. The client
address parsing behind `Key` is left out: it is a function of the request.

### Comparisons

One record per request: `pc` is `idle`, `reading` (its file arrives),
`comparing`, `encoding`. The handlers share one event loop, so a step is what a
handler does between two awaits: `Begin` enters the cooldown and takes a slot,
`NoSlot` enters, finds none and leaves, `Compared` is the leaving before the
answer is encoded, `Fail` the `finally` of a comparison that did not get that
far, `Encoded` the `finally` of one that did. What is admitted, whether the
match table is up, and what is compared are left out.

`gate` is a `Cooldowns`: `running` is `_running`, `until` is `_until`, and
`soonest` the heap, as the set of its entries: a heap says which entry is
least, and nothing else about its order is looked at. The loop of `leave` pops
in that order until nothing is over and the bound is met; `Left` says what it
leaves as the largest tail of the heap that meets both. The heap's rebuilding
is in `Forgotten`, with its 64 as the constant `HeapSlack`. Time is in ticks;
the rate limit is on, so that each request has a network.

`account` is a history variable: of each network, the slot time its
comparisons counted when they left, since a pause of its was forgotten early.

### Replays and Records

`Replays` holds what a record freezes and what a replay says of it, as
functions: `Frozen` is `freeze`, `Status` the outcome of `replay` and `_run`,
`Refusal` what keeps a run from happening, `Changed` is `changed_inputs`,
`Removals` the causes of a diff. An index never changes under its version, so a
search is a function of version, canonical query and query version; the
constants tabulate it. A record keeps what was typed (`input`, which stands for
how and when too) and what its snapshot's manifest told (`facts`); a replay
compares neither, and `Compared` names what it does. The canonical of a query
that was accepted may be unreadable (see the divergences).

`Records` is the store and its routes. A save is `TakeSave` (the ceiling's
token), `Freeze`, `CheckRoom`, `FindTables` or `CreateFile` and `CreateTables`
(`_ensure`, under the store's lock `creating`), `Connect`, and `Insert` or
`Redraw`; `SaveFails` is every exception on that way with the refund
`create_record` makes of it. `conn` says which file a connection has: the
operator's `RemoveFile` leaves it with a removed one. A diff answers from the
memo (`DiffFromMemo`), or works its causes out with no lock held
(`WorkOutRemovals`) and stores them (`StoreRemovals`). `Reload`, `ChangeKept`
(a retire, or an index put back), `Restart` (also with newer code), and
`Forge` (any one column or field of a record written to by hand) are the world.
Both save ceilings are one, in a time too short for a refill: RateLimit has the
buckets. The store's size is counted in rows.

### Verification

One request is a caller and its facet worker. The caller compiles the whole
query, starts the worker, which compiles the base, compiles again for its page,
and last compiles the base for the exclusions. A thread's `at` walks through
`compile`: a look into the compiled memo, clause by clause through `Overlay.get`
(`LooksUp`), a verification under a slot not waited for (`EntersGate`,
`Verifies`, `PastDeadline`), and `_store_verified` with one step per single
operation, because none of it holds a lock: `Sums`, `Trims` (two steps, ledger
and memo), `StoresMemo`, `ReadsLedger`, `Charges`. A charge to a ledger that
was swapped out meanwhile is lost. The ids of a clause are its weight.

### GroupCounting

A search's caller (`pc`) submits a counting job to a pool of two workers,
collects its page, waits a grace for the job to start and a limit for it to
end; either may pass at any time. The job (lead) offers a helper to the pool;
both take trees from one `_Shared` (`shared`), and collect each conjunct's
bitmap once (`_Parts`: `matched`, `collecting`). `queue` is the executor's,
`waiting` is `_WAITING`, which helpers look at before each tree. Any collection
may fail; the pool may refuse a job or a helper. A tree is a number and what it
counts is left out: that it is counted, once, and by whom is what is modelled.

### HttpClient

One client under the rules of one source. Requests go one at a time, so all
time is relative: `since` the last exchange, `owed` how long the server asked
to be left alone, `sleep` what the client still sleeps. An answer is `Retry`
(429 or 5xx or a lost connection), `Answer`, `SpentAnswer` (a 200 that spent the
budget), or `Other`; `Refused` is a 401 or a page that is not JSON, with the one
login it is allowed. `Restart` ends a crawl anywhere; the next has a new client.
A back-off's jitter is any amount up to the policy's.

### ListingCrawl

One OpenReview venue-year. The server lists each venueid's notes sorted by
number, `PageSize` to a page; notes appear, move and go (`Change`) between any
two requests, and the server may ignore the offset altogether (`deaf`). A run
reads each listing page by page, from the cache (`TakeCached`) or the server
(`Fetch`), with the expiry of a cached page, the flag that a listing has to be
fetched again from its first expired page on (`stale`), and the three
consistency checks of `Take`. `again` and `moments` are history: the pages a run
fetched
again because they had expired or a refresh was asked for, and what each listing
has held. A page is the notes whose rank in the listing
(`Rank`, how many come before) is the page's (`Slice`). A full page that is
taken brings a note not seen before, so there are no more pages than notes
(`MaxPage`). Runs fail (`Fails`), are killed (`Dies`) or write
their marker (`Finish`). Ingests hold the source's lock, the builder's replay
takes none. An entry of the layout of an older release is refused offline and
removed when it is fetched again.

### PaperClaims and Dedup

`PaperClaims` is what a cluster of records is for the rules, and the rules:
which claims it keeps (`Kept`, one per field and source, the newest) and what
they resolve to (`Resolved`, by PRECEDENCE), its side of the track rule
(`Family`), and whether clusters may share a record (`Refusal` is `_mergeable`,
`TitleMerging` is `_merging`, `AbstractAside`, `AbstractRefusal` and
`AbstractMerging` are step 3's). A claim is a record of source, field, value,
time and evidence; a title stands for its key, an abstract for its digest, a
URL for the forum or the paper it names.

`Dedup` runs them: `ById` is step 1, `Link`, `JoinTitles` and `JoinAbstracts`
are one pass, repeated until it merges nothing, `Write` resolves the records
and judges the not-merged rows on them, `Reconcile` adds the absence claims,
for any choice of the proceedings crawled completely. `Again` then hands what
came out to a second run. A step's merges are the chains its groups form
(`Chains`, by the closure that `_Clusters` computes), each checked again as a
whole. Clusters are sets and order is by id, as the code sorts, so nothing
depends on the order of the input. `asked` and `linked` remember the clusters
before the merging steps. Rows have no reason, merges no key; conflict rows on
values, and what the ingest caps cut, are left out.

`InputRecord` is what a source may hand in: claims of one source, which gives
the record a status, and for dblp and crossref an abstract filled in from the
conference's own site (each `sources/*.py::_record`, `ris.py::_record`; fills
of OpenAlex and the AAAI library come after deduplication). A note's crawler
claims no proceedings URL, a listing's gives every paper `accepted`
(`statuses.py`), and a record named after a paper names no other.

### QueryTrees, QueryParsing, FilterClauses, QueryMatching, Queries

`QueryTrees` has the trees and what is done with one before it runs: the
canonical form, default filters, concept groups, and rendering to lexemes.
`QueryParsing` is the native-mode parser as a recursive descent over lexemes
that reports mistakes and reads on, with the parenthesised readings its
warnings offer for a level that mixes AND and OR. `FilterClauses` is each
filter field's clause and the splice or wrap a facet click makes of it.
`QueryMatching` says what a tree matches twice, as the reference engine defines
it and as the engine compiles, verifies positions, counts facets and
exclusions. `Queries` types lexemes one by one and lets the program edit the
query: `Click`, `LoadReading`, `Replay`. Characters, years, and Scholar mode are
left out; a word is a sequence of items, so a word the tokenizer empties
(`Plus`) and wildcards (`w`, which allows two tokens) are there.

These modules use RECURSIVE operators, as parser and trees are recursive, and
are only model-checked.

## What the runs check

Each passing run is an exhaustive search of the instance its .cfg gives. Two
runs, `one_moment` and `canonical_replays`, check what a comment of the code says
of it, and end in a counterexample: they are the first two divergences below.
`op_commands` and `search_threads` each hold two modules that share no file, lock
or variable: a behaviour moves one of them (`part`) while the other rests at its
start, so that each is searched as in a run of its own.

| Run | Instance | Properties | What it shows |
|---|---|---|---|
| `pinned` | 2 threads, 2 versions, caches of 1, one of them asking for records too, 1 tick, 1 change of disk or reload, fairness | `OneOpenAtATime`, `LocksComeBack`, `FaultsOutliveAbsents`, `EveryRequestAnswered` | engine and snapshot opens never overlap; no lock is left held or orphaned, whatever times out; absent names never evict a remembered fault; every request is answered |
| `served` | 2 versions, 3 ids, 3 loads, 3 operator changes, fairness | `LatestListApplies`, `TakedownsHold`, `OtherIdsStayWithheld`, `ReloadsSettle` | takedowns are lifted by nothing but a list that exists; the latest list applies though the index fails; whatever is placed or damaged during a load, the other ids of a listed paper by the snapshots that stood when it began, or that the last bundle followed, are withheld; loads end; the served table is built or reported failed |
| `op_commands` | the directory: 2 commands at once, 3 in all, 2 versions, 2 savers, 3 promotions or reloads; the crawl: 3 notes, 2 listings, page size 1, TTL 1, 2 ingesters and a builder, 2 ticks, 1 change, 2 runs, 1 build | `IndexesKept`, `AsideNeverSwept`, `ImplementsHeldIndexes`, `OfflineReplaysCrawl`, `ListingsAreWhole`, `MixesKeepTheCount` | no half index; pinned and promoted indexes kept; sweeps touch nothing live; the implementation of HeldIndexes; a replay of an untouched cache gives what the crawl gave; a refresh gives what is listed, a listing whose first page expired is read anew to its end, and no API is looped on; pages of several moments pass for one listing only with the count, and the notes, of moments that had as many |
| `rate` | 2 requests at once, 3 clients of one network, room for 2 clients, capacities 2 and 3, 1 tick | `NoTokenMinted`, `EvictionHolds`, `RefusalsHold` | nothing minted; refusals free and Retry-After enough; the bounds hold and debtors are evicted last |
| `comparisons` | 3 requests, 3 networks, 2 slots, factor 2, uploads counted twice, 2 pauses remembered, 5 ticks | `EntriesComeBack`, `SharesHold`, `SoonestForgotten` | slots come back once on every path and a network is marked as running exactly while it runs; the heap finds every pause, and shares are kept; pauses are forgotten soonest first |
| `records` | 2 threads, 3 ids, 2 versions, 2 queries, 3 saves, room for 1 row, 2 tries, 2 query versions, 2 events of the world | `SavesLimited`, `HonestReplays`, `ReplayIsExact`, `MemoSound` | no save leaks and the room is passed by no more than the saves under way; a record this code stored is a mismatch just when its canonical no longer reads back; any row, edited or not, reproduces just when every field compared is what a new save would store; memo entries are a fresh replay's, within both bounds |
| `one_moment` | the crawl, 1 ingester, 3 runs, no build | `OneMoment` | violated: a crawl keeps an old first page beside a refetched later one, a set of notes never listed |
| `http` | 2 kinds of policy, 3 attempts, waits shorter and longer than allowed, fairness | `WaitsHold`, `RequestsEnd` | named waits are kept, and none is longer than allowed; every request ends |
| `search_threads` | verifying: 2 requests, 3 clauses (one with no candidate), 1 slot, no budget; counting: 2 searches, 2 workers, 2 trees that share a conjunct | `WorkersNeverVerify`, `VerifiedOnce`, `MemoBounded`, `QueuedJobsFirst`, `CountsAreWhole`, `PoolNeverLocksUp` | whatever the memos forget, workers never verify and nothing is verified twice; the memo's budget holds; the waiting count is exact and a queued job is overtaken by one tree of each helper at most; counts are whole or not given, and nobody counts on after the answer; no lock-up |
| `query` | queries of 4 to 7 lexemes from six alphabets, three more that begin with a pasted text, 8 papers, depth 3, length 20 | `RunsWhatWasTyped`, `ExclusionsAddUp`, `ReplaysUnlessTooDeep`, `ReadingsKeepMeaning`, `ClicksEditOneClause` | every word typed is in the tree; the engine's hits are the reference's; exclusions add up; a replay fails just when the canonical form nests too deep, never for its length and never as another search; readings and clicks keep the search |
| `canonical_replays` | as `query` | `ReplaysTheSame` | violated: the canonical form of an accepted query nests deeper than a query may |
| `dedup` | 8746 sets of up to seven records: notes, listings and imports of 3 venue-years, 2 submissions, 2 papers, 3 titles, 2 abstracts; any completed crawls; two runs | `SecondRunChangesNothing`, `NeverFoldsTwoPapers`, `AuditTellsAll` | a second run merges nothing, gives the same records and reports the same pairs; what came together, over steps and passes, is of one venue-year, one submission, one proceedings paper and one side of the track rule, and takes no rejected record's status from an import; merge rows lead from every id to the record that holds its claims, and who stayed apart is reported; no pass after the first links anything |

Several properties are conjunctions, one per question with its parts named:
`LocksComeBack` (the holder of a lock is the thread standing there; a lock of
`_opening` has an owner), `TakedownsHold`, `IndexesKept` (no half index, the
pinned and the promoted kept, live staging kept), `EvictionHolds` (the bounds,
and debtors last), `RefusalsHold`, `EntriesComeBack`, `SharesHold`,
`SavesLimited`, `ReloadsSettle` (loads end, and the served table is built or
reported failed), `ListingsAreWhole` (a refresh repairs, an expired listing is
read anew to its end, no offset runs away), `WaitsHold`, `QueuedJobsFirst`,
`RunsWhatWasTyped` (`NothingDropped` is its first part), `AuditTellsAll`
(`EveryIdAccounted`, `NothingApartSilently`).

Why these bounds are enough to be interesting:

- `pinned`: caches of one entry and two versions make every insertion an
  eviction; two threads with the operator and the reload reach every pair of
  steps. It starts with no bundle, one version tampered with and the other
  sound or absent (`MCFairSpec`); a change or a reload leads to every other
  pair.
- `served`: three loads and three changes let a list be applied, a snapshot be
  placed while a load runs, an index fail or be rolled back, and a list change in
  between.
- `op_commands`, the directory: three commands let one finish what a killed one
  left while a third runs.
- `rate`: two clients of three fit, so each new one evicts; a debt, a refill
  and a recovery fit into the capacities.
- `comparisons`: five ticks let a network compare, pause, come back while its
  old heap entry is still there, and pause again; three networks and two
  remembered pauses make one be forgotten early; three requests and two slots
  make one be refused.
- `records`: room for one row makes the second save refuse and two at once
  overshoot; the two versions differ in tokenizer, papers, tracks and
  exclusions, and one query is refused on one of them and no longer parses
  with the newer code.
- `op_commands`, the crawl: with pages of one note a listing has as many pages
  as notes and a short last one; two runs let the second meet what the first left, killed or
  whole, fresh or expired.
- `http`: the waits lie below, at and above the back-off and the most allowed.
- `search_threads`, counting: the shared conjunct makes one thread wait for the
  other's bitmap; two searches make one's job wait behind the other's helper.
- `search_threads`, verifying: no budget makes every store a clear.
- `query`: each alphabet is for one part of the grammar (operators and
  parentheses, depth, filters with NOT, filter groups, phrases, wildcards and
  NEAR, mistakes), and the papers tell its trees apart. Three themes begin with a
  long pasted text, so that a length of 20 lexemes refuses, by one lexeme or
  more, canonical forms, readings, and both kinds of click.
- `dedup`: the records collide in every way the rules tell apart: two notes and
  two papers of one title, imports under a forum id, a paper id or both, with
  newer and older titles (also one that names a note and another paper than the
  listed one), an abstract of their own or another paper's, rejected statuses,
  workshop and Creative AI tracks, a listing that links a forum. Some
  sets need two passes that merge (the search is 20 deep, a run of one merging
  pass 17). Two listings of different papers may link one forum: the first
  link refuses that, and a later one would allow it if a merge let go of an id.

`MaxClock`, `MaxChanges`, `MaxLoads`, `MaxRuns`, `MaxBuilds`, `MaxByHand`,
`MaxEvents` and a theme's `typed` bound behaviours and appear only in guards.
`CHECK_DEADLOCK FALSE` is set where every command, load, change, tick, search or
lexeme of the instance may have been used up, or the second of two runs has
ended, and the system is at rest; the
other systems never stop and are checked for deadlock.

### Divergences from the documentation

Met while modelling. The models have them as behaviours. Of the first two a run
shows the counterexample. Of the first three another property says what holds
instead.

- `ingest/sources/openreview_v2.py`:356-358 says that a listing is fetched again
  as a whole, "so the pages come from one moment and agree". When a later page
  has expired and the first has not, only the pages from that one on are fetched
  again (run `one_moment`); so it goes after an interrupted crawl too, and in one
  that saw the server change. The check at the listing's end (611) is of counts
  and ids. `MixesKeepTheCount` says what it leaves.
- The canonical form of an accepted query need not be a query.
  `query/parser.py`:862-864 says "the canonical string is what a search record
  keeps and replay re-parses, so it must itself be a valid query
  (`parse(canonical)` accepted and idempotent)", and
  `docs/specs/02-query-language.md`:561-562 "So every accepted query's canonical
  string is itself accepted". `parse` checks that it is not too long (868). It
  does not check that it nests no deeper than MAX_DEPTH (64; 3 in the run), though
  the canonical form writes every group out in parentheses: `NOT main main OR
  main`, which has none, gets three levels from rendering and one more from the
  default filter's AND. Such a query is accepted and its record saved, and its
  replay finds the canonical form unreadable: a mismatch (run
  `canonical_replays`). `ReplaysUnlessTooDeep` shows that this is the only way a
  replay differs, and `HonestReplays` that it is the only way a record as saved
  is a mismatch.
- `api/state.py`:42-48 says that every load, "and every SIGHUP even when
  `current` still names the served index", re-reads the list, so that a listed
  abstract is withheld "from every response of every index version this instance
  loads from the next reload on", also "under ... any other id a version holds
  the paper under (every snapshot's merges ..., read with the list)". A reload
  that finds list and index unchanged returns before it reads any merges
  (`api/state.py`:565-567), and a load reads them before it swaps (674). So the
  merges of a snapshot placed since stay unread until the list or the index
  changes. `OtherIdsStayWithheld` says what is never lost.
- `_refusals` (`ingest/dedup.py`:1045-1049) says it reports "every title key
  shared by records that stayed apart". Imports that share a title and all yield
  to their abstracts get no title row (`ingest/dedup.py`:1082-1084):
  `NothingApartSilently` excepts them.
- Two requests can be opening one version (`api/state.py`:772): its lock leaves
  `_opening` while a waiter still takes it. The one open slot keeps them apart.
- A refusal found by an open under way when a reload cleared the refusals is
  remembered after it (`api/state.py`:768).
- A load that fails keeps the index and does not build its failed table again
  (`api/state.py`:612).
- A save that read the manifest before a retire began is stored after it
  committed (`api/records.py`:325).
- A network leaves a comparison before its answer is encoded, while it holds
  the slot (`api/compare.py`:698): that time is counted nowhere.
- While a clear of a memo is half done, other threads may store a budget more
  (`engine/tantivy_engine.py`:897).
- A transaction on a removed records.sqlite succeeds and keeps nothing, and its
  save counts.

### Fairness

`pinned` assumes weak fairness of each thread's own steps: a thread that can
run does. Nothing is assumed of lock hand-over; a wait ends because it is
bounded. Requests beginning, going on to the records and clients taking their
answers are not fair. `served` assumes weak fairness of the loading thread and
of each build thread; operators, signals and restarts are not fair. Builds take
turns without order, which suffices because the tables queued are finite in
number. `http` assumes that an exchange ends, as each has a timeout, and that a
sleep does. The other runs assume no fairness.

## What is proved

For any number of threads, versions, processes, savers, clients and requests,
any capacities, and whatever the bounds:

- `PinnedIndexes_proofs`: `TypeCorrect`, `OneOpen`, `LocksLive`,
  `NoLockLeftBehind`, `LocksReturn`, `Bounded`, `FaultsKept`. The properties of
  the locks are not inductive: that only one thread is inside a critical
  section needs to know that the holder recorded for a lock is the thread
  standing there, that a thread waiting at a lock has one, and that the slot's
  holder is the thread opening or verifying. `LInv` says so and is preserved by
  each action; the caches need `CInv`, with what the OrderedDict operators
  preserve (`PutFacts`, `NewestFacts` and the others, for entries of any kind).
  `FaultsKept` is an action property: each action either leaves `_refused`
  alone, drops an entry that has run out, is a reload, or is a `Remember`, for
  which the lemma `NewestPut` says that only a new key can push one out.
- `OpCommands_proofs`, on IndexStore: `TypeCorrect`, `WholeIndexes` (no half
  index; live
  staging kept), `PinnedKept`, `PromotedKept`, together `AllKept`, and
  `Implementation`: the directory implements HeldIndexes. The invariant `IInv`
  says that whoever is past the lock holds it, that a retire between setting
  aside and committing finds its version set aside and not under its name, and
  that a version whose pins (links) have been looked at last has no pin (link)
  made while it was there. `NeverSwept` is an action property: what a retire
  set aside leaves its place for its name, or by that retire's commit.
  `NamedStaysHeld` proves the promise of HeldIndexes itself, and
  `NamedIsOnTheMachine` carries it through the refinement to the directory.
- `OpCommands_proofs`, on ListingCrawl: `CacheInvariant`, `ReplaysAreTheCrawl`,
  `PagesAreBounded` (no run asks for more pages than there are notes). That a
  replay gives the crawl again says that two runs at
  different times, over a cache that others write to, read the same. What
  relates them is the `Trail` of entries a live crawl leaves: a set of runs,
  from the start to where it is, each leading by its cached page to another of
  the set, so that nothing need be said of how many there are. A crawl writes
  only where it stands, which is ahead of every place on its trail
  (`TrailOutlivesWrite`: no page is read twice, as listings are listed once),
  and no other writes, by the lock. When it finishes, its trail is `Whole`, and
  whoever is on a whole trail reads on and ends as it does (`WholeGoesOn`);
  flags, ages and what the server lists meanwhile do not matter (`Alike`).
- `OpCommands_proofs`, on what a listing holds: `ListingsWhole` and
  `MixesCounted`. Ranks number a listing's notes without gaps (`Ranks`), so pages
  up to the first short one make up their set, and its count agrees
  (`SliceTaken`): a run that reads one set's pages is refused only for a note it
  has under another listing. A refresh never takes a cached page, so it reads the
  server's (`RefreshInv`); nor does a run take one of a listing whose first page
  it fetched again, so it has of that listing what the server lists
  (`AnewInv`). Of pages of several moments `MixInv` says that each cached page is
  of a moment and counts its notes. A run keeps a listing only when every
  page counted as many notes as it has (`MixedEnds`), so all its notes are of
  moments with as many.
- `OpCommands_proofs`, on HttpClient: `ClientInvariant`, `WaitsHonoured`. The
  invariant says when the client owes the server nothing: whenever it is about
  to send, and when asleep before sending, for no longer than it still sleeps.
- `RateLimit_proofs`: `TypeCorrect`, `NoMint`, `EvictionIsSound`,
  `RefusalsAreSound`. Each bucket has an account,
  kept as a history variable: what was taken since the bucket was made, less
  what came back. The invariant balances it with the bucket's content and age;
  lemmas show it kept by seeing a bucket, by an eviction (which forgets the
  account) and by a refund (which takes from the account what it adds).
  For evictions: a level holds finitely many buckets, a step sees one key of a
  level at most and then evicts at most one other (`KeysStep`, `EvictedKeys`), and
  a victim owes only when every candidate does (`DebtorsLast`). For refusals: a
  take of nothing leaves every bucket its tokens (`NothingSpent`), also those the
  wait was computed from (`WaitSuffices`).
- `ServedIndex_proofs`: all the safety properties of ServedIndex
  (`MissingLists`, `LatestLists`, `TablesMatch`, `TablesNotSkipped`,
  `TakedownsLifted`, `TakedownsKept`, `OtherIdsKept`) and `Typed`; that the table
  served is the served index's, and is not skipped, is proved here alone. The
  invariant relates a load under way to the bundle it will replace: a load that
  found no list knows until it ends that the list in force is empty and that
  the version served withheld nothing (`LoaderInv`), because only a load
  changes either and loads take turns. `OtherIdsKept` rests on `OwedInv`: what
  the bundle served follows stood when the load under way began, and the bundle
  made follows all of that that is whole; and on `MoreMerges`: what a listed id
  reaches by some merges it reaches by more.
- `Comparisons_proofs`: every property of Comparisons (`Typed`, `SlotsReturn`,
  `OneRuns`, `EntriesReturn`, `HeapFinds`, `PausesAreBounded`,
  `SharesAreBounded`, `Shares`, `SoonestAreForgotten`), for any factor, weight,
  slots and bounds. The core is `LeftFacts`: what the popping leaves exists
  (tails of a heap are nested, and a smallest set of popped entries exists by
  well-foundedness), keeps the pauses it keeps unchanged and findable, and
  forgets none that is not over unless there are too many. From there
  `LeaveFacts` shows that leaving keeps every share: a hold of h ticks and the
  pause of factor times at least h after it make up (1 + factor) h
  (`PauseEarnsShare`). Shares are inductive with one more fact, that a
  network's share was kept when its running comparison began. By `HeapFinds` a
  stale entry in the heap is always of a pause that is over, so that after
  popping every entry is a pause, and the heap's rebuilding
  (`api/compare.py`:202) never happens.
- `Records_proofs`: `Invariant`, `Charges`, `Overshoot`, `Limits`, `Replayed`,
  `ReplaysExact`, `MemoIsSound`.
  That the room is overshot by one record for each thread at most is a count:
  what is stored, with two rows (record and id set) for each save that has
  found room and not stored yet, stays below the room with two rows for each
  thread (`RoomKept`). That a replay is honest rests on every stored record
  being `Frozen` of its version,
  query and code, which each action keeps but a forgery, and on `FrozenIsHonest`:
  a frozen record replayed in any state of the world has the status its run
  deserves, from the assumptions that versions are named by their inputs and
  that a canonical query is read by what wrote it as itself or not at all
  (`ReplaysUnlessTooDeep` checks that on the parser). `ReplaysExact` takes any
  row, forged ones too: a row that reproduces agrees with a fresh save in every
  field compared (`ReproducedMatches`), and one that agrees reproduces
  (`MatchesReproduce`), whatever its other fields say. The memo of causes
  is a count again: `MemoKept` says that `memoIds` is the cost of what the memo
  holds, which `PutCost` and `OldestDropped` show for a new entry and for the
  oldest ones dropped (the removed ids of two entries are disjoint, each under
  its entry's key), and `MemoRight` that every entry, stored or still being
  worked out, is what a fresh replay of the record would say, for as long as
  that record is there.
- `Dedup_proofs`: `DedupKeepsInv`, `NeverFolds`, `AuditTold`, `LinksOnce`,
  `SecondRun`, for any records a source may hand in, any sources, tracks, venues
  and orders of
  them. What two clusters of a later pass may share says little by itself: each
  holds one claim per field and source, so a merge may have lost what a rule
  looked at. The invariant goes back to the clusters of one id (`Originals`):
  every cluster is one of them, or two joined, of one venue-year, one with a
  forum id and one that is a proceedings paper or an import of one (`Pair`,
  `Clustered`). That there are never three holds because each has a forum id or
  names its own paper, a merge keeps both (`JoinedPair`), and no rule brings
  together two forums or two papers (`ChainsArePairs`, for each of the three
  steps), so a pair has no room for a third. A pair's status is one a listing
  may have, by who may state one (`StatusOfACluster`). The first link leaves
  nothing to link, also not between pairs a title or an abstract made since
  (`LinkedOnce`): they hold the ids their parts held, so what refused those
  refuses them. This settles what `ingest/dedup.py`:770 leaves open ("no later
  pass is known to link"). For the audit, the merge rows of all passes are those
  within the clusters (`MergesTell`), so what a takedown reaches through them
  is one cluster, and the other clusters of its forum (`ReachesTheHolders`);
  and the rows of a group, whichever way the code splits it, mention each of its
  members beside another (`StarTells`, `TitleGroupsMentioned`).
  `SecondRun` compares two whole runs, and no invariant of one sees why they
  agree. `TwoRunsInv` keeps three things. The first run wrote where nothing
  merges: a step that merges leaves fewer clusters (`MergeShrinks`, by an
  injection of ids), so a pass that ends with as many as it began merged nothing
  in any of its steps (`PassedOver`). What writing loses, an older claim of the
  same source, and what reconciling adds, a statement of absence from a
  source that said nothing, is nothing a rule looks at, but for a status that
  goes from accepted to unknown, and no rule tells those two apart
  (`WrittenLike`, `LackingLike`). And clusters that the rules cannot tell apart
  (`Twins`) form the same groups, the same chains and the same rows
  (`ChainsTwins`, `UnmergingTwins`, `RowsTwins`). So the second run begins with
  a twin of each written cluster, merges none, writes what it read, reports the
  same rows, and loses and restates the same absences.
- `SearchThreads_proofs`, on Verification: `Invariant`, `NoWorkerVerifies`,
  `EachVerifiedOnce`,
  `MemoKeepsItsBudget`.
  Neither property can see why a clause is found when every memo has been
  cleared; `RInv` says why: what a thread has built of its query is in its
  request's scope, what it has yet to build is of that query, and from the
  moment a worker runs the whole query is in scope, because the caller compiled
  it first. What was verified is in scope too (`SeenHeld`), and a clause goes to
  verification only when it is not, which makes verifying it twice impossible.
  That a request's end forgets its scope is sound because by then its threads
  are at rest (`Rest`). The memo's budget is kept by no lock, so its invariant
  `LedgerInv` is about what is between two operations: a thread that may still
  charge was let through within the budget, so the ledger has room for all of
  them at their heaviest (`Room`); and while no clear is half done, every clause
  in the memo was charged, or is about to be by the thread that stored it
  (`Charged`). That a heaviest clause exists is by well-foundedness.
- `SearchThreads_proofs`, on GroupCounting: `CountingBooks`, `WaitingJobsGoFirst`,
  `EveryTreeOnce`, `SomeWorkerGoesOn`, for any number of searches, workers, trees
  and conjuncts. No property of these is inductive. The invariant `CountingInv`
  keeps the books of
  the pool: what a worker's role lets it do (`InRole`), what the queue may hold
  (`InQueue`: nothing twice, a count only of a queued future, a helper only of a
  job that offered one), how a future and its events agree (`Futures`: `gone` is
  what left the count of waiting jobs), one lead to a job taken (`Leads`), a
  helper only beside a job begun (`Helpers`), and each tree taken either done or
  in one thread's hands, counted once or failed (`TreesTaken`). From it
  `waiting` is the number of pending jobs, although a job leaves the count in
  three places; and a lead that has drained has every tree taken in `done`,
  held by no one. How often a queued job is overtaken needs a count of
  helpers (`Overtaking`): those past the question (`Past`) and the trees they
  took since
  are fewer than the workers, because a helper past the question has a lead on
  another worker (`PastLeavesOne`), and none passes it while a job waits.
  That the pool cannot lock up rests on two more facts (`PoolInv`): a conjunct
  marked as being collected has its collector at it, also after a collection
  that failed (`Collected`), and a tree taken and not done is in some thread's
  hands (`TreesHeld`). A lead then waits for a thread that holds a tree, that
  thread at most for a collector, and a collector for nobody. The property names
  the two places where a worker waits, so that it can be proved; TLC found
  a busy worker's step enabled exactly when it waits in neither.

The proofs assume what the modules' named ASSUMEs say of the constants, and
nothing else; TLC evaluates those on every run.

Only model-checked: the liveness properties, which are out of the prover's reach;
and everything of Queries, whose recursive operators the prover cannot reason
about.

The proofs changed the models where those could not be reasoned about. Arms of
a CASE that can both hold leave its value open, where the code takes the first
that does: `OwnStatus` and `Cause` of Replays, and five operators of the query
modules, are IFs now. A finite set is assumed finite, a venue's listings are
assumed to differ, and powers of two, of which the prover knows nothing, to be
numbers. What a source hands to Dedup is assumed as above, and that the values
reconciling states are among those a claim may have. A page of ListingCrawl is
defined by ranks rather than as a part of a sorted sequence. The bound of
`HelpersGiveWay` was one tree, which holds for two workers: it is one tree of
each helper now. `PoolNeverLocksUp` was stated with ENABLED.

## Not modelled

- The lexer and the tokenizer (characters), Scholar mode, year ranges, the caps
  on wildcards; scores, order, highlights and the index format of the engine.
- The writing of snapshots, a sequential function of its input; of
  deduplication, the conflict rows on values and what the ingest caps cut. That
  `same_paper`'s work list computes the closure `Takedowns` defines is neither
  checked nor proved: `Takedowns` states the result.
- Sources other than OpenReview's listings, which parse pages and keep no state
  of their own; file downloads; the bytes of a cache entry.
- Reports, exports, coverage counts, request validation, the command line and
  logs: functions of their input. The frontend and the deployment files.

## Plan

1. Done: the index state of the server, the directory of indexes, the rate
   limit and comparisons, with their theorems; the record store and replays,
   with theirs; crawls and their client; the threads of a search, with the
   theorems of Verification; the query language and its compilation;
   deduplication and reconciliation.
2. Done: theorems for the crawls and their client, and for deduplication.
3. Snapshot placement with IndexStore's directory operations; `same_paper`'s
   work list against the closure of `Takedowns`.
4. File downloads (`fetch_file`), with their partial files, beside ListingCrawl;
   the facet pool's own queue beside GroupCounting; the lexer.
