--------------------------- MODULE GroupCounting ---------------------------
(***************************************************************************)
(* The group counts of a search: search.py runs a search in its own        *)
(* thread and has the counts of the query's concept groups made beside it  *)
(* by a small pool of counting workers.  A search's counting job (its      *)
(* lead) offers its trees to a helper on the other worker; lead and helper *)
(* take trees from one shared queue (tantivy_engine.py `_Shared`) and      *)
(* share the bitmaps of the conjuncts those trees are made of (`_Parts`).  *)
(* The search waits a grace for a job nobody has started and a limit for   *)
(* one that runs, and answers without the counts when either passes.       *)
(*                                                                         *)
(* A tree is its number, a conjunct a number; counting a tree needs the    *)
(* bitmaps of `Needs[tree]`.  A timeout is a step that may come at any     *)
(* time.  `overtaken` counts the trees helpers took while a search's  *)
(* job was queued.                                                         *)
(***************************************************************************)
EXTENDS Integers, SequencesExt, FiniteSetsExt

CONSTANTS Searches, Workers, Trees, Conjuncts, Needs, None

(* The pool has a number of workers set at start (GROUP_WORKERS); a conjunct is its place. *)
ASSUME CountingAssumption ==
  /\ IsFiniteSet(Searches)
  /\ IsFiniteSet(Workers) /\ Workers # {}
  /\ IsFiniteSet(Trees) /\ Trees = 1..Cardinality(Trees)
  /\ Conjuncts \subseteq Nat
  /\ Needs \in [Trees -> SUBSET Conjuncts]
  /\ None \notin Searches \cup Workers

VARIABLES
  pc,         \* each search's caller: what it does next, or its answer
  job,        \* each search's counting future: none queued taken done cancelled
  result,     \* what that future holds once done
  abandoned,  \* the event the caller sets when it stops waiting
  started,    \* the event the job sets when a worker took it
  gone,       \* whether the job has left the count of waiting jobs
  waiting,    \* _WAITING
  queue,      \* the counting pool's queue: <<"count" or "help", search>>
  worker,     \* what each counting worker does
  shared,     \* each search's shared trees: next, stop, counts, errors, done
  matched,    \* each search's collected conjuncts
  collecting, \* each search's conjuncts being collected, and by whom
  overtaken   \* history: trees helpers took while a search's job was queued

callers == <<pc, abandoned>>
jobs == <<job, result, started, gone, waiting, queue>>
bits == <<matched, collecting>>
vars == <<callers, jobs, worker, shared, bits, overtaken>>

Idle == [role |-> "idle", search |-> None, at |-> "idle", tree |-> 0, conjunct |-> None, why |-> "none"]
Untaken == [next |-> 1, stop |-> FALSE, counts |-> [t \in Trees |-> 0], errors |-> <<>>, done |-> {}]
Dropped == [Untaken EXCEPT !.stop = TRUE]

Init ==
  /\ pc = [s \in Searches |-> "start"] /\ abandoned = [s \in Searches |-> FALSE]
  /\ job = [s \in Searches |-> "none"] /\ result = [s \in Searches |-> "none"]
  /\ started = [s \in Searches |-> FALSE] /\ gone = [s \in Searches |-> FALSE]
  /\ waiting = 0 /\ queue = <<>> /\ worker = [w \in Workers |-> Idle]
  /\ shared = [s \in Searches |-> Untaken]
  /\ matched = [s \in Searches |-> {}]
  /\ collecting = [s \in Searches |-> [c \in Conjuncts |-> None]]
  /\ overtaken = [s \in Searches |-> 0]

(***************************************************************************)
(* `left`: a job leaves the waiting count once, however often it is asked  *)
(* to: by the worker that takes it, and again by the future's callback.    *)
(***************************************************************************)
Left(s) ==
  /\ waiting' = IF gone[s] THEN waiting ELSE waiting - 1
  /\ gone' = [gone EXCEPT ![s] = TRUE]

Answer(s, a) == pc' = [pc EXCEPT ![s] = a]

(***************************************************************************)
(* The caller.  Its job is queued, or refused because the pool shuts down  *)
(* (it then counts itself); a search that counts nothing is left out.      *)
(***************************************************************************)
StartCounting(s) ==
  /\ pc[s] = "start"
  /\ Answer(s, "page")
  /\ \/ /\ waiting' = waiting + 1
        /\ queue' = Append(queue, <<"count", s>>)
        /\ job' = [job EXCEPT ![s] = "queued"]
     \/ UNCHANGED <<waiting, queue, job>>
  /\ UNCHANGED <<abandoned, result, started, gone, worker, shared, bits, overtaken>>

(* The pool's queue without a job: each is queued at most once. *)
Withdrawn(q, j) ==
  IF \E i \in DOMAIN q : q[i] = j THEN RemoveAt(q, CHOOSE i \in DOMAIN q : q[i] = j) ELSE q

(* Cancelling a future removes a job no worker has, and only that. *)
Cancel(s) ==
  IF job[s] = "queued"
  THEN /\ job' = [job EXCEPT ![s] = "cancelled"]
       /\ queue' = Withdrawn(queue, <<"count", s>>)
       /\ Left(s)
       /\ UNCHANGED <<result, started>>
  ELSE UNCHANGED jobs

GiveUp(s, a) ==
  /\ abandoned' = [abandoned EXCEPT ![s] = TRUE]
  /\ Cancel(s)
  /\ Answer(s, a)
  /\ UNCHANGED <<worker, shared, bits, overtaken>>

(* The page, the facets and the exclusions: whatever fails takes the job with it. *)
Collects(s) ==
  /\ pc[s] = "page"
  /\ \/ Answer(s, "grouped") /\ UNCHANGED <<abandoned, jobs, worker, shared, bits, overtaken>>
     \/ GiveUp(s, "failed")

(* _grouped: a job nobody started within the grace is given up in two steps. *)
GraceOver(s) ==
  /\ pc[s] = "grouped" /\ job[s] \in {"queued", "taken"} /\ ~started[s]
  /\ Answer(s, "giveup")
  /\ UNCHANGED <<abandoned, jobs, worker, shared, bits, overtaken>>

GivesUp(s) == pc[s] = "giveup" /\ GiveUp(s, "busy")

Awaits(s) ==
  /\ pc[s] = "grouped" /\ started[s] /\ job[s] = "taken"
  /\ Answer(s, "await")
  /\ UNCHANGED <<abandoned, jobs, worker, shared, bits, overtaken>>

TimesOut(s) == pc[s] = "await" /\ job[s] = "taken" /\ GiveUp(s, "timed_out")

(* The counts, or why there are none; a job that would have verified is recounted here. *)
TakesResult(s) ==
  /\ \/ pc[s] = "await" /\ job[s] = "done"
     \/ pc[s] = "grouped" /\ job[s] \in {"done", "none"}
  /\ \/ result[s] = "counts" /\ Answer(s, "counted")
     \/ result[s] \in {"none", "would_verify"} /\ Answer(s, "recounted")
     \/ result[s] # "counts" /\ Answer(s, "count_failed")
  /\ UNCHANGED <<abandoned, jobs, worker, shared, bits, overtaken>>

(***************************************************************************)
(* The counting workers.                                                   *)
(***************************************************************************)
At(w, at) == worker' = [worker EXCEPT ![w].at = at]
S(w) == worker[w].search
Lead(w) == worker[w].role = "count"

(* A worker takes the next job; a count job leaves the waiting ones when it runs. *)
TakesJob(w) ==
  /\ worker[w] = Idle /\ queue # <<>>
  /\ LET s == Head(queue)[2] lead == Head(queue)[1] = "count" IN
     /\ worker' = [worker EXCEPT ![w] = [Idle EXCEPT !.role = Head(queue)[1], !.search = s,
                                                     !.at = IF lead THEN "begin" ELSE "ask"]]
     /\ job' = IF lead THEN [job EXCEPT ![s] = "taken"] ELSE job
  /\ queue' = Tail(queue)
  /\ UNCHANGED <<callers, result, started, gone, waiting, shared, bits, overtaken>>

Begins(w) ==
  /\ worker[w].at = "begin"
  /\ Left(S(w))
  /\ started' = [started EXCEPT ![S(w)] = TRUE]
  /\ overtaken' = [overtaken EXCEPT ![S(w)] = 0]
  /\ At(w, "offer")
  /\ UNCHANGED <<callers, job, result, queue, shared, bits>>

(* The helper is offered (the pool may refuse it), unless the masks' check stops the job. *)
Offers(w) ==
  /\ worker[w].at = "offer"
  /\ \/ ~abandoned[S(w)] /\ At(w, "take") /\ queue' = Append(queue, <<"help", S(w)>>)
     \/ At(w, "take") /\ UNCHANGED queue
     \/ abandoned[S(w)] /\ UNCHANGED queue
        /\ worker' = [worker EXCEPT ![w].at = "end", ![w].why = "abandoned"]
  /\ UNCHANGED <<callers, job, result, started, gone, waiting, shared, bits, overtaken>>

(* The helper asks before each tree whether another search's job waits for its worker. *)
Asks(w) ==
  /\ worker[w].at = "ask"
  /\ IF waiting > 0 THEN worker' = [worker EXCEPT ![w] = Idle] ELSE At(w, "take")
  /\ UNCHANGED <<callers, jobs, shared, bits, overtaken>>

(* What a thread does after a tree: the helper asks again, the lead takes the next. *)
OnwardUnasked(w) == "take"
Onward(w) == IF Lead(w) THEN "take" ELSE "ask"

Fail(w, why) == worker' = [worker EXCEPT ![w].at = "failing", ![w].conjunct = None, ![w].why = why]

(* The next tree, unless the call stopped or none is left; the caller's check comes first. *)
TakesTree(w) ==
  /\ worker[w].at = "take"
  /\ LET sh == shared[S(w)] IN
     IF sh.stop \/ sh.next \notin Trees
     THEN /\ IF Lead(w) THEN At(w, "drain") ELSE worker' = [worker EXCEPT ![w] = Idle]
          /\ UNCHANGED <<shared, overtaken>>
     ELSE /\ worker' = [worker EXCEPT ![w].at = IF abandoned[S(w)] THEN "failing" ELSE "need",
                                      ![w].tree = sh.next, ![w].why = "abandoned"]
          /\ shared' = [shared EXCEPT ![S(w)].next = @ + 1]
          /\ overtaken' = IF Lead(w) THEN overtaken
                          ELSE [s \in Searches |-> overtaken[s] + IF job[s] = "queued" THEN 1 ELSE 0]
  /\ UNCHANGED <<callers, jobs, bits>>

(* The first conjunct of the tree not yet collected. *)
Missing(w) == Needs[worker[w].tree] \ matched[S(w)]

(* matches: one thread collects a conjunct, unless it is to stop; another waits until it has. *)
ClaimsConjunct(w) ==
  /\ worker[w].at = "need" /\ Missing(w) # {}
  /\ LET c == Min(Missing(w)) IN
     /\ collecting[S(w)][c] = None
     /\ IF abandoned[S(w)]
        THEN Fail(w, "abandoned") /\ UNCHANGED collecting
        ELSE /\ collecting' = [collecting EXCEPT ![S(w)][c] = w]
             /\ worker' = [worker EXCEPT ![w].at = "collect", ![w].conjunct = c]
  /\ UNCHANGED <<callers, jobs, shared, matched, overtaken>>

ReleaseOnlyCollected(w) ==
  collecting' = IF worker'[w].at = "need" THEN [collecting EXCEPT ![S(w)][worker[w].conjunct] = None]
                ELSE collecting
Release(w) == collecting' = [collecting EXCEPT ![S(w)][worker[w].conjunct] = None]

(* The collection itself: made, or an error of the engine's, or a clause it must not verify. *)
CollectsConjunct(w) ==
  /\ worker[w].at = "collect"
  /\ \/ /\ matched' = [matched EXCEPT ![S(w)] = @ \cup {worker[w].conjunct}]
        /\ worker' = [worker EXCEPT ![w].at = "need", ![w].conjunct = None]
     \/ /\ \E why \in {"error", "would_verify"} : Fail(w, why)
        /\ UNCHANGED matched
  /\ Release(w)
  /\ UNCHANGED <<callers, jobs, shared, overtaken>>

(* The tree's count is kept before the tree is marked done. *)
CountsTree(w) ==
  /\ worker[w].at = "need" /\ Missing(w) = {}
  /\ shared' = [shared EXCEPT ![S(w)].counts[worker[w].tree] = @ + 1, ![S(w)].done = @ \cup {worker[w].tree}]
  /\ At(w, Onward(w))
  /\ UNCHANGED <<callers, jobs, bits, overtaken>>

(* _Shared.run on an error: stop, then the error under the tree's number, then done. *)
StopsSharing(w) ==
  /\ worker[w].at = "failing"
  /\ shared' = [shared EXCEPT ![S(w)].stop = TRUE]
  /\ At(w, "stopped")
  /\ UNCHANGED <<callers, jobs, bits, overtaken>>

KeepsError(w) ==
  /\ worker[w].at = "stopped"
  /\ shared' = [shared EXCEPT ![S(w)].errors = Append(@, <<worker[w].tree, worker[w].why>>),
                              ![S(w)].done = @ \cup {worker[w].tree}]
  /\ IF Lead(w) THEN At(w, "drain") ELSE worker' = [worker EXCEPT ![w] = Idle]
  /\ UNCHANGED <<callers, jobs, bits, overtaken>>

(* The lead waits for every tree taken, whoever took it ... *)
NotAwaited(s) == TRUE
AllDone(s) == 1..(shared[s].next - 1) \subseteq shared[s].done

(* ... then the lowest failed tree's error is raised, or the counts returned. *)
Outcome(s) ==
  LET errors == shared[s].errors IN
  IF errors = <<>> THEN "counts"
  ELSE (CHOOSE e \in ToSet(errors) : \A f \in ToSet(errors) : e[1] <= f[1])[2]

Drains(w) ==
  /\ worker[w].at = "drain" /\ AllDone(S(w))
  /\ worker' = [worker EXCEPT ![w].at = "end", ![w].why = Outcome(S(w))]
  /\ UNCHANGED <<callers, jobs, shared, bits, overtaken>>

(* The helper still queued is cancelled, what the call shared is dropped (a helper that still
   asks finds no tree), the future is done and its callback asks the job to leave again. *)
EndsJob(w) ==
  /\ worker[w].at = "end"
  /\ queue' = Withdrawn(queue, <<"help", S(w)>>)
  /\ job' = [job EXCEPT ![S(w)] = "done"]
  /\ result' = [result EXCEPT ![S(w)] = worker[w].why]
  /\ Left(S(w))
  /\ matched' = [matched EXCEPT ![S(w)] = {}]
  /\ shared' = [shared EXCEPT ![S(w)] = Dropped]
  /\ worker' = [worker EXCEPT ![w] = Idle]
  /\ UNCHANGED <<callers, started, collecting, overtaken>>

Calls(s) ==
  \/ StartCounting(s) \/ Collects(s) \/ GivesUp(s) \/ Awaits(s) \/ TakesResult(s)

Work(w) ==
  \/ TakesJob(w) \/ Begins(w) \/ Offers(w) \/ Asks(w) \/ TakesTree(w)
  \/ ClaimsConjunct(w) \/ CollectsConjunct(w) \/ CountsTree(w)
  \/ StopsSharing(w) \/ KeepsError(w) \/ Drains(w) \/ EndsJob(w)

Next ==
  \/ \E s \in Searches : Calls(s) \/ GraceOver(s) \/ TimesOut(s)
  \/ \E w \in Workers : Work(w)

Spec == Init /\ [][Next]_vars

-----------------------------------------------------------------------------
(***************************************************************************)
(* The count of waiting jobs that makes helpers give way is the number of  *)
(* count jobs no worker has begun: a job taken, done, cancelled or refused *)
(* leaves it once and only once (search.py `_queued`).                     *)
(***************************************************************************)
WaitingIsExact ==
  waiting = Cardinality({s \in Searches : job[s] = "queued" \/ (job[s] = "taken" /\ ~started[s])})

(***************************************************************************)
(* A search that reports counts has each of its trees counted once, by one *)
(* thread; and once its job is done no thread is still counting for it, so *)
(* the request's scope is not read after the answer (`_Shared.counted`).   *)
(***************************************************************************)
CountsAreWhole ==
  \A w \in Workers :
    worker[w].at = "end" =>
      /\ worker[w].why = "counts" => \A t \in Trees : shared[S(w)].counts[t] = 1
      /\ \A v \in Workers \ {w} : S(v) = S(w) => worker[v].at \in {"ask", "take"}

(***************************************************************************)
(* A counting job another search has queued waits for at most one tree of  *)
(* each helper already past the question, so for one with the two workers  *)
(* of search.py: helpers give way before each tree (`_yield`).             *)
(***************************************************************************)
HelpersGiveWay == \A s \in Searches : overtaken[s] <= Cardinality(Workers) - 1

(* What is queued comes before a helper's next tree, on an exact count.    *)
QueuedJobsFirst == WaitingIsExact /\ HelpersGiveWay

(***************************************************************************)
(* The pool cannot lock up: while a worker is busy, some busy worker waits *)
(* for no other, also when the thread another waits for failed or gave up. *)
(* A thread waits for a bitmap another collects (`_Parts.matches`), a lead *)
(* for the trees taken (`_Shared.counted`), and nowhere else.              *)
(***************************************************************************)
WaitsForConjunct(w) ==
  worker[w].at = "need" /\ Missing(w) # {} /\ collecting[S(w)][Min(Missing(w))] # None
WaitsForTree(w) == worker[w].at = "drain" /\ ~AllDone(S(w))

PoolNeverLocksUp ==
  (\E w \in Workers : worker[w] # Idle) =>
    \E w \in Workers : worker[w] # Idle /\ ~WaitsForConjunct(w) /\ ~WaitsForTree(w)
=============================================================================
