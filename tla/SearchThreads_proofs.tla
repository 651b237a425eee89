------------------------ MODULE SearchThreads_proofs ------------------------
(***************************************************************************)
(* Proofs about the threads of a search, for any number of them.           *)
(*                                                                         *)
(* The clauses a request verifies, for any requests, clauses, weights,     *)
(* budget and slots: a worker meets none its request does not hold, and    *)
(* none is verified twice, however the memos are cleared.                  *)
(*                                                                         *)
(* The group counts, for any searches, workers, trees and conjuncts: the   *)
(* count of waiting jobs is exact and helpers give way on it, and a search *)
(* that reports counts has each tree counted once, with no thread left     *)
(* counting; and some busy worker always waits for no other.               *)
(***************************************************************************)
EXTENDS Verification, GroupCounting, FiniteSetTheorems, TLAPS

-----------------------------------------------------------------------------
(* The clauses a request verifies.                                         *)

(* A thread past a clause's ids, on its way to the memo.                    *)
Storing == {"trim", "clear", "cleared", "memo", "charge", "append", "lost"}

Shapes ==
  /\ query \in [Requests -> SUBSET Clauses] /\ scope \in [Requests -> SUBSET Clauses]
  /\ seen \in [Requests -> SUBSET Clauses]
  /\ at \in [Threads -> {"idle", "compile", "lookup", "verify", "built"} \cup Storing]
  /\ todo \in [Threads -> SUBSET Clauses] /\ on \in [Threads -> Clauses \cup {NoClause}]

(* What a thread has built so far is with its request; what it has yet to   *)
(* build is of its request's tree; and once a worker runs, all of it is.    *)
ThreadHolds(t) ==
  /\ at[t] \notin {"idle", "compile"} =>
       /\ todo[t] \subseteq query[R(t)]
       /\ query[R(t)] \subseteq scope[R(t)] \cup todo[t]
  /\ at[t] \in {"idle", "compile", "built"} => todo[t] = {}
  /\ at[t] \in Storing => on[t] \in scope[R(t)]
  /\ t = Worker(R(t)) => at[t] # "verify" /\ at[t] \notin Storing
  /\ t = Worker(R(t)) /\ at[t] # "idle" => query[R(t)] \subseteq scope[R(t)]
  /\ at[t] = "verify" => on[t] \in todo[t] \ seen[R(t)]

SeenHeld == \A r \in Requests : seen[r] \subseteq scope[r]

VInv == Shapes /\ (\A t \in Threads : ThreadHolds(t)) /\ SeenHeld

LEMMA ThreadFacts ==
  ASSUME NEW t \in Threads
  PROVE  /\ R(t) \in Requests /\ t \in {Caller(R(t)), Worker(R(t))}
         /\ Caller(R(t)) \in Threads /\ Worker(R(t)) \in Threads
         /\ Caller(R(t)) # Worker(R(t))
BY DEF Threads, R, Caller, Worker

LEMMA RequestThreads ==
  ASSUME NEW r \in Requests
  PROVE  /\ Caller(r) \in Threads /\ Worker(r) \in Threads /\ Caller(r) # Worker(r)
         /\ R(Caller(r)) = r /\ R(Worker(r)) = r
BY DEF Threads, R, Caller, Worker

LEMMA InitHolds == VerifyInit => VInv
<1> SUFFICES ASSUME VerifyInit PROVE VInv
  OBVIOUS
<1>1. Shapes
  BY DEF VerifyInit, Shapes
<1>2. \A t \in Threads : ThreadHolds(t)
  BY ThreadFacts DEF VerifyInit, ThreadHolds, Storing
<1>3. SeenHeld
  BY DEF VerifyInit, SeenHeld
<1> QED BY <1>1, <1>2, <1>3 DEF VInv

(* A request that ends keeps nothing, and touches no other.                 *)
LEMMA EndsKeeps ==
  ASSUME VInv, NEW r \in Requests, Ends(r)
  PROVE  VInv'
<1> USE DEF VInv
<1>1. Shapes'
  BY DEF Ends, Shapes, Storing
<1>2. ASSUME NEW t \in Threads PROVE ThreadHolds(t)'
  <2> ThreadHolds(t) /\ R(t) \in Requests
    BY ThreadFacts
  <2>1. CASE R(t) = r
    BY <2>1 DEF Ends, ThreadHolds, Shapes, Storing
  <2>2. CASE R(t) # r
    BY <2>2 DEF Ends, ThreadHolds, Shapes
  <2> QED BY <2>1, <2>2
<1>3. SeenHeld'
  BY DEF Ends, SeenHeld, Shapes
<1> QED BY <1>1, <1>2, <1>3

(* A step of t leaves what every other thread holds: scopes only grow while *)
(* a request runs, and only callers verify.                                 *)
LEMMA OthersHold ==
  ASSUME VInv, NEW t \in Threads, query' = query,
         \A u \in Threads \ {t} :
           /\ at'[u] = at[u] \/ (at[u] = "append" /\ at'[u] = "lost")
           /\ todo'[u] = todo[u] /\ on'[u] = on[u]
           /\ scope[R(u)] \subseteq scope'[R(u)]
           /\ seen'[R(u)] = seen[R(u)] \/ u = Worker(R(u)),
         ThreadHolds(t)'
  PROVE  \A u \in Threads : ThreadHolds(u)'
<1> SUFFICES ASSUME NEW u \in Threads, u # t PROVE ThreadHolds(u)'
  OBVIOUS
<1>1. ThreadHolds(u) /\ R(u) \in Requests /\ u \in {Caller(R(u)), Worker(R(u))}
  BY ThreadFacts DEF VInv
<1>2. /\ at'[u] \in Storing <=> at[u] \in Storing
      /\ at[u] \in Storing => at'[u] \notin {"idle", "compile", "built", "verify"}
  BY DEF Storing
<1>3. at'[u] = at[u] \/ (at[u] \in Storing /\ at'[u] \in Storing)
  BY <1>2 DEF Storing
<1> QED BY <1>1, <1>2, <1>3 DEF ThreadHolds, Storing

(* In a step that only moves t on, t may go on where its clause is held.    *)
LEMMA MovesOn ==
  ASSUME VInv, NEW t \in Threads, UNCHANGED <<requests, todo, on>>,
         at[t] \in Storing,
         \/ /\ at'[t] \in Storing
            /\ at' \in [Threads -> {"idle", "compile", "lookup", "verify", "built"} \cup Storing]
            /\ \A u \in Threads \ {t} : at'[u] = at[u] \/ (at[u] = "append" /\ at'[u] = "lost")
  PROVE  VInv'
<1> UNCHANGED <<query, scope, seen, stage>>
  BY DEF requests
<1>1. Shapes'
  BY DEF VInv, Shapes
<1>2. ThreadHolds(t)'
  BY ThreadFacts DEF VInv, ThreadHolds, Storing
<1>3. \A u \in Threads : ThreadHolds(u)'
  BY <1>2, OthersHold
<1>4. SeenHeld'
  BY DEF VInv, SeenHeld
<1> QED BY <1>1, <1>3, <1>4 DEF VInv

LEMMA CompileStep ==
  ASSUME VInv, NEW t \in Threads, Compiles(t)
  PROVE  VInv'
<1> USE DEF VInv
<1>0. R(t) \in Requests /\ ThreadHolds(t) /\ query' = query /\ seen' = seen /\ on' = on
  BY ThreadFacts DEF Compiles
<1>1. CASE Key(t) \in compiled
  <2>1. /\ at' = [at EXCEPT ![t] = "built"] /\ todo' = todo
        /\ scope' = [scope EXCEPT ![R(t)] = @ \cup query[R(t)]]
    BY <1>1 DEF Compiles, HitKeeps, Keeps, Goto
  <2> QED
    <3>1. Shapes'
      BY <1>0, <2>1 DEF Shapes
    <3>2. ThreadHolds(t)'
      BY <1>0, <2>1 DEF ThreadHolds, Shapes, Storing, Compiles
    <3>3. \A u \in Threads : ThreadHolds(u)'
      BY <1>0, <2>1, <3>2, OthersHold, ThreadFacts DEF Shapes
    <3>4. SeenHeld'
      BY <1>0, <2>1 DEF SeenHeld, Shapes
    <3> QED BY <3>1, <3>3, <3>4
<1>2. CASE Key(t) \notin compiled
  <2>1. /\ at' = [at EXCEPT ![t] = "lookup"] /\ todo' = [todo EXCEPT ![t] = query[R(t)]]
        /\ scope' = scope
    BY <1>2 DEF Compiles, Goto
  <2>2. Shapes'
    BY <1>0, <2>1 DEF Shapes
  <2>3. ThreadHolds(t)'
    BY <1>0, <2>1 DEF ThreadHolds, Shapes, Storing, Compiles
  <2>4. \A u \in Threads : ThreadHolds(u)'
    BY <1>0, <2>1, <2>3, OthersHold, ThreadFacts DEF Shapes
  <2>5. SeenHeld'
    BY <1>0, <2>1 DEF SeenHeld, Shapes
  <2> QED BY <2>2, <2>4, <2>5
<1> QED BY <1>1, <1>2

LEMMA LookUpStep ==
  ASSUME VInv, NEW t \in Threads, LooksUp(t)
  PROVE  VInv'
<1> USE DEF VInv
<1>0. R(t) \in Requests /\ ThreadHolds(t) /\ at[t] = "lookup"
      /\ UNCHANGED <<query, seen, at, on>>
  BY ThreadFacts DEF LooksUp
<1>1. PICK c \in todo[t] :
        /\ scope' = [scope EXCEPT ![R(t)] = @ \cup {c}]
        /\ todo' = [todo EXCEPT ![t] = @ \ {c}]
  BY DEF LooksUp, Keeps
<1>2. c \in Clauses
  BY <1>1 DEF Shapes
<1>3. Shapes'
  BY <1>0, <1>1, <1>2 DEF Shapes
<1>4. ThreadHolds(t)'
  BY <1>0, <1>1 DEF ThreadHolds, Shapes, Storing
<1>5. \A u \in Threads : ThreadHolds(u)'
  BY <1>0, <1>1, <1>4, OthersHold, ThreadFacts DEF Shapes
<1>6. SeenHeld'
  BY <1>0, <1>1 DEF SeenHeld, Shapes
<1> QED BY <1>3, <1>5, <1>6

LEMMA EnterStep ==
  ASSUME VInv, NEW t \in Threads, EntersGate(t)
  PROVE  VInv'
<1> USE DEF VInv
<1>0. R(t) \in Requests /\ ThreadHolds(t) /\ t = Caller(R(t)) /\ t # Worker(R(t))
  BY ThreadFacts DEF EntersGate
<1>1. PICK c \in Clauses :
        /\ Misses(t, c)
        /\ \/ /\ Keeps(R(t), {c}) /\ Goto(t, "trim") /\ on' = [on EXCEPT ![t] = c]
              /\ UNCHANGED <<query, seen, todo>>
           \/ /\ Goto(t, "verify") /\ on' = [on EXCEPT ![t] = c]
              /\ UNCHANGED <<requests, todo>>
           \/ Ends(R(t))
  BY DEF EntersGate
<1>2. at[t] = "lookup" /\ c \in todo[t] /\ c \notin scope[R(t)] /\ c \notin seen[R(t)]
  BY <1>0, <1>1 DEF Misses, Known, SeenHeld
<1>3. CASE Keeps(R(t), {c}) /\ Goto(t, "trim") /\ on' = [on EXCEPT ![t] = c]
           /\ UNCHANGED <<query, seen, todo>>
  <2>1. Shapes'
    BY <1>0, <1>3 DEF Shapes, Keeps, Goto, Storing
  <2>2. ThreadHolds(t)'
    BY <1>0, <1>2, <1>3 DEF ThreadHolds, Shapes, Storing, Keeps, Goto
  <2>3. \A u \in Threads : ThreadHolds(u)'
    BY <1>0, <1>3, <2>2, OthersHold, ThreadFacts DEF Shapes, Keeps, Goto
  <2>4. SeenHeld'
    BY <1>0, <1>3 DEF SeenHeld, Shapes, Keeps
  <2> QED BY <2>1, <2>3, <2>4
<1>4. CASE Goto(t, "verify") /\ on' = [on EXCEPT ![t] = c] /\ UNCHANGED <<requests, todo>>
  <2> UNCHANGED <<query, scope, seen>>
    BY <1>4 DEF requests
  <2>1. Shapes'
    BY <1>0, <1>4 DEF Shapes, Goto
  <2>2. ThreadHolds(t)'
    BY <1>0, <1>2, <1>4 DEF ThreadHolds, Shapes, Storing, Goto
  <2>3. \A u \in Threads : ThreadHolds(u)'
    BY <1>0, <1>4, <2>2, OthersHold, ThreadFacts DEF Shapes, Goto
  <2>4. SeenHeld'
    BY DEF SeenHeld
  <2> QED BY <2>1, <2>3, <2>4
<1>5. CASE Ends(R(t))
  BY <1>0, <1>5, EndsKeeps
<1> QED BY <1>1, <1>3, <1>4, <1>5

LEMMA VerifyStep ==
  ASSUME VInv, NEW t \in Threads, Verifies(t)
  PROVE  VInv'
<1> USE DEF VInv
<1>0. /\ R(t) \in Requests /\ ThreadHolds(t) /\ t \in {Caller(R(t)), Worker(R(t))}
      /\ at[t] = "verify" /\ UNCHANGED <<query, todo, on>>
      /\ seen' = [seen EXCEPT ![R(t)] = @ \cup {on[t]}]
      /\ scope' = [scope EXCEPT ![R(t)] = @ \cup {on[t]}]
      /\ at' = [at EXCEPT ![t] = "trim"]
  BY ThreadFacts DEF Verifies, Keeps, Goto
<1>1. t # Worker(R(t)) /\ t = Caller(R(t))
  BY <1>0 DEF ThreadHolds
<1>2. \A u \in Threads \ {t} : R(u) # R(t) \/ u = Worker(R(u))
  BY <1>1, ThreadFacts
<1>3. on[t] \in Clauses
  BY <1>0 DEF ThreadHolds, Shapes
<1>4. Shapes'
  BY <1>0, <1>3 DEF Shapes, Storing
<1>5. ThreadHolds(t)'
  BY <1>0, <1>1 DEF ThreadHolds, Shapes, Storing
<1>6. \A u \in Threads : ThreadHolds(u)'
  BY <1>0, <1>2, <1>5, OthersHold, ThreadFacts DEF Shapes
<1>7. SeenHeld'
  BY <1>0 DEF SeenHeld, Shapes
<1> QED BY <1>4, <1>6, <1>7

(* The steps to the memo move t on and no more; a swap of the ledger also   *)
(* takes from others the charge they were about to make.                    *)
LEMMA StoreSteps ==
  ASSUME VInv, NEW t \in Threads,
         Sums(t) \/ Trims(t) \/ StoresMemo(t) \/ ReadsLedger(t)
  PROVE  VInv'
<1>1. at \in [Threads -> {"idle", "compile", "lookup", "verify", "built"} \cup Storing]
  BY DEF VInv, Shapes
<1>2. CASE Sums(t)
  BY <1>1, <1>2, MovesOn DEF Sums, Goto, Storing
<1>3. CASE Trims(t)
  <2>1. CASE SwapsLedger(t, "clear", "cleared")
    BY <1>1, <1>3, <2>1, MovesOn DEF Trims, SwapsLedger, Storing
  <2>2. CASE EmptiesMemo(t, "cleared", "memo")
    BY <1>1, <1>3, <2>2, MovesOn DEF Trims, EmptiesMemo, Goto, Storing
  <2> QED BY <1>3, <2>1, <2>2 DEF Trims, Clears
<1>4. CASE StoresMemo(t)
  BY <1>1, <1>4, MovesOn DEF StoresMemo, Goto, Storing
<1>5. CASE ReadsLedger(t)
  BY <1>1, <1>5, MovesOn DEF ReadsLedger, Goto, Storing
<1> QED BY <1>2, <1>3, <1>4, <1>5

(* A clause charged for is done: its ids are with the request.              *)
LEMMA ChargeStep ==
  ASSUME VInv, NEW t \in Threads, Charges(t)
  PROVE  VInv'
<1> USE DEF VInv
<1>0. /\ R(t) \in Requests /\ ThreadHolds(t) /\ at[t] \in Storing
      /\ UNCHANGED <<query, scope, seen>>
      /\ todo' = [todo EXCEPT ![t] = @ \ {on[t]}] /\ on' = [on EXCEPT ![t] = NoClause]
      /\ at' = [at EXCEPT ![t] = "lookup"]
  BY ThreadFacts DEF Charges, Goto, Storing, requests
<1>1. Shapes'
  BY <1>0 DEF Shapes
<1>2. ThreadHolds(t)'
  BY <1>0 DEF ThreadHolds, Shapes, Storing
<1>3. \A u \in Threads : ThreadHolds(u)'
  BY <1>0, <1>2, OthersHold, ThreadFacts DEF Shapes
<1>4. SeenHeld'
  BY <1>0 DEF SeenHeld
<1> QED BY <1>1, <1>3, <1>4

LEMMA BuildStep ==
  ASSUME VInv, NEW t \in Threads, Builds(t)
  PROVE  VInv'
<1> USE DEF VInv
<1>0. /\ R(t) \in Requests /\ ThreadHolds(t) /\ at[t] = "lookup" /\ todo[t] = {}
      /\ UNCHANGED <<query, scope, seen, todo, on>>
      /\ at' = [at EXCEPT ![t] = "built"]
  BY ThreadFacts DEF Builds, Goto, requests
<1>1. Shapes'
  BY <1>0 DEF Shapes
<1>2. ThreadHolds(t)'
  BY <1>0 DEF ThreadHolds, Shapes, Storing
<1>3. \A u \in Threads : ThreadHolds(u)'
  BY <1>0, <1>2, OthersHold, ThreadFacts DEF Shapes
<1>4. SeenHeld'
  BY <1>0 DEF SeenHeld
<1> QED BY <1>1, <1>3, <1>4

LEMMA ThreadStep ==
  ASSUME VInv, NEW t \in Threads, Thread(t)
  PROVE  VInv'
<1>1. CASE PastDeadline(t)
  BY <1>1, EndsKeeps, ThreadFacts DEF PastDeadline
<1> QED
  BY <1>1, CompileStep, LookUpStep, EnterStep, VerifyStep, StoreSteps, ChargeStep, BuildStep
  DEF Thread

-----------------------------------------------------------------------------
(* The request's own steps.  A request at rest has its threads at rest, and *)
(* its worker runs beside the page alone.                                   *)
Rest ==
  \A r \in Requests :
    /\ stage[r] = "idle" => at[Caller(r)] = "idle"
    /\ stage[r] \in {"idle", "facets"} => at[Worker(r)] = "idle"

RInv == VInv /\ Rest /\ stage \in [Requests -> {"idle", "facets", "page", "exclusions"}]

(* A step of r's that only moves r's threads leaves the other requests'.    *)
LEMMA OthersRest ==
  ASSUME VInv, NEW r \in Requests,
         UNCHANGED <<scope, seen, todo, on>>,
         \A t \in Threads : R(t) # r => at'[t] = at[t] /\ query'[R(t)] = query[R(t)],
         ThreadHolds(Caller(r))', ThreadHolds(Worker(r))'
  PROVE  \A t \in Threads : ThreadHolds(t)'
<1> SUFFICES ASSUME NEW t \in Threads, R(t) # r PROVE ThreadHolds(t)'
  BY ThreadFacts
<1> QED BY DEF VInv, ThreadHolds

LEMMA StartStep ==
  ASSUME RInv, NEW r \in Requests, Start(r)
  PROVE  VInv'
<1> USE DEF RInv, VInv
<1>0. /\ Caller(r) \in Threads /\ Worker(r) \in Threads /\ Caller(r) # Worker(r)
      /\ R(Caller(r)) = r /\ R(Worker(r)) = r
      /\ at[Caller(r)] = "idle" /\ at[Worker(r)] = "idle"
      /\ ThreadHolds(Caller(r)) /\ ThreadHolds(Worker(r))
  BY RequestThreads DEF Start, Rest
<1>1. PICK q \in Queries : query' = [query EXCEPT ![r] = q]
  BY DEF Start
<1>2. at' = [at EXCEPT ![Caller(r)] = "compile"] /\ UNCHANGED <<scope, seen, todo, on>>
  BY DEF Start, Goto
<1>3. q \in SUBSET Clauses
  BY VerificationAssumption
<1>4. Shapes'
  BY <1>1, <1>2, <1>3 DEF Shapes
<1>5. ThreadHolds(Caller(r))' /\ ThreadHolds(Worker(r))'
  BY <1>0, <1>1, <1>2 DEF ThreadHolds, Shapes, Storing
<1>6. \A t \in Threads : R(t) # r => at'[t] = at[t] /\ query'[R(t)] = query[R(t)]
  BY <1>0, <1>1, <1>2, ThreadFacts DEF Shapes
<1>7. \A t \in Threads : ThreadHolds(t)'
  BY <1>2, <1>5, <1>6, OthersRest
<1>8. SeenHeld'
  BY <1>2 DEF SeenHeld
<1> QED BY <1>4, <1>7, <1>8

LEMMA WorkerStep ==
  ASSUME RInv, NEW r \in Requests, StartsWorker(r) \/ Joins(r)
  PROVE  VInv'
<1> USE DEF RInv, VInv
<1>0. /\ Caller(r) \in Threads /\ Worker(r) \in Threads /\ Caller(r) # Worker(r)
      /\ R(Caller(r)) = r /\ R(Worker(r)) = r
      /\ ThreadHolds(Caller(r)) /\ ThreadHolds(Worker(r))
  BY RequestThreads
<1>1. /\ at[Caller(r)] = "built" /\ at[Worker(r)] \in {"idle", "built"}
      /\ UNCHANGED <<query, scope, seen, todo, on>>
      /\ \E place \in {"compile", "idle"} :
           at' = [at EXCEPT ![Caller(r)] = "compile", ![Worker(r)] = place]
  BY DEF StartsWorker, Joins, Rest
<1>2. query[r] \subseteq scope[r]
  BY <1>0, <1>1 DEF ThreadHolds
<1>3. Shapes'
  BY <1>1 DEF Shapes
<1>4. ThreadHolds(Caller(r))' /\ ThreadHolds(Worker(r))'
  BY <1>0, <1>1, <1>2 DEF ThreadHolds, Shapes, Storing
<1>5. \A t \in Threads : ThreadHolds(t)'
  BY <1>0, <1>1, <1>4, OthersRest DEF Shapes
<1>6. SeenHeld'
  BY <1>1 DEF SeenHeld
<1> QED BY <1>3, <1>5, <1>6

(* Threads at rest take no step, and whoever ends a request rests both.     *)
LEMMA RestKept ==
  ASSUME RInv, [VerifyNext]_verifyVars
  PROVE  Rest' /\ stage' \in [Requests -> {"idle", "facets", "page", "exclusions"}]
<1> USE DEF RInv, VInv
<1> DEFINE Stages == [Requests -> {"idle", "facets", "page", "exclusions"}]
<1>0. /\ stage \in Stages
      /\ at \in [Threads -> {"idle", "compile", "lookup", "verify", "built"} \cup Storing]
  BY DEF Shapes
<1>1. ASSUME NEW r \in Requests, Ends(r) PROVE Rest' /\ stage' \in Stages
  BY <1>0, <1>1, RequestThreads DEF Ends, Rest
<1>2. ASSUME stage' = stage, \A t \in Threads : at[t] = "idle" => at'[t] = "idle"
      PROVE  Rest' /\ stage' \in Stages
  BY <1>0, <1>2, RequestThreads DEF Rest
<1>3. ASSUME NEW r \in Requests, Start(r) PROVE Rest' /\ stage' \in Stages
  <2>1. PICK first \in {"facets", "page"} : stage' = [stage EXCEPT ![r] = first]
    BY <1>3 DEF Start
  <2>2. at' = [at EXCEPT ![Caller(r)] = "compile"] /\ at[Worker(r)] = "idle"
    BY <1>3 DEF Start, Goto, Rest
  <2> QED BY <1>0, <2>1, <2>2, RequestThreads DEF Rest
<1>4. ASSUME NEW r \in Requests, StartsWorker(r) \/ Joins(r) PROVE Rest' /\ stage' \in Stages
  <2>1. PICK next \in {"page", "exclusions"} : stage' = [stage EXCEPT ![r] = next]
    BY <1>4 DEF StartsWorker, Joins
  <2>2. \A t \in Threads : R(t) # r => at'[t] = at[t]
    BY <1>0, <1>4, RequestThreads DEF StartsWorker, Joins
  <2> QED BY <1>0, <2>1, <2>2, RequestThreads DEF Rest
<1>5. ASSUME NEW r \in Requests, Answers(r) PROVE Rest' /\ stage' \in Stages
  BY <1>1, <1>5 DEF Answers
<1>6. ASSUME NEW t \in Threads, Thread(t) PROVE Rest' /\ stage' \in Stages
  <2>1. CASE PastDeadline(t) \/ EntersGate(t)
    <3>1. CASE Ends(R(t))
      BY <3>1, <1>1, ThreadFacts
    <3>2. CASE ~Ends(R(t))
      <4>1. stage' = stage /\ at[t] = "lookup" /\ \E p \in {"trim", "verify"} : Goto(t, p)
        BY <2>1, <3>2 DEF PastDeadline, EntersGate, Misses, Keeps, requests
      <4> QED BY <1>0, <1>2, <4>1 DEF Goto
    <3> QED BY <3>1, <3>2
  <2>2. CASE Compiles(t) \/ LooksUp(t) \/ Verifies(t) \/ Builds(t) \/ Charges(t)
    <3>1. stage' = stage /\ at[t] # "idle" /\ \A u \in Threads \ {t} : at'[u] = at[u]
      BY <1>0, <2>2 DEF Compiles, LooksUp, Verifies, Builds, Charges, Goto, requests, HitKeeps, Keeps
    <3> QED BY <1>2, <3>1
  <2>3. CASE Sums(t) \/ Trims(t) \/ StoresMemo(t) \/ ReadsLedger(t)
    <3>1. /\ stage' = stage /\ at[t] # "idle"
          /\ \A u \in Threads \ {t} : at[u] = "idle" => at'[u] = "idle"
      BY <1>0, <2>3
      DEF Sums, Trims, Clears, SwapsLedger, EmptiesMemo, StoresMemo, ReadsLedger, Goto, requests
    <3> QED BY <1>2, <3>1
  <2> QED BY <1>6, <2>1, <2>2, <2>3 DEF Thread
<1>7. CASE ClearsCompiled \/ UNCHANGED verifyVars
  BY <1>2, <1>7 DEF ClearsCompiled, verifyVars, requests, threads
<1> QED BY <1>3, <1>4, <1>5, <1>6, <1>7 DEF VerifyNext

LEMMA StepKeeps == RInv /\ [VerifyNext]_verifyVars => RInv'
<1> SUFFICES ASSUME RInv, [VerifyNext]_verifyVars PROVE VInv'
  BY RestKept DEF RInv
<1>1. VInv
  BY DEF RInv
<1>2. CASE ClearsCompiled \/ UNCHANGED verifyVars
  BY <1>1, <1>2 DEF ClearsCompiled, verifyVars, requests, threads, VInv, Shapes, ThreadHolds, SeenHeld
<1>3. ASSUME NEW r \in Requests, Answers(r) PROVE VInv'
  BY <1>1, <1>3, EndsKeeps DEF Answers
<1> QED BY <1>1, <1>2, <1>3, StartStep, WorkerStep, ThreadStep DEF VerifyNext

-----------------------------------------------------------------------------
(* What a request has built is with it, whatever the memos hold.            *)
THEOREM Invariant == VerifySpec => []RInv
<1>1. VerifyInit => RInv
  BY InitHolds, RequestThreads DEF VerifyInit, RInv, Rest
<1> QED BY <1>1, StepKeeps, PTL DEF VerifySpec

(* The facet worker finds every clause of its request with its request      *)
(* (`Overlay`, `WouldVerify`).                                              *)
THEOREM NoWorkerVerifies == VerifySpec => []WorkersNeverVerify
<1>1. RInv => WorkersNeverVerify
  <2> SUFFICES ASSUME RInv, NEW t \in Threads, t = Worker(R(t)), NEW c \in Clauses, Misses(t, c)
               PROVE  FALSE
    BY DEF WorkersNeverVerify
  <2> QED BY DEF RInv, VInv, ThreadHolds, Misses, Known
<1> QED BY <1>1, Invariant, PTL

(* A request verifies no clause it verified before.                         *)
THEOREM EachVerifiedOnce == VerifySpec => []VerifiedOnce
<1>1. RInv => VerifiedOnce
  BY DEF RInv, VInv, ThreadHolds, VerifiedOnce
<1> QED BY <1>1, Invariant, PTL

-----------------------------------------------------------------------------
(* The memo's budget.  A request on its way from a ledger within the budget *)
(* to its own charge; one that has stored and not yet charged.              *)
Adding == {r \in Requests : at[Caller(r)] \in {"cleared", "memo", "charge", "append"}}
Owing == {r \in Requests : at[Caller(r)] \in {"charge", "append"}}

(* A thread that may still charge was let through within the budget, so the *)
(* ledger has room for them all; and with no clear pending, what the memo   *)
(* holds was charged, or is about to be by who stored it.                   *)
Room == charged \in Nat /\ charged + Cardinality(Adding) * Heaviest <= Allowed

Charged(paid) ==
  /\ paid \subseteq verified /\ Cardinality(Ids(paid)) <= charged
  /\ \A c \in verified \ paid : \E r \in Owing : on[Caller(r)] = c

LedgerInv ==
  /\ verified \subseteq Clauses
  /\ Room
  /\ (\A t \in Threads : at[t] # "cleared") => \E paid \in SUBSET Clauses : Charged(paid)

(* The heaviest weight is one: a finite set has no endless ascent.          *)
LEMMA HeaviestFacts ==
  /\ Heaviest \in Nat \ {0} /\ Allowed \in Nat
  /\ \A c \in Clauses : Weight[c] \in Nat \ {0} /\ Weight[c] <= Heaviest
<1> DEFINE W == {Weight[c] : c \in Clauses}
           Above(x) == {y \in W : y > x}
           Aboves == {Above(x) : x \in W}
           Order == StrictSubsetOrdering(W)
<1>0. /\ W # {} /\ Weight \in [Clauses -> W]
      /\ \A y \in W : y \in Nat /\ y > 0
  BY VerificationAssumption
<1>1. IsFiniteSet(W)
  <2>1. Weight \in Surjection(Clauses, W)
    BY <1>0 DEF Surjection
  <2> QED BY <2>1, FS_Surjection, VerificationAssumption
<1>2. PICK a \in Aboves : \A b \in Aboves : <<b, a>> \notin Order
  <2>1. Aboves \subseteq FiniteSubsetsOf(W)
    BY <1>1, FS_Subset DEF FiniteSubsetsOf
  <2>2. Aboves # {}
    <3>1. PICK w : w \in W
      BY <1>0
    <3> QED BY <3>1
  <2>3. IsWellFoundedOn(Order, FiniteSubsetsOf(W))
    BY FS_StrictSubsetOrderingWellFounded
  <2> HIDE DEF Aboves, Order
  <2> QED BY <2>1, <2>2, <2>3, WFMin
<1>3. PICK x \in W : a = Above(x)
  BY <1>2
<1>4. \A y \in W : x >= y
  <2> SUFFICES ASSUME NEW y \in W, y > x PROVE FALSE
    <3> HIDE DEF W
    <3> QED BY <1>0
  <2>1. Above(y) \subseteq Above(x) /\ Above(y) # Above(x)
    <3> HIDE DEF W
    <3>1. y \in Above(x) /\ y \notin Above(y)
      BY <1>0
    <3>2. Above(y) \subseteq Above(x)
      BY <1>0
    <3> QED BY <3>1, <3>2
  <2>2. <<Above(y), Above(x)>> \in Order
    BY <2>1 DEF StrictSubsetOrdering
  <2> QED BY <1>2, <1>3, <2>2
<1>5. Heaviest \in W /\ \A y \in W : Heaviest >= y
  BY <1>3, <1>4 DEF Heaviest, Max
<1>6. Heaviest \in Nat \ {0}
  BY <1>0, <1>5
<1>7. Cardinality(Requests) \in Nat /\ Budget \in Nat
  BY VerificationAssumption, FS_CardinalityType
<1> QED BY <1>0, <1>5, <1>6, <1>7 DEF Allowed

(* No clause is heavier than the heaviest, so a set of them is at most as   *)
(* heavy as its size times that.                                            *)
LEMMA IdsFacts ==
  ASSUME NEW clauses \in SUBSET Clauses
  PROVE  /\ IsFiniteSet(clauses) /\ Cardinality(clauses) \in Nat
         /\ IsFiniteSet(Ids(clauses)) /\ Cardinality(Ids(clauses)) \in Nat
         /\ Cardinality(Ids(clauses)) <= Cardinality(clauses) * Heaviest
<1>1. IsFiniteSet(clauses) /\ Cardinality(clauses) \in Nat
  BY VerificationAssumption, FS_Subset, FS_CardinalityType
<1>2. IsFiniteSet(1 .. Heaviest) /\ Cardinality(1 .. Heaviest) = Heaviest
  BY HeaviestFacts, FS_Interval
<1>3. Ids(clauses) \subseteq clauses \X (1 .. Heaviest)
  BY HeaviestFacts DEF Ids
<1> DEFINE most == 1 .. Heaviest
           all == clauses \X most
<1>4. IsFiniteSet(all) /\ Cardinality(all) = Cardinality(clauses) * Heaviest
  <2> HIDE DEF most
  <2>1. IsFiniteSet(most) /\ Cardinality(most) = Heaviest
    BY <1>2 DEF most
  <2> QED BY <1>1, <2>1, FS_Product
<1> HIDE DEF all
<1>5. Ids(clauses) \in SUBSET all
  BY <1>3 DEF all
<1>6. IsFiniteSet(Ids(clauses)) /\ Cardinality(Ids(clauses)) <= Cardinality(all)
  BY <1>4, <1>5, FS_Subset
<1>7. Cardinality(Ids(clauses)) \in Nat
  BY <1>6, FS_CardinalityType
<1> QED BY <1>1, <1>4, <1>6, <1>7

LEMMA OneMore ==
  ASSUME NEW clauses \in SUBSET Clauses, NEW c \in Clauses
  PROVE  Cardinality(Ids(clauses \cup {c})) <= Cardinality(Ids(clauses)) + Weight[c]
<1> DEFINE numbers == 1 .. Weight[c]
           own == {c} \X numbers
<1>1. Weight[c] \in Nat
  BY HeaviestFacts
<1>2. IsFiniteSet(own) /\ Cardinality(own) = Weight[c]
  <2>1. IsFiniteSet(numbers) /\ Cardinality(numbers) = Weight[c]
    BY <1>1, FS_Interval
  <2>2. IsFiniteSet({c}) /\ Cardinality({c}) = 1
    BY FS_Singleton
  <2> HIDE DEF numbers
  <2>3. IsFiniteSet(own) /\ Cardinality(own) = Cardinality({c}) * Cardinality(numbers)
    BY <2>1, <2>2, FS_Product
  <2> QED BY <1>1, <2>1, <2>2, <2>3
<1>3. Ids(clauses \cup {c}) = Ids(clauses) \cup own
  BY DEF Ids
<1>4. IsFiniteSet(Ids(clauses)) /\ Cardinality(Ids(clauses)) \in Nat
  BY IdsFacts
<1>5. Cardinality(Ids(clauses) \cap own) \in Nat
  BY <1>4, FS_Intersection, FS_CardinalityType
<1> HIDE DEF own
<1>6. /\ IsFiniteSet(Ids(clauses) \cup own)
      /\ Cardinality(Ids(clauses) \cup own)
           = Cardinality(Ids(clauses)) + Cardinality(own) - Cardinality(Ids(clauses) \cap own)
  BY <1>2, <1>4, FS_Union
<1>7. Cardinality(Ids(clauses \cup {c})) = Cardinality(Ids(clauses) \cup own)
  BY <1>3
<1> QED BY <1>1, <1>2, <1>4, <1>5, <1>6, <1>7

LEMMA IdsGrow ==
  /\ \A clauses, more \in SUBSET Clauses :
       clauses \subseteq more => Cardinality(Ids(clauses)) <= Cardinality(Ids(more))
  /\ Cardinality(Ids({})) = 0
<1>1. ASSUME NEW clauses \in SUBSET Clauses, NEW more \in SUBSET Clauses, clauses \subseteq more
      PROVE  Cardinality(Ids(clauses)) <= Cardinality(Ids(more))
  <2>1. Ids(clauses) \in SUBSET Ids(more)
    BY <1>1 DEF Ids
  <2>2. IsFiniteSet(Ids(more))
    BY IdsFacts
  <2> QED BY <2>1, <2>2, FS_Subset
<1>2. Ids({}) = {}
  BY DEF Ids
<1> QED BY <1>1, <1>2, FS_EmptySet

LEMMA AddingFacts ==
  /\ IsFiniteSet(Adding) /\ Cardinality(Adding) \in Nat
  /\ Cardinality(Adding) <= Cardinality(Requests) /\ Cardinality(Requests) \in Nat
<1>1. Adding \in SUBSET Requests
  BY DEF Adding
<1> QED BY <1>1, VerificationAssumption, FS_Subset, FS_CardinalityType

(* Only callers store.                                                      *)
LEMMA StoringCaller ==
  ASSUME VInv, NEW t \in Threads, at[t] \in Storing
  PROVE  t = Caller(R(t)) /\ R(t) \in Requests /\ on[t] \in Clauses
BY ThreadFacts DEF VInv, ThreadHolds, Shapes

(* Most steps neither bring a thread nearer to the memo nor move one that   *)
(* is on its way.                                                           *)
LEMMA Untouched ==
  ASSUME VInv, LedgerInv, UNCHANGED memo,
         \A t \in Threads :
           /\ at[t] \in {"cleared", "memo", "charge", "append"} => at'[t] = at[t] /\ on'[t] = on[t]
           /\ at'[t] \in {"cleared", "memo", "charge", "append"} => at'[t] = at[t]
  PROVE  LedgerInv'
<1>1. Adding' = Adding /\ Owing' = Owing
  BY RequestThreads DEF Adding, Owing
<1>2. \A r \in Owing : on'[Caller(r)] = on[Caller(r)]
  BY RequestThreads DEF Owing
<1>3. ((\A t \in Threads : at[t] # "cleared"))' => \A t \in Threads : at[t] # "cleared"
  OBVIOUS
<1>4. charged' = charged /\ verified' = verified /\ Allowed' = Allowed
  BY DEF memo, Allowed, Heaviest
<1>5. \A paid : Charged(paid) => Charged(paid)'
  BY <1>1, <1>2, <1>4 DEF Charged, Ids
<1>6. Room'
  BY <1>1, <1>4 DEF LedgerInv, Room
<1> QED BY <1>3, <1>4, <1>5, <1>6 DEF LedgerInv

LEMMA EndsLedger ==
  ASSUME VInv, LedgerInv, NEW r \in Requests, Ends(r), UNCHANGED memo,
         at[Caller(r)] \in {"lookup", "verify", "built"}
  PROVE  LedgerInv'
<1>1. \A t \in Threads : at'[t] = IF R(t) = r THEN "idle" ELSE at[t]
  BY DEF Ends
<1>2. \A t \in Threads : on'[t] = IF R(t) = r THEN NoClause ELSE on[t]
  BY DEF Ends
<1>3. \A t \in Threads : R(t) = r => at[t] \notin {"cleared", "memo", "charge", "append"}
  BY StoringCaller DEF Storing
<1> QED BY <1>1, <1>2, <1>3, Untouched

(* Through the trim only within the budget: there is room for every request *)
(* that adds an entry at once.                                              *)
LEMMA SumsLedger ==
  ASSUME VInv, LedgerInv, NEW t \in Threads, Sums(t)
  PROVE  LedgerInv'
<1>0. /\ at[t] = "trim" /\ UNCHANGED <<verified, charged, on>>
      /\ at' = [at EXCEPT ![t] = IF charged > Budget THEN "clear" ELSE "memo"]
      /\ \A u \in Threads : at'[u] = IF u = t THEN (IF charged > Budget THEN "clear" ELSE "memo")
                                     ELSE at[u]
  BY DEF Sums, Goto, threads, memo, VInv, Shapes
<1>1. CASE charged > Budget
  BY <1>0, <1>1, Untouched DEF memo
<1>2. CASE ~(charged > Budget)
  <2>1. Owing' = Owing /\ verified' = verified /\ charged' = charged /\ on' = on
    BY <1>0, <1>2, RequestThreads DEF Owing
  <2>2. Room'
    <3>1. Cardinality(Adding') \in Nat /\ Cardinality(Adding') <= Cardinality(Requests)
          /\ Cardinality(Requests) \in Nat
      <4>1. Adding' \in SUBSET Requests
        BY DEF Adding
      <4> QED BY <4>1, VerificationAssumption, FS_Subset, FS_CardinalityType
    <3>2. Heaviest \in Nat /\ charged \in Nat /\ Budget \in Nat
      BY HeaviestFacts, VerificationAssumption DEF LedgerInv, Room
    <3>3. Cardinality(Adding') * Heaviest <= Cardinality(Requests) * Heaviest
      BY <3>1, <3>2
    <3>4. charged <= Budget
      BY <1>2, <3>2
    <3> DEFINE a == Cardinality(Adding') * Heaviest
               b == Cardinality(Requests) * Heaviest
    <3>5. a \in Nat /\ b \in Nat /\ a <= b
      BY <3>1, <3>2, <3>3
    <3>6. charged + a <= Budget + b
      <4> HIDE DEF a, b
      <4> QED BY <3>2, <3>4, <3>5
    <3> QED BY <2>1, <3>2, <3>6 DEF Room, Allowed
  <2>3. \A paid : Charged(paid) => Charged(paid)'
    BY <2>1 DEF Charged, Ids
  <2>4. (\A u \in Threads : at'[u] # "cleared") => \A u \in Threads : at[u] # "cleared"
    BY <1>0
  <2> QED BY <2>1, <2>2, <2>3, <2>4 DEF LedgerInv
<1> QED BY <1>1, <1>2

(* A new ledger owes nothing, and the memo is emptied before anyone relies  *)
(* on the two together.                                                     *)
LEMMA TrimsLedger ==
  ASSUME VInv, LedgerInv, NEW t \in Threads, Trims(t)
  PROVE  LedgerInv'
<1>0. at \in [Threads -> {"idle", "compile", "lookup", "verify", "built"} \cup Storing]
  BY DEF VInv, Shapes
<1>1. CASE SwapsLedger(t, "clear", "cleared")
  <2>1. /\ charged' = 0 /\ verified' = verified /\ at'[t] = "cleared"
        /\ \A u \in Threads : at'[u] \in {"cleared", "memo", "charge", "append"}
             => u = t \/ at'[u] = at[u]
    BY <1>0, <1>1 DEF SwapsLedger
  <2>2. Cardinality(Adding') \in Nat /\ Cardinality(Adding') <= Cardinality(Requests)
        /\ Cardinality(Requests) \in Nat
    <3>1. Adding' \in SUBSET Requests
      BY DEF Adding
    <3> QED BY <3>1, VerificationAssumption, FS_Subset, FS_CardinalityType
  <2>3. Heaviest \in Nat /\ Budget \in Nat
    BY HeaviestFacts, VerificationAssumption
  <2>4. Cardinality(Adding') * Heaviest <= Cardinality(Requests) * Heaviest
    BY <2>2, <2>3
  <2> DEFINE a == Cardinality(Adding') * Heaviest
             b == Cardinality(Requests) * Heaviest
  <2>5. a \in Nat /\ b \in Nat /\ a <= b
    BY <2>2, <2>3, <2>4
  <2>6. 0 + a <= Budget + b
    <3> HIDE DEF a, b
    <3> QED BY <2>3, <2>5
  <2>7. Room'
    BY <2>1, <2>6 DEF Room, Allowed
  <2> QED BY <2>1, <2>7 DEF LedgerInv
<1>2. CASE EmptiesMemo(t, "cleared", "memo")
  <2>1. /\ at[t] = "cleared" /\ verified' = {} /\ charged' = charged
        /\ \A u \in Threads : at'[u] = IF u = t THEN "memo" ELSE at[u]
    BY <1>0, <1>2 DEF EmptiesMemo, Goto
  <2>2. Adding' = Adding
    BY <2>1, RequestThreads DEF Adding
  <2>3. Room'
    BY <2>1, <2>2 DEF LedgerInv, Room, Allowed, Heaviest
  <2>4. Charged({})'
    BY <2>1, <2>3, IdsGrow DEF Charged, Room, Ids
  <2> QED BY <2>1, <2>3, <2>4 DEF LedgerInv
<1> QED BY <1>1, <1>2 DEF Trims, Clears

(* Who stores owes; who owes still does once it holds the ledger.           *)
LEMMA StoresLedger ==
  ASSUME VInv, LedgerInv, NEW t \in Threads, StoresMemo(t) \/ ReadsLedger(t)
  PROVE  LedgerInv'
<1>0. /\ at \in [Threads -> {"idle", "compile", "lookup", "verify", "built"} \cup Storing]
      /\ at[t] \in Storing /\ t = Caller(R(t)) /\ R(t) \in Requests /\ on[t] \in Clauses
  BY StoringCaller DEF VInv, Shapes, StoresMemo, ReadsLedger, Storing
<1>1. /\ on' = on /\ charged' = charged
      /\ at[t] \in {"memo", "charge"}
      /\ \A u \in Threads \ {t} : at'[u] = at[u]
      /\ at'[t] \in {"charge", "append"}
      /\ verified' \in {verified, verified \cup {on[t]}}
  BY <1>0 DEF StoresMemo, ReadsLedger, Goto, memo, threads
<1>2. Adding' = Adding /\ Owing \subseteq Owing' /\ R(t) \in Owing'
  BY <1>0, <1>1, RequestThreads DEF Adding, Owing
<1>3. Room'
  BY <1>1, <1>2 DEF LedgerInv, Room, Allowed, Heaviest
<1>4. (\A u \in Threads : at'[u] # "cleared") => \A u \in Threads : at[u] # "cleared"
  BY <1>1
<1>5. ASSUME NEW paid, Charged(paid) PROVE Charged(paid)'
  <2>1. paid \subseteq verified' /\ Cardinality(Ids(paid)) <= charged'
    BY <1>1, <1>5 DEF Charged
  <2>2. ASSUME NEW c \in verified' \ paid PROVE \E r \in Owing' : on'[Caller(r)] = c
    <3>1. CASE c \in verified
      BY <1>1, <1>2, <1>5, <3>1 DEF Charged
    <3>2. CASE c = on[t]
      BY <1>0, <1>1, <1>2, <3>2
    <3> QED BY <1>1, <3>1, <3>2
  <2> QED BY <2>1, <2>2 DEF Charged, Ids
<1>6. verified' \subseteq Clauses
  BY <1>0, <1>1 DEF LedgerInv
<1> QED BY <1>3, <1>4, <1>5, <1>6 DEF LedgerInv

(* A charge pays for one entry, in the room kept for it.                    *)
LEMMA ChargesLedger ==
  ASSUME VInv, LedgerInv, NEW t \in Threads, Charges(t)
  PROVE  LedgerInv'
<1>0. /\ at \in [Threads -> {"idle", "compile", "lookup", "verify", "built"} \cup Storing]
      /\ on \in [Threads -> Clauses \cup {NoClause}]
      /\ at[t] \in Storing /\ t = Caller(R(t)) /\ R(t) \in Requests /\ on[t] \in Clauses
  BY StoringCaller DEF VInv, Shapes, Charges, Storing
<1>1. /\ \A u \in Threads : at'[u] = IF u = t THEN "lookup" ELSE at[u]
      /\ \A u \in Threads \ {t} : on'[u] = on[u]
      /\ verified' = verified
  BY <1>0 DEF Charges, Goto
<1>2. CASE at[t] = "lost"
  <2>1. charged' = charged
    BY <1>2 DEF Charges
  <2> QED BY <1>1, <1>2, <2>1, Untouched DEF memo
<1>3. CASE at[t] = "append"
  <2> DEFINE r == R(t)
             w == Weight[on[t]]
  <2>1. charged' = charged + w
    BY <1>3 DEF Charges
  <2>2. /\ w \in Nat /\ w <= Heaviest /\ Heaviest \in Nat /\ charged \in Nat /\ Allowed \in Nat
        /\ charged + Cardinality(Adding) * Heaviest <= Allowed
    BY <1>0, HeaviestFacts DEF LedgerInv, Room
  <2>3. r \in Adding /\ Adding' = Adding \ {r} /\ r \in Owing /\ Owing' = Owing \ {r}
    BY <1>0, <1>1, <1>3, RequestThreads DEF Adding, Owing
  <2>4. /\ Cardinality(Adding') = Cardinality(Adding) - 1
        /\ Cardinality(Adding') \in Nat /\ Cardinality(Adding) \in Nat
    BY <2>3, AddingFacts, FS_RemoveElement, FS_CardinalityType
  <2>5. Room'
    <3> DEFINE n == Cardinality(Adding')
               m == Cardinality(Adding)
               k == n * Heaviest
    <3>1. m * Heaviest = k + Heaviest /\ k \in Nat
      <4> HIDE DEF m, n
      <4>1. m = n + 1 /\ n \in Nat /\ m \in Nat
        BY <2>4 DEF m, n
      <4> QED BY <2>2, <4>1
    <3>2. charged + w + k <= Allowed /\ charged + w \in Nat
      <4> HIDE DEF k, w
      <4> QED BY <2>2, <3>1
    <3>3. Allowed' = Allowed /\ Heaviest' = Heaviest
      BY DEF Allowed, Heaviest
    <3> QED BY <2>1, <3>2, <3>3 DEF Room
  <2>6. ASSUME NEW paid \in SUBSET Clauses, Charged(paid)
        PROVE  \E more \in SUBSET Clauses : Charged(more)'
    <3>0. PICK more \in SUBSET Clauses : more = (paid \cup {on[t]}) \cap verified
      BY <1>0
    <3>1. Cardinality(Ids(more)) <= charged'
      <4>1. Cardinality(Ids(more)) <= Cardinality(Ids(paid \cup {on[t]}))
        BY <1>0, <3>0, IdsGrow
      <4>2. Cardinality(Ids(paid \cup {on[t]})) <= Cardinality(Ids(paid)) + w
        BY <1>0, OneMore
      <4>3. Cardinality(Ids(paid)) <= charged
        BY <2>6 DEF Charged
      <4>4. /\ Cardinality(Ids(more)) \in Nat /\ Cardinality(Ids(paid)) \in Nat
            /\ Cardinality(Ids(paid \cup {on[t]})) \in Nat
        BY <1>0, IdsFacts
      <4> HIDE DEF w
      <4> QED BY <2>1, <2>2, <4>1, <4>2, <4>3, <4>4
    <3>2. ASSUME NEW c \in verified' \ more PROVE \E q \in Owing' : on'[Caller(q)] = c
      <4>1. c \in verified \ paid /\ c # on[t]
        BY <1>1, <3>0, <3>2
      <4>2. PICK q \in Owing : on[Caller(q)] = c
        BY <2>6, <4>1 DEF Charged
      <4>3. q \in Requests /\ q # r /\ Caller(q) \in Threads \ {t}
        BY <1>0, <4>1, <4>2, RequestThreads DEF Owing
      <4> QED BY <1>1, <2>3, <4>2, <4>3
    <3>3. more \subseteq verified'
      BY <1>1, <3>0
    <3> QED BY <3>1, <3>2, <3>3 DEF Charged, Ids
  <2>7. (\A u \in Threads : at'[u] # "cleared") => \A u \in Threads : at[u] # "cleared"
    BY <1>1, <1>3
  <2> QED BY <1>1, <2>5, <2>6, <2>7 DEF LedgerInv
<1> QED BY <1>2, <1>3 DEF Charges

LEMMA LedgerStep ==
  ASSUME RInv, LedgerInv, [VerifyNext]_verifyVars
  PROVE  LedgerInv'
<1> USE DEF RInv
<1>0. /\ at \in [Threads -> {"idle", "compile", "lookup", "verify", "built"} \cup Storing]
      /\ on \in [Threads -> Clauses \cup {NoClause}]
  BY DEF VInv, Shapes
<1>1. ASSUME NEW r \in Requests, Start(r) \/ StartsWorker(r) \/ Joins(r) PROVE LedgerInv'
  <2>1. /\ UNCHANGED <<on, memo>>
        /\ at[Caller(r)] \in {"idle", "built"} /\ at[Worker(r)] \in {"idle", "built"}
        /\ \E p, q \in {"compile", "idle"} :
             at' = [at EXCEPT ![Caller(r)] = p, ![Worker(r)] = q]
    BY <1>0, <1>1, RequestThreads
    DEF Start, StartsWorker, Joins, Goto, Rest, threads, memo
  <2> QED BY <1>0, <2>1, Untouched
<1>2. ASSUME NEW r \in Requests, Answers(r) PROVE LedgerInv'
  BY <1>2, EndsLedger DEF Answers
<1>3. ASSUME NEW t \in Threads, Thread(t) PROVE LedgerInv'
  <2>1. CASE PastDeadline(t)
    <3>1. t = Caller(R(t)) /\ R(t) \in Requests
      BY <2>1, ThreadFacts DEF PastDeadline, VInv, ThreadHolds
    <3> QED BY <2>1, <3>1, EndsLedger DEF PastDeadline
  <2>2. CASE EntersGate(t)
    <3>1. t = Caller(R(t)) /\ R(t) \in Requests /\ at[t] = "lookup" /\ UNCHANGED memo
      BY <2>2, ThreadFacts DEF EntersGate, Misses
    <3>2. CASE Ends(R(t))
      BY <3>1, <3>2, EndsLedger
    <3>3. CASE ~Ends(R(t))
      <4>1. \A u \in Threads : at'[u] # at[u] \/ on'[u] # on[u] => u = t /\ at'[u] \in {"trim", "verify"}
        BY <1>0, <2>2, <3>3 DEF EntersGate, Goto
      <4> QED BY <3>1, <4>1, Untouched
    <3> QED BY <3>2, <3>3
  <2>3. CASE Compiles(t) \/ LooksUp(t) \/ Verifies(t) \/ Builds(t)
    <3>1. /\ UNCHANGED <<on, memo>> /\ at[t] \in {"compile", "lookup", "verify"}
          /\ at'[t] \in {"built", "lookup", "trim"}
          /\ \A u \in Threads \ {t} : at'[u] = at[u]
      BY <1>0, <2>3 DEF Compiles, LooksUp, Verifies, Builds, Goto, HitKeeps, Keeps
    <3> QED BY <3>1, Untouched
  <2> QED BY <1>3, <2>1, <2>2, <2>3, SumsLedger, TrimsLedger, StoresLedger, ChargesLedger
          DEF Thread
<1>4. CASE ClearsCompiled \/ UNCHANGED verifyVars
  BY <1>4, Untouched DEF ClearsCompiled, verifyVars, requests, threads, memo
<1> QED BY <1>1, <1>2, <1>3, <1>4 DEF VerifyNext

(* What is owed is at most one entry a request, so it fits the room kept.   *)
LEMMA LedgerBounds == LedgerInv => MemoBounded
<1> SUFFICES ASSUME LedgerInv, \A t \in Threads : at[t] # "cleared"
             PROVE  Cardinality(Ids(verified)) <= Allowed
  BY DEF MemoBounded
<1>1. PICK paid \in SUBSET Clauses : Charged(paid)
  BY DEF LedgerInv
<1> DEFINE debt == verified \ paid
           owner == [c \in debt |-> CHOOSE r \in Owing : on[Caller(r)] = c]
<1>2. debt \in SUBSET Clauses /\ paid \in SUBSET Clauses /\ verified \in SUBSET Clauses
  BY DEF LedgerInv
<1>3. Cardinality(debt) <= Cardinality(Adding)
  <2>1. \A c \in debt : owner[c] \in Owing /\ on[Caller(owner[c])] = c
    BY <1>1 DEF Charged
  <2>2. owner \in Injection(debt, Adding)
    <3>1. Owing \subseteq Adding
      BY DEF Owing, Adding
    <3> HIDE DEF debt
    <3> QED BY <2>1, <3>1 DEF Injection, IsInjective
  <2> HIDE DEF debt, owner
  <2> QED BY <2>2, AddingFacts, FS_Injection
<1>4. Cardinality(Ids(debt)) <= Cardinality(Adding) * Heaviest
  <2> DEFINE d == Cardinality(debt)
             n == Cardinality(Adding)
  <2>1. d \in Nat /\ n \in Nat /\ d <= n /\ Heaviest \in Nat
    BY <1>2, <1>3, IdsFacts, AddingFacts, HeaviestFacts
  <2>2. d * Heaviest <= n * Heaviest /\ d * Heaviest \in Nat /\ n * Heaviest \in Nat
    <3> HIDE DEF d, n
    <3> QED BY <2>1
  <2>3. Cardinality(Ids(debt)) <= d * Heaviest /\ Cardinality(Ids(debt)) \in Nat
    BY <1>2, IdsFacts
  <2> QED BY <2>2, <2>3
<1>5. Cardinality(Ids(verified)) <= Cardinality(Ids(paid)) + Cardinality(Ids(debt))
  <2>1. Ids(verified) = Ids(paid) \cup Ids(debt)
    BY <1>1 DEF Charged, Ids
  <2>2. IsFiniteSet(Ids(paid)) /\ IsFiniteSet(Ids(debt))
        /\ Cardinality(Ids(paid)) \in Nat /\ Cardinality(Ids(debt)) \in Nat
    BY <1>2, IdsFacts
  <2>3. Cardinality(Ids(paid) \cap Ids(debt)) \in Nat
    BY <2>2, FS_Intersection, FS_CardinalityType
  <2>4. Cardinality(Ids(paid) \cup Ids(debt))
          = Cardinality(Ids(paid)) + Cardinality(Ids(debt)) - Cardinality(Ids(paid) \cap Ids(debt))
    BY <2>2, FS_Union
  <2> HIDE DEF debt
  <2> QED BY <2>1, <2>2, <2>3, <2>4
<1>6. Cardinality(Ids(paid)) <= charged
  BY <1>1 DEF Charged
<1>7. /\ Cardinality(Ids(paid)) \in Nat /\ Cardinality(Ids(debt)) \in Nat
      /\ Cardinality(Ids(verified)) \in Nat /\ Allowed \in Nat
  BY <1>2, IdsFacts, HeaviestFacts
<1>8. /\ charged \in Nat /\ charged + Cardinality(Adding) * Heaviest <= Allowed
      /\ Cardinality(Adding) * Heaviest \in Nat
  BY AddingFacts, HeaviestFacts DEF LedgerInv, Room
<1> DEFINE k == Cardinality(Adding) * Heaviest
<1> HIDE DEF debt, k
<1> QED BY <1>4, <1>5, <1>6, <1>7, <1>8 DEF k

(* Crossing stores, charges and clears never let the memo hold more than    *)
(* the budget and one entry a request, once no clear is pending (`_trim`).  *)
THEOREM MemoKeepsItsBudget == VerifySpec => []MemoBounded
<1>1. VerifyInit => LedgerInv
  <2> SUFFICES ASSUME VerifyInit PROVE LedgerInv
    OBVIOUS
  <2>1. Adding = {} /\ verified = {} /\ charged = 0
    BY RequestThreads DEF VerifyInit, Adding
  <2>2. Room
    BY <2>1, FS_EmptySet, HeaviestFacts DEF Room
  <2>3. Charged({})
    BY <2>1, IdsGrow DEF Charged
  <2> QED BY <2>1, <2>2, <2>3 DEF LedgerInv
<1>2. RInv /\ LedgerInv /\ [VerifyNext]_verifyVars => LedgerInv'
  BY LedgerStep
<1>3. VerifySpec => []LedgerInv
  BY <1>1, <1>2, Invariant, PTL DEF VerifySpec
<1> QED BY <1>3, LedgerBounds, PTL

-----------------------------------------------------------------------------
(* The group counts of a search.                                           *)

Phases == {"start", "page", "grouped", "giveup", "await", "failed", "busy",
           "timed_out", "counted", "recounted", "count_failed"}
JobStates == {"none", "queued", "taken", "done", "cancelled"}
Whys == {"abandoned", "error", "would_verify"}
Results == {"none", "counts"} \cup Whys
Holding == {"need", "collect", "failing", "stopped"}
LeadAts == {"begin", "offer", "take", "drain", "end"} \cup Holding
HelperAts == {"ask", "take"} \cup Holding

WorkerRecords ==
  [role : {"idle", "count", "help"}, search : Searches \cup {None},
   at : {"idle"} \cup LeadAts \cup HelperAts, tree : Nat,
   conjunct : Conjuncts \cup {None}, why : Results]

WorkerStates == {r \in WorkerRecords : r.at = "collect" => r.conjunct \in Conjuncts}

SharedStates ==
  [next : Nat, stop : BOOLEAN, counts : [Trees -> Nat],
   errors : Seq(Trees \X Whys), done : SUBSET Trees]

Entries == {"count", "help"} \X Searches

Typed ==
  /\ pc \in [Searches -> Phases] /\ abandoned \in [Searches -> BOOLEAN]
  /\ job \in [Searches -> JobStates] /\ result \in [Searches -> Results]
  /\ started \in [Searches -> BOOLEAN] /\ gone \in [Searches -> BOOLEAN]
  /\ waiting \in Int /\ queue \in Seq(Entries)
  /\ worker \in [Workers -> WorkerStates]
  /\ shared \in [Searches -> SharedStates]
  /\ matched \in [Searches -> SUBSET Conjuncts]
  /\ collecting \in [Searches -> [Conjuncts -> Workers \cup {None}]]
  /\ overtaken \in [Searches -> Nat]

(* A worker is idle, or does for its search what its role allows.          *)
InRole ==
  \A w \in Workers :
    \/ worker[w] = Idle
    \/ worker[w].role = "count" /\ S(w) \in Searches /\ worker[w].at \in LeadAts
    \/ worker[w].role = "help" /\ S(w) \in Searches /\ worker[w].at \in HelperAts

LeadOf(w, s) == worker[w].role = "count" /\ S(w) = s
HelperOf(w, s) == worker[w].role = "help" /\ S(w) = s

(* No tree is left to take of the search's trees, whoever asks.            *)
Closed(s) == shared[s].stop \/ shared[s].next \notin Trees

(* Where a search's job stands when a helper is offered or counts for it.  *)
Helped(s) ==
  /\ job[s] \in {"taken", "done"} /\ started[s]
  /\ \A v \in Workers : LeadOf(v, s) =>
       worker[v].at \notin {"begin", "offer"} /\ (worker[v].at = "end" => Closed(s))

(* What is queued: a job once, a count for a queued future, a helper for a *)
(* job that offered one.                                                   *)
InQueue ==
  /\ \A i, j \in DOMAIN queue : queue[i] = queue[j] => i = j
  /\ \A i \in DOMAIN queue :
       IF queue[i][1] = "count" THEN job[queue[i][2]] = "queued" ELSE Helped(queue[i][2])

(* A search's future, the events around it and the workers that know it.   *)
Futures ==
  \A s \in Searches :
    /\ pc[s] = "start" => job[s] = "none"
    /\ job[s] \in {"none", "queued", "cancelled"} => ~started[s] /\ shared[s] = Untaken
    /\ gone[s] <=> job[s] \in {"done", "cancelled"} \/ (job[s] = "taken" /\ started[s])
    /\ job[s] = "done" => shared[s].stop
    /\ job[s] = "taken" => \E w \in Workers : LeadOf(w, s)

Leads ==
  \A w \in Workers : worker[w].role = "count" =>
    /\ job[S(w)] = "taken"
    /\ worker[w].at = "begin" <=> ~started[S(w)]
    /\ worker[w].at \in {"begin", "offer"} => shared[S(w)] = Untaken
    /\ worker[w].at = "drain" => Closed(S(w))
    /\ worker[w].at = "end" =>
         /\ AllDone(S(w))
         /\ worker[w].why = "counts" => \A t \in Trees : shared[S(w)].counts[t] = 1
    /\ \A v \in Workers : LeadOf(v, S(w)) => v = w

Helpers == \A w \in Workers : worker[w].role = "help" => Helped(S(w))

(* A tree taken is done, or one thread holds it; a tree done was counted   *)
(* once or failed.                                                         *)
Holds(w, s) == S(w) = s /\ worker[w].at \in Holding
Failed(s, t) == \E i \in DOMAIN shared[s].errors : shared[s].errors[i][1] = t

TreesTaken ==
  \A s \in Searches :
    /\ 1 <= shared[s].next
    /\ shared[s].done \subseteq 1..(shared[s].next - 1)
    /\ \A t \in Trees : IF t \in shared[s].done THEN shared[s].counts[t] = 1 \/ Failed(s, t)
                                                ELSE shared[s].counts[t] = 0
    /\ job[s] = "taken" /\ shared[s].stop =>
         shared[s].errors # <<>> \/ \E w \in Workers : Holds(w, s) /\ worker[w].at = "stopped"
    /\ \A w \in Workers : Holds(w, s) =>
         /\ worker[w].tree \in Trees /\ worker[w].tree < shared[s].next
         /\ worker[w].tree \notin shared[s].done
         /\ worker[w].at \in {"failing", "stopped"} => worker[w].why \in Whys
         /\ job[s] = "taken"
         /\ worker[w].at = "stopped" => shared[s].stop
    /\ \A v, w \in Workers : Holds(v, s) /\ Holds(w, s) /\ worker[v].tree = worker[w].tree => v = w

(* The jobs no worker has begun, and the helpers past the question.        *)
Pending == {s \in Searches : job[s] = "queued" \/ (job[s] = "taken" /\ ~started[s])}
Past == {w \in Workers : worker[w].role = "help" /\ worker[w].at = "take" /\ ~shared[S(w)].stop}

Overtaking ==
  \A s \in Searches :
    /\ overtaken[s] <= Cardinality(Workers) - 1
    /\ job[s] = "none" => overtaken[s] = 0
    /\ job[s] = "queued" => overtaken[s] + Cardinality(Past) <= Cardinality(Workers) - 1

CountingInv ==
  /\ Typed /\ InRole /\ InQueue /\ Futures /\ Leads /\ Helpers /\ TreesTaken
  /\ WaitingIsExact /\ Overtaking

----------------------------------------------------------------------------
(* Facts about the operators the model uses.                               *)

LEMMA TreesAreNumbers ==
    Cardinality(Trees) \in Nat /\ \A t \in Nat : t \in Trees <=> 1 <= t /\ t <= Cardinality(Trees)
<1>1. Cardinality(Trees) \in Nat
  BY CountingAssumption, FS_CardinalityType
<1> QED BY <1>1, CountingAssumption

LEMMA LeastNumber ==
    ASSUME NEW T \in SUBSET Nat, T # {}
    PROVE  \E m \in T : \A n \in T : m <= n
<1> DEFINE Below(x) == {y \in T : y < x}
           Belows == {Below(x) : x \in T}
<1>0. \A x \in T : x \in Nat
  OBVIOUS
<1>1. \A x \in T : IsFiniteSet(Below(x))
  <2> SUFFICES ASSUME NEW x \in T PROVE IsFiniteSet(Below(x))
    OBVIOUS
  <2>1. x \in Nat /\ \A y \in T : y \in Nat /\ (y < x => y <= x)
    BY <1>0
  <2>2. Below(x) \in SUBSET Nat
    BY <2>1
  <2>3. \A y \in Below(x) : y <= x
    BY <2>1
  <2> HIDE DEF Below
  <2> QED BY <2>1, <2>2, <2>3, FS_BoundedSetOfNaturals
<1>2. PICK a \in Belows : \A b \in Belows : <<b, a>> \notin StrictSubsetOrdering(T)
  <2>1. Belows \subseteq FiniteSubsetsOf(T) /\ Belows # {}
    <3>1. \A x \in T : Below(x) \in FiniteSubsetsOf(T)
      BY <1>1 DEF FiniteSubsetsOf
    <3> HIDE DEF Below
    <3> QED BY <3>1
  <2> HIDE DEF Belows
  <2> QED BY <2>1, FS_StrictSubsetOrderingWellFounded, WFMin
<1>3. PICK x \in T : a = Below(x)
  BY <1>2
<1>4. \A y \in T : x <= y
  <2> SUFFICES ASSUME NEW y \in T, y < x PROVE FALSE
    OBVIOUS
  <2>1. Below(y) \subseteq Below(x) /\ y \in Below(x) /\ y \notin Below(y)
    <3>1. \A z \in T : z < y => z < x
      BY <1>0
    <3>2. y \in Below(x) /\ y \notin Below(y)
      BY <1>0
    <3>3. Below(y) \subseteq Below(x)
      BY <3>1
    <3> QED BY <3>2, <3>3
  <2>2. Below(y) \in Belows /\ Below(y) \in SUBSET T /\ Below(x) \in SUBSET T
    OBVIOUS
  <2> HIDE DEF Below, Belows
  <2>3. <<Below(y), Below(x)>> \in StrictSubsetOrdering(T)
    BY <2>1, <2>2 DEF StrictSubsetOrdering
  <2> QED BY <1>2, <1>3, <2>2, <2>3
<1> QED BY <1>4

LEMMA MinIsMember ==
    ASSUME NEW T \in SUBSET Nat, T # {}
    PROVE  Min(T) \in T
BY LeastNumber DEF Min

LEMMA EntriesArePairs ==
    /\ \A e \in {"count", "help"}, s \in Searches : <<e, s>> \in Entries
    /\ \A x \in Entries : x[1] \in {"count", "help"} /\ x[2] \in Searches /\ x = <<x[1], x[2]>>
BY DEF Entries

LEMMA QueueEntries ==
    ASSUME Typed
    PROVE  \A i \in DOMAIN queue :
             /\ queue[i] \in Entries /\ queue[i] = <<queue[i][1], queue[i][2]>>
             /\ queue[i][1] \in {"count", "help"} /\ queue[i][2] \in Searches
<1>1. \A i \in DOMAIN queue : queue[i] \in Entries
  BY DEF Typed
<1> QED BY <1>1, EntriesArePairs

LEMMA UntakenIsConstant == Untaken' = Untaken
BY DEF Untaken

(* The pool's queue without a job it holds once.                           *)
LEMMA WithdrawnQueue ==
    ASSUME NEW E, NEW q \in Seq(E), NEW e \in E,
           \A i, j \in DOMAIN q : q[i] = q[j] => i = j
    PROVE  /\ Withdrawn(q, e) \in Seq(E)
           /\ \A i, j \in DOMAIN Withdrawn(q, e) : Withdrawn(q, e)[i] = Withdrawn(q, e)[j] => i = j
           /\ \A i \in DOMAIN Withdrawn(q, e) :
                Withdrawn(q, e)[i] # e /\ \E j \in DOMAIN q : Withdrawn(q, e)[i] = q[j]
<1> DEFINE r == Withdrawn(q, e)
<1>1. CASE ~ \E i \in DOMAIN q : q[i] = e
  BY <1>1 DEF Withdrawn
<1>2. ASSUME NEW k \in DOMAIN q, q[k] = e
      PROVE  /\ r \in Seq(E) /\ DOMAIN r = 1..(Len(q) - 1)
             /\ \A i \in DOMAIN r : r[i] = IF i < k THEN q[i] ELSE q[i + 1]
  <2>1. (CHOOSE i \in DOMAIN q : q[i] = e) = k
    BY <1>2
  <2>2. r = SubSeq(q, 1, k - 1) \o SubSeq(q, k + 1, Len(q))
    BY <1>2, <2>1 DEF Withdrawn, RemoveAt
  <2> DEFINE a == SubSeq(q, 1, k - 1)
             b == SubSeq(q, k + 1, Len(q))
  <2>3. k \in 1..Len(q) /\ Len(q) \in Nat
    OBVIOUS
  <2>4. a \in Seq(E) /\ Len(a) = k - 1 /\ \A i \in 1..(k - 1) : a[i] = q[i]
    BY <2>3
  <2>5. b \in Seq(E) /\ Len(b) = Len(q) - k /\ \A i \in 1..(Len(q) - k) : b[i] = q[k + i]
    BY <2>3
  <2> HIDE DEF r, a, b
  <2>6. r = a \o b
    BY <2>2 DEF a, b
  <2>7. r \in Seq(E) /\ Len(r) = Len(q) - 1
    BY <2>3, <2>4, <2>5, <2>6
  <2>8. \A i \in 1..(Len(q) - 1) : r[i] = IF i < k THEN q[i] ELSE q[i + 1]
    <3> SUFFICES ASSUME NEW i \in 1..(Len(q) - 1) PROVE r[i] = IF i < k THEN q[i] ELSE q[i + 1]
      OBVIOUS
    <3>1. r[i] = IF i <= Len(a) THEN a[i] ELSE b[i - Len(a)]
      BY <2>3, <2>4, <2>5, <2>6
    <3>2. CASE i < k
      BY <2>3, <2>4, <3>1, <3>2
    <3>3. CASE ~ (i < k)
      <4>1. i - (k - 1) \in 1..(Len(q) - k) /\ k + (i - (k - 1)) = i + 1 /\ ~ (i <= k - 1)
        BY <2>3, <3>3
      <4>2. b[i - (k - 1)] = q[i + 1]
        BY <2>5, <4>1
      <4>3. r[i] = b[i - (k - 1)]
        BY <2>4, <3>1, <4>1
      <4> QED BY <3>3, <4>2, <4>3
    <3> QED BY <3>2, <3>3
  <2> QED BY <2>7, <2>8
<1>3. ASSUME NEW k \in DOMAIN q, q[k] = e
      PROVE  /\ \A i, j \in DOMAIN r : r[i] = r[j] => i = j
             /\ \A i \in DOMAIN r : r[i] # e /\ \E j \in DOMAIN q : r[i] = q[j]
  <2>1. /\ DOMAIN r = 1..(Len(q) - 1) /\ k \in 1..Len(q) /\ Len(q) \in Nat /\ DOMAIN q = 1..Len(q)
        /\ \A i \in DOMAIN r : r[i] = IF i < k THEN q[i] ELSE q[i + 1]
    BY <1>2, <1>3
  <2> HIDE DEF r
  <2> QED BY <1>3, <2>1
<1> QED BY <1>1, <1>2, <1>3

LEMMA WithdrawnEntry ==
    ASSUME Typed, InQueue, NEW e \in Entries
    PROVE  /\ Withdrawn(queue, e) \in Seq(Entries)
           /\ \A i, j \in DOMAIN Withdrawn(queue, e) :
                Withdrawn(queue, e)[i] = Withdrawn(queue, e)[j] => i = j
           /\ \A i \in DOMAIN Withdrawn(queue, e) :
                Withdrawn(queue, e)[i] # e /\ \E j \in DOMAIN queue : Withdrawn(queue, e)[i] = queue[j]
<1>1. queue \in Seq(Entries) /\ \A i, j \in DOMAIN queue : queue[i] = queue[j] => i = j
  BY DEF InQueue, Typed
<1> QED BY <1>1, WithdrawnQueue

----------------------------------------------------------------------------
(* The steps, by what they touch: a caller's only the future and the queue. *)

Queues(s) ==
  /\ job[s] = "none" /\ job' = [job EXCEPT ![s] = "queued"] /\ pc'[s] # "start"
  /\ waiting' = waiting + 1 /\ queue' = Append(queue, <<"count", s>>)
  /\ UNCHANGED <<result, started, gone>>

Cancels(s) ==
  /\ job[s] = "queued" /\ job' = [job EXCEPT ![s] = "cancelled"]
  /\ queue' = Withdrawn(queue, <<"count", s>>) /\ Left(s)
  /\ UNCHANGED <<result, started>>

CallerEffect(s) ==
  /\ pc' \in [Searches -> Phases] /\ abandoned' \in [Searches -> BOOLEAN]
  /\ \A t \in Searches : pc'[t] = "start" => pc[t] = "start"
  /\ UNCHANGED <<worker, shared, bits, overtaken>>
  /\ UNCHANGED jobs \/ Queues(s) \/ Cancels(s)

LEMMA CallerSteps ==
    ASSUME Typed, Futures, NEW s \in Searches, Calls(s) \/ GraceOver(s) \/ TimesOut(s)
    PROVE  CallerEffect(s)
<1>1. pc \in [Searches -> Phases] /\ abandoned \in [Searches -> BOOLEAN]
  BY DEF Typed
<1>2. ASSUME StartCounting(s) PROVE CallerEffect(s)
  <2>1. pc[s] = "start" /\ job[s] = "none"
    BY <1>2 DEF StartCounting, Futures
  <2> QED BY <1>1, <1>2, <2>1 DEF StartCounting, CallerEffect, Queues, Answer, Phases, jobs
<1>3. ASSUME NEW a \in Phases, GiveUp(s, a), a # "start" PROVE CallerEffect(s)
  BY <1>1, <1>3 DEF GiveUp, Cancel, Cancels, CallerEffect, Answer
<1>4. ASSUME NEW a \in Phases, Answer(s, a), a # "start",
             UNCHANGED <<abandoned, jobs, worker, shared, bits, overtaken>>
      PROVE  CallerEffect(s)
  BY <1>1, <1>4 DEF CallerEffect, Answer
<1> QED
  BY <1>2, <1>3, <1>4 DEF Calls, Collects, GraceOver, GivesUp, Awaits, TimesOut, TakesResult, Phases

----------------------------------------------------------------------------
(* Every variable keeps its type.                                          *)

LEMMA TypedInit ==
    ASSUME Init
    PROVE  Typed
<1>1. Idle \in WorkerStates
  BY DEF Idle, WorkerStates, WorkerRecords, Results
<1>2. Untaken \in SharedStates
  BY DEF Untaken, SharedStates
<1> QED BY <1>1, <1>2 DEF Init, Typed, Phases, JobStates, Results

LEMMA OutcomeIsKnown ==
    ASSUME Typed, NEW s \in Searches
    PROVE  IF shared[s].errors = <<>> THEN Outcome(s) = "counts" ELSE Outcome(s) \in Whys
<1> DEFINE errors == shared[s].errors
           first == {e[1] : e \in ToSet(errors)}
<1>1. errors \in Seq(Trees \X Whys)
  BY DEF Typed, SharedStates
<1>2. CASE errors = <<>>
  BY <1>2 DEF Outcome
<1>3. CASE errors # <<>>
  <2>1. \A e \in ToSet(errors) : e \in Trees \X Whys
    BY <1>1 DEF ToSet
  <2>2. first \in SUBSET Nat /\ first # {}
    <3>1. \A e \in ToSet(errors) : e[1] \in Nat
      BY <2>1, TreesAreNumbers, CountingAssumption
    <3>2. errors[1] \in ToSet(errors)
      BY <1>1, <1>3 DEF ToSet
    <3> HIDE DEF errors
    <3> QED BY <3>1, <3>2
  <2>3. PICK m \in first : \A n \in first : m <= n
    <3> HIDE DEF first
    <3> QED BY <2>2, LeastNumber
  <2>4. PICK e \in ToSet(errors) : \A f \in ToSet(errors) : e[1] <= f[1]
    BY <2>3
  <2>5. Outcome(s) = (CHOOSE x \in ToSet(errors) : \A f \in ToSet(errors) : x[1] <= f[1])[2]
    BY <1>3 DEF Outcome
  <2> HIDE DEF errors
  <2> QED BY <1>3, <2>1, <2>4, <2>5 DEF errors
<1> QED BY <1>2, <1>3

(* What a step of a worker leaves: the others as they were, its own record  *)
(* changed where the step says so.                                         *)
Moved(w) ==
  /\ worker' \in [Workers -> WorkerStates]
  /\ \A v \in Workers \ {w} : worker'[v] = worker[v]

Ats == {"idle"} \cup LeadAts \cup HelperAts

LEMMA FreeStep ==
    ASSUME Typed, NEW w \in Workers, NEW r \in WorkerStates, worker' = [worker EXCEPT ![w] = r]
    PROVE  Moved(w) /\ worker'[w] = r
BY DEF Typed, Moved

LEMMA IdleTyped == Idle \in WorkerStates
BY DEF Idle, WorkerStates, WorkerRecords, Results

(* A step that changes of a worker's record where it stands, at most with   *)
(* its tree, its conjunct or its reason.                                    *)
Stays(w, a) ==
  /\ Moved(w) /\ worker'[w].at = a
  /\ worker'[w].role = worker[w].role /\ worker'[w].search = worker[w].search

LEMMA StaysStep ==
    ASSUME Typed, NEW w \in Workers, NEW a \in Ats \ {"collect"}, NEW why \in Results, NEW t \in Nat
    PROVE  /\ worker' = [worker EXCEPT ![w].at = a] =>
                Stays(w, a) /\ worker'[w].tree = worker[w].tree /\ worker'[w].why = worker[w].why
           /\ worker' = [worker EXCEPT ![w].at = a, ![w].why = why] =>
                Stays(w, a) /\ worker'[w].tree = worker[w].tree /\ worker'[w].why = why
           /\ worker' = [worker EXCEPT ![w].at = a, ![w].tree = t, ![w].why = why] =>
                Stays(w, a) /\ worker'[w].tree = t /\ worker'[w].why = why
<1> DEFINE r == worker[w]
<1>1. r \in WorkerStates /\ worker \in [Workers -> WorkerStates]
  BY DEF Typed
<1>2. /\ [r EXCEPT !.at = a] \in WorkerStates
      /\ [r EXCEPT !.at = a, !.why = why] \in WorkerStates
      /\ [r EXCEPT !.at = a, !.tree = t, !.why = why] \in WorkerStates
  BY <1>1 DEF WorkerStates, WorkerRecords, Ats
<1>3. \A q \in WorkerStates : worker' = [worker EXCEPT ![w] = q] => Moved(w) /\ worker'[w] = q
  BY FreeStep
<1>4. ASSUME worker' = [worker EXCEPT ![w].at = a]
      PROVE  Stays(w, a) /\ worker'[w].tree = r.tree /\ worker'[w].why = r.why
  BY <1>1, <1>2, <1>3, <1>4 DEF Stays, WorkerStates, WorkerRecords
<1>5. ASSUME worker' = [worker EXCEPT ![w].at = a, ![w].why = why]
      PROVE  Stays(w, a) /\ worker'[w].tree = r.tree /\ worker'[w].why = why
  BY <1>1, <1>2, <1>3, <1>5 DEF Stays, WorkerStates, WorkerRecords
<1>6. ASSUME worker' = [worker EXCEPT ![w].at = a, ![w].tree = t, ![w].why = why]
      PROVE  Stays(w, a) /\ worker'[w].tree = t /\ worker'[w].why = why
  BY <1>1, <1>2, <1>3, <1>6 DEF Stays, WorkerStates, WorkerRecords
<1> QED BY <1>4, <1>5, <1>6

LEMMA ClaimStep ==
    ASSUME Typed, NEW w \in Workers, NEW c \in Conjuncts,
           worker' = [worker EXCEPT ![w].at = "collect", ![w].conjunct = c]
    PROVE  Stays(w, "collect") /\ worker'[w].tree = worker[w].tree
<1> DEFINE r == [worker[w] EXCEPT !.at = "collect", !.conjunct = c]
<1>1. worker[w] \in WorkerStates /\ worker \in [Workers -> WorkerStates]
  BY DEF Typed
<1>2. /\ r \in WorkerStates /\ r.at = "collect" /\ r.tree = worker[w].tree
      /\ r.role = worker[w].role /\ r.search = worker[w].search
  BY <1>1 DEF WorkerStates, WorkerRecords, LeadAts, Holding
<1>3. worker' = [worker EXCEPT ![w] = r]
  BY <1>1
<1> HIDE DEF r
<1> QED BY <1>2, <1>3, FreeStep DEF Stays

LEMMA ReleaseStep ==
    ASSUME Typed, NEW w \in Workers,
           worker' = [worker EXCEPT ![w].at = "need", ![w].conjunct = None]
    PROVE  Stays(w, "need") /\ worker'[w].tree = worker[w].tree
<1> DEFINE r == [worker[w] EXCEPT !.at = "need", !.conjunct = None]
<1>1. worker[w] \in WorkerStates /\ worker \in [Workers -> WorkerStates]
  BY DEF Typed
<1>2. /\ r \in WorkerStates /\ r.at = "need" /\ r.tree = worker[w].tree
      /\ r.role = worker[w].role /\ r.search = worker[w].search
  BY <1>1 DEF WorkerStates, WorkerRecords, LeadAts, Holding
<1>3. worker' = [worker EXCEPT ![w] = r]
  BY <1>1
<1> HIDE DEF r
<1> QED BY <1>2, <1>3, FreeStep DEF Stays

LEMMA FailStep ==
    ASSUME Typed, NEW w \in Workers, NEW why \in Whys, Fail(w, why)
    PROVE  Stays(w, "failing") /\ worker'[w].tree = worker[w].tree /\ worker'[w].why = why
<1> DEFINE r == [worker[w] EXCEPT !.at = "failing", !.conjunct = None, !.why = why]
<1>1. worker[w] \in WorkerStates /\ worker \in [Workers -> WorkerStates]
  BY DEF Typed
<1>2. /\ r \in WorkerStates /\ r.at = "failing" /\ r.tree = worker[w].tree /\ r.why = why
      /\ r.role = worker[w].role /\ r.search = worker[w].search
  BY <1>1 DEF WorkerStates, WorkerRecords, LeadAts, Holding, Results
<1>3. worker' = [worker EXCEPT ![w] = r]
  BY <1>1 DEF Fail
<1> HIDE DEF r
<1> QED BY <1>2, <1>3, FreeStep DEF Stays

LEMMA FrameTyped ==
    ASSUME Typed, UNCHANGED <<callers, jobs, overtaken>>, worker' \in [Workers -> WorkerStates],
           shared' \in [Searches -> SharedStates],
           matched' \in [Searches -> SUBSET Conjuncts],
           collecting' \in [Searches -> [Conjuncts -> Workers \cup {None}]]
    PROVE  Typed'
BY DEF Typed, callers, jobs

Frees(w) == Moved(w) /\ worker'[w] = Idle
SharesOnly(s) ==
  /\ shared' \in [Searches -> SharedStates]
  /\ \A t \in Searches \ {s} : shared'[t] = shared[t]
Aside == UNCHANGED <<callers, jobs>>

LEMMA Busy ==
    ASSUME Typed, InRole, NEW w \in Workers, worker[w].at # "idle"
    PROVE  /\ S(w) \in Searches
           /\ worker[w].role \in {"count", "help"}
           /\ worker[w].role = "count" => worker[w].at \in LeadAts
           /\ worker[w].role = "help" => worker[w].at \in HelperAts
           /\ worker[w].tree \in Nat /\ worker[w].why \in Results
           /\ shared[S(w)] \in SharedStates
BY DEF Typed, InRole, Idle, WorkerStates, WorkerRecords

LEMMA SharedStep ==
    ASSUME NEW sh \in SharedStates, NEW n \in Nat, NEW t \in Trees, NEW why \in Whys
    PROVE  /\ [sh EXCEPT !.next = n] \in SharedStates
           /\ [sh EXCEPT !.stop = TRUE] \in SharedStates
           /\ [sh EXCEPT !.counts[t] = @ + 1, !.done = @ \cup {t}] \in SharedStates
           /\ [sh EXCEPT !.errors = Append(@, <<t, why>>), !.done = @ \cup {t}] \in SharedStates
<1> DEFINE Errors == Seq(Trees \X Whys)
           Counts == [Trees -> Nat]
<1>1. sh.errors \in Errors /\ Append(sh.errors, <<t, why>>) \in Errors
  BY DEF SharedStates
<1>2. sh.counts \in Counts /\ [sh.counts EXCEPT ![t] = @ + 1] \in Counts
  BY DEF SharedStates
<1>3. SharedStates = [next : Nat, stop : BOOLEAN, counts : Counts, errors : Errors, done : SUBSET Trees]
  BY DEF SharedStates
<1> HIDE DEF Errors, Counts
<1> QED BY <1>1, <1>2, <1>3

LEMMA AsksDoes ==
    ASSUME Typed, InRole, NEW w \in Workers, Asks(w)
    PROVE  /\ Typed' /\ Aside /\ UNCHANGED <<shared, overtaken>>
           /\ S(w) \in Searches /\ worker[w].role = "help" /\ worker[w].at = "ask"
           /\ Frees(w) \/ (Stays(w, "take") /\ ~ (waiting > 0))
<1>1. worker[w].at = "ask" /\ worker[w].role = "help" /\ S(w) \in Searches
  BY Busy DEF Asks, LeadAts, Holding
<1>2. CASE waiting > 0
  <2>1. Frees(w)
    BY <1>2, IdleTyped, FreeStep DEF Asks, Frees
  <2> QED BY <1>1, <2>1, FrameTyped DEF Asks, Aside, bits, Frees, Moved, Typed
<1>3. CASE ~ (waiting > 0)
  <2>1. Stays(w, "take")
    BY <1>3, StaysStep DEF Asks, At, Ats, LeadAts, Results
  <2> QED BY <1>1, <1>3, <2>1, FrameTyped DEF Asks, Aside, bits, Stays, Moved, Typed
<1> QED BY <1>2, <1>3

LEMMA TakesTreeDoes ==
    ASSUME Typed, InRole, NEW w \in Workers, TakesTree(w)
    PROVE  /\ Typed' /\ Aside
           /\ S(w) \in Searches /\ worker[w].at = "take"
           /\ \/ /\ Closed(S(w)) /\ UNCHANGED <<shared, overtaken>>
                 /\ IF worker[w].role = "count" THEN Stays(w, "drain") ELSE Frees(w)
              \/ /\ ~ Closed(S(w)) /\ SharesOnly(S(w))
                 /\ Stays(w, "failing") \/ Stays(w, "need")
                 /\ worker'[w].tree = shared[S(w)].next /\ worker'[w].why = "abandoned"
                 /\ shared'[S(w)] = [shared[S(w)] EXCEPT !.next = @ + 1]
                 /\ overtaken' = IF worker[w].role = "count" THEN overtaken
                                 ELSE [s \in Searches |-> overtaken[s] + IF job[s] = "queued" THEN 1 ELSE 0]
<1>1. worker[w].at = "take" /\ S(w) \in Searches /\ shared[S(w)] \in SharedStates
  BY Busy DEF TakesTree
<1>2. CASE Closed(S(w)) /\ worker[w].role = "count"
  <2>1. Stays(w, "drain")
    BY <1>2, StaysStep DEF TakesTree, Closed, Lead, At, Ats, LeadAts, Results
  <2> QED BY <1>1, <1>2, <2>1, FrameTyped DEF TakesTree, Closed, Aside, bits, Stays, Moved, Typed
<1>3. CASE Closed(S(w)) /\ worker[w].role # "count"
  <2>1. Frees(w)
    BY <1>3, IdleTyped, FreeStep DEF TakesTree, Closed, Lead, Frees
  <2> QED BY <1>1, <1>3, <2>1, FrameTyped DEF TakesTree, Closed, Aside, bits, Frees, Moved, Typed
<1>4. CASE ~ Closed(S(w))
  <2>1. shared[S(w)].next \in Nat
    BY <1>1 DEF SharedStates
  <2>2. /\ Stays(w, "failing") \/ Stays(w, "need")
        /\ worker'[w].tree = shared[S(w)].next /\ worker'[w].why = "abandoned"
    <3>1. /\ "failing" \in Ats /\ "need" \in Ats /\ "abandoned" \in Results
      BY DEF Ats, LeadAts, Holding, Results, Whys
    <3>2. CASE abandoned[S(w)]
      <4>1. worker' = [worker EXCEPT ![w].at = "failing", ![w].tree = shared[S(w)].next, ![w].why = "abandoned"]
        BY <1>4, <3>2 DEF TakesTree, Closed
      <4> QED BY <2>1, <3>1, <4>1, StaysStep
    <3>3. CASE ~ abandoned[S(w)]
      <4>1. worker' = [worker EXCEPT ![w].at = "need", ![w].tree = shared[S(w)].next, ![w].why = "abandoned"]
        BY <1>4, <3>3 DEF TakesTree, Closed
      <4> QED BY <2>1, <3>1, <4>1, StaysStep
    <3> QED BY <3>2, <3>3
  <2>3. /\ SharesOnly(S(w)) /\ shared'[S(w)] = [shared[S(w)] EXCEPT !.next = @ + 1]
        /\ overtaken' = IF worker[w].role = "count" THEN overtaken
                        ELSE [s \in Searches |-> overtaken[s] + IF job[s] = "queued" THEN 1 ELSE 0]
    <3>1. [shared[S(w)] EXCEPT !.next = @ + 1] \in SharedStates
      <4>1. shared[S(w)].next + 1 \in Nat
        BY <2>1
      <4>2. \A n \in Nat : [shared[S(w)] EXCEPT !.next = n] \in SharedStates
        <5>1. shared[S(w)].next \in Trees /\ "abandoned" \in Whys
          BY <1>4 DEF Closed, Whys
        <5> QED BY <1>1, <5>1, SharedStep
      <4> QED BY <4>1, <4>2
    <3>2. shared' = [shared EXCEPT ![S(w)].next = @ + 1]
      BY <1>4 DEF TakesTree, Closed
    <3> QED BY <1>1, <1>4, <3>1, <3>2 DEF TakesTree, Closed, Lead, SharesOnly, Typed
  <2>4. Aside /\ UNCHANGED bits
    BY DEF TakesTree, Aside
  <2>5. overtaken' \in [Searches -> Nat]
    BY <2>3 DEF Typed
  <2> QED BY <1>1, <1>4, <2>2, <2>3, <2>4, <2>5 DEF Typed, Aside, callers, jobs, bits, Stays, Moved, SharesOnly
<1> QED BY <1>2, <1>3, <1>4

LEMMA HeldTree ==
    ASSUME Typed, InRole, TreesTaken, NEW w \in Workers, worker[w].at \in Holding
    PROVE  /\ S(w) \in Searches /\ Holds(w, S(w)) /\ shared[S(w)] \in SharedStates
           /\ worker[w].role \in {"count", "help"}
           /\ worker[w].tree \in Trees /\ worker[w].tree \in Nat
           /\ worker[w].tree < shared[S(w)].next
           /\ worker[w].tree \notin shared[S(w)].done
           /\ worker[w].at \in {"failing", "stopped"} => worker[w].why \in Whys
           /\ worker[w].at = "stopped" => shared[S(w)].stop
           /\ job[S(w)] = "taken"
<1>1. worker[w].at # "idle"
  BY DEF Holding
<1>2. S(w) \in Searches
  BY <1>1, Busy
<1> QED BY <1>1, <1>2, Busy DEF TreesTaken, Holds

LEMMA ClaimsConjunctDoes ==
    ASSUME Typed, InRole, TreesTaken, NEW w \in Workers, ClaimsConjunct(w)
    PROVE  /\ Typed' /\ Aside /\ UNCHANGED <<shared, overtaken>>
           /\ worker[w].at = "need" /\ worker'[w].tree = worker[w].tree
           /\ Stays(w, "collect") \/ (Stays(w, "failing") /\ worker'[w].why \in Whys)
<1> DEFINE c == Min(Missing(w))
<1>1. worker[w].at = "need" /\ worker[w].at \in Holding
  BY DEF ClaimsConjunct, Holding
<1>2. c \in Conjuncts
  <2>1. Missing(w) \in SUBSET Conjuncts /\ Missing(w) # {}
    BY <1>1, HeldTree, CountingAssumption DEF ClaimsConjunct, Missing
  <2>2. Missing(w) \in SUBSET Nat
    BY <2>1, CountingAssumption
  <2> QED BY <2>1, <2>2, MinIsMember
<1>3. Aside /\ UNCHANGED <<shared, matched, overtaken>> /\ "abandoned" \in Whys
  BY DEF ClaimsConjunct, Aside, Whys
<1>4. CASE abandoned[S(w)]
  <2>1. Fail(w, "abandoned") /\ UNCHANGED collecting
    BY <1>4 DEF ClaimsConjunct
  <2>2. Stays(w, "failing") /\ worker'[w].tree = worker[w].tree /\ worker'[w].why = "abandoned"
    BY <1>3, <2>1, FailStep
  <2>3. Typed'
    BY <1>3, <2>1, <2>2, FrameTyped DEF Aside, Typed, Stays, Moved
  <2> QED BY <1>1, <1>3, <2>2, <2>3
<1>5. CASE ~ abandoned[S(w)]
  <2>1. /\ collecting' = [collecting EXCEPT ![S(w)][c] = w]
        /\ worker' = [worker EXCEPT ![w].at = "collect", ![w].conjunct = c]
    BY <1>5 DEF ClaimsConjunct
  <2> HIDE DEF c
  <2>2. Stays(w, "collect") /\ worker'[w].tree = worker[w].tree
    BY <1>2, <2>1, ClaimStep
  <2>3. collecting' \in [Searches -> [Conjuncts -> Workers \cup {None}]]
    BY <1>2, <2>1 DEF Typed
  <2>4. Typed'
    BY <1>3, <2>2, <2>3, FrameTyped DEF Aside, Typed, Stays, Moved
  <2> QED BY <1>1, <1>3, <2>2, <2>4
<1> QED BY <1>4, <1>5

LEMMA CollectsConjunctDoes ==
    ASSUME Typed, InRole, TreesTaken, NEW w \in Workers, CollectsConjunct(w)
    PROVE  /\ Typed' /\ Aside /\ UNCHANGED <<shared, overtaken>>
           /\ worker[w].at = "collect" /\ worker'[w].tree = worker[w].tree
           /\ Stays(w, "need") \/ (Stays(w, "failing") /\ worker'[w].why \in Whys)
<1>1. worker[w].at = "collect" /\ worker[w].at \in Holding /\ worker[w].conjunct \in Conjuncts
  BY DEF CollectsConjunct, Holding, Typed, WorkerStates
<1>2. Aside /\ UNCHANGED <<shared, overtaken>>
  BY DEF CollectsConjunct, Aside
<1>3. collecting' \in [Searches -> [Conjuncts -> Workers \cup {None}]]
  BY DEF CollectsConjunct, Release, Typed
<1>4. CASE /\ matched' = [matched EXCEPT ![S(w)] = @ \cup {worker[w].conjunct}]
           /\ worker' = [worker EXCEPT ![w].at = "need", ![w].conjunct = None]
  <2>1. Stays(w, "need") /\ worker'[w].tree = worker[w].tree
    BY <1>4, ReleaseStep
  <2>2. matched' \in [Searches -> SUBSET Conjuncts]
    BY <1>1, <1>4 DEF Typed
  <2>3. Typed'
    BY <1>2, <1>3, <2>1, <2>2, FrameTyped DEF Aside, Typed, Stays, Moved
  <2> QED BY <1>1, <1>2, <2>1, <2>3
<1>5. ASSUME NEW why \in {"error", "would_verify"}, Fail(w, why), UNCHANGED matched
      PROVE  Typed' /\ Stays(w, "failing") /\ worker'[w].tree = worker[w].tree /\ worker'[w].why \in Whys
  <2>1. why \in Whys
    BY DEF Whys
  <2>2. Stays(w, "failing") /\ worker'[w].tree = worker[w].tree /\ worker'[w].why = why
    BY <1>5, <2>1, FailStep
  <2>3. Typed'
    BY <1>2, <1>3, <1>5, <2>2, FrameTyped DEF Aside, Typed, Stays, Moved
  <2> QED BY <2>1, <2>2, <2>3
<1> QED BY <1>1, <1>2, <1>4, <1>5 DEF CollectsConjunct

LEMMA CountsTreeDoes ==
    ASSUME Typed, InRole, TreesTaken, NEW w \in Workers, CountsTree(w)
    PROVE  /\ Typed' /\ Aside /\ UNCHANGED overtaken
           /\ worker[w].at = "need" /\ SharesOnly(S(w))
           /\ Stays(w, Onward(w))
           /\ shared'[S(w)] = [shared[S(w)] EXCEPT !.counts[worker[w].tree] = @ + 1,
                                                   !.done = @ \cup {worker[w].tree}]
<1>1. worker[w].at = "need" /\ worker[w].at \in Holding
  BY DEF CountsTree, Holding
<1>2. Onward(w) \in Ats \ {"collect"} /\ worker[w].tree \in Nat
  BY DEF Onward, Ats, LeadAts, HelperAts, Typed, WorkerStates, WorkerRecords
<1>3. Stays(w, Onward(w))
  <2>1. worker' = [worker EXCEPT ![w].at = Onward(w)]
    BY DEF CountsTree, At
  <2>2. "error" \in Results
    BY DEF Results, Whys
  <2> QED BY <1>2, <2>1, <2>2, StaysStep
<1>4. /\ SharesOnly(S(w))
      /\ shared'[S(w)] = [shared[S(w)] EXCEPT !.counts[worker[w].tree] = @ + 1,
                                              !.done = @ \cup {worker[w].tree}]
  <2>1. [shared[S(w)] EXCEPT !.counts[worker[w].tree] = @ + 1, !.done = @ \cup {worker[w].tree}] \in SharedStates
    <3>1. "error" \in Whys
      BY DEF Whys
    <3> QED BY <1>1, <3>1, HeldTree, SharedStep
  <2> QED BY <1>1, <2>1, HeldTree DEF CountsTree, SharesOnly, Typed
<1>5. Aside /\ UNCHANGED <<bits, overtaken>>
  BY DEF CountsTree, Aside
<1> QED BY <1>1, <1>3, <1>4, <1>5, FrameTyped DEF Aside, bits, Typed, Stays, Moved, SharesOnly

LEMMA StopsSharingDoes ==
    ASSUME Typed, InRole, TreesTaken, NEW w \in Workers, StopsSharing(w)
    PROVE  /\ Typed' /\ Aside /\ UNCHANGED overtaken
           /\ worker[w].at = "failing" /\ SharesOnly(S(w))
           /\ Stays(w, "stopped") /\ worker'[w].tree = worker[w].tree /\ worker'[w].why = worker[w].why
           /\ shared'[S(w)] = [shared[S(w)] EXCEPT !.stop = TRUE]
<1>1. worker[w].at = "failing" /\ worker[w].at \in Holding
  BY DEF StopsSharing, Holding
<1>2. Stays(w, "stopped") /\ worker'[w].tree = worker[w].tree /\ worker'[w].why = worker[w].why
  <2>1. worker' = [worker EXCEPT ![w].at = "stopped"] /\ "stopped" \in Ats
    BY DEF StopsSharing, At, Ats, LeadAts, Holding
  <2>2. "error" \in Results
    BY DEF Results, Whys
  <2> QED BY <2>1, <2>2, StaysStep
<1>3. SharesOnly(S(w)) /\ shared'[S(w)] = [shared[S(w)] EXCEPT !.stop = TRUE]
  <2>1. [shared[S(w)] EXCEPT !.stop = TRUE] \in SharedStates
    <3>1. "error" \in Whys
      BY DEF Whys
    <3> QED BY <1>1, <3>1, HeldTree, SharedStep
  <2> QED BY <1>1, <2>1, HeldTree DEF StopsSharing, SharesOnly, Typed
<1>4. Aside /\ UNCHANGED <<bits, overtaken>>
  BY DEF StopsSharing, Aside
<1> QED BY <1>1, <1>2, <1>3, <1>4, FrameTyped DEF Aside, bits, Typed, Stays, Moved, SharesOnly

LEMMA KeepsErrorDoes ==
    ASSUME Typed, InRole, TreesTaken, NEW w \in Workers, KeepsError(w)
    PROVE  /\ Typed' /\ Aside /\ UNCHANGED overtaken
           /\ worker[w].at = "stopped" /\ SharesOnly(S(w))
           /\ IF worker[w].role = "count" THEN Stays(w, "drain") ELSE Frees(w)
           /\ shared'[S(w)] = [shared[S(w)] EXCEPT !.errors = Append(@, <<worker[w].tree, worker[w].why>>),
                                                   !.done = @ \cup {worker[w].tree}]
<1>1. worker[w].at = "stopped" /\ worker[w].at \in Holding
  BY DEF KeepsError, Holding
<1>2. IF worker[w].role = "count" THEN Stays(w, "drain") ELSE Frees(w)
  <2>1. CASE worker[w].role = "count"
    <3>1. worker' = [worker EXCEPT ![w].at = "drain"] /\ "drain" \in Ats /\ "error" \in Results
      BY <2>1 DEF KeepsError, At, Ats, LeadAts, Lead, Results, Whys
    <3> QED BY <2>1, <3>1, StaysStep
  <2>2. CASE worker[w].role # "count"
    BY <2>2, IdleTyped, FreeStep DEF KeepsError, Lead, Frees
  <2> QED BY <2>1, <2>2
<1>3. /\ SharesOnly(S(w))
      /\ shared'[S(w)] = [shared[S(w)] EXCEPT !.errors = Append(@, <<worker[w].tree, worker[w].why>>),
                                              !.done = @ \cup {worker[w].tree}]
  <2>1. [shared[S(w)] EXCEPT !.errors = Append(@, <<worker[w].tree, worker[w].why>>),
                             !.done = @ \cup {worker[w].tree}] \in SharedStates
    BY <1>1, HeldTree, SharedStep
  <2> QED BY <1>1, <2>1, HeldTree DEF KeepsError, SharesOnly, Typed
<1>4. Aside /\ UNCHANGED <<bits, overtaken>>
  BY DEF KeepsError, Aside
<1> QED BY <1>1, <1>2, <1>3, <1>4, FrameTyped DEF Aside, bits, Typed, Stays, Frees, Moved, SharesOnly

LEMMA DrainsDoes ==
    ASSUME Typed, InRole, NEW w \in Workers, Drains(w)
    PROVE  /\ Typed' /\ Aside /\ UNCHANGED <<shared, overtaken>>
           /\ S(w) \in Searches /\ worker[w].at = "drain" /\ worker[w].role = "count"
           /\ AllDone(S(w)) /\ Stays(w, "end") /\ worker'[w].why = Outcome(S(w))
<1>1. worker[w].at = "drain" /\ S(w) \in Searches /\ worker[w].role = "count"
  BY Busy DEF Drains, HelperAts, Holding
<1>2. Outcome(S(w)) \in Results
  BY <1>1, OutcomeIsKnown DEF Results
<1>3. Stays(w, "end") /\ worker'[w].why = Outcome(S(w))
  <2>1. worker' = [worker EXCEPT ![w].at = "end", ![w].why = Outcome(S(w))] /\ "end" \in Ats
    BY DEF Drains, Ats, LeadAts
  <2> QED BY <1>2, <2>1, StaysStep
<1> QED BY <1>1, <1>3, FrameTyped DEF Drains, Aside, bits, Typed, Stays, Moved

----------------------------------------------------------------------------
(* A step that takes no part in the queue leaves the jobs' bookkeeping: it  *)
(* changes what its own search shares, if anything, while the job is taken  *)
(* and its lead neither before the trees nor past them.                     *)

Working(s) ==
  /\ job[s] = "taken"
  /\ \A v \in Workers : LeadOf(v, s) => worker[v].at \notin {"begin", "offer", "end"}

Shares(w) ==
  /\ Typed' /\ Aside /\ S(w) \in Searches
  /\ worker[w].role \in {"count", "help"}
  /\ worker[w].at \notin {"begin", "offer", "end"}
  /\ \/ worker[w].role = "help" /\ Frees(w)
     \/ Stays(w, worker'[w].at) /\ worker'[w].at \notin {"begin", "offer"}
  /\ worker'[w] # Idle =>
       worker'[w].at \in IF worker[w].role = "count" THEN LeadAts ELSE HelperAts
  /\ SharesOnly(S(w))
  /\ shared'[S(w)] # shared[S(w)] => Working(S(w))
  /\ shared[S(w)].stop => shared'[S(w)].stop
  /\ \A s \in {S(w)} : Closed(s) \/ worker'[w].at = "drain" => Closed(s)'
  /\ worker'[w].at = "end" =>
       /\ UNCHANGED shared /\ Closed(S(w)) /\ AllDone(S(w))
       /\ worker'[w].why = "counts" => \A t \in Trees : shared[S(w)].counts[t] = 1

LEMMA SharesLeads ==
    ASSUME CountingInv, NEW w \in Workers, Shares(w)
    PROVE  /\ \A v \in Workers, s \in Searches : LeadOf(v, s)' <=> LeadOf(v, s)
           /\ \A v \in Workers, s \in Searches : HelperOf(v, s)' => HelperOf(v, s)
           /\ \A v \in Workers : worker'[v].role = "count" => worker[v].role = "count" /\ S(v)' = S(v)
           /\ \A v \in Workers : worker'[v].role = "help" => worker[v].role = "help" /\ S(v)' = S(v)
           /\ \A v \in Workers : worker'[v] = Idle \/ worker'[v].at \notin {"begin", "offer"} \/ worker'[v] = worker[v]
           /\ \A s \in Searches : Closed(s) => Closed(s)'
<1>1. \A v \in Workers :
        \/ worker'[v] = worker[v]
        \/ worker[v].role = "help" /\ worker'[v] = Idle
        \/ /\ worker'[v].role = worker[v].role /\ worker'[v].search = worker[v].search
           /\ worker'[v].at \notin {"begin", "offer"}
  BY DEF Shares, Stays, Frees, Moved
<1>2. \A s \in Searches : Closed(s) => Closed(s)'
  BY DEF Shares, SharesOnly, Closed
<1>3. Idle.role = "idle"
  BY DEF Idle
<1> QED BY <1>1, <1>2, <1>3 DEF LeadOf, HelperOf, S

LEMMA SharesHelped ==
    ASSUME CountingInv, NEW w \in Workers, Shares(w), NEW s \in Searches, Helped(s)
    PROVE  Helped(s)'
<1>1. job'[s] = job[s] /\ started'[s] = started[s]
  BY DEF Shares, Aside, jobs
<1>2. ASSUME NEW v \in Workers, LeadOf(v, s)'
      PROVE  worker'[v].at \notin {"begin", "offer"} /\ (worker'[v].at = "end" => Closed(s)')
  <2>1. LeadOf(v, s)
    BY <1>2, SharesLeads
  <2>2. worker[v].at \notin {"begin", "offer"} /\ (worker[v].at = "end" => Closed(s))
    BY <2>1 DEF Helped
  <2>3. CASE v = w
    BY <1>2, <2>1, <2>3, SharesLeads DEF Shares, LeadOf, Frees, Idle, S
  <2>4. CASE v # w
    BY <2>2, <2>4, SharesLeads DEF Shares, Frees, Stays, Moved
  <2> QED BY <2>3, <2>4
<1> QED BY <1>1, <1>2 DEF Helped

LEMMA SharesBooks ==
    ASSUME CountingInv, NEW w \in Workers, Shares(w)
    PROVE  InRole' /\ InQueue' /\ Futures' /\ Leads' /\ Helpers' /\ WaitingIsExact'
<1> USE DEF CountingInv
<1>0. UNCHANGED <<pc, jobs>> /\ worker' \in [Workers -> WorkerStates] /\ Typed'
  BY DEF Shares, Aside, callers, Typed
<1>1. InRole'
  BY DEF InRole, Shares, Stays, Frees, Moved, S
<1>2. InQueue'
  <2>1. \A i \in DOMAIN queue : queue[i][2] \in Searches
    BY QueueEntries
  <2> QED BY <1>0, <2>1, SharesHelped DEF InQueue, jobs
<1>3. Futures'
  <2> SUFFICES ASSUME NEW s \in Searches PROVE
        /\ pc'[s] = "start" => job'[s] = "none"
        /\ job'[s] \in {"none", "queued", "cancelled"} => ~started'[s] /\ shared'[s] = Untaken
        /\ gone'[s] <=> job'[s] \in {"done", "cancelled"} \/ (job'[s] = "taken" /\ started'[s])
        /\ job'[s] = "done" => shared'[s].stop
        /\ job'[s] = "taken" => \E v \in Workers : LeadOf(v, s)'
    BY DEF Futures, Untaken
  <2>1. UNCHANGED <<pc, job, started, gone>>
    BY <1>0 DEF jobs
  <2>2. shared'[s] = shared[s] \/ job[s] = "taken"
    BY DEF Shares, SharesOnly, Working
  <2> QED BY <2>1, <2>2, SharesLeads DEF Futures
<1>4. Leads'
  <2> SUFFICES ASSUME NEW v \in Workers, worker'[v].role = "count" PROVE
        /\ job'[S(v)'] = "taken"
        /\ worker'[v].at = "begin" <=> ~started'[S(v)']
        /\ worker'[v].at \in {"begin", "offer"} => shared'[S(v)'] = Untaken
        /\ worker'[v].at = "drain" => Closed(S(v))'
        /\ worker'[v].at = "end" =>
             /\ AllDone(S(v))'
             /\ worker'[v].why = "counts" => \A t \in Trees : shared'[S(v)'].counts[t] = 1
        /\ \A u \in Workers : LeadOf(u, S(v))' => u = v
    BY DEF Leads, Untaken
  <2>1. worker[v].role = "count" /\ S(v)' = S(v) /\ S(v) \in Searches
    BY SharesLeads DEF InRole, Idle
  <2>2. UNCHANGED <<job, started>>
    BY <1>0 DEF jobs
  <2>3. \A u \in Workers : LeadOf(u, S(v))' => u = v
    BY <2>1, SharesLeads DEF Leads, LeadOf
  <2>4. CASE v = w
    <3>1. worker'[v].at \notin {"begin", "offer"} /\ worker[v].at # "begin"
      BY <2>1, <2>4, SharesLeads DEF Shares, Frees, Idle
    <3> QED BY <2>1, <2>2, <2>3, <2>4, <3>1 DEF Shares, Leads, AllDone
  <2>5. CASE v # w
    <3>1. worker'[v] = worker[v]
      BY <2>5 DEF Shares, Stays, Frees, Moved
    <3>2. shared'[S(v)] = shared[S(v)] \/ worker[v].at \notin {"begin", "offer", "end"}
      BY <2>1 DEF Shares, SharesOnly, Working, LeadOf
    <3>3. worker[v].at = "drain" => Closed(S(v))'
      BY <2>1, <2>5, SharesLeads DEF Leads
    <3> QED BY <2>1, <2>2, <2>3, <3>1, <3>2, <3>3 DEF Leads, AllDone
  <2> QED BY <2>4, <2>5
<1>5. Helpers'
  BY SharesLeads, SharesHelped DEF Helpers, InRole, Idle, Helped
<1>6. WaitingIsExact'
  BY <1>0 DEF WaitingIsExact, jobs
<1> QED BY <1>1, <1>2, <1>3, <1>4, <1>5, <1>6

----------------------------------------------------------------------------
(* Helpers past the question, and the trees taken.                         *)

LEMMA Bounds ==
    /\ IsFiniteSet(Past) /\ Cardinality(Past) \in Nat
    /\ Cardinality(Workers) \in Nat /\ Cardinality(Workers) >= 1
<1>1. Past \in SUBSET Workers
  BY DEF Past
<1>2. IsFiniteSet(Workers) /\ Workers # {} /\ IsFiniteSet(Past)
  BY <1>1, CountingAssumption, FS_Subset
<1>3. Cardinality(Workers) \in Nat /\ Cardinality(Past) \in Nat /\ Cardinality(Workers) # 0
  BY <1>2, FS_CardinalityType, FS_EmptySet
<1> QED BY <1>2, <1>3

(* A queued job is counted as waiting.                                     *)
LEMMA QueuedWaits ==
    ASSUME WaitingIsExact, NEW s \in Searches, job[s] = "queued"
    PROVE  waiting > 0
<1>1. IsFiniteSet(Pending) /\ s \in Pending /\ waiting = Cardinality(Pending)
  <2>1. Pending \in SUBSET Searches /\ s \in Pending /\ waiting = Cardinality(Pending)
    BY DEF Pending, WaitingIsExact
  <2> QED BY <2>1, CountingAssumption, FS_Subset
<1>2. Cardinality(Pending) \in Nat /\ Cardinality(Pending) # 0
  BY <1>1, FS_CardinalityType, FS_EmptySet
<1> QED BY <1>1, <1>2

LEMMA OvertakingKept ==
    ASSUME Typed, Overtaking, overtaken' \in [Searches -> Nat],
           \A s \in Searches : job'[s] \in {"queued", "none"} => job'[s] = job[s],
           \A s \in Searches : overtaken'[s] \in {overtaken[s], 0},
           Past' \subseteq Past \/ \A s \in Searches : job'[s] # "queued"
    PROVE  Overtaking'
<1>1. CASE Past' \subseteq Past
  <2>1. Cardinality(Past') <= Cardinality(Past) /\ Cardinality(Past') \in Nat
    BY <1>1, Bounds, FS_Subset, FS_CardinalityType
  <2> QED BY <2>1, Bounds DEF Overtaking, Typed
<1>2. CASE \A s \in Searches : job'[s] # "queued"
  BY <1>2, Bounds DEF Overtaking, Typed
<1> QED BY <1>1, <1>2

LEMMA PastShrinks ==
    ASSUME InRole, NEW w \in Workers, Moved(w),
           worker'[w].role # "help" \/ worker'[w].at # "take",
           \A s \in Searches : shared[s].stop => shared'[s].stop
    PROVE  Past' \subseteq Past
<1> SUFFICES ASSUME NEW v \in Workers, worker'[v].role = "help", worker'[v].at = "take",
                    ~ shared'[S(v)'].stop
             PROVE  v \in Past
  BY DEF Past
<1>1. worker'[v] = worker[v]
  BY DEF Moved
<1>2. S(v) \in Searches
  BY <1>1 DEF InRole, Idle
<1> QED BY <1>1, <1>2 DEF Past, S

(* A step that leaves the shared trees keeps them if its worker gains none. *)
KeepsItsTrees(w) ==
  /\ Moved(w)
  /\ worker'[w].at \in Holding =>
       /\ worker[w].at \in Holding /\ worker'[w].search = worker[w].search
       /\ worker'[w].tree = worker[w].tree
       /\ worker'[w].at \in {"failing", "stopped"} => worker'[w].why \in Whys
       /\ worker'[w].at # "stopped"
  /\ worker[w].at # "stopped"

LEMMA TreesKept ==
    ASSUME Typed, TreesTaken, NEW w \in Workers, KeepsItsTrees(w), UNCHANGED shared,
           \A s \in Searches : job'[s] = "taken" => job[s] = "taken" \/ ~ shared[s].stop,
           \A s \in Searches : job[s] = "taken" => job'[s] = "taken"
    PROVE  TreesTaken'
<1>1. ASSUME NEW v \in Workers, NEW s \in Searches, Holds(v, s)'
      PROVE  /\ Holds(v, s) /\ worker'[v].tree = worker[v].tree
             /\ worker'[v].at \in {"failing", "stopped"} => worker'[v].why \in Whys
             /\ worker'[v].at = "stopped" => worker[v].at = "stopped"
  <2>1. CASE v = w
    BY <1>1, <2>1 DEF KeepsItsTrees, Holds, S
  <2>2. CASE v # w
    BY <1>1, <2>2 DEF KeepsItsTrees, Moved, Holds, S, TreesTaken
  <2> QED BY <2>1, <2>2
<1>2. ASSUME NEW v \in Workers, NEW s \in Searches, Holds(v, s), worker[v].at = "stopped"
      PROVE  Holds(v, s)' /\ worker'[v].at = "stopped"
  BY <1>2 DEF KeepsItsTrees, Moved, Holds, S
<1> QED BY <1>1, <1>2 DEF TreesTaken, Failed

(* Once every tree taken is done no thread holds one.                      *)
LEMMA NoneHolds ==
    ASSUME Typed, TreesTaken, NEW s \in Searches, AllDone(s), NEW v \in Workers
    PROVE  ~ Holds(v, s)
<1> SUFFICES ASSUME Holds(v, s) PROVE FALSE
  OBVIOUS
<1>1. shared[s].next \in Nat
  BY DEF Typed, SharedStates
<1>2. /\ worker[v].tree \in Trees /\ worker[v].tree < shared[s].next
      /\ worker[v].tree \notin shared[s].done
  BY DEF TreesTaken
<1>3. worker[v].tree \in 1..(shared[s].next - 1)
  BY <1>1, <1>2, TreesAreNumbers, CountingAssumption
<1> QED BY <1>2, <1>3 DEF AllDone

LEMMA HoldingWorks ==
    ASSUME CountingInv, NEW w \in Workers, worker[w].at \in Holding
    PROVE  Working(S(w))
<1> USE DEF CountingInv
<1>1. S(w) \in Searches /\ Holds(w, S(w)) /\ job[S(w)] = "taken" /\ worker[w].role \in {"count", "help"}
  BY HeldTree
<1>2. ~ AllDone(S(w))
  BY <1>1, NoneHolds
<1>3. ASSUME NEW v \in Workers, LeadOf(v, S(w)) PROVE worker[v].at \notin {"begin", "offer", "end"}
  <2>1. worker[v].at # "end"
    BY <1>2, <1>3 DEF Leads, LeadOf
  <2>2. CASE worker[w].role = "count"
    BY <1>3, <2>1, <2>2 DEF Leads, LeadOf, Holding
  <2>3. CASE worker[w].role = "help"
    BY <1>3, <2>1, <2>3 DEF Helpers, Helped
  <2> QED BY <1>1, <2>2, <2>3
<1> QED BY <1>1, <1>3 DEF Working

LEMMA AsksKeeps ==
    ASSUME CountingInv, NEW w \in Workers, Asks(w)
    PROVE  CountingInv'
<1> USE DEF CountingInv
<1>1. /\ Typed' /\ Aside /\ UNCHANGED <<shared, overtaken>>
      /\ S(w) \in Searches /\ worker[w].role = "help" /\ worker[w].at = "ask"
      /\ Frees(w) \/ (Stays(w, "take") /\ ~ (waiting > 0))
  BY AsksDoes
<1>2. Shares(w)
  BY <1>1 DEF Shares, SharesOnly, Frees, Stays, Idle, HelperAts, Typed, Closed
<1>3. KeepsItsTrees(w)
  BY <1>1 DEF KeepsItsTrees, Frees, Stays, Idle, Holding
<1>4. TreesTaken'
  BY <1>1, <1>3, TreesKept DEF Aside, jobs
<1>5. Past' \subseteq Past \/ \A s \in Searches : job'[s] # "queued"
  <2>1. CASE Frees(w)
    BY <1>1, <2>1 DEF Past, Frees, Moved, Idle, S
  <2>2. CASE ~ (waiting > 0)
    BY <1>1, <2>2, QueuedWaits DEF Aside, jobs
  <2> QED BY <1>1, <2>1, <2>2
<1>6. Overtaking'
  BY <1>1, <1>5, OvertakingKept DEF Aside, jobs, Typed
<1> QED BY <1>1, <1>2, <1>4, <1>6, SharesBooks

LEMMA DrainsKeeps ==
    ASSUME CountingInv, NEW w \in Workers, Drains(w)
    PROVE  CountingInv'
<1> USE DEF CountingInv
<1>1. /\ Typed' /\ Aside /\ UNCHANGED <<shared, overtaken>>
      /\ S(w) \in Searches /\ worker[w].at = "drain" /\ worker[w].role = "count"
      /\ AllDone(S(w)) /\ Stays(w, "end") /\ worker'[w].why = Outcome(S(w))
  BY DrainsDoes
<1>2. Closed(S(w)) /\ job[S(w)] = "taken"
  BY <1>1 DEF Leads
<1>3. ASSUME Outcome(S(w)) = "counts" PROVE \A t \in Trees : shared[S(w)].counts[t] = 1
  <2>1. shared[S(w)] \in SharedStates /\ shared[S(w)].errors = <<>>
    BY <1>1, <1>3, OutcomeIsKnown DEF Typed, Whys
  <2>2. \A v \in Workers : ~ Holds(v, S(w))
    BY <1>1, NoneHolds
  <2>3. ~ shared[S(w)].stop
    BY <1>1, <1>2, <2>1, <2>2 DEF TreesTaken
  <2>4. shared[S(w)].next \notin Trees /\ shared[S(w)].next \in Nat /\ shared[S(w)].next >= 1
    BY <1>1, <1>2, <2>1, <2>3 DEF Closed, TreesTaken, SharedStates
  <2>5. ASSUME NEW t \in Trees PROVE t \in shared[S(w)].done
    <3>1. t \in Nat /\ 1 <= t /\ t < shared[S(w)].next
      BY <2>4, TreesAreNumbers, CountingAssumption
    <3> QED BY <1>1, <2>4, <3>1 DEF AllDone
  <2> QED BY <1>1, <2>1, <2>5 DEF TreesTaken, Failed
<1>4. Shares(w)
  BY <1>1, <1>2, <1>3 DEF Shares, SharesOnly, Stays, LeadAts, Typed, Closed
<1>5. KeepsItsTrees(w)
  BY <1>1 DEF KeepsItsTrees, Stays, Holding
<1>6. TreesTaken'
  BY <1>1, <1>5, TreesKept DEF Aside, jobs
<1>7. Past' \subseteq Past
  BY <1>1 DEF Past, Stays, Moved, S
<1>8. Overtaking'
  BY <1>1, <1>7, OvertakingKept DEF Aside, jobs, Typed
<1> QED BY <1>1, <1>4, <1>6, <1>8, SharesBooks

LEMMA ConjunctKeeps ==
    ASSUME CountingInv, NEW w \in Workers, ClaimsConjunct(w) \/ CollectsConjunct(w)
    PROVE  CountingInv'
<1> USE DEF CountingInv
<1>1. /\ Typed' /\ Aside /\ UNCHANGED <<shared, overtaken>>
      /\ worker[w].at \in {"need", "collect"} /\ worker'[w].tree = worker[w].tree
      /\ \/ Stays(w, "need") \/ Stays(w, "collect")
         \/ Stays(w, "failing") /\ worker'[w].why \in Whys
  BY ClaimsConjunctDoes, CollectsConjunctDoes
<1>2. worker[w].at \in Holding
  BY <1>1 DEF Holding
<1>3. Shares(w)
  BY <1>1, <1>2, HeldTree DEF Shares, SharesOnly, Stays, LeadAts, HelperAts, Holding, Typed, Closed
<1>4. KeepsItsTrees(w)
  BY <1>1, <1>2 DEF KeepsItsTrees, Stays, Holding
<1>5. TreesTaken'
  BY <1>1, <1>4, TreesKept DEF Aside, jobs
<1>6. Past' \subseteq Past
  BY <1>1 DEF Past, Stays, Moved, S
<1>7. Overtaking'
  BY <1>1, <1>6, OvertakingKept DEF Aside, jobs, Typed
<1> QED BY <1>1, <1>3, <1>5, <1>7, SharesBooks

LEMMA StopsSharingKeeps ==
    ASSUME CountingInv, NEW w \in Workers, StopsSharing(w)
    PROVE  CountingInv'
<1> USE DEF CountingInv
<1>1. /\ Typed' /\ Aside /\ UNCHANGED overtaken
      /\ worker[w].at = "failing" /\ SharesOnly(S(w))
      /\ Stays(w, "stopped") /\ worker'[w].tree = worker[w].tree /\ worker'[w].why = worker[w].why
      /\ shared'[S(w)] = [shared[S(w)] EXCEPT !.stop = TRUE]
  BY StopsSharingDoes
<1>2. worker[w].at \in Holding
  BY <1>1 DEF Holding
<1>3. S(w) \in Searches /\ shared[S(w)] \in SharedStates /\ Working(S(w))
  BY <1>2, HeldTree, HoldingWorks
<1>4. /\ shared'[S(w)].stop /\ shared'[S(w)].next = shared[S(w)].next
      /\ shared'[S(w)].counts = shared[S(w)].counts /\ shared'[S(w)].errors = shared[S(w)].errors
      /\ shared'[S(w)].done = shared[S(w)].done
  BY <1>1, <1>3 DEF SharedStates
<1>5. Shares(w)
  BY <1>1, <1>2, <1>3, <1>4, HeldTree DEF Shares, Stays, LeadAts, HelperAts, Holding, Closed
<1>6. TreesTaken'
  <2>1. ASSUME NEW v \in Workers, NEW s \in Searches
        PROVE  /\ Holds(v, s)' <=> Holds(v, s)
               /\ worker'[v].tree = worker[v].tree /\ worker'[v].why = worker[v].why
               /\ worker'[v].at = worker[v].at \/ (v = w /\ worker'[v].at = "stopped")
               /\ v = w => Holds(v, S(w)) /\ worker[v].at = "failing"
    BY <1>1, <1>2 DEF Stays, Moved, Holds, S, Holding
  <2>2. ASSUME NEW s \in Searches
        PROVE  /\ shared'[s].next = shared[s].next /\ shared'[s].counts = shared[s].counts
               /\ shared'[s].errors = shared[s].errors /\ shared'[s].done = shared[s].done
               /\ s = S(w) \/ shared'[s] = shared[s]
    BY <1>1, <1>4 DEF SharesOnly
  <2>3. Holds(w, S(w))' /\ worker'[w].at = "stopped"
    BY <1>1 DEF Stays, Holds, S, Holding
  <2>4. job' = job
    BY <1>1 DEF Aside, jobs
  <2> QED BY <1>3, <1>4, <2>1, <2>2, <2>3, <2>4 DEF TreesTaken, Failed, Holds
<1>7. Past' \subseteq Past
  BY <1>1, <1>3, <1>4, PastShrinks DEF Stays, SharesOnly
<1>8. Overtaking'
  BY <1>1, <1>7, OvertakingKept DEF Aside, jobs, Typed
<1> QED BY <1>1, <1>5, <1>6, <1>8, SharesBooks

LEMMA CountsTreeKeeps ==
    ASSUME CountingInv, NEW w \in Workers, CountsTree(w)
    PROVE  CountingInv'
<1> USE DEF CountingInv
<1> DEFINE tree == worker[w].tree
<1>1. /\ Typed' /\ Aside /\ UNCHANGED overtaken
      /\ worker[w].at = "need" /\ SharesOnly(S(w))
      /\ Stays(w, Onward(w))
      /\ shared'[S(w)] = [shared[S(w)] EXCEPT !.counts[tree] = @ + 1, !.done = @ \cup {tree}]
  BY CountsTreeDoes
<1>2. worker[w].at \in Holding
  BY <1>1 DEF Holding
<1>3. /\ S(w) \in Searches /\ shared[S(w)] \in SharedStates /\ Working(S(w))
      /\ worker[w].role \in {"count", "help"} /\ tree \in Trees /\ tree \in Nat
      /\ tree < shared[S(w)].next /\ tree \notin shared[S(w)].done
  BY <1>2, HeldTree, HoldingWorks
<1>4. /\ shared'[S(w)].stop = shared[S(w)].stop /\ shared'[S(w)].next = shared[S(w)].next
      /\ shared'[S(w)].counts = [shared[S(w)].counts EXCEPT ![tree] = @ + 1]
      /\ shared'[S(w)].errors = shared[S(w)].errors
      /\ shared'[S(w)].done = shared[S(w)].done \cup {tree}
      /\ shared[S(w)].counts \in [Trees -> Nat] /\ shared[S(w)].next \in Nat
  BY <1>1, <1>3 DEF SharedStates
<1>5. IF worker[w].role = "count" THEN Onward(w) = "take" ELSE Onward(w) = "ask"
  BY DEF Onward, Lead
<1>6. Shares(w)
  BY <1>1, <1>2, <1>3, <1>4, <1>5 DEF Shares, Stays, LeadAts, HelperAts, Holding, Closed
<1>7. TreesTaken'
  <2>1. ASSUME NEW v \in Workers, NEW s \in Searches
        PROVE  /\ Holds(v, s)' <=> v # w /\ Holds(v, s)
               /\ v # w => worker'[v] = worker[v]
               /\ v = w => Holds(v, S(w)) /\ worker[v].at = "need"
    BY <1>1, <1>2, <1>5 DEF Stays, Moved, Holds, S, Holding
  <2>2. ASSUME NEW s \in Searches, s # S(w) PROVE shared'[s] = shared[s]
    BY <1>1, <2>2 DEF SharesOnly
  <2>3. job' = job
    BY <1>1 DEF Aside, jobs
  <2> HIDE DEF tree
  <2>4. ASSUME NEW v \in Workers, Holds(v, S(w)), v # w PROVE worker[v].tree # tree
    BY <1>2, <1>3, <2>1, <2>4 DEF TreesTaken, tree
  <2>5. ASSUME NEW s \in Searches PROVE
          /\ 1 <= shared'[s].next
          /\ shared'[s].done \subseteq 1..(shared'[s].next - 1)
          /\ \A t \in Trees : IF t \in shared'[s].done THEN shared'[s].counts[t] = 1 \/ Failed(s, t)'
                                                       ELSE shared'[s].counts[t] = 0
    <3>1. CASE s # S(w)
      BY <2>2, <3>1 DEF TreesTaken, Failed
    <3>2. CASE s = S(w)
      <4>1. /\ 1 <= shared[s].next /\ shared[s].done \subseteq 1..(shared[s].next - 1)
            /\ \A t \in Trees : IF t \in shared[s].done THEN shared[s].counts[t] = 1 \/ Failed(s, t)
                                                        ELSE shared[s].counts[t] = 0
        BY DEF TreesTaken
      <4>2. tree \in 1..(shared[s].next - 1)
        BY <1>3, <1>4, <3>2, TreesAreNumbers
      <4> QED BY <1>3, <1>4, <3>2, <4>1, <4>2 DEF Failed
    <3> QED BY <3>1, <3>2
  <2>6. ASSUME NEW s \in Searches, job[s] = "taken", shared'[s].stop
        PROVE  shared'[s].errors # <<>> \/ \E v \in Workers : Holds(v, s)' /\ worker'[v].at = "stopped"
    <3>1. shared[s].stop /\ shared'[s].errors = shared[s].errors
      BY <1>4, <2>2, <2>6
    <3> QED BY <2>1, <2>6, <3>1 DEF TreesTaken
  <2>7. ASSUME NEW s \in Searches, NEW v \in Workers, Holds(v, s)'
        PROVE  /\ worker'[v].tree \in Trees /\ worker'[v].tree < shared'[s].next
               /\ worker'[v].tree \notin shared'[s].done
               /\ worker'[v].at \in {"failing", "stopped"} => worker'[v].why \in Whys
               /\ job[s] = "taken"
               /\ worker'[v].at = "stopped" => shared'[s].stop
    <3>1. /\ Holds(v, s) /\ v # w /\ worker'[v] = worker[v]
          /\ worker[v].tree \in Trees /\ worker[v].tree < shared[s].next
          /\ worker[v].tree \notin shared[s].done
          /\ worker[v].at \in {"failing", "stopped"} => worker[v].why \in Whys
          /\ job[s] = "taken"
          /\ worker[v].at = "stopped" => shared[s].stop
      BY <2>1, <2>7 DEF TreesTaken
    <3>2. CASE s # S(w)
      BY <2>2, <3>1, <3>2
    <3>3. CASE s = S(w)
      BY <1>4, <2>4, <3>1, <3>3 DEF tree
    <3> QED BY <3>2, <3>3
  <2>8. \A s \in Searches, u, v \in Workers :
          Holds(u, s)' /\ Holds(v, s)' /\ worker'[u].tree = worker'[v].tree => u = v
    BY <2>1 DEF TreesTaken
  <2> QED BY <2>3, <2>5, <2>6, <2>7, <2>8 DEF TreesTaken
<1>8. Past' \subseteq Past
  BY <1>1, <1>3, <1>4, <1>5, PastShrinks DEF Stays, SharesOnly
<1>9. Overtaking'
  BY <1>1, <1>8, OvertakingKept DEF Aside, jobs, Typed
<1> QED BY <1>1, <1>6, <1>7, <1>9, SharesBooks

LEMMA KeepsErrorKeeps ==
    ASSUME CountingInv, NEW w \in Workers, KeepsError(w)
    PROVE  CountingInv'
<1> USE DEF CountingInv
<1> DEFINE tree == worker[w].tree
<1>1. /\ Typed' /\ Aside /\ UNCHANGED overtaken
      /\ worker[w].at = "stopped" /\ SharesOnly(S(w))
      /\ IF worker[w].role = "count" THEN Stays(w, "drain") ELSE Frees(w)
      /\ shared'[S(w)] = [shared[S(w)] EXCEPT !.errors = Append(@, <<tree, worker[w].why>>),
                                              !.done = @ \cup {tree}]
  BY KeepsErrorDoes
<1>2. worker[w].at \in Holding
  BY <1>1 DEF Holding
<1>3. /\ S(w) \in Searches /\ shared[S(w)] \in SharedStates /\ Working(S(w))
      /\ worker[w].role \in {"count", "help"} /\ tree \in Trees /\ tree \in Nat
      /\ tree < shared[S(w)].next /\ tree \notin shared[S(w)].done
      /\ worker[w].why \in Whys /\ shared[S(w)].stop
  BY <1>1, <1>2, HeldTree, HoldingWorks
<1>4. /\ shared'[S(w)].stop = shared[S(w)].stop /\ shared'[S(w)].next = shared[S(w)].next
      /\ shared'[S(w)].counts = shared[S(w)].counts
      /\ shared'[S(w)].errors = Append(shared[S(w)].errors, <<tree, worker[w].why>>)
      /\ shared'[S(w)].done = shared[S(w)].done \cup {tree}
      /\ shared[S(w)].next \in Nat /\ shared[S(w)].errors \in Seq(Trees \X Whys)
  BY <1>1, <1>3 DEF SharedStates
<1>5. Shares(w)
  <2>1. /\ worker[w].at \notin {"begin", "offer", "end"} /\ shared'[S(w)].stop
        /\ \A s \in {S(w)} : Closed(s)'
    BY <1>1, <1>3, <1>4 DEF Closed
  <2>2. CASE worker[w].role = "count"
    BY <1>1, <1>3, <2>1, <2>2 DEF Shares, Stays, LeadAts
  <2>3. CASE worker[w].role = "help"
    <3>1. worker'[w] = Idle /\ worker'[w].at = "idle"
      BY <1>1, <2>3 DEF Frees, Idle
    <3> QED BY <1>1, <1>3, <2>1, <2>3, <3>1 DEF Shares
  <2> QED BY <1>3, <2>2, <2>3
<1>6. /\ shared'[S(w)].errors # <<>>
      /\ shared'[S(w)].errors[Len(shared[S(w)].errors) + 1][1] = tree
      /\ Len(shared[S(w)].errors) + 1 \in DOMAIN shared'[S(w)].errors
      /\ \A i \in DOMAIN shared[S(w)].errors :
           i \in DOMAIN shared'[S(w)].errors /\ shared'[S(w)].errors[i] = shared[S(w)].errors[i]
  <2> DEFINE errors == shared[S(w)].errors
             e == <<tree, worker[w].why>>
  <2>1. shared'[S(w)].errors = Append(errors, e) /\ errors \in Seq(Trees \X Whys) /\ e[1] = tree
    BY <1>4
  <2> HIDE DEF errors, e
  <2> QED BY <2>1 DEF errors
<1>7. TreesTaken'
  <2>1. ASSUME NEW v \in Workers, NEW s \in Searches
        PROVE  /\ Holds(v, s)' <=> v # w /\ Holds(v, s)
               /\ v # w => worker'[v] = worker[v]
               /\ v = w => Holds(v, S(w))
    BY <1>1, <1>2 DEF Stays, Frees, Moved, Holds, S, Holding, Idle
  <2>2. ASSUME NEW s \in Searches, s # S(w) PROVE shared'[s] = shared[s]
    BY <1>1, <2>2 DEF SharesOnly
  <2>3. job' = job
    BY <1>1 DEF Aside, jobs
  <2> HIDE DEF tree
  <2>4. ASSUME NEW v \in Workers, Holds(v, S(w)), v # w PROVE worker[v].tree # tree
    BY <1>2, <1>3, <2>1, <2>4 DEF TreesTaken, tree
  <2>5. ASSUME NEW s \in Searches PROVE
          /\ 1 <= shared'[s].next
          /\ shared'[s].done \subseteq 1..(shared'[s].next - 1)
          /\ \A t \in Trees : IF t \in shared'[s].done THEN shared'[s].counts[t] = 1 \/ Failed(s, t)'
                                                       ELSE shared'[s].counts[t] = 0
    <3>1. CASE s # S(w)
      BY <2>2, <3>1 DEF TreesTaken, Failed
    <3>2. CASE s = S(w)
      <4>1. /\ 1 <= shared[s].next /\ shared[s].done \subseteq 1..(shared[s].next - 1)
            /\ \A t \in Trees : IF t \in shared[s].done THEN shared[s].counts[t] = 1 \/ Failed(s, t)
                                                        ELSE shared[s].counts[t] = 0
        BY DEF TreesTaken
      <4>2. tree \in 1..(shared[s].next - 1)
        BY <1>3, <1>4, <3>2, TreesAreNumbers
      <4>3. \A t \in Trees : t = tree \/ Failed(s, t) => Failed(s, t)'
        BY <1>6, <3>2 DEF Failed
      <4> QED BY <1>3, <1>4, <3>2, <4>1, <4>2, <4>3
    <3> QED BY <3>1, <3>2
  <2>6. ASSUME NEW s \in Searches, job[s] = "taken", shared'[s].stop
        PROVE  shared'[s].errors # <<>> \/ \E v \in Workers : Holds(v, s)' /\ worker'[v].at = "stopped"
    <3>1. CASE s = S(w)
      BY <1>6, <3>1
    <3>2. CASE s # S(w)
      <4>1. \A v \in Workers : Holds(v, s) => v # w
        BY <3>2 DEF Holds
      <4> QED BY <2>1, <2>2, <2>6, <3>2, <4>1 DEF TreesTaken
    <3> QED BY <3>1, <3>2
  <2>7. ASSUME NEW s \in Searches, NEW v \in Workers, Holds(v, s)'
        PROVE  /\ worker'[v].tree \in Trees /\ worker'[v].tree < shared'[s].next
               /\ worker'[v].tree \notin shared'[s].done
               /\ worker'[v].at \in {"failing", "stopped"} => worker'[v].why \in Whys
               /\ job[s] = "taken"
               /\ worker'[v].at = "stopped" => shared'[s].stop
    BY <1>4, <2>1, <2>2, <2>4, <2>7 DEF TreesTaken
  <2>8. \A s \in Searches, u, v \in Workers :
          Holds(u, s)' /\ Holds(v, s)' /\ worker'[u].tree = worker'[v].tree => u = v
    BY <2>1 DEF TreesTaken
  <2> QED BY <2>3, <2>5, <2>6, <2>7, <2>8 DEF TreesTaken
<1>8. Past' \subseteq Past
  <2>1. Moved(w) /\ worker'[w].at # "take"
    BY <1>1 DEF Stays, Frees, Idle
  <2> QED BY <1>1, <1>3, <1>4, <2>1, PastShrinks DEF SharesOnly
<1>9. Overtaking'
  BY <1>1, <1>8, OvertakingKept DEF Aside, jobs, Typed
<1> QED BY <1>1, <1>5, <1>7, <1>9, SharesBooks

LEMMA TakesTreeKeeps ==
    ASSUME CountingInv, NEW w \in Workers, TakesTree(w)
    PROVE  CountingInv'
<1> USE DEF CountingInv
<1> DEFINE next == shared[S(w)].next
<1>1. /\ Typed' /\ Aside /\ S(w) \in Searches /\ worker[w].at = "take"
      /\ worker[w].role \in {"count", "help"} /\ shared[S(w)] \in SharedStates
  BY TakesTreeDoes, Busy DEF TakesTree
<1>2. CASE /\ Closed(S(w)) /\ UNCHANGED <<shared, overtaken>>
           /\ IF worker[w].role = "count" THEN Stays(w, "drain") ELSE Frees(w)
  <2>1. Shares(w)
    <3>1. CASE worker[w].role = "count"
      BY <1>1, <1>2, <3>1 DEF Shares, SharesOnly, Stays, LeadAts, Typed, Closed
    <3>2. CASE worker[w].role = "help"
      <4>1. worker'[w] = Idle /\ worker'[w].at = "idle"
        BY <1>2, <3>2 DEF Frees, Idle
      <4> QED BY <1>1, <1>2, <3>2, <4>1 DEF Shares, SharesOnly, Typed, Closed
    <3> QED BY <1>1, <3>1, <3>2
  <2>2. Moved(w) /\ worker'[w].at \notin Holding /\ worker'[w].at # "take"
    BY <1>2 DEF Stays, Frees, Idle, Holding
  <2>3. TreesTaken'
    BY <1>1, <1>2, <2>2, TreesKept DEF Aside, jobs, KeepsItsTrees
  <2>4. Past' \subseteq Past
    BY <1>2, <2>2, PastShrinks
  <2>5. Overtaking'
    BY <1>1, <1>2, <2>4, OvertakingKept DEF Aside, jobs, Typed
  <2> QED BY <1>1, <2>1, <2>3, <2>5, SharesBooks
<1>3. CASE /\ ~ Closed(S(w)) /\ SharesOnly(S(w))
           /\ Stays(w, "failing") \/ Stays(w, "need")
           /\ worker'[w].tree = next /\ worker'[w].why = "abandoned"
           /\ shared'[S(w)] = [shared[S(w)] EXCEPT !.next = @ + 1]
           /\ overtaken' = IF worker[w].role = "count" THEN overtaken
                           ELSE [s \in Searches |-> overtaken[s] + IF job[s] = "queued" THEN 1 ELSE 0]
  <2>1. /\ next \in Nat /\ next \in Trees /\ ~ shared[S(w)].stop
        /\ shared'[S(w)].next = next + 1 /\ shared'[S(w)].stop = shared[S(w)].stop
        /\ shared'[S(w)].counts = shared[S(w)].counts /\ shared'[S(w)].errors = shared[S(w)].errors
        /\ shared'[S(w)].done = shared[S(w)].done
    BY <1>1, <1>3 DEF Closed, SharedStates
  <2>2. Working(S(w))
    <3>1. job[S(w)] = "taken"
      BY <1>1, <2>1 DEF Leads, Helpers, Helped, Futures
    <3>2. ASSUME NEW v \in Workers, LeadOf(v, S(w)) PROVE worker[v].at \notin {"begin", "offer", "end"}
      <4>1. CASE worker[w].role = "count"
        BY <1>1, <3>2, <4>1 DEF Leads, LeadOf
      <4>2. CASE worker[w].role = "help"
        BY <1>1, <1>3, <3>2, <4>2 DEF Helpers, Helped
      <4> QED BY <1>1, <4>1, <4>2
    <3> QED BY <3>1, <3>2 DEF Working
  <2>3. Shares(w)
    BY <1>1, <1>3, <2>1, <2>2 DEF Shares, Stays, LeadAts, HelperAts, Holding, Closed
  <2>4. TreesTaken'
    <3>1. ASSUME NEW v \in Workers, NEW s \in Searches
          PROVE  /\ Holds(v, s)' <=> Holds(v, s) \/ (v = w /\ s = S(w))
                 /\ v # w => worker'[v] = worker[v]
                 /\ ~ Holds(w, s) /\ worker'[w].at # "stopped"
      BY <1>1, <1>3 DEF Stays, Moved, Holds, S, Holding
    <3>2. ASSUME NEW s \in Searches, s # S(w) PROVE shared'[s] = shared[s]
      BY <1>3, <3>2 DEF SharesOnly
    <3>3. job' = job /\ job[S(w)] = "taken"
      BY <1>1, <2>2 DEF Aside, jobs, Working
    <3> HIDE DEF next
    <3>4. ASSUME NEW v \in Workers, Holds(v, S(w)) PROVE worker[v].tree < next
      BY <1>1, <3>4 DEF TreesTaken, next
    <3>5. ASSUME NEW s \in Searches PROVE
            /\ 1 <= shared'[s].next
            /\ shared'[s].done \subseteq 1..(shared'[s].next - 1)
            /\ \A t \in Trees : IF t \in shared'[s].done THEN shared'[s].counts[t] = 1 \/ Failed(s, t)'
                                                         ELSE shared'[s].counts[t] = 0
      <4>1. CASE s # S(w)
        BY <3>2, <4>1 DEF TreesTaken, Failed
      <4>2. CASE s = S(w)
        <5>1. /\ 1 <= shared[s].next /\ shared[s].done \subseteq 1..(shared[s].next - 1)
              /\ \A t \in Trees : IF t \in shared[s].done THEN shared[s].counts[t] = 1 \/ Failed(s, t)
                                                          ELSE shared[s].counts[t] = 0
          BY DEF TreesTaken
        <5>2. 1..(next - 1) \subseteq 1..((next + 1) - 1) /\ 1 <= next + 1
          BY <2>1
        <5>3. shared'[s].next = next + 1 /\ shared[s].next = next
          BY <2>1, <4>2 DEF next
        <5> QED BY <2>1, <4>2, <5>1, <5>2, <5>3 DEF Failed
      <4> QED BY <4>1, <4>2
    <3>6. ASSUME NEW s \in Searches, job[s] = "taken", shared'[s].stop
          PROVE  shared'[s].errors # <<>> \/ \E v \in Workers : Holds(v, s)' /\ worker'[v].at = "stopped"
      BY <2>1, <3>1, <3>2, <3>6 DEF TreesTaken
    <3>7. ASSUME NEW s \in Searches, NEW v \in Workers, Holds(v, s)'
          PROVE  /\ worker'[v].tree \in Trees /\ worker'[v].tree < shared'[s].next
                 /\ worker'[v].tree \notin shared'[s].done
                 /\ worker'[v].at \in {"failing", "stopped"} => worker'[v].why \in Whys
                 /\ job[s] = "taken"
                 /\ worker'[v].at = "stopped" => shared'[s].stop
      <4>1. CASE v = w
        <5>1. s = S(w)
          BY <3>1, <3>7, <4>1
        <5>2. next \notin shared[s].done
          BY <2>1, <5>1 DEF TreesTaken, next
        <5>3. /\ worker'[v].tree = next /\ next \in Trees /\ next < shared'[s].next
              /\ shared'[s].done = shared[s].done
          <6>1. next \in Nat /\ next \in Trees /\ shared'[s].next = next + 1 /\ shared'[s].done = shared[s].done
            BY <2>1, <5>1 DEF next
          <6>2. worker'[v].tree = next
            BY <1>3, <4>1
          <6> QED BY <6>1, <6>2
        <5>4. worker'[v].why \in Whys /\ worker'[v].at # "stopped" /\ job[s] = "taken"
          BY <1>3, <3>1, <3>3, <4>1, <5>1 DEF Whys
        <5> QED BY <5>2, <5>3, <5>4
      <4>2. CASE v # w
        <5>1. /\ Holds(v, s) /\ worker'[v] = worker[v]
              /\ worker[v].tree \in Trees /\ worker[v].tree < shared[s].next
              /\ worker[v].tree \notin shared[s].done
              /\ worker[v].at \in {"failing", "stopped"} => worker[v].why \in Whys
              /\ job[s] = "taken"
              /\ worker[v].at = "stopped" => shared[s].stop
          BY <3>1, <3>7, <4>2 DEF TreesTaken
        <5>2. worker[v].tree \in Nat
          BY <5>1, TreesAreNumbers, CountingAssumption
        <5>3. CASE s # S(w)
          BY <3>2, <5>1, <5>3
        <5>4. CASE s = S(w)
          BY <2>1, <5>1, <5>2, <5>4 DEF next
        <5> QED BY <5>3, <5>4
      <4> QED BY <4>1, <4>2
    <3>8. \A s \in Searches, u, v \in Workers :
            Holds(u, s)' /\ Holds(v, s)' /\ worker'[u].tree = worker'[v].tree => u = v
      <4>1. \A s \in Searches, u, v \in Workers \ {w} :
              Holds(u, s)' /\ Holds(v, s)' /\ worker'[u].tree = worker'[v].tree => u = v
        BY <3>1 DEF TreesTaken
      <4>2. \A s \in Searches, v \in Workers \ {w} :
              Holds(w, s)' /\ Holds(v, s)' => worker'[v].tree # worker'[w].tree
        BY <1>3, <2>1, <3>1, <3>4 DEF next
      <4> QED BY <4>1, <4>2
    <3> QED BY <3>3, <3>5, <3>6, <3>7, <3>8 DEF TreesTaken
  <2>5. Past' \subseteq Past /\ w \notin Past'
    <3>1. Moved(w) /\ worker'[w].at # "take" /\ \A s \in Searches : shared[s].stop => shared'[s].stop
      BY <1>3, <2>1 DEF Stays, SharesOnly
    <3> QED BY <3>1, PastShrinks DEF Past
  <2>6. Overtaking'
    <3>1. CASE worker[w].role = "count"
      BY <1>1, <1>3, <2>5, <3>1, OvertakingKept DEF Aside, jobs, Typed
    <3>2. CASE worker[w].role = "help"
      <4>1. w \in Past
        BY <1>1, <2>1, <3>2 DEF Past
      <4>2. Cardinality(Past') + 1 <= Cardinality(Past) /\ Cardinality(Past') \in Nat
        <5>1. Past' \in SUBSET (Past \ {w}) /\ IsFiniteSet(Past)
          BY <2>5, Bounds
        <5>2. IsFiniteSet(Past \ {w}) /\ Cardinality(Past \ {w}) = Cardinality(Past) - 1
          BY <4>1, <5>1, FS_RemoveElement
        <5>3. IsFiniteSet(Past') /\ Cardinality(Past') <= Cardinality(Past \ {w})
          BY <5>1, <5>2, FS_Subset
        <5>4. Cardinality(Past') \in Nat
          BY <5>3, FS_CardinalityType
        <5> QED BY <5>2, <5>3, <5>4, Bounds
      <4>3. UNCHANGED job
        BY <1>1 DEF Aside, jobs
      <4> QED BY <1>3, <3>2, <4>2, <4>3, Bounds DEF Overtaking, Typed
    <3> QED BY <1>1, <3>1, <3>2
  <2> QED BY <1>1, <2>3, <2>4, <2>6, SharesBooks
<1> QED BY <1>2, <1>3, TakesTreeDoes

----------------------------------------------------------------------------
(* The steps that move a job along.                                        *)

LEMMA HelpedKept ==
    ASSUME NEW s \in Searches, Helped(s), job'[s] \in {"taken", "done"}, started'[s],
           \A v \in Workers : LeadOf(v, s)' => LeadOf(v, s) /\ worker'[v] = worker[v] /\ shared'[s] = shared[s]
    PROVE  Helped(s)'
BY DEF Helped, LeadOf, Closed

LEMMA FinitePending ==
    ASSUME Typed
    PROVE  /\ IsFiniteSet(Pending) /\ Cardinality(Pending) \in Nat
           /\ \A s : /\ Cardinality(Pending \cup {s}) = Cardinality(Pending) + (IF s \in Pending THEN 0 ELSE 1)
                    /\ Cardinality(Pending \ {s}) = Cardinality(Pending) - (IF s \in Pending THEN 1 ELSE 0)
<1>1. Pending \in SUBSET Searches
  BY DEF Pending
<1>2. IsFiniteSet(Pending)
  BY <1>1, CountingAssumption, FS_Subset
<1>3. Cardinality(Pending) \in Nat
  BY <1>2, FS_CardinalityType
<1> QED BY <1>2, <1>3, FS_AddElement, FS_RemoveElement

LEMMA BeginsKeeps ==
    ASSUME CountingInv, NEW w \in Workers, Begins(w)
    PROVE  CountingInv'
<1> USE DEF CountingInv
<1> DEFINE s == S(w)
<1>1. /\ worker[w].at = "begin" /\ s \in Searches /\ worker[w].role = "count"
      /\ job[s] = "taken" /\ ~ started[s] /\ shared[s] = Untaken /\ ~ gone[s]
      /\ \A v \in Workers : LeadOf(v, s) => v = w
  <2>1. worker[w].at = "begin" /\ s \in Searches /\ worker[w].role = "count"
    BY Busy DEF Begins, HelperAts, Holding
  <2> QED BY <2>1 DEF Leads, Futures
<1>2. /\ waiting' = waiting - 1 /\ gone' = [gone EXCEPT ![s] = TRUE]
      /\ started' = [started EXCEPT ![s] = TRUE] /\ overtaken' = [overtaken EXCEPT ![s] = 0]
      /\ UNCHANGED <<pc, abandoned, job, result, queue, shared, matched, collecting>>
  BY <1>1 DEF Begins, Left, callers, bits
<1>3. Stays(w, "offer")
  <2>1. /\ worker' = [worker EXCEPT ![w].at = "offer"]
        /\ "offer" \in Ats \ {"collect"} /\ "error" \in Results
    BY DEF Begins, At, Ats, LeadAts, Results, Whys
  <2> QED BY <2>1, StaysStep
<1> HIDE DEF s
<1>4. Typed'
  BY <1>1, <1>2, <1>3 DEF Typed, Stays, Moved
<1>5. \A v \in Workers : /\ worker'[v].role = worker[v].role /\ S(v)' = S(v)
                         /\ v # w => worker'[v] = worker[v]
  BY <1>3 DEF Stays, Moved, S
<1>6. ASSUME NEW t \in Searches, Helped(t) PROVE Helped(t)'
  <2>1. t # s
    BY <1>1, <1>6 DEF Helped, LeadOf, s
  <2>2. \A v \in Workers : LeadOf(v, t)' => LeadOf(v, t) /\ worker'[v] = worker[v] /\ shared'[t] = shared[t]
    BY <1>2, <1>5, <2>1 DEF LeadOf, s
  <2> QED BY <1>2, <1>6, <2>1, <2>2, HelpedKept DEF Helped, Typed
<1>7. InRole'
  BY <1>1, <1>3, <1>5 DEF InRole, Stays, LeadAts, s, S
<1>8. InQueue'
  <2>1. \A i \in DOMAIN queue : queue[i][2] \in Searches
    BY QueueEntries
  <2> QED BY <1>2, <1>6, <2>1 DEF InQueue
<1>9. Futures'
  <2>1. \A v \in Workers, t \in Searches : LeadOf(v, t) => LeadOf(v, t)'
    BY <1>5 DEF LeadOf
  <2> QED BY <1>1, <1>2, <2>1 DEF Futures, Typed, Untaken
<1>10. Leads'
  <2>1. ASSUME NEW v \in Workers, worker'[v].role = "count", v # w
        PROVE  worker[v].role = "count" /\ worker'[v] = worker[v] /\ S(v) # s /\ S(v) \in Searches
    BY <1>1, <1>5, <2>1 DEF LeadOf, InRole, Idle
  <2>2. \A u, v \in Workers : LeadOf(u, S(v))' <=> LeadOf(u, S(v))
    BY <1>5 DEF LeadOf
  <2>3. ASSUME NEW v \in Workers, worker'[v].role = "count" PROVE
          /\ job'[S(v)'] = "taken"
          /\ worker'[v].at = "begin" <=> ~started'[S(v)']
          /\ worker'[v].at \in {"begin", "offer"} => shared'[S(v)'] = Untaken
          /\ worker'[v].at = "drain" => Closed(S(v))'
          /\ worker'[v].at = "end" =>
               /\ AllDone(S(v))'
               /\ worker'[v].why = "counts" => \A t \in Trees : shared'[S(v)'].counts[t] = 1
          /\ \A u \in Workers : LeadOf(u, S(v))' => u = v
    <3>1. CASE v = w
      BY <1>1, <1>2, <1>3, <1>5, <2>2, <3>1 DEF Stays, Typed, s
    <3>2. CASE v # w
      BY <1>2, <1>5, <2>1, <2>2, <2>3, <3>2 DEF Leads, Closed, AllDone, Typed
    <3> QED BY <3>1, <3>2
  <2> QED BY <2>3 DEF Leads, Untaken
<1>11. Helpers'
  BY <1>5, <1>6 DEF Helpers, InRole, Idle
<1>12. WaitingIsExact'
  <2>1. Pending' = Pending \ {s} /\ s \in Pending
    BY <1>1, <1>2 DEF Pending, Typed
  <2>2. waiting = Cardinality(Pending) /\ Cardinality(Pending') = Cardinality(Pending) - 1
    BY <2>1, FinitePending DEF WaitingIsExact, Pending
  <2> QED BY <1>2, <2>2 DEF WaitingIsExact, Pending
<1>13. TreesTaken'
  BY <1>1, <1>2, <1>3, TreesKept DEF KeepsItsTrees, Stays, Holding
<1>14. Overtaking'
  <2>1. Past' \subseteq Past
    BY <1>2, <1>3, PastShrinks DEF Stays
  <2> QED BY <1>1, <1>2, <1>4, <2>1, OvertakingKept DEF Typed
<1> QED BY <1>4, <1>7, <1>8, <1>9, <1>10, <1>11, <1>12, <1>13, <1>14

LEMMA OffersKeeps ==
    ASSUME CountingInv, NEW w \in Workers, Offers(w)
    PROVE  CountingInv'
<1> USE DEF CountingInv
<1> DEFINE s == S(w)
<1>1. /\ worker[w].at = "offer" /\ s \in Searches /\ worker[w].role = "count"
      /\ job[s] = "taken" /\ started[s] /\ shared[s] = Untaken /\ ~ Helped(s)
      /\ \A v \in Workers : LeadOf(v, s) => v = w
  <2>1. worker[w].at = "offer" /\ s \in Searches /\ worker[w].role = "count"
    BY Busy DEF Offers, HelperAts, Holding
  <2> QED BY <2>1 DEF Leads, Helped, LeadOf
<1>2. UNCHANGED <<callers, job, result, started, gone, waiting, shared, bits, overtaken>>
  BY DEF Offers
<1>3. \/ Stays(w, "take") /\ queue' = Append(queue, <<"help", s>>)
      \/ Stays(w, "take") /\ queue' = queue
      \/ Stays(w, "end") /\ worker'[w].why = "abandoned" /\ queue' = queue
  <2>1. {"take", "end"} \subseteq Ats \ {"collect"} /\ "abandoned" \in Results
    BY DEF Ats, LeadAts, Results, Whys
  <2>2. ASSUME At(w, "take") PROVE Stays(w, "take")
    BY <2>1, <2>2, StaysStep DEF At
  <2>3. ASSUME worker' = [worker EXCEPT ![w].at = "end", ![w].why = "abandoned"]
        PROVE  Stays(w, "end") /\ worker'[w].why = "abandoned"
    BY <2>1, <2>3, StaysStep
  <2> QED BY <2>2, <2>3 DEF Offers
<1> HIDE DEF s
<1>4. \A v \in Workers : /\ worker'[v].role = worker[v].role /\ S(v)' = S(v)
                         /\ v # w => worker'[v] = worker[v]
  BY <1>3 DEF Stays, Moved, S
<1>5. Moved(w) /\ worker'[w].at \in {"take", "end"} /\ queue' \in {queue, Append(queue, <<"help", s>>)}
  BY <1>3 DEF Stays
<1>6. Typed'
  <2>1. <<"help", s>> \in Entries
    BY <1>1, EntriesArePairs
  <2>2. queue' \in Seq(Entries)
    <3>1. queue \in Seq(Entries) /\ \A e \in Entries : Append(queue, e) \in Seq(Entries)
      BY DEF Typed
    <3> QED BY <1>5, <2>1, <3>1
  <2> QED BY <1>2, <1>5, <2>2 DEF Typed, Moved, callers, bits
<1>7. ASSUME NEW t \in Searches, Helped(t) PROVE Helped(t)'
  <2>1. t # s
    BY <1>1, <1>7
  <2>2. \A v \in Workers : LeadOf(v, t)' => LeadOf(v, t) /\ worker'[v] = worker[v] /\ shared'[t] = shared[t]
    BY <1>2, <1>4, <2>1 DEF LeadOf, s
  <2> QED BY <1>2, <1>7, <2>2, HelpedKept DEF Helped
<1>8. InRole'
  BY <1>1, <1>4, <1>5 DEF InRole, LeadAts, s, S
<1>9. InQueue'
  <2>1. \A i \in DOMAIN queue : queue[i][2] \in Searches /\ queue[i] # <<"help", s>>
    <3>1. ASSUME NEW i \in DOMAIN queue, queue[i] = <<"help", s>> PROVE FALSE
      <4>1. queue[i][1] = "help" /\ queue[i][2] = s
        BY <3>1
      <4> QED BY <1>1, <4>1 DEF InQueue
    <3> QED BY <3>1, QueueEntries
  <2>2. CASE queue' = queue
    BY <1>2, <1>7, <2>1, <2>2 DEF InQueue
  <2>3. CASE Stays(w, "take") /\ queue' = Append(queue, <<"help", s>>)
    <3>1. \A t \in {s} : Helped(t)'
      BY <1>1, <1>2, <1>4, <2>3 DEF Helped, LeadOf, Stays
    <3>2. /\ Len(queue) \in Nat /\ DOMAIN queue = 1..Len(queue)
          /\ DOMAIN queue' = 1..(Len(queue) + 1) /\ queue'[Len(queue) + 1] = <<"help", s>>
          /\ \A i \in DOMAIN queue : queue'[i] = queue[i]
      BY <1>1, <2>3 DEF Typed
    <3>3. \A i \in DOMAIN queue' : i \in DOMAIN queue \/ i = Len(queue) + 1
      BY <3>2
    <3>4. \A i, j \in DOMAIN queue' : queue'[i] = queue'[j] => i = j
      BY <2>1, <3>2, <3>3 DEF InQueue
    <3>5. ASSUME NEW i \in DOMAIN queue', NEW e \in {"count", "help"}, NEW t \in Searches, queue'[i] = <<e, t>>
          PROVE  IF e = "count" THEN job'[t] = "queued" ELSE Helped(t)'
      <4>1. CASE i \in DOMAIN queue
        BY <1>2, <1>7, <2>1, <3>2, <3>5, <4>1 DEF InQueue
      <4>2. CASE i = Len(queue) + 1
        BY <3>1, <3>2, <3>5, <4>2
      <4> QED BY <3>3, <4>1, <4>2
    <3>6. \A i \in DOMAIN queue' : \E e \in {"count", "help"}, t \in Searches : queue'[i] = <<e, t>>
      <4>1. \A i \in DOMAIN queue' : queue'[i] \in Entries
        BY <1>6 DEF Typed
      <4> QED BY <4>1, EntriesArePairs
    <3>7. \A i \in DOMAIN queue' :
            IF queue'[i][1] = "count" THEN job'[queue'[i][2]] = "queued" ELSE \A t \in {queue'[i][2]} : Helped(t)'
      BY <3>5, <3>6
    <3> QED BY <3>4, <3>7 DEF InQueue, Helped, LeadOf, Closed
  <2> QED BY <1>3, <2>2, <2>3
<1>10. Futures'
  <2>1. \A v \in Workers, t \in Searches : LeadOf(v, t) => LeadOf(v, t)'
    BY <1>4 DEF LeadOf
  <2> QED BY <1>2, <2>1 DEF Futures, Untaken, callers
<1>11. Leads'
  <2>1. ASSUME NEW v \in Workers, worker'[v].role = "count", v # w
        PROVE  worker[v].role = "count" /\ worker'[v] = worker[v]
    BY <1>4, <2>1
  <2>2. \A u, v \in Workers : LeadOf(u, S(v))' <=> LeadOf(u, S(v))
    BY <1>4 DEF LeadOf
  <2>3. AllDone(s) /\ shared[s].stop = FALSE
    BY <1>1 DEF AllDone, Untaken
  <2>4. ASSUME NEW v \in Workers, worker'[v].role = "count" PROVE
          /\ job'[S(v)'] = "taken"
          /\ worker'[v].at = "begin" <=> ~started'[S(v)']
          /\ worker'[v].at \in {"begin", "offer"} => shared'[S(v)'] = Untaken
          /\ worker'[v].at = "drain" => Closed(S(v))'
          /\ worker'[v].at = "end" =>
               /\ AllDone(S(v))'
               /\ worker'[v].why = "counts" => \A t \in Trees : shared'[S(v)'].counts[t] = 1
          /\ \A u \in Workers : LeadOf(u, S(v))' => u = v
    <3>1. CASE v = w
      BY <1>1, <1>2, <1>3, <1>4, <1>5, <2>2, <2>3, <3>1 DEF Stays, AllDone, s
    <3>2. CASE v # w
      BY <1>2, <1>4, <2>1, <2>2, <2>4, <3>2 DEF Leads, Closed, AllDone
    <3> QED BY <3>1, <3>2
  <2> QED BY <2>4 DEF Leads, Untaken
<1>12. Helpers'
  BY <1>4, <1>7 DEF Helpers, InRole, Idle
<1>13. WaitingIsExact'
  BY <1>2 DEF WaitingIsExact
<1>14. TreesTaken'
  BY <1>1, <1>2, <1>5, TreesKept DEF KeepsItsTrees, Holding
<1>15. Overtaking'
  <2>1. Past' \subseteq Past
    BY <1>1, <1>2, <1>4, <1>5, PastShrinks
  <2> QED BY <1>2, <1>6, <2>1, OvertakingKept DEF Typed
<1> QED BY <1>6, <1>8, <1>9, <1>10, <1>11, <1>12, <1>13, <1>14, <1>15

LEMMA TakesJobKeeps ==
    ASSUME CountingInv, NEW w \in Workers, TakesJob(w)
    PROVE  CountingInv'
<1> USE DEF CountingInv
<1> DEFINE s == Head(queue)[2]
           e == Head(queue)[1]
           r == [Idle EXCEPT !.role = e, !.search = s, !.at = IF e = "count" THEN "begin" ELSE "ask"]
<1>1. /\ worker[w] = Idle /\ queue # <<>> /\ queue' = Tail(queue)
      /\ worker' = [worker EXCEPT ![w] = r]
      /\ job' = IF e = "count" THEN [job EXCEPT ![s] = "taken"] ELSE job
      /\ UNCHANGED <<callers, result, started, gone, waiting, shared, bits, overtaken>>
  BY DEF TakesJob
<1>2. /\ Len(queue) \in Nat /\ DOMAIN queue = 1..Len(queue) /\ 1 \in DOMAIN queue /\ Head(queue) = queue[1]
      /\ Tail(queue) \in Seq(Entries) /\ DOMAIN Tail(queue) = 1..(Len(queue) - 1)
      /\ \A i \in DOMAIN Tail(queue) : i + 1 \in DOMAIN queue /\ Tail(queue)[i] = queue[i + 1] /\ i + 1 # 1
  BY <1>1 DEF Typed
<1>3. e \in {"count", "help"} /\ s \in Searches /\ queue[1] = <<e, s>>
  BY <1>2, QueueEntries
<1>4. IF e = "count" THEN job[s] = "queued" /\ ~ started[s] /\ ~ gone[s] /\ shared[s] = Untaken
                     ELSE Helped(s)
  BY <1>2, <1>3 DEF InQueue, Futures
<1>5. /\ Moved(w) /\ worker'[w].search = s /\ worker'[w].role = e
      /\ worker'[w].at = IF e = "count" THEN "begin" ELSE "ask"
  <2> HIDE DEF s, e
  <2>1. r \in WorkerStates /\ r.search = s /\ r.role = e /\ r.at = IF e = "count" THEN "begin" ELSE "ask"
    BY <1>3 DEF Idle, WorkerStates, WorkerRecords, LeadAts, HelperAts, Results
  <2> HIDE DEF r
  <2> QED BY <1>1, <2>1, FreeStep
<1> HIDE DEF s, e, r
<1>6. Typed'
  <2>1. job' \in [Searches -> JobStates] /\ queue' \in Seq(Entries)
    BY <1>1, <1>2 DEF Typed, JobStates
  <2> QED BY <1>1, <1>5, <2>1 DEF Typed, Moved, callers, bits
<1>7. ASSUME NEW v \in Workers, NEW t \in Searches
      PROVE  /\ LeadOf(v, t)' <=> LeadOf(v, t) \/ (v = w /\ t = s /\ e = "count")
             /\ LeadOf(v, t) => v # w
             /\ v # w => worker'[v] = worker[v]
             /\ t # s \/ e # "count" => job'[t] = job[t]
  BY <1>1, <1>5 DEF Moved, LeadOf, S, Idle, Typed
<1>8. ASSUME NEW t \in Searches, Helped(t) PROVE Helped(t)'
  <2>1. t # s \/ e # "count"
    BY <1>4, <1>8 DEF Helped
  <2>2. \A v \in Workers : LeadOf(v, t)' => LeadOf(v, t) /\ worker'[v] = worker[v] /\ shared'[t] = shared[t]
    BY <1>1, <1>7, <2>1
  <2> QED BY <1>1, <1>7, <1>8, <2>1, <2>2, HelpedKept DEF Helped
<1>9. InRole'
  BY <1>3, <1>5 DEF InRole, Moved, S, LeadAts, HelperAts
<1>10. InQueue'
  <2>1. \A i, j \in DOMAIN queue' : queue'[i] = queue'[j] => i = j
    BY <1>1, <1>2 DEF InQueue
  <2>2. ASSUME NEW i \in DOMAIN queue'
        PROVE  IF queue'[i][1] = "count" THEN job'[queue'[i][2]] = "queued"
                                         ELSE \A t \in {queue'[i][2]} : Helped(t)'
    <3>1. /\ i + 1 \in DOMAIN queue /\ queue'[i] = queue[i + 1] /\ queue[i + 1] # <<e, s>>
          /\ queue[i + 1] = <<queue[i + 1][1], queue[i + 1][2]>> /\ queue[i + 1][2] \in Searches
      BY <1>1, <1>2, <1>3, QueueEntries DEF InQueue
    <3> QED BY <1>7, <1>8, <3>1 DEF InQueue
  <2> QED BY <2>1, <2>2 DEF InQueue, Helped, LeadOf, Closed
<1>11. Futures'
  <2>1. ASSUME NEW t \in Searches PROVE
          /\ pc'[t] = "start" => job'[t] = "none"
          /\ job'[t] \in {"none", "queued", "cancelled"} => ~started'[t] /\ shared'[t] = Untaken
          /\ gone'[t] <=> job'[t] \in {"done", "cancelled"} \/ (job'[t] = "taken" /\ started'[t])
          /\ job'[t] = "done" => shared'[t].stop
          /\ job'[t] = "taken" => \E v \in Workers : LeadOf(v, t)'
    <3>1. CASE t = s /\ e = "count"
      <4>1. job'[t] = "taken"
        BY <1>1, <1>3, <3>1 DEF Typed
      <4>2. LeadOf(w, t)'
        BY <1>3, <1>7, <3>1
      <4> QED BY <1>1, <1>4, <3>1, <4>1, <4>2 DEF Futures, callers
    <3>2. CASE t # s \/ e # "count"
      BY <1>1, <1>7, <3>2 DEF Futures, callers
    <3> QED BY <3>1, <3>2
  <2> QED BY <2>1 DEF Futures, Untaken
<1>12. Leads'
  <2>1. ASSUME NEW v \in Workers, worker'[v].role = "count", NEW t \in Searches, t = S(v)' PROVE
          /\ job'[t] = "taken"
          /\ worker'[v].at = "begin" <=> ~started'[t]
          /\ worker'[v].at \in {"begin", "offer"} => shared'[t] = Untaken
          /\ worker'[v].at = "drain" => Closed(t)'
          /\ worker'[v].at = "end" =>
               /\ AllDone(t)'
               /\ worker'[v].why = "counts" => \A n \in Trees : shared'[t].counts[n] = 1
          /\ \A u \in Workers : LeadOf(u, t)' => u = v
    <3>1. CASE v = w
      <4>1. t = s /\ e = "count" /\ worker'[w].at = "begin"
        BY <1>5, <2>1, <3>1 DEF S
      <4>2. job'[s] = "taken"
        BY <1>1, <1>3, <4>1 DEF Typed
      <4>3. \A u \in Workers : ~ LeadOf(u, s)
        BY <1>4, <4>1 DEF Leads, LeadOf
      <4> QED BY <1>1, <1>3, <1>4, <1>7, <3>1, <4>1, <4>2, <4>3
    <3>2. CASE v # w
      <4>1. worker[v].role = "count" /\ worker'[v] = worker[v] /\ S(v) = t
        BY <1>7, <2>1, <3>2 DEF S
      <4>2. /\ job[t] = "taken" /\ (worker[v].at = "begin" <=> ~started[t])
            /\ worker[v].at \in {"begin", "offer"} => shared[t] = Untaken
            /\ worker[v].at = "drain" => Closed(t)
            /\ worker[v].at = "end" =>
                 /\ AllDone(t)
                 /\ worker[v].why = "counts" => \A n \in Trees : shared[t].counts[n] = 1
            /\ \A u \in Workers : LeadOf(u, t) => u = v
        BY <4>1 DEF Leads
      <4>3. t # s \/ e # "count"
        BY <1>4, <4>2
      <4> QED BY <1>1, <1>7, <4>1, <4>2, <4>3 DEF Closed, AllDone
    <3> QED BY <3>1, <3>2
  <2>2. \A v \in Workers : worker'[v].role = "count" => S(v)' \in Searches
    BY <1>9 DEF InRole, Idle
  <2> QED BY <2>1, <2>2, UntakenIsConstant DEF Leads, LeadOf, Closed, AllDone
<1>13. Helpers'
  <2>1. ASSUME NEW v \in Workers, worker'[v].role = "help" PROVE \A t \in {S(v)'} : Helped(t)'
    <3>1. CASE v = w
      BY <1>3, <1>4, <1>5, <1>8, <2>1, <3>1 DEF S
    <3>2. CASE v # w
      <4>1. worker'[v] = worker[v]
        BY <1>3, <1>7, <3>2
      <4>2. worker[v].role = "help" /\ S(v)' = S(v)
        BY <2>1, <4>1 DEF S
      <4>3. S(v) \in Searches /\ Helped(S(v))
        BY <4>2 DEF Helpers, InRole, Idle
      <4> QED BY <1>8, <4>2, <4>3
    <3> QED BY <3>1, <3>2
  <2> QED BY <2>1 DEF Helpers, Helped, LeadOf, Closed
<1>14. WaitingIsExact'
  <2>1. Pending' = Pending
    BY <1>1, <1>3, <1>4, <1>7 DEF Pending, Typed
  <2> QED BY <1>1, <2>1 DEF WaitingIsExact, Pending
<1>15. TreesTaken'
  <2>1. KeepsItsTrees(w)
    BY <1>1, <1>5 DEF KeepsItsTrees, Holding, Idle
  <2>2. \A t \in Searches : job'[t] = "taken" => job[t] = "taken" \/ ~ shared[t].stop
    BY <1>1, <1>4, <1>7 DEF Untaken, Typed
  <2>3. \A t \in Searches : job[t] = "taken" => job'[t] = "taken"
    BY <1>1, <1>4, <1>7 DEF Typed
  <2>4. UNCHANGED shared
    BY <1>1
  <2> QED BY <2>1, <2>2, <2>3, <2>4, TreesKept
<1>16. Overtaking'
  <2>1. Past' \subseteq Past
    BY <1>1, <1>5, PastShrinks
  <2>2. \A t \in Searches : job'[t] \in {"queued", "none"} => job'[t] = job[t]
    BY <1>1, <1>7 DEF Typed
  <2> QED BY <1>1, <1>6, <2>1, <2>2, OvertakingKept DEF Typed
<1> QED BY <1>6, <1>9, <1>10, <1>11, <1>12, <1>13, <1>14, <1>15, <1>16

LEMMA EndsJobKeeps ==
    ASSUME CountingInv, NEW w \in Workers, EndsJob(w)
    PROVE  CountingInv'
<1> USE DEF CountingInv
<1> DEFINE s == S(w)
<1>1. /\ worker[w].at = "end" /\ s \in Searches /\ worker[w].role = "count"
      /\ job[s] = "taken" /\ started[s] /\ gone[s] /\ AllDone(s) /\ worker[w].why \in Results
      /\ \A v \in Workers : LeadOf(v, s) => v = w
  <2>1. worker[w].at = "end" /\ s \in Searches /\ worker[w].role = "count" /\ worker[w].why \in Results
    BY Busy DEF EndsJob, HelperAts, Holding
  <2> QED BY <2>1 DEF Leads, Futures
<1>2. /\ job' = [job EXCEPT ![s] = "done"] /\ queue' = Withdrawn(queue, <<"help", s>>)
      /\ result' = [result EXCEPT ![s] = worker[w].why]
      /\ waiting' = waiting /\ gone' = [gone EXCEPT ![s] = TRUE]
      /\ matched' = [matched EXCEPT ![s] = {}] /\ shared' = [shared EXCEPT ![s] = Dropped]
      /\ UNCHANGED <<pc, abandoned, started, collecting, overtaken>>
  BY <1>1 DEF EndsJob, Left, callers
<1>3. Frees(w)
  BY IdleTyped, FreeStep DEF EndsJob, Frees
<1> HIDE DEF s
<1>4. /\ queue' \in Seq(Entries)
      /\ \A i, j \in DOMAIN queue' : queue'[i] = queue'[j] => i = j
      /\ \A i \in DOMAIN queue' : \E j \in DOMAIN queue : queue'[i] = queue[j]
  <2>1. <<"help", s>> \in Entries
    BY <1>1, EntriesArePairs
  <2> QED BY <1>2, <2>1, WithdrawnEntry
<1>5. Dropped \in SharedStates /\ Dropped.stop /\ Dropped.next = 1 /\ Dropped.done = {}
      /\ Dropped.counts = [t \in Trees |-> 0] /\ Dropped.errors = <<>>
  <2> DEFINE Counts == [Trees -> Nat]
             Errors == Seq(Trees \X Whys)
             zeros == [t \in Trees |-> 0]
  <2>2. zeros \in Counts /\ <<>> \in Errors
    OBVIOUS
  <2>4. Untaken = [next |-> 1, stop |-> FALSE, counts |-> zeros, errors |-> <<>>, done |-> {}]
    BY DEF Untaken
  <2>3. SharedStates = [next : Nat, stop : BOOLEAN, counts : Counts, errors : Errors, done : SUBSET Trees]
    BY DEF SharedStates
  <2> HIDE DEF zeros, Counts, Errors
  <2>1. Untaken \in [next : Nat, stop : BOOLEAN, counts : Counts, errors : Errors, done : SUBSET Trees]
    BY <2>2, <2>4
  <2>5. Dropped \in SharedStates /\ Dropped.stop
    BY <2>1, <2>3 DEF Dropped
  <2>6. Dropped.next = Untaken.next /\ Dropped.done = Untaken.done
        /\ Dropped.counts = Untaken.counts /\ Dropped.errors = Untaken.errors
    BY <2>1 DEF Dropped
  <2> QED BY <2>4, <2>5, <2>6 DEF zeros
<1>6. Typed'
  <2>1. job' \in [Searches -> JobStates] /\ shared' \in [Searches -> SharedStates]
    BY <1>1, <1>2, <1>5 DEF Typed, JobStates
  <2>2. matched' \in [Searches -> SUBSET Conjuncts] /\ result' \in [Searches -> Results]
    BY <1>1, <1>2 DEF Typed
  <2> QED BY <1>2, <1>3, <1>4, <2>1, <2>2 DEF Typed, Frees, Moved
<1>7. ASSUME NEW v \in Workers, NEW t \in Searches
      PROVE  /\ LeadOf(v, t)' <=> LeadOf(v, t) /\ v # w
             /\ LeadOf(v, t)' => t # s
             /\ v # w => worker'[v] = worker[v]
             /\ t # s => job'[t] = job[t] /\ shared'[t] = shared[t]
  <2>1. LeadOf(v, t)' <=> LeadOf(v, t) /\ v # w
    BY <1>3 DEF Frees, Moved, LeadOf, S, Idle
  <2> QED BY <1>1, <1>2, <1>3, <2>1 DEF Frees, Moved, Typed
<1>8. job'[s] = "done" /\ shared'[s] = Dropped
  BY <1>1, <1>2 DEF Typed
<1>9. ASSUME NEW t \in Searches, Helped(t) PROVE Helped(t)'
  <2>1. job'[t] \in {"taken", "done"} /\ started'[t]
    BY <1>2, <1>7, <1>8, <1>9 DEF Helped
  <2> QED BY <1>7, <1>9, <2>1, HelpedKept
<1>10. InRole'
  BY <1>3 DEF InRole, Frees, Moved, S
<1>11. InQueue'
  <2>1. ASSUME NEW i \in DOMAIN queue'
        PROVE  IF queue'[i][1] = "count" THEN job'[queue'[i][2]] = "queued"
                                         ELSE \A t \in {queue'[i][2]} : Helped(t)'
    <3>1. PICK j \in DOMAIN queue : queue'[i] = queue[j]
      BY <1>4
    <3>2. queue[j][2] \in Searches
      BY QueueEntries
    <3> QED BY <1>1, <1>7, <1>9, <3>1, <3>2 DEF InQueue
  <2> QED BY <1>4, <2>1 DEF InQueue, Helped, LeadOf, Closed
<1>12. Futures'
  <2>1. ASSUME NEW t \in Searches PROVE
          /\ pc'[t] = "start" => job'[t] = "none"
          /\ job'[t] \in {"none", "queued", "cancelled"} => ~started'[t] /\ shared'[t] = Untaken
          /\ gone'[t] <=> job'[t] \in {"done", "cancelled"} \/ (job'[t] = "taken" /\ started'[t])
          /\ job'[t] = "done" => shared'[t].stop
          /\ job'[t] = "taken" => \E v \in Workers : LeadOf(v, t)'
    <3>1. CASE t = s
      BY <1>1, <1>2, <1>5, <1>8, <3>1 DEF Futures, Typed
    <3>2. CASE t # s
      <4>1. ~ LeadOf(w, t)
        BY <3>2 DEF LeadOf, s
      <4> QED BY <1>2, <1>7, <3>2, <4>1 DEF Futures
    <3> QED BY <3>1, <3>2
  <2> QED BY <2>1 DEF Futures, Untaken
<1>13. Leads'
  <2>1. ASSUME NEW v \in Workers, NEW t \in Searches, LeadOf(v, t)' PROVE
          /\ job'[t] = "taken"
          /\ worker'[v].at = "begin" <=> ~started'[t]
          /\ worker'[v].at \in {"begin", "offer"} => shared'[t] = Untaken
          /\ worker'[v].at = "drain" => Closed(t)'
          /\ worker'[v].at = "end" =>
               /\ AllDone(t)'
               /\ worker'[v].why = "counts" => \A n \in Trees : shared'[t].counts[n] = 1
          /\ \A u \in Workers : LeadOf(u, t)' => u = v
    <3>1. /\ LeadOf(v, t) /\ t # s /\ worker'[v] = worker[v] /\ job'[t] = job[t]
          /\ shared'[t] = shared[t] /\ started'[t] = started[t]
      BY <1>2, <1>7, <2>1
    <3>2. /\ job[t] = "taken" /\ (worker[v].at = "begin" <=> ~started[t])
          /\ worker[v].at \in {"begin", "offer"} => shared[t] = Untaken
          /\ worker[v].at = "drain" => Closed(t)
          /\ worker[v].at = "end" =>
               /\ AllDone(t)
               /\ worker[v].why = "counts" => \A n \in Trees : shared[t].counts[n] = 1
          /\ \A u \in Workers : LeadOf(u, t) => u = v
      BY <3>1 DEF Leads, LeadOf
    <3> QED BY <1>7, <3>1, <3>2 DEF Closed, AllDone
  <2>2. \A v \in Workers : worker'[v].role = "count" => S(v)' \in Searches /\ \A t \in {S(v)'} : LeadOf(v, t)'
    BY <1>10 DEF InRole, Idle, LeadOf
  <2> QED BY <2>1, <2>2, UntakenIsConstant DEF Leads, LeadOf, Closed, AllDone
<1>14. Helpers'
  <2>1. ASSUME NEW v \in Workers, worker'[v].role = "help" PROVE \A t \in {S(v)'} : Helped(t)'
    <3>1. v # w
      BY <1>3, <2>1 DEF Frees, Idle
    <3>2. worker'[v] = worker[v]
      BY <1>3, <3>1 DEF Frees, Moved
    <3>3. worker[v].role = "help" /\ S(v)' = S(v)
      BY <2>1, <3>2 DEF S
    <3>4. S(v) \in Searches /\ Helped(S(v))
      BY <3>3 DEF Helpers, InRole, Idle
    <3> QED BY <1>9, <3>3, <3>4
  <2> QED BY <2>1 DEF Helpers, Helped, LeadOf, Closed
<1>15. WaitingIsExact'
  <2>1. Pending' = Pending
    BY <1>1, <1>2 DEF Pending, Typed
  <2> QED BY <1>2, <2>1 DEF WaitingIsExact, Pending
<1>16. TreesTaken'
  <2>1. ASSUME NEW v \in Workers, NEW t \in Searches
        PROVE  /\ Holds(v, t)' <=> Holds(v, t)
               /\ Holds(v, t) => v # w /\ t # s /\ worker'[v] = worker[v]
    <3>1. ~ Holds(v, s) /\ ~ Holds(w, t)
      BY <1>1, NoneHolds DEF Holds, Holding
    <3>2. ~ Holds(w, t)'
      BY <1>3 DEF Frees, Holds, Idle, Holding
    <3> QED BY <1>3, <3>1, <3>2 DEF Frees, Moved, Holds, S
  <2>2. ASSUME NEW t \in Searches PROVE
          /\ 1 <= shared'[t].next
          /\ shared'[t].done \subseteq 1..(shared'[t].next - 1)
          /\ \A n \in Trees : IF n \in shared'[t].done THEN shared'[t].counts[n] = 1 \/ Failed(t, n)'
                                                       ELSE shared'[t].counts[n] = 0
    <3>1. CASE t = s
      BY <1>5, <1>8, <3>1
    <3>2. CASE t # s
      BY <1>7, <3>2 DEF TreesTaken, Failed
    <3> QED BY <3>1, <3>2
  <2>3. ASSUME NEW t \in Searches, job'[t] = "taken", shared'[t].stop
        PROVE  shared'[t].errors # <<>> \/ \E v \in Workers : Holds(v, t)' /\ worker'[v].at = "stopped"
    BY <1>7, <1>8, <2>1, <2>3 DEF TreesTaken
  <2>4. ASSUME NEW t \in Searches, NEW v \in Workers, Holds(v, t)'
        PROVE  /\ worker'[v].tree \in Trees /\ worker'[v].tree < shared'[t].next
               /\ worker'[v].tree \notin shared'[t].done
               /\ worker'[v].at \in {"failing", "stopped"} => worker'[v].why \in Whys
               /\ job'[t] = "taken"
               /\ worker'[v].at = "stopped" => shared'[t].stop
    BY <1>7, <2>1, <2>4 DEF TreesTaken
  <2>5. \A t \in Searches, u, v \in Workers :
          Holds(u, t)' /\ Holds(v, t)' /\ worker'[u].tree = worker'[v].tree => u = v
    BY <2>1 DEF TreesTaken
  <2> QED BY <2>2, <2>3, <2>4, <2>5 DEF TreesTaken
<1>17. Overtaking'
  <2>1. \A t \in Searches : shared[t].stop => shared'[t].stop
    BY <1>5, <1>7, <1>8
  <2>2. Past' \subseteq Past
    BY <1>3, <2>1, PastShrinks DEF Frees, Idle
  <2>3. \A t \in Searches : job'[t] \in {"queued", "none"} => job'[t] = job[t]
    BY <1>7, <1>8
  <2> QED BY <1>2, <1>6, <2>2, <2>3, OvertakingKept DEF Typed
<1> QED BY <1>6, <1>10, <1>11, <1>12, <1>13, <1>14, <1>15, <1>16, <1>17

(* A helper past the question has a lead on another worker.                *)
LEMMA PastLeavesOne ==
    ASSUME CountingInv
    PROVE  Cardinality(Past) <= Cardinality(Workers) - 1
<1> USE DEF CountingInv
<1>1. PICK v \in Workers : v \notin Past
  <2>1. CASE Past = {}
    BY <2>1, CountingAssumption
  <2>2. ASSUME NEW w \in Past PROVE \E v \in Workers : v \notin Past
    <3>1. w \in Workers /\ worker[w].role = "help" /\ ~ shared[S(w)].stop
      BY <2>2 DEF Past
    <3>2. S(w) \in Searches /\ Helped(S(w))
      BY <3>1 DEF InRole, Helpers, Idle
    <3>3. job[S(w)] = "taken"
      BY <3>1, <3>2 DEF Helped, Futures
    <3>4. PICK v \in Workers : LeadOf(v, S(w))
      BY <3>2, <3>3 DEF Futures
    <3> QED BY <3>4 DEF LeadOf, Past
  <2> QED BY <2>1, <2>2
<1>2. IsFiniteSet(Workers) /\ IsFiniteSet(Workers \ {v}) /\ Cardinality(Workers \ {v}) = Cardinality(Workers) - 1
  BY CountingAssumption, FS_RemoveElement
<1>3. Past \in SUBSET (Workers \ {v})
  BY <1>1 DEF Past
<1> QED BY <1>2, <1>3, FS_Subset

(* A step that leaves the jobs, the workers and what they share.           *)
LEMMA QuietKeeps ==
    ASSUME CountingInv, UNCHANGED <<jobs, worker, shared, bits, overtaken>>,
           pc' \in [Searches -> Phases], abandoned' \in [Searches -> BOOLEAN],
           \A t \in Searches : pc'[t] = "start" => pc[t] = "start"
    PROVE  CountingInv'
<1> USE DEF CountingInv
<1>1. UNCHANGED <<job, result, started, gone, waiting, queue, worker, shared, matched, collecting, overtaken>>
  BY DEF jobs, bits
<1>2. Typed'
  BY <1>1 DEF Typed
<1>3. InRole'
  BY <1>1 DEF InRole, S, Idle
<1>4. \A t \in Searches : Helped(t)' <=> Helped(t)
  BY <1>1 DEF Helped, LeadOf, Closed, S
<1>5. InQueue'
  BY <1>1 DEF InQueue, Helped, LeadOf, Closed, S
<1>6. Futures'
  <2>1. ASSUME NEW t \in Searches PROVE
          /\ pc'[t] = "start" => job'[t] = "none"
          /\ job'[t] \in {"none", "queued", "cancelled"} => ~started'[t] /\ shared'[t] = Untaken
          /\ gone'[t] <=> job'[t] \in {"done", "cancelled"} \/ (job'[t] = "taken" /\ started'[t])
          /\ job'[t] = "done" => shared'[t].stop
          /\ job'[t] = "taken" => \E v \in Workers : LeadOf(v, t)'
    BY <1>1 DEF Futures, LeadOf, S
  <2> QED BY <2>1 DEF Futures, Untaken
<1>7. Leads'
  <2>1. ASSUME NEW v \in Workers, NEW t \in Searches, LeadOf(v, t)' PROVE
          /\ job'[t] = "taken"
          /\ worker'[v].at = "begin" <=> ~started'[t]
          /\ worker'[v].at \in {"begin", "offer"} => shared'[t] = Untaken
          /\ worker'[v].at = "drain" => Closed(t)'
          /\ worker'[v].at = "end" =>
               /\ AllDone(t)'
               /\ worker'[v].why = "counts" => \A n \in Trees : shared'[t].counts[n] = 1
          /\ \A u \in Workers : LeadOf(u, t)' => u = v
    <3>1. /\ Closed(t)' <=> Closed(t)
          /\ AllDone(t)' <=> AllDone(t)
          /\ \A u \in Workers : LeadOf(u, t)' <=> LeadOf(u, t)
      BY <1>1 DEF LeadOf, Closed, AllDone, S
    <3>2. LeadOf(v, t)
      BY <2>1, <3>1
    <3> QED BY <1>1, <3>1, <3>2 DEF Leads, LeadOf
  <2>2. \A v \in Workers : worker'[v].role = "count" => S(v)' \in Searches /\ \A t \in {S(v)'} : LeadOf(v, t)'
    BY <1>3 DEF InRole, Idle, LeadOf
  <2> QED BY <2>1, <2>2, UntakenIsConstant DEF Leads, LeadOf, Closed, AllDone
<1>8. Helpers'
  BY <1>1 DEF Helpers, Helped, LeadOf, Closed, S
<1>9. TreesTaken'
  BY <1>1 DEF TreesTaken, Holds, Failed, S
<1>10. WaitingIsExact'
  BY <1>1 DEF WaitingIsExact
<1>11. Overtaking'
  BY <1>1 DEF Overtaking, Past, S
<1> QED BY <1>2, <1>3, <1>5, <1>6, <1>7, <1>8, <1>9, <1>10, <1>11

LEMMA CallerKeeps ==
    ASSUME CountingInv, NEW s \in Searches, Calls(s) \/ GraceOver(s) \/ TimesOut(s)
    PROVE  CountingInv'
<1> USE DEF CountingInv
<1>1. CallerEffect(s)
  BY CallerSteps
<1>2. UNCHANGED <<worker, shared, matched, collecting, overtaken>>
  BY <1>1 DEF CallerEffect, bits
<1>3. CASE UNCHANGED jobs
  BY <1>1, <1>3, QuietKeeps DEF CallerEffect
<1>4. ASSUME NEW t \in Searches, Helped(t), job'[t] = job[t], UNCHANGED started PROVE Helped(t)'
  BY <1>2, <1>4 DEF Helped, LeadOf, Closed, S
<1>5. ASSUME \A t \in Searches : job'[t] = "taken" <=> job[t] = "taken" PROVE TreesTaken'
  BY <1>2, <1>5 DEF TreesTaken, Holds, Failed, S
<1>6. InRole'
  BY <1>2 DEF InRole, S, Idle
<1>7. Past' = Past
  BY <1>2 DEF Past, S
<1>8. CASE Queues(s)
  <2>1. job[s] = "none" /\ job'[s] = "queued" /\ \A t \in Searches \ {s} : job'[t] = job[t]
    BY <1>8 DEF Queues, Typed
  <2>2. UNCHANGED <<result, started, gone>> /\ waiting' = waiting + 1 /\ queue' = Append(queue, <<"count", s>>)
    BY <1>8 DEF Queues
  <2>3. <<"count", s>> \in Entries /\ \A e \in Entries : Append(queue, e) \in Seq(Entries)
    BY EntriesArePairs DEF Typed
  <2>4. Typed'
    <3>1. job' \in [Searches -> JobStates]
      BY <1>8 DEF Queues, Typed, JobStates
    <3>2. queue' \in Seq(Entries) /\ waiting' \in Int
      BY <2>2, <2>3 DEF Typed
    <3> QED BY <1>1, <1>2, <2>2, <3>1, <3>2 DEF Typed, CallerEffect
  <2>5. InQueue'
    <3>1. /\ Len(queue) \in Nat /\ DOMAIN queue = 1..Len(queue)
          /\ DOMAIN queue' = 1..(Len(queue) + 1) /\ queue'[Len(queue) + 1] = <<"count", s>>
          /\ \A i \in DOMAIN queue : queue'[i] = queue[i]
      BY <2>2 DEF Typed
    <3>2. \A i \in DOMAIN queue' : i \in DOMAIN queue \/ i = Len(queue) + 1
      BY <3>1
    <3>3. ASSUME NEW i \in DOMAIN queue
          PROVE  /\ queue[i] # <<"count", s>>
                 /\ IF queue[i][1] = "count" THEN job'[queue[i][2]] = "queued"
                                             ELSE \A t \in {queue[i][2]} : Helped(t)'
      <4>1. queue[i] = <<queue[i][1], queue[i][2]>> /\ queue[i][2] \in Searches
        BY QueueEntries
      <4>2. IF queue[i][1] = "count" THEN job[queue[i][2]] = "queued" ELSE Helped(queue[i][2])
        BY DEF InQueue
      <4> QED BY <1>4, <2>1, <2>2, <4>1, <4>2 DEF Helped
    <3>4. \A i, j \in DOMAIN queue' : queue'[i] = queue'[j] => i = j
      BY <3>1, <3>2, <3>3 DEF InQueue
    <3>5. \A i \in DOMAIN queue' :
            IF queue'[i][1] = "count" THEN job'[queue'[i][2]] = "queued"
                                      ELSE \A t \in {queue'[i][2]} : Helped(t)'
      BY <2>1, <3>1, <3>2, <3>3
    <3> QED BY <3>4, <3>5 DEF InQueue, Helped, LeadOf, Closed
  <2>6. Futures'
    <3>1. pc'[s] # "start" /\ \A t \in Searches : pc'[t] = "start" => pc[t] = "start"
      BY <1>1, <1>8 DEF Queues, CallerEffect
    <3>2. ASSUME NEW t \in Searches PROVE
            /\ pc'[t] = "start" => job'[t] = "none"
            /\ job'[t] \in {"none", "queued", "cancelled"} => ~started'[t] /\ shared'[t] = Untaken
            /\ gone'[t] <=> job'[t] \in {"done", "cancelled"} \/ (job'[t] = "taken" /\ started'[t])
            /\ job'[t] = "done" => shared'[t].stop
            /\ job'[t] = "taken" => \E v \in Workers : LeadOf(v, t)'
      <4>1. \A v \in Workers : LeadOf(v, t)' <=> LeadOf(v, t)
        BY <1>2 DEF LeadOf, S
      <4>2. CASE t = s
        BY <1>2, <2>1, <2>2, <3>1, <4>2 DEF Futures
      <4>3. CASE t # s
        BY <1>2, <2>1, <2>2, <3>1, <4>1, <4>3 DEF Futures
      <4> QED BY <4>2, <4>3
    <3> QED BY <3>2 DEF Futures, Untaken
  <2>7. Leads' /\ Helpers'
    <3>1. \A v \in Workers : worker[v].role \in {"count", "help"} => S(v) \in Searches /\ S(v) # s
      BY <2>1 DEF InRole, Idle, Leads, Helpers, Helped
    <3>2. Leads'
      BY <1>2, <2>1, <2>2, <3>1 DEF Leads, Closed, AllDone, LeadOf, S, Untaken
    <3>3. Helpers'
      BY <1>2, <2>1, <2>2, <3>1 DEF Helpers, Helped, Closed, LeadOf, S
    <3> QED BY <3>2, <3>3
  <2>8. WaitingIsExact'
    <3>1. Pending' = Pending \cup {s} /\ s \notin Pending
      BY <2>1, <2>2 DEF Pending
    <3> QED BY <2>2, <3>1, FinitePending DEF WaitingIsExact, Pending
  <2>9. TreesTaken'
    BY <1>5, <2>1
  <2>10. Overtaking'
    <3>1. overtaken[s] = 0
      BY <2>1 DEF Overtaking
    <3> QED BY <1>2, <1>7, <2>1, <3>1, PastLeavesOne, Bounds DEF Overtaking, Typed
  <2> QED BY <1>6, <2>4, <2>5, <2>6, <2>7, <2>8, <2>9, <2>10
<1>9. CASE Cancels(s)
  <2>1. job[s] = "queued" /\ job'[s] = "cancelled" /\ \A t \in Searches \ {s} : job'[t] = job[t]
    BY <1>9 DEF Cancels, Typed
  <2>2. /\ UNCHANGED <<result, started>> /\ waiting' = waiting - 1 /\ queue' = Withdrawn(queue, <<"count", s>>)
        /\ gone' = [gone EXCEPT ![s] = TRUE]
    BY <1>9, <2>1 DEF Cancels, Left, Futures
  <2>3. /\ queue' \in Seq(Entries)
        /\ \A i, j \in DOMAIN queue' : queue'[i] = queue'[j] => i = j
        /\ \A i \in DOMAIN queue' : queue'[i] # <<"count", s>> /\ \E j \in DOMAIN queue : queue'[i] = queue[j]
    <3>1. <<"count", s>> \in Entries
      BY EntriesArePairs
    <3> QED BY <2>2, <3>1, WithdrawnEntry
  <2>4. Typed'
    <3>1. job' \in [Searches -> JobStates] /\ gone' \in [Searches -> BOOLEAN] /\ waiting' \in Int
      BY <1>9, <2>2 DEF Cancels, Typed, JobStates
    <3> QED BY <1>1, <1>2, <2>2, <2>3, <3>1 DEF Typed, CallerEffect
  <2>5. InQueue'
    <3>1. ASSUME NEW i \in DOMAIN queue'
          PROVE  IF queue'[i][1] = "count" THEN job'[queue'[i][2]] = "queued"
                                           ELSE \A t \in {queue'[i][2]} : Helped(t)'
      <4>1. PICK j \in DOMAIN queue : queue'[i] = queue[j]
        BY <2>3
      <4>2. /\ queue[j] # <<"count", s>> /\ queue[j] = <<queue[j][1], queue[j][2]>>
            /\ queue[j][2] \in Searches
        BY <2>3, <4>1, QueueEntries
      <4>3. IF queue[j][1] = "count" THEN job[queue[j][2]] = "queued" ELSE Helped(queue[j][2])
        BY DEF InQueue
      <4> QED BY <1>4, <2>1, <2>2, <4>1, <4>2, <4>3 DEF Helped
    <3> QED BY <2>3, <3>1 DEF InQueue, Helped, LeadOf, Closed
  <2>6. Futures'
    <3>1. \A t \in Searches : pc'[t] = "start" => pc[t] = "start"
      BY <1>1 DEF CallerEffect
    <3> QED BY <1>2, <2>1, <2>2, <3>1 DEF Futures, LeadOf, S, Untaken, Typed
  <2>7. Leads' /\ Helpers'
    <3>1. \A v \in Workers : worker[v].role \in {"count", "help"} => S(v) \in Searches /\ S(v) # s
      BY <2>1 DEF InRole, Idle, Leads, Helpers, Helped
    <3>2. Leads'
      BY <1>2, <2>1, <2>2, <3>1 DEF Leads, Closed, AllDone, LeadOf, S, Untaken
    <3>3. Helpers'
      BY <1>2, <2>1, <2>2, <3>1 DEF Helpers, Helped, Closed, LeadOf, S
    <3> QED BY <3>2, <3>3
  <2>8. WaitingIsExact'
    <3>1. Pending' = Pending \ {s} /\ s \in Pending
      BY <2>1, <2>2 DEF Pending
    <3> QED BY <2>2, <3>1, FinitePending DEF WaitingIsExact, Pending
  <2>9. TreesTaken'
    BY <1>5, <2>1
  <2>10. Overtaking'
    <3>1. \A t \in Searches : job'[t] \in {"queued", "none"} => job'[t] = job[t]
      BY <2>1
    <3> QED BY <1>2, <1>7, <2>4, <3>1, OvertakingKept DEF Typed
  <2> QED BY <1>6, <2>4, <2>5, <2>6, <2>7, <2>8, <2>9, <2>10
<1> QED BY <1>1, <1>3, <1>8, <1>9 DEF CallerEffect

----------------------------------------------------------------------------
LEMMA CountingInit ==
    ASSUME Init
    PROVE  CountingInv
<1>1. Typed
  BY TypedInit
<1>2. \A w \in Workers : worker[w] = Idle /\ Idle.role = "idle" /\ Idle.at = "idle"
  BY DEF Init, Idle
<1>3. InRole /\ Leads /\ Helpers
  BY <1>2 DEF InRole, Leads, Helpers
<1>4. InQueue /\ Futures
  BY DEF Init, InQueue, Futures
<1>5. TreesTaken
  BY <1>2 DEF Init, TreesTaken, Untaken, Holds, Holding
<1>6. WaitingIsExact
  <2>1. Pending = {}
    BY DEF Init, Pending
  <2> QED BY <2>1, FS_EmptySet DEF WaitingIsExact, Pending, Init
<1>7. Overtaking
  <2>1. Past = {}
    BY <1>2 DEF Past
  <2> QED BY <2>1, FS_EmptySet, Bounds DEF Overtaking, Init
<1> QED BY <1>1, <1>3, <1>4, <1>5, <1>6, <1>7 DEF CountingInv

LEMMA CountingStep ==
    ASSUME CountingInv, [Next]_vars
    PROVE  CountingInv'
<1>1. ASSUME NEW s \in Searches, Calls(s) \/ GraceOver(s) \/ TimesOut(s) PROVE CountingInv'
  BY <1>1, CallerKeeps
<1>2. ASSUME NEW w \in Workers, Work(w) PROVE CountingInv'
  BY <1>2, TakesJobKeeps, BeginsKeeps, OffersKeeps, AsksKeeps, TakesTreeKeeps, ConjunctKeeps,
     CountsTreeKeeps, StopsSharingKeeps, KeepsErrorKeeps, DrainsKeeps, EndsJobKeeps DEF Work
<1>3. CASE UNCHANGED vars
  <2>1. UNCHANGED <<pc, abandoned, jobs, worker, shared, bits, overtaken>>
    BY <1>3 DEF vars, callers
  <2>2. pc \in [Searches -> Phases] /\ abandoned \in [Searches -> BOOLEAN]
    BY DEF CountingInv, Typed
  <2> QED BY <2>1, <2>2, QuietKeeps
<1> QED BY <1>1, <1>2, <1>3 DEF Next

(***************************************************************************)
(* The books of the counting pool: the count of waiting jobs, who leads    *)
(* and who helps, which trees are taken, counted or failed, and how often  *)
(* a queued job was overtaken.                                             *)
(***************************************************************************)
THEOREM CountingBooks == Spec => []CountingInv
<1>1. CountingInv /\ [Next]_vars => CountingInv'
  BY CountingStep
<1> QED BY CountingInit, <1>1, PTL DEF Spec

(***************************************************************************)
(* The count of waiting jobs is exact whatever becomes of them, and while  *)
(* a job is queued every helper takes at most the tree it had already      *)
(* turned to (search.py `_queued`, `_yield`).                              *)
(***************************************************************************)
THEOREM WaitingJobsGoFirst == Spec => []QueuedJobsFirst
<1>1. CountingInv => QueuedJobsFirst
  BY DEF CountingInv, QueuedJobsFirst, HelpersGiveWay, Overtaking
<1> QED BY <1>1, CountingBooks, PTL

(***************************************************************************)
(* A search that reports counts has each of its trees counted once, and    *)
(* no thread still counts for a job that ends (`_Shared.counted`).         *)
(***************************************************************************)
THEOREM EveryTreeOnce == Spec => []CountsAreWhole
<1>1. ASSUME CountingInv PROVE CountsAreWhole
  <2> USE <1>1 DEF CountingInv
  <2>1. SUFFICES ASSUME NEW w \in Workers, worker[w].at = "end"
                 PROVE  /\ worker[w].why = "counts" => \A t \in Trees : shared[S(w)].counts[t] = 1
                        /\ \A v \in Workers \ {w} : S(v) = S(w) => worker[v].at \in {"ask", "take"}
    BY DEF CountsAreWhole
  <2>2. S(w) \in Searches /\ worker[w].role = "count"
    BY <2>1, Busy DEF HelperAts, Holding
  <2>3. /\ AllDone(S(w)) /\ \A v \in Workers : LeadOf(v, S(w)) => v = w
        /\ worker[w].why = "counts" => \A t \in Trees : shared[S(w)].counts[t] = 1
    BY <2>1, <2>2 DEF Leads
  <2>4. ASSUME NEW v \in Workers \ {w}, S(v) = S(w) PROVE worker[v].at \in {"ask", "take"}
    <3>1. S(v) \in Searches /\ worker[v] # Idle
      BY <2>2, <2>4, CountingAssumption DEF Idle, S
    <3>2. worker[v].role = "help" /\ worker[v].at \in HelperAts
      BY <2>3, <2>4, <3>1 DEF InRole, LeadOf
    <3>3. ~ Holds(v, S(w))
      BY <2>2, <2>3, NoneHolds
    <3> QED BY <2>4, <3>2, <3>3 DEF Holds, HelperAts
  <2> QED BY <2>3, <2>4
<1> QED BY <1>1, CountingBooks, PTL

----------------------------------------------------------------------------
(* Who waits, and for whom: a conjunct being collected has its collector    *)
(* at it, and a tree taken and not done has a thread that holds it.         *)

Collector(v, s, c) == worker[v].at = "collect" /\ S(v) = s /\ worker[v].conjunct = c
Collected ==
  \A s \in Searches, c \in Conjuncts, v \in Workers : collecting[s][c] = v => Collector(v, s, c)

Out(s) == (1..(shared[s].next - 1)) \ shared[s].done
Has(w, s, t) == Holds(w, s) /\ worker[w].tree = t
TreesHeld == \A s \in Searches : \A t \in Out(s) : \E w \in Workers : Has(w, s, t)

PoolInv == Collected /\ TreesHeld

Others(w) == \A v \in Workers \ {w} : worker'[v] = worker[v]

LEMMA CollectedKept ==
    ASSUME Typed, Collected, NEW w \in Workers, Others(w), UNCHANGED collecting, worker[w].at # "collect"
    PROVE  Collected'
<1> SUFFICES ASSUME NEW s \in Searches, NEW c \in Conjuncts, NEW v \in Workers, collecting[s][c] = v
             PROVE  Collector(v, s, c)'
  BY DEF Collected
<1>1. Collector(v, s, c)
  BY DEF Collected
<1> QED BY <1>1 DEF Collector, Others, S

LEMMA HeldKept ==
    ASSUME TreesHeld, NEW w \in Workers, Others(w),
           \A s \in Searches : \A t \in Out(s)' : Has(w, s, t)' \/ (t \in Out(s) /\ ~ Has(w, s, t))
    PROVE  TreesHeld'
<1> SUFFICES ASSUME NEW s \in Searches, NEW t \in Out(s)' PROVE \E v \in Workers : Has(v, s, t)'
  BY DEF TreesHeld
<1>1. CASE Has(w, s, t)'
  BY <1>1
<1>2. CASE t \in Out(s) /\ ~ Has(w, s, t)
  <2>1. PICK v \in Workers : Has(v, s, t)
    BY <1>2 DEF TreesHeld
  <2>2. Has(v, s, t)'
    BY <1>2, <2>1 DEF Others, Has, Holds, S
  <2> QED BY <2>2
<1> QED BY <1>1, <1>2

(* A worker that holds no tree moves, and the trees stay as they are.       *)
LEMMA FreeHanded ==
    ASSUME Typed, PoolInv, NEW w \in Workers, Others(w), UNCHANGED <<shared, collecting>>,
           worker[w].at \notin Holding
    PROVE  PoolInv'
<1>1. Collected'
  BY CollectedKept DEF PoolInv, Holding
<1>2. \A s \in Searches : \A t \in Out(s)' : t \in Out(s) /\ ~ Has(w, s, t)
  BY DEF Out, Has, Holds
<1> QED BY <1>1, <1>2, HeldKept DEF PoolInv

LEMMA TakesTreeHeld ==
    ASSUME CountingInv, PoolInv, NEW w \in Workers, TakesTree(w)
    PROVE  PoolInv'
<1> USE DEF CountingInv
<1>1. worker[w].at = "take" /\ S(w) \in Searches /\ worker[w].at \notin Holding
  BY TakesTreeDoes DEF Holding
<1>2. UNCHANGED collecting
  BY DEF TakesTree, bits
<1>3. CASE UNCHANGED shared /\ Moved(w)
  BY <1>1, <1>2, <1>3, FreeHanded DEF Moved, Others
<1>4. CASE /\ SharesOnly(S(w))
           /\ Stays(w, "failing") \/ Stays(w, "need")
           /\ worker'[w].tree = shared[S(w)].next
           /\ shared'[S(w)] = [shared[S(w)] EXCEPT !.next = @ + 1]
  <2>1. Others(w) /\ S(w)' = S(w) /\ worker'[w].at \in Holding
    BY <1>4 DEF Stays, Moved, Others, S, Holding
  <2>2. Collected'
    BY <1>1, <1>2, <2>1, CollectedKept DEF PoolInv
  <2>3. /\ shared[S(w)].next \in Nat /\ shared'[S(w)].next = shared[S(w)].next + 1
        /\ shared'[S(w)].done = shared[S(w)].done
    BY <1>1, <1>4 DEF Typed, SharedStates
  <2>4. ASSUME NEW s \in Searches, NEW t \in Out(s)'
        PROVE  Has(w, s, t)' \/ (t \in Out(s) /\ ~ Has(w, s, t))
    <3>1. ~ Has(w, s, t)
      BY <1>1 DEF Has, Holds
    <3>2. CASE s = S(w) /\ t = shared[S(w)].next
      BY <1>4, <2>1, <3>2 DEF Has, Holds
    <3>3. CASE s = S(w) /\ t # shared[S(w)].next
      BY <2>3, <3>1, <3>3 DEF Out
    <3>4. CASE s # S(w)
      <4>1. shared'[s] = shared[s]
        BY <1>4, <3>4 DEF SharesOnly
      <4> QED BY <3>1, <4>1 DEF Out
    <3> QED BY <3>2, <3>3, <3>4
  <2> QED BY <2>1, <2>2, <2>4, HeldKept DEF PoolInv
<1> QED BY <1>3, <1>4, TakesTreeDoes DEF Stays, Frees

(* Whoever collects a conjunct keeps its tree, and gives the conjunct back  *)
(* however the collection ends.                                            *)
LEMMA ConjunctHeld ==
    ASSUME CountingInv, PoolInv, NEW w \in Workers, ClaimsConjunct(w) \/ CollectsConjunct(w)
    PROVE  PoolInv'
<1> USE DEF CountingInv
<1>1. /\ UNCHANGED shared /\ worker[w].at \in {"need", "collect"} /\ worker'[w].tree = worker[w].tree
      /\ Stays(w, "need") \/ Stays(w, "collect") \/ Stays(w, "failing")
  BY ClaimsConjunctDoes, CollectsConjunctDoes
<1>2. Others(w) /\ S(w)' = S(w) /\ worker'[w].at \in Holding /\ worker[w].at \in Holding
  BY <1>1 DEF Stays, Moved, Others, S, Holding
<1>3. TreesHeld'
  <2>1. \A s \in Searches, t \in Nat : Has(w, s, t)' <=> Has(w, s, t)
    BY <1>1, <1>2 DEF Has, Holds
  <2>2. \A s \in Searches : \A t \in Out(s)' : t \in Out(s) /\ t \in Nat
    BY <1>1 DEF Out, Typed, SharedStates
  <2> QED BY <1>2, <2>1, <2>2, HeldKept DEF PoolInv
<1>4. S(w) \in Searches /\ collecting \in [Searches -> [Conjuncts -> Workers \cup {None}]]
  BY <1>2, HeldTree DEF Typed
<1>5. CASE ClaimsConjunct(w)
  <2> DEFINE c == Min(Missing(w))
  <2>1. worker[w].at = "need"
    BY <1>5 DEF ClaimsConjunct
  <2>2. CASE abandoned[S(w)]
    <3>1. UNCHANGED collecting
      BY <1>5, <2>2 DEF ClaimsConjunct
    <3> QED BY <1>2, <1>3, <2>1, <3>1, CollectedKept DEF PoolInv
  <2>3. CASE ~ abandoned[S(w)]
    <3>1. /\ collecting' = [collecting EXCEPT ![S(w)][c] = w]
          /\ worker' = [worker EXCEPT ![w].at = "collect", ![w].conjunct = c]
      BY <1>5, <2>3 DEF ClaimsConjunct
    <3> HIDE DEF c
    <3>2. worker'[w].at = "collect" /\ worker'[w].conjunct = c
      BY <3>1 DEF Typed, WorkerStates, WorkerRecords
    <3>3. ASSUME NEW s \in Searches, NEW d \in Conjuncts, NEW v \in Workers, collecting'[s][d] = v
          PROVE  Collector(v, s, d)'
      <4>1. CASE s = S(w) /\ d = c
        <5>1. v = w
          BY <1>4, <3>1, <3>3, <4>1
        <5> QED BY <1>2, <3>2, <4>1, <5>1 DEF Collector
      <4>2. CASE ~ (s = S(w) /\ d = c)
        <5>1. collecting[s][d] = v
          BY <1>4, <3>1, <3>3, <4>2
        <5>2. v # w /\ Collector(v, s, d)
          BY <2>1, <5>1 DEF PoolInv, Collected, Collector
        <5> QED BY <1>2, <5>2 DEF Collector, Others, S
      <4> QED BY <4>1, <4>2
    <3> QED BY <1>3, <3>3 DEF PoolInv, Collected
  <2> QED BY <2>2, <2>3
<1>6. CASE CollectsConjunct(w)
  <2>1. collecting' = [collecting EXCEPT ![S(w)][worker[w].conjunct] = None]
    BY <1>6 DEF CollectsConjunct, Release
  <2>2. ASSUME NEW s \in Searches, NEW d \in Conjuncts, NEW v \in Workers, collecting'[s][d] = v
        PROVE  Collector(v, s, d)'
    <3>1. ~ (s = S(w) /\ d = worker[w].conjunct) /\ collecting[s][d] = v
      BY <1>4, <2>1, <2>2, CountingAssumption
    <3>2. v # w /\ Collector(v, s, d)
      BY <3>1 DEF PoolInv, Collected, Collector
    <3> QED BY <1>2, <3>2 DEF Collector, Others, S
  <2> QED BY <1>3, <2>2 DEF PoolInv, Collected
<1> QED BY <1>5, <1>6

(* Who lets go of a tree has marked it done; who stops the call keeps it.   *)
LEMMA CountedIsDone ==
    ASSUME CountingInv, NEW w \in Workers, CountsTree(w)
    PROVE  /\ SharesOnly(S(w)) /\ Moved(w) /\ shared'[S(w)].next = shared[S(w)].next
           /\ shared'[S(w)].done = shared[S(w)].done \cup {worker[w].tree}
<1> USE DEF CountingInv
<1> DEFINE tree == worker[w].tree
<1>1. /\ Typed' /\ Aside /\ UNCHANGED overtaken
      /\ worker[w].at = "need" /\ SharesOnly(S(w))
      /\ Stays(w, Onward(w))
      /\ shared'[S(w)] = [shared[S(w)] EXCEPT !.counts[tree] = @ + 1, !.done = @ \cup {tree}]
  BY CountsTreeDoes
<1>2. shared[S(w)] \in SharedStates
  BY <1>1, HeldTree DEF Holding
<1> QED BY <1>1, <1>2 DEF SharedStates, Stays

LEMMA FailedIsDone ==
    ASSUME CountingInv, NEW w \in Workers, KeepsError(w)
    PROVE  /\ SharesOnly(S(w)) /\ Moved(w) /\ shared'[S(w)].next = shared[S(w)].next
           /\ shared'[S(w)].done = shared[S(w)].done \cup {worker[w].tree}
<1> USE DEF CountingInv
<1> DEFINE tree == worker[w].tree
<1>1. /\ Typed' /\ Aside /\ UNCHANGED overtaken
      /\ worker[w].at = "stopped" /\ SharesOnly(S(w))
      /\ IF worker[w].role = "count" THEN Stays(w, "drain") ELSE Frees(w)
      /\ shared'[S(w)] = [shared[S(w)] EXCEPT !.errors = Append(@, <<tree, worker[w].why>>),
                                              !.done = @ \cup {tree}]
  BY KeepsErrorDoes
<1>2. shared[S(w)] \in SharedStates
  BY <1>1, HeldTree DEF Holding
<1> QED BY <1>1, <1>2 DEF SharedStates, Stays, Frees

LEMMA LetsGoHeld ==
    ASSUME CountingInv, PoolInv, NEW w \in Workers, CountsTree(w) \/ StopsSharing(w) \/ KeepsError(w)
    PROVE  PoolInv'
<1>1. Typed /\ InRole /\ TreesTaken /\ worker[w].at \in Holding /\ worker[w].at # "collect"
  BY DEF CountingInv, CountsTree, StopsSharing, KeepsError, Holding
<1>2. S(w) \in Searches /\ shared[S(w)] \in SharedStates
  BY <1>1, HeldTree
<1>3. /\ SharesOnly(S(w)) /\ Moved(w) /\ shared'[S(w)].next = shared[S(w)].next
      /\ \/ shared'[S(w)].done = shared[S(w)].done \cup {worker[w].tree}
         \/ /\ shared'[S(w)].done = shared[S(w)].done /\ worker'[w].tree = worker[w].tree
            /\ worker'[w].at \in Holding /\ worker'[w].search = worker[w].search
  <2>1. CASE CountsTree(w)
    BY <1>2, <2>1, CountedIsDone
  <2>2. CASE KeepsError(w)
    BY <1>2, <2>2, FailedIsDone
  <2>3. CASE StopsSharing(w)
    <3>1. /\ SharesOnly(S(w)) /\ Moved(w) /\ shared'[S(w)] = [shared[S(w)] EXCEPT !.stop = TRUE]
          /\ worker'[w].at = "stopped" /\ worker'[w].tree = worker[w].tree
          /\ worker'[w].search = worker[w].search
      BY <1>1, <2>3, StopsSharingDoes DEF Stays
    <3> QED BY <1>2, <3>1 DEF SharedStates, Holding
  <2> QED BY <2>1, <2>2, <2>3
<1>4. Others(w) /\ UNCHANGED collecting
  BY <1>3 DEF Moved, Others, CountsTree, StopsSharing, KeepsError, bits
<1>5. Collected'
  BY <1>1, <1>4, CollectedKept DEF PoolInv
<1>6. ASSUME NEW s \in Searches, NEW t \in Out(s)'
      PROVE  Has(w, s, t)' \/ (t \in Out(s) /\ ~ Has(w, s, t))
  <2>1. CASE s # S(w)
    <3>1. shared'[s] = shared[s]
      BY <1>3, <2>1 DEF SharesOnly
    <3> QED BY <2>1, <3>1 DEF Out, Has, Holds
  <2>2. CASE s = S(w)
    <3>1. t \in 1..(shared'[S(w)].next - 1) /\ t \notin shared'[S(w)].done
      BY <2>2 DEF Out
    <3>2. t \in Out(s)
      BY <1>3, <2>2, <3>1 DEF Out
    <3> QED BY <1>3, <2>2, <3>1, <3>2 DEF Has, Holds, S
  <2> QED BY <2>1, <2>2
<1> QED BY <1>4, <1>5, <1>6, HeldKept DEF PoolInv

LEMMA EndsJobHeld ==
    ASSUME CountingInv, PoolInv, NEW w \in Workers, EndsJob(w)
    PROVE  PoolInv'
<1> USE DEF CountingInv
<1>1. worker[w].at = "end" /\ S(w) \in Searches /\ UNCHANGED collecting
  BY Busy DEF EndsJob
<1>2. /\ Others(w) /\ shared'[S(w)] = Dropped
      /\ \A s \in Searches \ {S(w)} : shared'[s] = shared[s]
  BY <1>1 DEF EndsJob, Typed, Others
<1>3. Collected'
  BY <1>1, <1>2, CollectedKept DEF PoolInv
<1>4. ASSUME NEW s \in Searches, NEW t \in Out(s)' PROVE t \in Out(s) /\ ~ Has(w, s, t)
  <2>1. Dropped.next = 1 /\ Dropped.done = {}
    BY DEF Dropped, Untaken
  <2>2. s # S(w)
    BY <1>2, <2>1 DEF Out
  <2> QED BY <1>2, <2>2 DEF Out, Has, Holds
<1> QED BY <1>2, <1>3, <1>4, HeldKept DEF PoolInv

LEMMA PoolStep ==
    ASSUME CountingInv, PoolInv, [Next]_vars
    PROVE  PoolInv'
<1>1. ASSUME UNCHANGED <<worker, shared, collecting>> PROVE PoolInv'
  BY <1>1 DEF PoolInv, Collected, TreesHeld, Collector, Out, Has, Holds, S
<1>2. ASSUME NEW s \in Searches, Calls(s) \/ GraceOver(s) \/ TimesOut(s) PROVE PoolInv'
  <2>1. CallerEffect(s)
    BY <1>2, CallerSteps DEF CountingInv
  <2> QED BY <1>1, <2>1 DEF CallerEffect, bits
<1>3. ASSUME NEW w \in Workers, Work(w) PROVE PoolInv'
  <2>1. worker \in [Workers -> WorkerStates] /\ Typed
    BY DEF CountingInv, Typed
  <2>2. CASE TakesJob(w)
    BY <2>1, <2>2, FreeHanded DEF TakesJob, Others, Holding, Idle, bits
  <2>3. CASE Begins(w)
    BY <2>1, <2>3, FreeHanded DEF Begins, At, Others, Holding, bits
  <2>4. CASE Offers(w)
    BY <2>1, <2>4, FreeHanded DEF Offers, At, Others, Holding, bits
  <2>5. CASE Asks(w)
    BY <2>1, <2>5, FreeHanded DEF Asks, At, Others, Holding, bits
  <2>6. CASE Drains(w)
    BY <2>1, <2>6, FreeHanded DEF Drains, At, Others, Holding, bits
  <2> QED BY <1>3, <2>2, <2>3, <2>4, <2>5, <2>6, TakesTreeHeld, ConjunctHeld, LetsGoHeld, EndsJobHeld DEF Work
<1> QED BY <1>1, <1>2, <1>3 DEF Next, vars, bits

(***************************************************************************)
(* The pool cannot lock up: whoever waits for a tree waits for a thread    *)
(* that holds it, whoever waits for a conjunct waits for its collector,    *)
(* and the collector waits for nobody (`_Shared.counted`,                  *)
(* `_Parts.matches`).                                                      *)
(***************************************************************************)
THEOREM SomeWorkerGoesOn == Spec => []PoolNeverLocksUp
<1>1. Init => PoolInv
  BY CountingAssumption DEF Init, PoolInv, Collected, TreesHeld, Out, Untaken
<1>2. CountingInv /\ PoolInv /\ [Next]_vars => PoolInv'
  BY PoolStep
<1>3. ASSUME CountingInv, PoolInv PROVE PoolNeverLocksUp
  <2> USE <1>3 DEF CountingInv
  <2>1. ASSUME NEW w \in Workers, WaitsForConjunct(w)
        PROVE  \E v \in Workers : worker[v].at = "collect"
    <3>1. worker[w].at \in Holding /\ Missing(w) # {}
      BY <2>1 DEF WaitsForConjunct, Holding
    <3>2. Missing(w) \in SUBSET Conjuncts /\ S(w) \in Searches
      BY <3>1, HeldTree, CountingAssumption DEF Missing
    <3>3. Min(Missing(w)) \in Conjuncts
      BY <3>1, <3>2, MinIsMember, CountingAssumption
    <3>4. collecting[S(w)][Min(Missing(w))] \in Workers
      BY <2>1, <3>2, <3>3 DEF WaitsForConjunct, Typed
    <3> QED BY <3>2, <3>3, <3>4 DEF PoolInv, Collected, Collector
  <2>2. ASSUME NEW w \in Workers, WaitsForTree(w)
        PROVE  \E v \in Workers : worker[v].at \in Holding
    <3>1. S(w) \in Searches
      BY <2>2, Busy DEF WaitsForTree
    <3> QED BY <2>2, <3>1 DEF WaitsForTree, AllDone, PoolInv, TreesHeld, Out, Has, Holds
  <2>3. ASSUME NEW v \in Workers, worker[v].at \in Holding
        PROVE  worker[v] # Idle /\ ~ WaitsForTree(v) /\ (worker[v].at = "collect" => ~ WaitsForConjunct(v))
    BY <2>3 DEF Holding, Idle, WaitsForTree, WaitsForConjunct
  <2>4. "collect" \in Holding
    BY DEF Holding
  <2> QED BY <2>1, <2>2, <2>3, <2>4 DEF PoolNeverLocksUp
<1>4. Spec => []PoolInv
  BY <1>1, <1>2, CountingBooks, PTL DEF Spec
<1> QED BY <1>3, <1>4, CountingBooks, PTL
=============================================================================
