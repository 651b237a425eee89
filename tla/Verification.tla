---------------------------- MODULE Verification ----------------------------
(***************************************************************************)
(* The position-verified clauses of one engine (tantivy_engine.py,         *)
(* compile.py): requests compile their query on several threads, each      *)
(* clause's ids are found by a cold verification under one of the API's    *)
(* few slots, kept by the request in its scope and by the engine in a memo *)
(* without a lock, whose budget an append-only ledger keeps.               *)
(*                                                                         *)
(* A request with facets compiles the whole query in its caller, then the  *)
(* facet worker compiles the base (the same clauses, less the filters)     *)
(* while the caller compiles the query again for its page, and last the    *)
(* caller compiles the base for the exclusions.  A clause is a model       *)
(* value, a tree its set of clauses; of a clause's ids only the weight     *)
(* counts.  `charged` is the sum of the memo's current ledger; an append   *)
(* to a ledger swapped out meanwhile is lost.  The memo of compiled trees  *)
(* may be cleared between any two steps.                                   *)
(***************************************************************************)
EXTENDS Integers, FiniteSets, FiniteSetsExt

CONSTANTS
  Requests, Clauses,
  Queries,  \* the clause sets a query may have
  Bare,     \* the clauses with no candidate: nothing to read, no slot taken
  Weight,   \* clause -> what it is charged
  Budget,   \* MAX_VERIFIED_IDS
  Slots,    \* the API's verification slots
  NoClause

ASSUME VerificationAssumption ==
  /\ IsFiniteSet(Requests) /\ IsFiniteSet(Clauses) /\ Clauses # {}
  /\ Queries \subseteq SUBSET Clauses /\ Bare \subseteq Clauses
  /\ Weight \in [Clauses -> Nat \ {0}]
  /\ Budget \in Nat /\ Slots \in Nat
  /\ NoClause \notin Clauses

VARIABLES
  stage,    \* request -> "idle", or which compile its caller is at
  query,    \* request -> its tree's verified clauses
  scope,    \* request -> the clauses whose ids it holds
  seen,     \* request -> history: the clauses it verified
  at,       \* thread -> where in a compile it is
  todo,     \* thread -> the clauses of the tree it has yet to build
  on,       \* thread -> the clause it verifies or stores
  verified, \* the engine's memo of verified clauses
  charged,  \* the sum of that memo's current ledger
  compiled, \* the engine's memo of compiled trees: <<clauses, "whole" or "base">>
  busy      \* the verification slots held

requests == <<stage, query, scope, seen>>
threads == <<at, todo, on>>
memo == <<verified, charged>>
verifyVars == <<requests, threads, memo, compiled, busy>>

Threads == Requests \X {"caller", "worker"}
Caller(r) == <<r, "caller">>
Worker(r) == <<r, "worker">>
R(t) == t[1]

VerifyInit ==
  /\ stage = [r \in Requests |-> "idle"]
  /\ query = [r \in Requests |-> {}] /\ scope = query /\ seen = query
  /\ at = [t \in Threads |-> "idle"] /\ todo = [t \in Threads |-> {}]
  /\ on = [t \in Threads |-> NoClause]
  /\ verified = {} /\ charged = 0 /\ compiled = {} /\ busy = 0

Goto(t, place) == at' = [at EXCEPT ![t] = place]

(* Which of the request's two trees the thread compiles. *)
Key(t) ==
  <<query[R(t)], IF t = Caller(R(t)) /\ stage[R(t)] # "exclusions" THEN "whole" ELSE "base">>

(* With facets a first compile precedes the page's; without, the page's is the first. *)
Start(r) ==
  /\ stage[r] = "idle"
  /\ \E q \in Queries, first \in {"facets", "page"} :
       query' = [query EXCEPT ![r] = q] /\ stage' = [stage EXCEPT ![r] = first]
  /\ Goto(Caller(r), "compile")
  /\ UNCHANGED <<scope, seen, todo, on, memo, compiled, busy>>

Ends(r) ==
  LET without(f, none) == [t \in Threads |-> IF R(t) = r THEN none ELSE f[t]]
  IN  /\ stage' = [stage EXCEPT ![r] = "idle"]
      /\ query' = [query EXCEPT ![r] = {}]
      /\ scope' = [scope EXCEPT ![r] = {}] /\ seen' = [seen EXCEPT ![r] = {}]
      /\ at' = without(at, "idle") /\ todo' = without(todo, {}) /\ on' = without(on, NoClause)

Keeps(r, clauses) == scope' = [scope EXCEPT ![r] = @ \cup clauses]

(***************************************************************************)
(* compile: a hit in the compiled memo gives the request every id the      *)
(* entry holds; a miss builds the tree clause by clause.                   *)
(***************************************************************************)
HitForgets(r, clauses) == UNCHANGED scope
HitKeeps(r, clauses) == Keeps(r, clauses)

Compiles(t) ==
  /\ at[t] = "compile"
  /\ IF Key(t) \in compiled
     THEN HitKeeps(R(t), query[R(t)]) /\ Goto(t, "built") /\ UNCHANGED todo
     ELSE Goto(t, "lookup") /\ todo' = [todo EXCEPT ![t] = query[R(t)]] /\ UNCHANGED scope
  /\ UNCHANGED <<stage, query, seen, on, memo, compiled, busy>>

(* Overlay.get: the request's own ids, then the memo's, which become the request's. *)
KnownUnscoped(t) == IF t = Caller(R(t)) THEN verified ELSE scope[R(t)] \cup verified
Known(t) == scope[R(t)] \cup verified

LooksUp(t) ==
  /\ at[t] = "lookup"
  /\ \E c \in todo[t] \cap Known(t) :
       Keeps(R(t), {c}) /\ todo' = [todo EXCEPT ![t] = @ \ {c}]
  /\ UNCHANGED <<stage, query, seen, at, on, memo, compiled, busy>>

Misses(t, c) == at[t] = "lookup" /\ c \in todo[t] \ Known(t)

(* A clause nothing can match is not read; with no slot free the request is refused, not queued. *)
EntersGate(t) ==
  /\ t = Caller(R(t))
  /\ \E c \in Clauses :
       /\ Misses(t, c)
       /\ \/ /\ c \in Bare
             /\ Keeps(R(t), {c}) /\ Goto(t, "trim") /\ on' = [on EXCEPT ![t] = c]
             /\ UNCHANGED <<stage, query, seen, todo, busy>>
          \/ /\ c \notin Bare /\ busy < Slots
             /\ busy' = busy + 1 /\ Goto(t, "verify") /\ on' = [on EXCEPT ![t] = c]
             /\ UNCHANGED <<requests, todo>>
          \/ c \notin Bare /\ busy = Slots /\ Ends(R(t)) /\ UNCHANGED busy
  /\ UNCHANGED <<memo, compiled>>

(* The deadline's check raises: the partial list is dropped and the slot given back. *)
PastDeadline(t) ==
  /\ at[t] = "verify"
  /\ busy' = busy - 1
  /\ Ends(R(t))
  /\ UNCHANGED <<memo, compiled>>

(* The request keeps what it verified before the memo does: the memo's store may clear the memo. *)
Verifies(t) ==
  /\ at[t] = "verify"
  /\ busy' = busy - 1
  /\ seen' = [seen EXCEPT ![R(t)] = @ \cup {on[t]}]
  /\ Keeps(R(t), {on[t]})
  /\ Goto(t, "trim")
  /\ UNCHANGED <<stage, query, todo, on, memo, compiled>>

(***************************************************************************)
(* _store_verified: trim, store, charge, each a few single operations with *)
(* other threads between them.  A clear swaps in a new ledger before it    *)
(* clears the memo; whoever read the ledger before the swap charges the    *)
(* old one.                                                                *)
(***************************************************************************)
Sums(t) ==
  /\ at[t] = "trim"
  /\ Goto(t, IF charged > Budget THEN "clear" ELSE "memo")
  /\ UNCHANGED <<requests, todo, on, memo, compiled, busy>>

SwapsLedger(t, from, to) ==
  /\ at[t] = from /\ charged' = 0 /\ UNCHANGED verified
  /\ at' = [u \in Threads |-> IF u = t THEN to ELSE IF at[u] = "append" THEN "lost" ELSE at[u]]
EmptiesMemo(t, from, to) == at[t] = from /\ verified' = {} /\ Goto(t, to) /\ UNCHANGED charged

ClearsFirst(t) == EmptiesMemo(t, "clear", "cleared") \/ SwapsLedger(t, "cleared", "memo")
Clears(t) == SwapsLedger(t, "clear", "cleared") \/ EmptiesMemo(t, "cleared", "memo")

Trims(t) == Clears(t) /\ UNCHANGED <<requests, todo, on, compiled, busy>>

StoresMemo(t) ==
  /\ at[t] = "memo"
  /\ verified' = verified \cup {on[t]}
  /\ Goto(t, "charge")
  /\ UNCHANGED <<requests, todo, on, charged, compiled, busy>>

ReadsLedger(t) ==
  /\ at[t] = "charge"
  /\ Goto(t, "append")
  /\ UNCHANGED <<requests, todo, on, memo, compiled, busy>>

Charges(t) ==
  /\ at[t] \in {"append", "lost"}
  /\ charged' = IF at[t] = "append" THEN charged + Weight[on[t]] ELSE charged
  /\ todo' = [todo EXCEPT ![t] = @ \ {on[t]}] /\ on' = [on EXCEPT ![t] = NoClause]
  /\ Goto(t, "lookup")
  /\ UNCHANGED <<requests, verified, compiled, busy>>

(* The tree is built, and its entry stored complete. *)
Builds(t) ==
  /\ at[t] = "lookup" /\ todo[t] = {}
  /\ compiled' = compiled \cup {Key(t)}
  /\ Goto(t, "built")
  /\ UNCHANGED <<requests, todo, on, memo, busy>>

(***************************************************************************)
(* search.run: the worker beside the page, then the exclusions.  A worker  *)
(* that misses a clause would raise `WouldVerify` and the caller recount:  *)
(* `WorkersNeverVerify` shows that no worker does, so it is no action.     *)
(***************************************************************************)
StartsWorker(r) ==
  /\ stage[r] = "facets" /\ at[Caller(r)] = "built"
  /\ stage' = [stage EXCEPT ![r] = "page"]
  /\ at' = [at EXCEPT ![Caller(r)] = "compile", ![Worker(r)] = "compile"]
  /\ UNCHANGED <<query, scope, seen, todo, on, memo, compiled, busy>>

Joins(r) ==
  /\ stage[r] = "page" /\ at[Caller(r)] = "built"
  /\ at[Worker(r)] \in {"idle", "built"}
  /\ stage' = [stage EXCEPT ![r] = "exclusions"]
  /\ at' = [at EXCEPT ![Caller(r)] = "compile", ![Worker(r)] = "idle"]
  /\ UNCHANGED <<query, scope, seen, todo, on, memo, compiled, busy>>

Answers(r) ==
  /\ stage[r] = "exclusions" /\ at[Caller(r)] = "built"
  /\ Ends(r)
  /\ UNCHANGED <<memo, compiled, busy>>

ClearsCompiled ==
  /\ compiled # {} /\ compiled' = {}
  /\ UNCHANGED <<requests, threads, memo, busy>>

Thread(t) ==
  \/ Compiles(t) \/ LooksUp(t) \/ EntersGate(t) \/ PastDeadline(t) \/ Verifies(t)
  \/ Sums(t) \/ Trims(t) \/ StoresMemo(t) \/ ReadsLedger(t) \/ Charges(t) \/ Builds(t)

VerifyNext ==
  \/ \E r \in Requests : Start(r) \/ StartsWorker(r) \/ Joins(r) \/ Answers(r)
  \/ \E t \in Threads : Thread(t)
  \/ ClearsCompiled

VerifySpec == VerifyInit /\ [][VerifyNext]_verifyVars

-----------------------------------------------------------------------------
(***************************************************************************)
(* The facet worker, which may not verify, never meets a clause its        *)
(* request does not hold, however the engine's two memos are cleared       *)
(* between the caller's compile and its own (`Overlay`, `WouldVerify`).    *)
(***************************************************************************)
WorkersNeverVerify == \A t \in Threads : t = Worker(R(t)) => \A c \in Clauses : ~Misses(t, c)

(***************************************************************************)
(* A request verifies no clause twice, so its slot time is bounded by its  *)
(* own clauses and not by how often other requests clear the memo.         *)
(***************************************************************************)
VerifiedOnce == \A t \in Threads : at[t] = "verify" => on[t] \notin seen[R(t)]

(***************************************************************************)
(* The lock-free ledger keeps the memo's budget: with no clear pending,    *)
(* the memo exceeds it by at most one entry per thread storing at once     *)
(* (`_trim`), however stores, charges and clears cross.                    *)
(***************************************************************************)
Ids(clauses) == UNION {{c} \X (1 .. Weight[c]) : c \in clauses}
Heaviest == Max({Weight[c] : c \in Clauses})
Allowed == Budget + Cardinality(Requests) * Heaviest
MemoBounded == (\A t \in Threads : at[t] # "cleared") => Cardinality(Ids(verified)) <= Allowed
=============================================================================
