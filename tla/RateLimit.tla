----------------------------- MODULE RateLimit -----------------------------
(***************************************************************************)
(* Token buckets taken together (api/middleware.py: TokenBucket, take_each,*)
(* wait_all, charge, refund_charged, RateLimit.__call__ and its two        *)
(* debits).  Every request is charged to one bucket per level: its         *)
(* client's and its network's for the rate limit; the save ceilings        *)
(* (api/records.py::SaveCeiling) are the same with the instance's one      *)
(* bucket and the network's.                                               *)
(*                                                                         *)
(* Tokens are counted in the unit one clock tick refills.  A bucket not    *)
(* held is full; each level holds at most MaxHeld of them, and drops the   *)
(* least recently seen that owes nothing.  A bucket is seen exactly when   *)
(* its `last` is set, so the order of the OrderedDict is the order of      *)
(* `last`, and ties are broken either way.                                 *)
(***************************************************************************)
EXTENDS Integers, FiniteSets

CONSTANTS
    Requests,    \* request slots: each serves any number of requests
    Clients,
    Levels,      \* e.g. "client" and "network"
    First, Second,  \* the two levels, in the order the code goes through them
    Keys,        \* bucket keys of every level
    KeyOf,       \* level -> client -> its key
    Capacity,    \* level -> capacity
    MaxHeld,     \* level -> max_clients
    Weights,     \* what a route costs when it comes in
    Totals,      \* what a route may find a request costs in all
    Debts,       \* what a request may be debited for time used, when it ends
    None,
    MaxClock     \* bound: the clock stops here

ASSUME RateConstants ==
    /\ Levels = {First, Second} /\ First # Second
    /\ KeyOf \in [Levels -> [Clients -> Keys]]
    /\ Capacity \in [Levels -> Nat \ {0}]
    /\ MaxHeld \in [Levels -> Nat \ {0}]
    /\ Weights \subseteq Nat \ {0}
    /\ Totals \subseteq Nat
    /\ Debts \subseteq Nat
    /\ MaxClock \in Nat
    /\ None \notin Keys \cup Clients

VARIABLES
    clock,
    bucket,   \* level -> the buckets it holds: key -> [tokens, last]
    pc,       \* request -> "idle", "running", "refused", "refunding", "debiting"
    level,    \* request -> the level it settles next, while it ends
    client,   \* request -> its client
    paid,     \* request -> what it has paid, and ...
    base,     \* ... what the middleware took of it
    debt,     \* request -> what it will be debited
    total,    \* request -> what the charge it was refused was for
    wait,     \* request -> the Retry-After of its last refused charge
    account   \* history: level -> key -> [born, net]: when the bucket held
              \* now was made, and what was taken from it less what came back

reqVars == <<pc, level, client, paid, base, debt, total, wait>>
vars == <<clock, bucket, reqVars, account>>

Smaller(a, b) == IF a < b THEN a ELSE b
Larger(a, b) == IF a > b THEN a ELSE b

Held(l) == DOMAIN bucket[l]

Key(l, r) == KeyOf[l][client[r]]

\* TokenBucket.wait: the tokens of a key now, the refill counted in.
Tokens(l, k) ==
    IF k \in Held(l)
    THEN Smaller(Capacity[l], bucket[l][k].tokens + (clock - bucket[l][k].last))
    ELSE Capacity[l]

Init ==
    /\ clock = 0
    /\ bucket = [l \in Levels |-> [k \in {} |-> None]]
    /\ pc = [r \in Requests |-> "idle"]
    /\ level = [r \in Requests |-> First]
    /\ client = [r \in Requests |-> None]
    /\ paid = [r \in Requests |-> 0]
    /\ base = [r \in Requests |-> 0]
    /\ debt = [r \in Requests |-> 0]
    /\ total = [r \in Requests |-> 0]
    /\ wait = [r \in Requests |-> 0]
    /\ account = [l \in Levels |-> [k \in Keys |-> [born |-> 0, net |-> 0]]]

----------------------------------------------------------------------------
(* One level, after key k is seen with `tokens` left.                      *)

\* Mutant of Seen: the refill is counted in, but the time is not moved on.
SeenStale(l, k, tokens) ==
    [j \in Held(l) \cup {k} |->
        IF j = k THEN [tokens |-> tokens, last |-> IF k \in Held(l) THEN bucket[l][k].last ELSE clock]
        ELSE bucket[l][j]]

Seen(l, k, tokens) ==
    [j \in Held(l) \cup {k} |->
        IF j = k THEN [tokens |-> tokens, last |-> clock] ELSE bucket[l][j]]

\* _evict: a bucket in debt is skipped while another is not, and the one
\* just seen is never dropped.
Owes(b, k) == b[k].tokens + (clock - b[k].last) < 0

Oldest(b, keys) == {k \in keys : \A j \in keys : b[k].last <= b[j].last}

\* Mutant of Victims: the least recently seen, whatever it owes.
VictimsOldest(b, keep) == Oldest(b, DOMAIN b \ {keep})

Victims(b, keep) ==
    LET others == DOMAIN b \ {keep}
        solvent == {k \in others : ~Owes(b, k)}
    IN Oldest(b, IF solvent # {} THEN solvent ELSE others)

Evicted(l, b, keep) ==
    IF Cardinality(DOMAIN b) <= MaxHeld[l] THEN {b}
    ELSE {[k \in DOMAIN b \ {v} |-> b[k]] : v \in Victims(b, keep)}

\* What `taken` tokens off the bucket of k does to its account.
Booked(l, k, taken) ==
    [account[l] EXCEPT ![k] =
        IF k \in Held(l) THEN [born |-> @.born, net |-> @.net + taken]
        ELSE [born |-> clock, net |-> taken]]

(* Every level's bucket of c is seen, and `cost` spent from each.  With     *)
(* cost 0 this is what a refused take, or a wait, does.                     *)
Spend(c, cost) ==
    /\ \E f \in Evicted(First, Seen(First, KeyOf[First][c],
                                    Tokens(First, KeyOf[First][c]) - cost), KeyOf[First][c]),
          s \in Evicted(Second, Seen(Second, KeyOf[Second][c],
                                     Tokens(Second, KeyOf[Second][c]) - cost), KeyOf[Second][c]) :
          bucket' = [l \in Levels |-> IF l = First THEN f ELSE s]
    /\ account' = [l \in Levels |-> Booked(l, KeyOf[l][c], cost)]

Affords(c, cost) == \A l \in Levels : Tokens(l, KeyOf[l][c]) >= cost

\* wait_all: how long until every level holds `cost`.
WaitFor(c, cost) ==
    Larger(0, Larger(cost - Tokens(First, KeyOf[First][c]),
                     cost - Tokens(Second, KeyOf[Second][c])))

----------------------------------------------------------------------------
(* A request.                                                              *)

\* RateLimit.__call__, up to the app: the route's weight from every level,
\* or 429 with nothing spent from any.
Admit(r, c, weight) ==
    /\ pc[r] = "idle"
    /\ Affords(c, weight)
    /\ Spend(c, weight)
    /\ pc' = [pc EXCEPT ![r] = "running"]
    /\ client' = [client EXCEPT ![r] = c]
    /\ paid' = [paid EXCEPT ![r] = weight]
    /\ base' = [base EXCEPT ![r] = weight]
    /\ wait' = [wait EXCEPT ![r] = 0]
    /\ UNCHANGED <<clock, level, debt, total>>

Refuse(r, c, weight) ==
    /\ pc[r] = "idle"
    /\ ~Affords(c, weight)
    /\ Spend(c, 0)
    /\ UNCHANGED <<clock, reqVars>>

\* charge: up to `asked`, what was paid counting toward it, ...
Charge(r, asked) ==
    /\ pc[r] = "running"
    /\ asked > paid[r]
    /\ Affords(client[r], asked - paid[r])
    /\ Spend(client[r], asked - paid[r])
    /\ paid' = [paid EXCEPT ![r] = asked]
    /\ UNCHANGED <<clock, pc, level, client, base, debt, total, wait>>

\* ... or refused, with nothing spent.  What was paid stays paid.
RefuseCharge(r, asked) ==
    /\ pc[r] = "running"
    /\ asked > paid[r]
    /\ ~Affords(client[r], asked - paid[r])
    /\ Spend(client[r], 0)
    /\ pc' = [pc EXCEPT ![r] = "refused"]
    /\ total' = [total EXCEPT ![r] = asked]
    /\ UNCHANGED <<clock, level, client, paid, base, debt, wait>>

\* Mutant of TellWait: a Retry-After for what is still to pay.
TellWaitShort(r, used) ==
    /\ pc[r] = "refused"
    /\ Spend(client[r], 0)
    /\ wait' = [wait EXCEPT ![r] = WaitFor(client[r], total[r] - paid[r])]
    /\ pc' = [pc EXCEPT ![r] = "debiting"]
    /\ level' = [level EXCEPT ![r] = First]
    /\ debt' = [debt EXCEPT ![r] = used]
    /\ UNCHANGED <<clock, client, paid, base, total>>

\* The buckets are looked at once more, others having had their turn: the 429's
\* Retry-After is for the whole total, as the retry pays the route's weight again
\* first.  The time an earlier query of the request used is debited as ever.
TellWait(r, used) ==
    /\ pc[r] = "refused"
    /\ Spend(client[r], 0)
    /\ wait' = [wait EXCEPT ![r] = WaitFor(client[r], total[r])]
    /\ pc' = [pc EXCEPT ![r] = "debiting"]
    /\ level' = [level EXCEPT ![r] = First]
    /\ debt' = [debt EXCEPT ![r] = used]
    /\ UNCHANGED <<clock, client, paid, base, total>>

\* The app is done: a refusal that did no work (REFUNDED) has its charge
\* given back, and then, as any request, it is debited for the time it used.
End(r, refunded, used) ==
    /\ pc[r] = "running"
    /\ pc' = [pc EXCEPT ![r] = IF refunded /\ paid[r] > base[r] THEN "refunding" ELSE "debiting"]
    /\ level' = [level EXCEPT ![r] = First]
    /\ debt' = [debt EXCEPT ![r] = used]
    /\ UNCHANGED <<clock, bucket, client, paid, base, total, wait, account>>

\* TokenBucket.refund: never above capacity, and only to a bucket still held.
\* Each level has a lock of its own, so other requests come between.
Refund(r) ==
    LET l == level[r]
        k == Key(l, r)
        back == Smaller(Capacity[l], bucket[l][k].tokens + (paid[r] - base[r]))
    IN /\ pc[r] = "refunding"
       /\ \/ /\ k \in Held(l)
             /\ bucket' = [bucket EXCEPT ![l][k].tokens = back]
             /\ account' = [account EXCEPT ![l][k].net = @ - (back - bucket[l][k].tokens)]
          \/ /\ k \notin Held(l)
             /\ UNCHANGED <<bucket, account>>
       /\ \/ /\ l = First
             /\ level' = [level EXCEPT ![r] = Second]
             /\ UNCHANGED <<pc, paid>>
          \/ /\ l = Second
             /\ level' = [level EXCEPT ![r] = First]
             /\ pc' = [pc EXCEPT ![r] = "debiting"]
             /\ paid' = [paid EXCEPT ![r] = base[r]]
       /\ UNCHANGED <<clock, client, base, debt, total, wait>>

\* TokenBucket.debit: the bucket may go below zero.
Debit(r) ==
    LET l == level[r]
        k == Key(l, r)
    IN /\ pc[r] = "debiting"
       /\ \/ /\ debt[r] = 0
             /\ UNCHANGED <<bucket, account>>
          \/ /\ debt[r] > 0
             /\ \E b \in Evicted(l, Seen(l, k, Tokens(l, k) - debt[r]), k) :
                   bucket' = [bucket EXCEPT ![l] = b]
             /\ account' = [account EXCEPT ![l] = Booked(l, k, debt[r])]
       /\ \/ /\ l = First
             /\ level' = [level EXCEPT ![r] = Second]
             /\ UNCHANGED <<pc, client, paid, base, debt, total, wait>>
          \/ /\ l = Second
             /\ level' = [level EXCEPT ![r] = First]
             /\ pc' = [pc EXCEPT ![r] = "idle"]
             /\ client' = [client EXCEPT ![r] = None]
             /\ paid' = [paid EXCEPT ![r] = 0]
             /\ base' = [base EXCEPT ![r] = 0]
             /\ debt' = [debt EXCEPT ![r] = 0]
             /\ total' = [total EXCEPT ![r] = 0]
             /\ wait' = [wait EXCEPT ![r] = 0]
       /\ UNCHANGED clock

Tick ==
    /\ clock < MaxClock
    /\ clock' = clock + 1
    /\ UNCHANGED <<bucket, reqVars, account>>

Next ==
    \/ \E r \in Requests :
          \/ \E c \in Clients, w \in Weights : Admit(r, c, w) \/ Refuse(r, c, w)
          \/ \E t \in Totals : Charge(r, t) \/ RefuseCharge(r, t)
          \/ \E used \in Debts : TellWait(r, used)
          \/ \E refunded \in BOOLEAN, used \in Debts : End(r, refunded, used)
          \/ Refund(r)
          \/ Debit(r)
    \/ Tick

Spec == Init /\ [][Next]_vars

----------------------------------------------------------------------------
(* Properties.                                                             *)

(* Every variable holds what the code can put in it; in particular no       *)
(* bucket ever holds more than its capacity, whatever is given back late.   *)
TypeOK ==
    /\ clock \in 0..MaxClock
    /\ \A l \in Levels :
          /\ Held(l) \subseteq Keys
          /\ \A k \in Held(l) : /\ bucket[l][k] \in [tokens : Int, last : 0..clock]
                                /\ bucket[l][k].tokens <= Capacity[l]
    /\ pc \in [Requests -> {"idle", "running", "refused", "refunding", "debiting"}]
    /\ level \in [Requests -> Levels]
    /\ client \in [Requests -> Clients \cup {None}]
    /\ paid \in [Requests -> Nat] /\ base \in [Requests -> Nat]
    /\ debt \in [Requests -> Nat] /\ total \in [Requests -> Nat] /\ wait \in [Requests -> Nat]

(* No key ever gets more than its bucket holds and the clock refills: what  *)
(* was taken since the bucket was made, less what came back, with what it   *)
(* still holds, is at most the capacity and one token a tick.  A refund     *)
(* that raced a debit, an eviction or a refill mints nothing.               *)
NoTokenMinted ==
    \A l \in Levels : \A k \in Held(l) :
        account[l][k].net + bucket[l][k].tokens
            <= Capacity[l] + (bucket[l][k].last - account[l][k].born)

(* No level ever holds more than max_clients buckets, however many clients  *)
(* come and however many of them owe.                                       *)
BucketsBounded == \A l \in Levels : Cardinality(Held(l)) <= MaxHeld[l]

(* Forgetting a debt would forgive it: a bucket that still owes is      *)
(* dropped only when every other one, but the one just seen, owes too.      *)
DebtsRemembered ==
    [][\A l \in Levels :
          \A k \in Held(l) \ DOMAIN bucket'[l] :
              Owes(bucket[l], k) =>
                  \A j \in DOMAIN bucket'[l] :
                      j \notin Held(l) \/ Owes(bucket[l], j) \/ bucket'[l][j].last = clock]_vars

(* The buckets held are bounded, and the ones dropped for it owe nothing.   *)
EvictionHolds == []BucketsBounded /\ DebtsRemembered

(* A refusal by one bucket never drains another: a request refused as it  *)
(* comes in, or charged more than it can pay, costs nobody a token.         *)
RefusalsAreFree ==
    [][(\A r \in Requests : paid'[r] <= paid[r] /\ pc[r] \notin {"refunding", "debiting"})
       /\ clock' = clock
       => \A l \in Levels : \A k \in Held(l) \cap DOMAIN bucket'[l] : Tokens(l, k)' >= Tokens(l, k)]_vars

(* A client that honours Retry-After is admitted then: once it has        *)
(* waited, each of its buckets holds the route's weight and the charge      *)
(* together, unless someone else spent from them meanwhile.                 *)
RetryAfterSuffices ==
    [][\A r \in Requests :
          pc[r] = "refused" /\ pc'[r] = "debiting" =>
              \A l \in Levels :
                  Smaller(Capacity[l], Tokens(l, Key(l, r))' + wait'[r])
                      >= Smaller(Capacity[l], base[r] + (total[r] - paid[r]))]_vars

(* A refusal takes nothing, and says how long to wait for what it refused.  *)
RefusalsHold == RefusalsAreFree /\ RetryAfterSuffices
=============================================================================
