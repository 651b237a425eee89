-------------------------- MODULE RateLimit_proofs --------------------------
(***************************************************************************)
(* Proofs about RateLimit: no interleaving of charges, refunds, debits and *)
(* evictions mints a token, for any requests, clients, capacities and      *)
(* bounds on the buckets held.                                             *)
(*                                                                         *)
(* A bucket's account balances at every step that sees it (what it refilled*)
(* is counted once, up to the time it was seen), at a refund (which takes  *)
(* from the account what it adds to the bucket) and at an eviction (after  *)
(* which the key starts a new account).                                    *)
(*                                                                         *)
(* Then: what is evicted, as a step sees one key of a level at most; and   *)
(* that a refusal takes nothing and tells a wait that is long enough.      *)
(***************************************************************************)
EXTENDS RateLimit, FiniteSetTheorems, TLAPS

Accounts == [Keys -> [born : Nat, net : Int]]

(* The buckets b of level l and their accounts a, at time now, balance.     *)
Balanced(l, b, a, now) ==
    /\ a \in Accounts
    /\ DOMAIN b \subseteq Keys
    /\ \A k \in DOMAIN b :
          /\ b[k] \in [tokens : Int, last : 0..now]
          /\ b[k].tokens <= Capacity[l]
          /\ a[k].born <= b[k].last
          /\ a[k].net + b[k].tokens <= Capacity[l] + (b[k].last - a[k].born)

BucketsInv ==
    /\ clock \in 0..MaxClock
    /\ bucket = [l \in Levels |-> bucket[l]]
    /\ account = [l \in Levels |-> account[l]]
    /\ \A l \in Levels : Balanced(l, bucket[l], account[l], clock)

(* A request has paid at least the route's weight, as long as it runs, and  *)
(* nothing while it does not.                                              *)
RequestsInv ==
    /\ pc \in [Requests -> {"idle", "running", "refused", "refunding", "debiting"}]
    /\ level \in [Requests -> Levels]
    /\ client \in [Requests -> Clients \cup {None}]
    /\ paid \in [Requests -> Nat] /\ base \in [Requests -> Nat]
    /\ debt \in [Requests -> Nat] /\ total \in [Requests -> Nat] /\ wait \in [Requests -> Nat]
    /\ \A r \in Requests : base[r] <= paid[r]
    /\ \A r \in Requests : IF pc[r] = "idle" THEN paid[r] = 0 ELSE client[r] \in Clients

IInv == BucketsInv /\ RequestsInv

----------------------------------------------------------------------------

(* No bucket is held at the start.                                          *)
LEMMA Initially == Init => IInv
BY RateConstants
DEF Init, IInv, BucketsInv, RequestsInv, Balanced, Accounts

(* What the constants are, said for each level.                             *)
LEMMA Types ==
         /\ First \in Levels /\ Second \in Levels /\ \A l \in Levels : l = First \/ l = Second
         /\ \A l \in Levels : Capacity[l] \in Nat \ {0}
         /\ \A l \in Levels, c \in Clients : KeyOf[l][c] \in Keys
BY RateConstants

(* The tokens of a bucket are a whole number, at most the capacity, and at  *)
(* most what was there and one a tick since.                                *)
LEMMA TokensFacts ==
  ASSUME BucketsInv, NEW l \in Levels, NEW k \in Keys
  PROVE  /\ Tokens(l, k) \in Int /\ Tokens(l, k) <= Capacity[l]
         /\ k \in Held(l) =>
               Tokens(l, k) <= bucket[l][k].tokens + (clock - bucket[l][k].last)
BY RateConstants DEF BucketsInv, Balanced, Tokens, Held, Smaller

(* A bucket seen, with what it cost, balances; so does every other.         *)
LEMMA SeenBalances ==
  ASSUME BucketsInv, NEW l \in Levels, NEW k \in Keys, NEW cost \in Nat
  PROVE  Balanced(l, Seen(l, k, Tokens(l, k) - cost), Booked(l, k, cost), clock)
<1> DEFINE b == Seen(l, k, Tokens(l, k) - cost)
           a == Booked(l, k, cost)
<1>1. /\ Tokens(l, k) \in Int /\ Tokens(l, k) <= Capacity[l]
      /\ k \in Held(l) =>
            Tokens(l, k) <= bucket[l][k].tokens + (clock - bucket[l][k].last)
  BY TokensFacts
<1>2. clock \in Nat /\ Capacity[l] \in Nat
  BY RateConstants DEF BucketsInv
<1>3. /\ account[l] \in Accounts /\ Held(l) \subseteq Keys
      /\ \A j \in Held(l) :
            /\ bucket[l][j] \in [tokens : Int, last : 0..clock]
            /\ bucket[l][j].tokens <= Capacity[l]
            /\ account[l][j].born <= bucket[l][j].last
            /\ account[l][j].net + bucket[l][j].tokens
                  <= Capacity[l] + (bucket[l][j].last - account[l][j].born)
  BY DEF BucketsInv, Balanced, Held
<1>4. a \in Accounts
  BY <1>2, <1>3 DEF Booked, Accounts
<1>5. /\ DOMAIN b = Held(l) \cup {k}
      /\ b[k] = [tokens |-> Tokens(l, k) - cost, last |-> clock]
      /\ \A j \in Held(l) \ {k} : b[j] = bucket[l][j]
  BY DEF Seen
<1>6. \A j \in Keys \ {k} : a[j] = account[l][j]
  BY <1>3 DEF Booked, Accounts
<1>7. a[k] = IF k \in Held(l)
          THEN [born |-> account[l][k].born, net |-> account[l][k].net + cost]
          ELSE [born |-> clock, net |-> cost]
  BY <1>3 DEF Booked, Accounts
<1>8. account[l][k] \in [born : Nat, net : Int]
  BY <1>3 DEF Accounts
<1> HIDE DEF a, b
<1>9. /\ b[k] \in [tokens : Int, last : 0..clock]
      /\ b[k].tokens <= Capacity[l]
      /\ a[k].born <= b[k].last
      /\ a[k].net + b[k].tokens <= Capacity[l] + (b[k].last - a[k].born)
  <2>1. /\ b[k].tokens = Tokens(l, k) - cost /\ b[k].last = clock
        /\ b[k] \in [tokens : Int, last : 0..clock]
    BY <1>1, <1>2, <1>5
  <2>2. CASE k \in Held(l)
    <3>1. a[k].born = account[l][k].born /\ a[k].net = account[l][k].net + cost
      BY <2>2, <1>7, <1>8
    <3>2. /\ account[l][k].born \in Nat /\ account[l][k].net \in Int
          /\ bucket[l][k].tokens \in Int /\ bucket[l][k].last \in 0..clock
          /\ account[l][k].born <= bucket[l][k].last
          /\ account[l][k].net + bucket[l][k].tokens
                <= Capacity[l] + (bucket[l][k].last - account[l][k].born)
      BY <2>2, <1>3, <1>8
    <3> QED
      BY <2>1, <2>2, <3>1, <3>2, <1>1, <1>2
  <2>3. CASE k \notin Held(l)
    <3>1. a[k].born = clock /\ a[k].net = cost
      BY <2>3, <1>7
    <3> QED
      BY <2>1, <3>1, <1>1, <1>2
  <2> QED
    BY <2>2, <2>3
<1>10. \A j \in Held(l) \ {k} :
          /\ b[j] \in [tokens : Int, last : 0..clock]
          /\ b[j].tokens <= Capacity[l]
          /\ a[j].born <= b[j].last
          /\ a[j].net + b[j].tokens <= Capacity[l] + (b[j].last - a[j].born)
  BY <1>3, <1>5, <1>6
<1> QED
  BY <1>3, <1>4, <1>5, <1>9, <1>10 DEF Balanced, a, b

(* An eviction leaves the others' accounts balanced.                        *)
LEMMA EvictedBalances ==
  ASSUME NEW l \in Levels, NEW b, NEW a, NEW now, NEW keep, Balanced(l, b, a, now),
         NEW e \in Evicted(l, b, keep)
  PROVE  Balanced(l, e, a, now)
<1>1. e = b \/ \E v \in Victims(b, keep) : e = [k \in DOMAIN b \ {v} |-> b[k]]
  BY DEF Evicted
<1> QED
  BY <1>1 DEF Balanced

(* Both levels balance after a take, admitted or refused.                   *)
LEMMA SpendBalances ==
  ASSUME BucketsInv, NEW c \in Clients, NEW cost \in Nat, Spend(c, cost), UNCHANGED clock
  PROVE  BucketsInv'
<1>1. \A l \in Levels :
         \E b \in Evicted(l, Seen(l, KeyOf[l][c], Tokens(l, KeyOf[l][c]) - cost), KeyOf[l][c]) :
            bucket'[l] = b /\ account'[l] = Booked(l, KeyOf[l][c], cost)
  BY RateConstants, Types DEF Spend
<1>2. ASSUME NEW l \in Levels
      PROVE  Balanced(l, bucket'[l], account'[l], clock)
  <2> DEFINE k == KeyOf[l][c]
  <2>1. k \in Keys
    BY RateConstants, Types
  <2>2. Balanced(l, Seen(l, k, Tokens(l, k) - cost), Booked(l, k, cost), clock)
    BY <2>1, SeenBalances
  <2> QED
    BY <1>1, <2>2, EvictedBalances
<1>3. bucket' = [l \in Levels |-> bucket'[l]] /\ account' = [l \in Levels |-> account'[l]]
  BY DEF Spend
<1> QED
  BY <1>2, <1>3 DEF BucketsInv

(* A refund takes from the account what it adds to the bucket, if it is     *)
(* still there; the bucket is not seen, so its time stays.                  *)
LEMMA RefundBalances ==
  ASSUME BucketsInv, RequestsInv, NEW r \in Requests, Refund(r)
  PROVE  BucketsInv'
<1> DEFINE l == level[r]
           k == Key(l, r)
           back == Smaller(Capacity[l], bucket[l][k].tokens + (paid[r] - base[r]))
<1>1. l \in Levels /\ k \in Keys /\ paid[r] - base[r] \in Nat /\ clock' = clock
  BY Types DEF RequestsInv, Refund, Key
<1>2. CASE k \notin Held(l)
  BY <1>1, <1>2 DEF Refund, BucketsInv
<1>3. CASE k \in Held(l)
  <2>1. /\ bucket' = [bucket EXCEPT ![l][k].tokens = back]
        /\ account' = [account EXCEPT ![l][k].net = @ - (back - bucket[l][k].tokens)]
    BY <1>3 DEF Refund
  <2>2. /\ account[l] \in Accounts /\ Held(l) \subseteq Keys
        /\ bucket[l][k] \in [tokens : Int, last : 0..clock]
        /\ bucket[l][k].tokens <= Capacity[l]
        /\ account[l][k].born <= bucket[l][k].last
        /\ account[l][k].net + bucket[l][k].tokens
              <= Capacity[l] + (bucket[l][k].last - account[l][k].born)
    BY <1>1, <1>3 DEF BucketsInv, Balanced, Held
  <2>3. account[l][k] \in [born : Nat, net : Int]
    BY <1>1, <2>2 DEF Accounts
  <2>4. back \in Int /\ back <= Capacity[l]
    BY <1>1, <2>2, Types DEF Smaller
  <2>5. /\ \A m \in Levels \ {l} : bucket'[m] = bucket[m] /\ account'[m] = account[m]
        /\ bucket'[l] = [bucket[l] EXCEPT ![k].tokens = back]
        /\ account'[l] = [account[l] EXCEPT
                            ![k].net = account[l][k].net - (back - bucket[l][k].tokens)]
        /\ bucket' = [m \in Levels |-> bucket'[m]]
        /\ account' = [m \in Levels |-> account'[m]]
    BY <1>1, <2>1 DEF BucketsInv
  <2> HIDE DEF back
  <2>6. /\ DOMAIN bucket'[l] = Held(l)
        /\ \A j \in Held(l) \ {k} : bucket'[l][j] = bucket[l][j]
        /\ bucket'[l][k] = [tokens |-> back, last |-> bucket[l][k].last]
    BY <1>3, <2>2, <2>5 DEF Held
  <2>7. /\ account'[l] \in Accounts
        /\ \A j \in Keys \ {k} : account'[l][j] = account[l][j]
        /\ account'[l][k].born = account[l][k].born
        /\ account'[l][k].net = account[l][k].net - (back - bucket[l][k].tokens)
    <3>1. account[l][k].net - (back - bucket[l][k].tokens) \in Int
      BY <2>2, <2>3, <2>4
    <3> QED
      BY <1>1, <2>2, <2>3, <2>5, <3>1 DEF Accounts
  <2>8. Balanced(l, bucket'[l], account'[l], clock)
    <3>1. /\ bucket'[l][k] \in [tokens : Int, last : 0..clock]
          /\ bucket'[l][k].tokens <= Capacity[l]
          /\ account'[l][k].born <= bucket'[l][k].last
          /\ account'[l][k].net + bucket'[l][k].tokens
                <= Capacity[l] + (bucket'[l][k].last - account'[l][k].born)
      BY <2>2, <2>3, <2>4, <2>6, <2>7, <1>1, Types
    <3>2. \A j \in Held(l) \ {k} :
             /\ bucket[l][j] \in [tokens : Int, last : 0..clock]
             /\ bucket[l][j].tokens <= Capacity[l]
             /\ account[l][j].born <= bucket[l][j].last
             /\ account[l][j].net + bucket[l][j].tokens
                   <= Capacity[l] + (bucket[l][j].last - account[l][j].born)
      BY <1>1 DEF BucketsInv, Balanced, Held
    <3> QED
      BY <2>2, <2>6, <2>7, <3>1, <3>2 DEF Balanced
  <2> QED
    BY <1>1, <2>5, <2>8 DEF BucketsInv
<1> QED
  BY <1>2, <1>3

(* A debit sees the bucket of one level, and leaves the other.              *)
LEMMA DebitBalances ==
  ASSUME BucketsInv, RequestsInv, NEW r \in Requests, Debit(r)
  PROVE  BucketsInv'
<1> DEFINE l == level[r]
           k == Key(l, r)
<1>1. l \in Levels /\ k \in Keys /\ debt[r] \in Nat /\ clock' = clock
  BY Types DEF RequestsInv, Debit, Key
<1>2. CASE debt[r] = 0
  BY <1>2, <1>1 DEF Debit, BucketsInv
<1>3. CASE debt[r] > 0
  <2>1. /\ \E b \in Evicted(l, Seen(l, k, Tokens(l, k) - debt[r]), k) :
              bucket' = [bucket EXCEPT ![l] = b]
        /\ account' = [account EXCEPT ![l] = Booked(l, k, debt[r])]
    BY <1>1, <1>3 DEF Debit
  <2>2. Balanced(l, Seen(l, k, Tokens(l, k) - debt[r]), Booked(l, k, debt[r]), clock)
    BY <1>1, SeenBalances
  <2>3. /\ \A m \in Levels \ {l} : bucket'[m] = bucket[m] /\ account'[m] = account[m]
        /\ bucket' = [m \in Levels |-> bucket'[m]]
        /\ account' = [m \in Levels |-> account'[m]]
        /\ \E b \in Evicted(l, Seen(l, k, Tokens(l, k) - debt[r]), k) : bucket'[l] = b
        /\ account'[l] = Booked(l, k, debt[r])
    BY <1>1, <2>1 DEF BucketsInv
  <2>4. Balanced(l, bucket'[l], account'[l], clock)
    BY <1>1, <2>2, <2>3, EvictedBalances
  <2> QED
    BY <1>1, <2>3, <2>4 DEF BucketsInv
<1> QED
  BY <1>1, <1>2, <1>3

(* As time goes on, a bucket's account stays as it was last seen.           *)
LEMMA TickBalances ==
  ASSUME BucketsInv, Tick
  PROVE  BucketsInv'
<1>1. clock \in Nat /\ clock' = clock + 1 /\ clock' \in 0..MaxClock
      /\ bucket' = bucket /\ account' = account
  BY RateConstants DEF Tick, BucketsInv
<1>2. 0..clock \subseteq 0..clock'
  BY <1>1
<1> QED
  BY <1>1, <1>2 DEF BucketsInv, Balanced

(* What each step does to the requests.                                     *)
LEMMA RequestsStep ==
  ASSUME BucketsInv, RequestsInv, [Next]_vars
  PROVE  RequestsInv'
<1> USE DEF RequestsInv
<1>0. \A c \in Clients, cost \in Nat : WaitFor(c, cost) \in Nat
  BY Types, TokensFacts DEF WaitFor, Larger
<1>1. ASSUME NEW r \in Requests, NEW c \in Clients, NEW w \in Weights, Admit(r, c, w)
      PROVE  RequestsInv'
  BY <1>1, RateConstants DEF Admit
<1>2. ASSUME NEW r \in Requests, NEW c \in Clients, NEW w \in Weights, Refuse(r, c, w)
      PROVE  RequestsInv'
  BY <1>2 DEF Refuse, reqVars
<1>3. ASSUME NEW r \in Requests, NEW t \in Totals, Charge(r, t) \/ RefuseCharge(r, t)
      PROVE  RequestsInv'
  BY <1>3, RateConstants DEF Charge, RefuseCharge
<1>4. ASSUME NEW r \in Requests, NEW used \in Debts, TellWait(r, used)
      PROVE  RequestsInv'
  <2>1. WaitFor(client[r], total[r]) \in Nat
    BY <1>0, <1>4 DEF TellWait
  <2> QED
    BY <2>1, <1>4, Types, RateConstants DEF TellWait
<1>5. ASSUME NEW r \in Requests, NEW refunded \in BOOLEAN, NEW used \in Debts,
             End(r, refunded, used)
      PROVE  RequestsInv'
  BY <1>5, RateConstants DEF End
<1>6. ASSUME NEW r \in Requests, Refund(r)
      PROVE  RequestsInv'
  BY <1>6, RateConstants DEF Refund
<1>7. ASSUME NEW r \in Requests, Debit(r)
      PROVE  RequestsInv'
  BY <1>7, RateConstants DEF Debit
<1>8. CASE Tick
  BY <1>8 DEF Tick, reqVars
<1>9. CASE UNCHANGED vars
  BY <1>9 DEF vars, reqVars
<1> QED
  BY <1>1, <1>2, <1>3, <1>4, <1>5, <1>6, <1>7, <1>8, <1>9 DEF Next

(* What each step does to the buckets.                                      *)
LEMMA BucketsStep ==
  ASSUME BucketsInv, RequestsInv, [Next]_vars
  PROVE  BucketsInv'
<1>1. ASSUME NEW r \in Requests, NEW c \in Clients, NEW w \in Weights,
             Admit(r, c, w) \/ Refuse(r, c, w)
      PROVE  BucketsInv'
  <2>1. w \in Nat /\ clock' = clock /\ (Spend(c, w) \/ Spend(c, 0))
    BY <1>1, RateConstants DEF Admit, Refuse
  <2> QED
    BY <2>1, SpendBalances
<1>2. ASSUME NEW r \in Requests, NEW t \in Totals, Charge(r, t) \/ RefuseCharge(r, t)
      PROVE  BucketsInv'
  <2>1. /\ client[r] \in Clients /\ clock' = clock
        /\ Spend(client[r], t - paid[r]) \/ Spend(client[r], 0)
        /\ t - paid[r] \in Nat
    BY <1>2, RateConstants DEF Charge, RefuseCharge, RequestsInv
  <2> QED
    BY <2>1, SpendBalances
<1>8. ASSUME NEW r \in Requests, NEW used \in Debts, TellWait(r, used)
      PROVE  BucketsInv'
  <2>1. client[r] \in Clients /\ clock' = clock /\ Spend(client[r], 0)
    BY <1>8 DEF TellWait, RequestsInv
  <2> QED
    BY <2>1, SpendBalances
<1>3. ASSUME NEW r \in Requests, NEW refunded \in BOOLEAN, NEW used \in Debts,
             End(r, refunded, used)
      PROVE  BucketsInv'
  BY <1>3 DEF End, BucketsInv
<1>4. ASSUME NEW r \in Requests, Refund(r)
      PROVE  BucketsInv'
  BY <1>4, RefundBalances
<1>5. ASSUME NEW r \in Requests, Debit(r)
      PROVE  BucketsInv'
  BY <1>5, DebitBalances
<1>6. CASE Tick
  BY <1>6, TickBalances
<1>7. CASE UNCHANGED vars
  BY <1>7 DEF vars, BucketsInv
<1> QED
  BY <1>1, <1>2, <1>3, <1>4, <1>5, <1>6, <1>7, <1>8 DEF Next

----------------------------------------------------------------------------

(* Every held bucket balances with its account, and every request has paid  *)
(* at least what the middleware took, in every state.                       *)
THEOREM Invariant == Spec => []IInv
<1>1. Init => IInv
  BY Initially
<1>2. IInv /\ [Next]_vars => IInv'
  BY BucketsStep, RequestsStep DEF IInv
<1> QED
  BY <1>1, <1>2, PTL DEF Spec

(* No bucket ever holds more than its capacity, nor the code anything but   *)
(* what it may, for any clients, weights, totals and debts.                 *)
THEOREM TypeCorrect == Spec => []TypeOK
<1>1. IInv => TypeOK
  BY DEF IInv, BucketsInv, RequestsInv, Balanced, TypeOK, Held
<1> QED
  BY <1>1, Invariant, PTL

(* No key ever gets more than its capacity and a token a tick, however      *)
(* charges, refunds, debits and evictions interleave.                       *)
THEOREM NoMint == Spec => []NoTokenMinted
<1>1. IInv => NoTokenMinted
  BY DEF IInv, BucketsInv, Balanced, NoTokenMinted, Held
<1> QED
  BY <1>1, Invariant, PTL

----------------------------------------------------------------------------
(* Evictions.                                                              *)

(* What a step may do to a level: no key comes or goes, or one is seen and  *)
(* another perhaps evicted for it.                                         *)
SeesOne(l) ==
    /\ clock' = clock
    /\ \E k \in Keys, tokens \in Int : bucket'[l] \in Evicted(l, Seen(l, k, tokens), k)

(* A take sees a key of each level.                                         *)
LEMMA SpendSees ==
  ASSUME BucketsInv, NEW c \in Clients, NEW cost \in Nat, Spend(c, cost), clock' = clock, NEW l \in Levels
  PROVE  SeesOne(l)
<1>1. /\ KeyOf[l][c] \in Keys /\ Tokens(l, KeyOf[l][c]) - cost \in Int
      /\ bucket'[l] \in Evicted(l, Seen(l, KeyOf[l][c], Tokens(l, KeyOf[l][c]) - cost), KeyOf[l][c])
  BY Types, TokensFacts DEF Spend
<1> QED
  BY <1>1 DEF SeesOne

(* Only takes and debits let a key come or go, and each sees one.           *)
LEMMA KeysStep ==
  ASSUME IInv, [Next]_vars, NEW l \in Levels
  PROVE  DOMAIN bucket'[l] = Held(l) \/ SeesOne(l)
<1> USE DEF IInv
<1>1. ASSUME NEW r \in Requests, NEW c \in Clients, NEW w \in Weights,
             Admit(r, c, w) \/ Refuse(r, c, w)
      PROVE  SeesOne(l)
  <2>1. w \in Nat /\ clock' = clock /\ (Spend(c, w) \/ Spend(c, 0))
    BY <1>1, RateConstants DEF Admit, Refuse
  <2> QED
    BY <2>1, SpendSees
<1>2. ASSUME NEW r \in Requests, NEW t \in Totals, Charge(r, t) \/ RefuseCharge(r, t)
      PROVE  SeesOne(l)
  <2>1. /\ client[r] \in Clients /\ clock' = clock
        /\ Spend(client[r], t - paid[r]) \/ Spend(client[r], 0)
        /\ t - paid[r] \in Nat
    BY <1>2, RateConstants DEF Charge, RefuseCharge, RequestsInv
  <2> QED
    BY <2>1, SpendSees
<1>3. ASSUME NEW r \in Requests, NEW used \in Debts, TellWait(r, used)
      PROVE  SeesOne(l)
  <2>1. client[r] \in Clients /\ clock' = clock /\ Spend(client[r], 0)
    BY <1>3 DEF TellWait, RequestsInv
  <2> QED
    BY <2>1, SpendSees
<1>4. ASSUME NEW r \in Requests, Refund(r)
      PROVE  DOMAIN bucket'[l] = Held(l)
  <2> DEFINE m == level[r]
             k == Key(m, r)
             back == Smaller(Capacity[m], bucket[m][k].tokens + (paid[r] - base[r]))
  <2>1. bucket' = bucket \/ bucket' = [bucket EXCEPT ![m][k].tokens = back]
    BY <1>4 DEF Refund
  <2>2. bucket = [n \in Levels |-> bucket[n]]
    BY DEF BucketsInv
  <2> HIDE DEF m, k, back
  <2> QED
    BY <2>1, <2>2 DEF Held
<1>5. ASSUME NEW r \in Requests, Debit(r)
      PROVE  DOMAIN bucket'[l] = Held(l) \/ SeesOne(l)
  <2> DEFINE m == level[r]
             k == Key(m, r)
  <2>1. m \in Levels /\ k \in Keys /\ debt[r] \in Nat /\ clock' = clock
    BY <1>5, Types DEF RequestsInv, Debit, Key
  <2>2. Tokens(m, k) - debt[r] \in Int
    BY <2>1, TokensFacts
  <2>3. bucket = [n \in Levels |-> bucket[n]]
    BY DEF BucketsInv
  <2>4. \/ bucket' = bucket
        \/ \E b \in Evicted(m, Seen(m, k, Tokens(m, k) - debt[r]), k) : bucket' = [bucket EXCEPT ![m] = b]
    BY <1>5 DEF Debit
  <2> HIDE DEF m, k
  <2>5. CASE l = m
    BY <2>1, <2>2, <2>3, <2>4, <2>5 DEF SeesOne, Held
  <2>6. CASE l # m
    BY <2>1, <2>3, <2>4, <2>6 DEF Held
  <2> QED
    BY <2>5, <2>6
<1>6. ASSUME NEW r \in Requests, NEW refunded \in BOOLEAN, NEW used \in Debts,
             End(r, refunded, used)
      PROVE  DOMAIN bucket'[l] = Held(l)
  BY <1>6 DEF End, Held
<1>7. CASE Tick \/ UNCHANGED vars
  BY <1>7 DEF Tick, vars, Held
<1> QED
  BY <1>1, <1>2, <1>3, <1>4, <1>5, <1>6, <1>7 DEF Next

(* What an eviction leaves: all, or all but one other than the key seen.    *)
LEMMA EvictedKeys ==
  ASSUME NEW l \in Levels, NEW k, NEW tokens, NEW e \in Evicted(l, Seen(l, k, tokens), k)
  PROVE  LET b == Seen(l, k, tokens)
         IN  /\ DOMAIN b = Held(l) \cup {k}
             /\ \/ e = b /\ Cardinality(DOMAIN b) <= MaxHeld[l]
                \/ \E v \in Victims(b, k) :
                      e = [j \in DOMAIN b \ {v} |-> b[j]] /\ v \in Held(l) \ {k}
<1> DEFINE b == Seen(l, k, tokens)
<1>1. DOMAIN b = Held(l) \cup {k}
  BY DEF Seen
<1>2. \A v \in Victims(b, k) : v \in DOMAIN b \ {k}
  BY DEF Victims, Oldest
<1> HIDE DEF b
<1>3. \/ e = b /\ Cardinality(DOMAIN b) <= MaxHeld[l]
      \/ \E v \in Victims(b, k) : e = [j \in DOMAIN b \ {v} |-> b[j]]
  BY DEF Evicted, b
<1>4. \/ e = b /\ Cardinality(DOMAIN b) <= MaxHeld[l]
      \/ \E v \in Victims(b, k) : e = [j \in DOMAIN b \ {v} |-> b[j]] /\ v \in Held(l) \ {k}
  BY <1>1, <1>2, <1>3
<1> QED
  BY <1>1, <1>4 DEF b

(* A level holds finitely many buckets, at most the bound of them.          *)
HeldInv == \A l \in Levels : IsFiniteSet(Held(l)) /\ Cardinality(Held(l)) <= MaxHeld[l]

(* One key more is seen at most, and then one goes.                         *)
LEMMA HeldStep ==
  ASSUME IInv, HeldInv, [Next]_vars
  PROVE  HeldInv'
<1> SUFFICES ASSUME NEW l \in Levels
             PROVE  IsFiniteSet(DOMAIN bucket'[l]) /\ Cardinality(DOMAIN bucket'[l]) <= MaxHeld[l]
  BY DEF HeldInv, Held
<1>1. IsFiniteSet(Held(l)) /\ Cardinality(Held(l)) <= MaxHeld[l] /\ MaxHeld[l] \in Nat
  BY RateConstants DEF HeldInv
<1>2. CASE DOMAIN bucket'[l] = Held(l)
  BY <1>1, <1>2
<1>3. CASE SeesOne(l)
  <2>1. PICK k \in Keys, tokens \in Int : bucket'[l] \in Evicted(l, Seen(l, k, tokens), k)
    BY <1>3 DEF SeesOne
  <2> DEFINE all == Held(l) \cup {k}
  <2>2. \/ DOMAIN bucket'[l] = all /\ Cardinality(all) <= MaxHeld[l]
        \/ \E v \in Held(l) \ {k} : DOMAIN bucket'[l] = all \ {v}
    <3> DEFINE b == Seen(l, k, tokens)
    <3>1. /\ DOMAIN b = all
          /\ \/ bucket'[l] = b /\ Cardinality(DOMAIN b) <= MaxHeld[l]
             \/ \E v \in Victims(b, k) :
                   bucket'[l] = [j \in DOMAIN b \ {v} |-> b[j]] /\ v \in Held(l) \ {k}
      BY <2>1, EvictedKeys
    <3> HIDE DEF b, all
    <3> QED
      BY <3>1
  <2>3. /\ IsFiniteSet(all)
        /\ Cardinality(all) = IF k \in Held(l) THEN Cardinality(Held(l)) ELSE Cardinality(Held(l)) + 1
    BY <1>1, FS_AddElement
  <2>4. \A v \in all : IsFiniteSet(all \ {v}) /\ Cardinality(all \ {v}) = Cardinality(all) - 1
    BY <2>3, FS_RemoveElement
  <2>5. Cardinality(Held(l)) \in Nat
    BY <1>1, FS_CardinalityType
  <2>6. \A v \in Held(l) \ {k} : v \in all
    OBVIOUS
  <2> HIDE DEF all
  <2>7. CASE DOMAIN bucket'[l] = all /\ Cardinality(all) <= MaxHeld[l]
    BY <2>3, <2>7
  <2>8. ASSUME NEW v \in Held(l) \ {k}, DOMAIN bucket'[l] = all \ {v}
        PROVE  IsFiniteSet(DOMAIN bucket'[l]) /\ Cardinality(DOMAIN bucket'[l]) <= MaxHeld[l]
    <3>1. Cardinality(all) \in Nat /\ Cardinality(all) - 1 <= MaxHeld[l]
      <4>1. CASE k \in Held(l)
        BY <1>1, <2>3, <2>5, <4>1
      <4>2. CASE k \notin Held(l)
        BY <1>1, <2>3, <2>5, <4>2
      <4> QED
        BY <4>1, <4>2
    <3> QED
      BY <2>4, <2>6, <2>8, <3>1
  <2> QED
    BY <2>2, <2>7, <2>8
<1> QED
  BY <1>2, <1>3, KeysStep

(* A victim that owes is one because every other key, but the one just      *)
(* seen, owes too.                                                         *)
LEMMA DebtorsLast ==
  ASSUME IInv, [Next]_vars, NEW l \in Levels, NEW k \in Held(l) \ DOMAIN bucket'[l],
         Owes(bucket[l], k), NEW j \in DOMAIN bucket'[l]
  PROVE  j \notin Held(l) \/ Owes(bucket[l], j) \/ bucket'[l][j].last = clock
<1>1. SeesOne(l)
  BY KeysStep
<1>2. PICK s \in Keys, tokens \in Int : bucket'[l] \in Evicted(l, Seen(l, s, tokens), s)
  BY <1>1 DEF SeesOne
<1> DEFINE b == Seen(l, s, tokens)
<1>3. /\ DOMAIN b = Held(l) \cup {s}
      /\ \A i \in DOMAIN b \ {s} : b[i] = bucket[l][i]
      /\ b[s].last = clock
  BY DEF Seen
<1>4. \/ bucket'[l] = b
      \/ \E v \in Victims(b, s) :
            bucket'[l] = [i \in DOMAIN b \ {v} |-> b[i]] /\ v \in Held(l) \ {s}
  BY <1>2, EvictedKeys
<1>5. Victims(b, s) \subseteq DOMAIN b \ {s}
      /\ ((\E i \in DOMAIN b \ {s} : ~Owes(b, i)) => \A v \in Victims(b, s) : ~Owes(b, v))
  BY DEF Victims, Oldest
<1> HIDE DEF b
<1>6. /\ k \in Victims(b, s)
      /\ bucket'[l] = [i \in DOMAIN b \ {k} |-> b[i]]
  BY <1>3, <1>4
<1>7. k # s /\ b[k] = bucket[l][k] /\ Owes(b, k)
  BY <1>3, <1>5, <1>6 DEF Owes
<1>8. \A i \in DOMAIN b \ {s} : Owes(b, i)
  BY <1>5, <1>6, <1>7
<1>9. CASE j = s
  BY <1>3, <1>6, <1>9
<1>10. CASE j # s
  BY <1>3, <1>6, <1>8, <1>10 DEF Owes
<1> QED
  BY <1>9, <1>10

(* No more buckets than allowed are held, and a debt is forgotten only when *)
(* every other key, but the one just seen, owes too, for any bounds.        *)
THEOREM EvictionIsSound == Spec => EvictionHolds
<1>1. Init => HeldInv
  BY RateConstants, FS_EmptySet DEF Init, HeldInv, Held
<1>2. IInv /\ HeldInv /\ [Next]_vars => HeldInv'
  BY HeldStep
<1>3. HeldInv => BucketsBounded
  BY DEF HeldInv, BucketsBounded
<1>4. IInv /\ [Next]_vars =>
        [\A l \in Levels :
            \A k \in Held(l) \ DOMAIN bucket'[l] :
                Owes(bucket[l], k) =>
                    \A j \in DOMAIN bucket'[l] :
                        j \notin Held(l) \/ Owes(bucket[l], j) \/ bucket'[l][j].last = clock]_vars
  BY DebtorsLast
<1> QED
  BY <1>1, <1>2, <1>3, <1>4, Invariant, PTL DEF Spec, EvictionHolds, DebtsRemembered
----------------------------------------------------------------------------
(* Refusals.                                                               *)

(* A take of nothing leaves every bucket the tokens it has, and the ones it *)
(* sees stay.                                                              *)
LEMMA NothingSpent ==
  ASSUME BucketsInv, NEW c \in Clients, Spend(c, 0), clock' = clock, NEW l \in Levels
  PROVE  /\ \A k \in Held(l) \cap DOMAIN bucket'[l] : Tokens(l, k)' = Tokens(l, k)
         /\ Tokens(l, KeyOf[l][c])' = Tokens(l, KeyOf[l][c])
<1> DEFINE s == KeyOf[l][c]
           b == Seen(l, s, Tokens(l, s) - 0)
<1>1. s \in Keys /\ bucket'[l] \in Evicted(l, b, s)
  BY Types DEF Spend
<1>2. /\ DOMAIN b = Held(l) \cup {s}
      /\ \A i \in Held(l) \ {s} : b[i] = bucket[l][i]
      /\ b[s] = [tokens |-> Tokens(l, s) - 0, last |-> clock]
  BY DEF Seen
<1>3. /\ s \in DOMAIN bucket'[l] /\ DOMAIN bucket'[l] \subseteq DOMAIN b
      /\ \A i \in DOMAIN bucket'[l] : bucket'[l][i] = b[i]
  <2>1. \/ bucket'[l] = b
        \/ \E v \in Victims(b, s) :
              bucket'[l] = [j \in DOMAIN b \ {v} |-> b[j]] /\ v \in Held(l) \ {s}
    BY <1>1, EvictedKeys
  <2> HIDE DEF b
  <2> QED
    BY <1>2, <2>1
<1> HIDE DEF b
<1>4. Tokens(l, s) \in Int /\ Tokens(l, s) <= Capacity[l] /\ clock \in Nat /\ Capacity[l] \in Nat
  BY <1>1, TokensFacts, Types, RateConstants DEF BucketsInv
<1>5. bucket'[l][s].tokens = Tokens(l, s) /\ bucket'[l][s].last = clock
  BY <1>2, <1>3, <1>4
<1>6. Tokens(l, s)' = Tokens(l, s)
  <2>1. Tokens(l, s)' = Smaller(Capacity[l], bucket'[l][s].tokens + (clock' - bucket'[l][s].last))
    BY <1>3 DEF Tokens, Held
  <2> QED
    BY <2>1, <1>4, <1>5 DEF Smaller
<1>7. ASSUME NEW k \in Held(l) \cap DOMAIN bucket'[l], k # s
      PROVE  Tokens(l, k)' = Tokens(l, k)
  <2>1. bucket'[l][k] = bucket[l][k]
    BY <1>2, <1>3, <1>7
  <2> QED
    BY <2>1, <1>7 DEF Tokens, Held
<1> QED
  BY <1>6, <1>7

(* While nobody pays, is given back or debited, no bucket loses a token.    *)
LEMMA RefusalsTakeNothing ==
  ASSUME IInv, [Next]_vars, NEW l \in Levels, NEW k \in Held(l) \cap DOMAIN bucket'[l],
         clock' = clock,
         \A r \in Requests : paid'[r] <= paid[r] /\ pc[r] \notin {"refunding", "debiting"}
  PROVE  Tokens(l, k)' >= Tokens(l, k)
<1>1. k \in Keys /\ Tokens(l, k) \in Int
  BY TokensFacts DEF IInv, BucketsInv, Balanced, Held
<1>2. ASSUME bucket' = bucket
      PROVE  Tokens(l, k)' = Tokens(l, k)
  BY <1>2 DEF Tokens, Held
<1>3. ASSUME NEW c \in Clients, Spend(c, 0)
      PROVE  Tokens(l, k)' = Tokens(l, k)
  BY <1>3, NothingSpent DEF IInv
<1>4. ASSUME NEW r \in Requests, NEW c \in Clients, NEW w \in Weights, Admit(r, c, w)
      PROVE  FALSE
  <2>1. paid[r] = 0 /\ paid'[r] = w /\ w \in Nat \ {0}
    BY <1>4, RateConstants DEF Admit, IInv, RequestsInv
  <2> QED
    BY <2>1
<1>5. ASSUME NEW r \in Requests, NEW t \in Totals, Charge(r, t)
      PROVE  FALSE
  <2>1. paid[r] \in Nat /\ paid'[r] = t /\ t \in Nat /\ t > paid[r]
    BY <1>5, RateConstants DEF Charge, IInv, RequestsInv
  <2> QED
    BY <2>1
<1>6. ASSUME NEW r \in Requests, NEW c \in Clients, NEW w \in Weights, Refuse(r, c, w)
      PROVE  Spend(c, 0)
  BY <1>6 DEF Refuse
<1>7. ASSUME NEW r \in Requests,
             \/ \E t \in Totals : RefuseCharge(r, t)
             \/ \E used \in Debts : TellWait(r, used)
      PROVE  \E c \in Clients : Spend(c, 0)
  BY <1>7 DEF RefuseCharge, TellWait, IInv, RequestsInv
<1>8. ASSUME NEW r \in Requests, Refund(r) \/ Debit(r)
      PROVE  FALSE
  BY <1>8 DEF Refund, Debit
<1>9. ASSUME NEW r \in Requests, NEW refunded \in BOOLEAN, NEW used \in Debts,
             End(r, refunded, used)
      PROVE  bucket' = bucket
  BY <1>9 DEF End
<1>10. ASSUME Tick
       PROVE  FALSE
  BY <1>10 DEF Tick, IInv, BucketsInv
<1>11. ASSUME UNCHANGED vars
       PROVE  bucket' = bucket
  BY <1>11 DEF vars
<1>12. ASSUME NEW r \in Requests,
              \/ \E c \in Clients, w \in Weights : Admit(r, c, w) \/ Refuse(r, c, w)
              \/ \E t \in Totals : Charge(r, t) \/ RefuseCharge(r, t)
              \/ \E used \in Debts : TellWait(r, used)
       PROVE  Tokens(l, k)' = Tokens(l, k)
  BY <1>3, <1>4, <1>5, <1>6, <1>7, <1>12
<1>13. Tokens(l, k)' = Tokens(l, k)
  BY <1>2, <1>8, <1>9, <1>10, <1>11, <1>12 DEF Next
<1> QED
  BY <1>1, <1>13

(* Only telling its wait takes a request from refused to debiting.          *)
LEMMA WaitTold ==
  ASSUME IInv, [Next]_vars, NEW r \in Requests, pc[r] = "refused", pc'[r] = "debiting"
  PROVE  \E used \in Debts : TellWait(r, used)
<1> USE DEF IInv, RequestsInv
<1>1. ASSUME NEW q \in Requests, NEW c \in Clients, NEW w \in Weights, Admit(q, c, w) \/ Refuse(q, c, w)
      PROVE  FALSE
  BY <1>1 DEF Admit, Refuse, reqVars
<1>2. ASSUME NEW q \in Requests, NEW t \in Totals, Charge(q, t) \/ RefuseCharge(q, t)
      PROVE  FALSE
  BY <1>2 DEF Charge, RefuseCharge
<1>3. ASSUME NEW q \in Requests, NEW used \in Debts, TellWait(q, used)
      PROVE  q = r
  BY <1>3 DEF TellWait
<1>4. ASSUME NEW q \in Requests, NEW refunded \in BOOLEAN, NEW used \in Debts, End(q, refunded, used)
      PROVE  FALSE
  BY <1>4 DEF End
<1>5. ASSUME NEW q \in Requests, Refund(q) \/ Debit(q)
      PROVE  FALSE
  BY <1>5 DEF Refund, Debit
<1>6. CASE Tick \/ UNCHANGED vars
  BY <1>6 DEF Tick, vars, reqVars
<1> QED
  BY <1>1, <1>2, <1>3, <1>4, <1>5, <1>6 DEF Next

(* After the wait told, every level has the total, if it can hold it.       *)
LEMMA WaitSuffices ==
  ASSUME IInv, NEW r \in Requests, NEW used \in Debts, TellWait(r, used), NEW l \in Levels
  PROVE  Smaller(Capacity[l], Tokens(l, Key(l, r))' + wait'[r])
            >= Smaller(Capacity[l], base[r] + (total[r] - paid[r]))
<1>c. PICK c \in Clients : c = client[r]
  BY DEF TellWait, IInv, RequestsInv
<1>1. /\ c \in Clients /\ Spend(c, 0) /\ clock' = clock /\ client' = client
      /\ wait'[r] = WaitFor(c, total[r])
      /\ total[r] \in Nat /\ base[r] \in Nat /\ paid[r] \in Nat /\ base[r] <= paid[r]
  BY <1>c DEF TellWait, IInv, RequestsInv
<1>2. Tokens(l, KeyOf[l][c])' = Tokens(l, KeyOf[l][c])
  BY <1>1, NothingSpent DEF IInv
<1>3. Tokens(l, Key(l, r))' = Tokens(l, KeyOf[l][c])
  BY <1>1, <1>2, <1>c DEF Key, Tokens, Held
<1>4. \A m \in Levels : Tokens(m, KeyOf[m][c]) \in Int
  BY <1>1, Types, TokensFacts DEF IInv
<1>5. /\ WaitFor(c, total[r]) \in Int
      /\ \A m \in Levels : WaitFor(c, total[r]) >= total[r] - Tokens(m, KeyOf[m][c])
  <2>1. /\ Tokens(First, KeyOf[First][c]) \in Int /\ Tokens(Second, KeyOf[Second][c]) \in Int
    BY <1>4, Types
  <2>2. /\ WaitFor(c, total[r]) \in Int
        /\ WaitFor(c, total[r]) >= total[r] - Tokens(First, KeyOf[First][c])
        /\ WaitFor(c, total[r]) >= total[r] - Tokens(Second, KeyOf[Second][c])
    BY <1>1, <2>1 DEF WaitFor, Larger
  <2> QED
    BY <2>2, Types
<1>6. Tokens(l, Key(l, r))' + wait'[r] >= total[r] /\ Tokens(l, Key(l, r))' + wait'[r] \in Int
  <2> DEFINE t == Tokens(l, KeyOf[l][c])
             w == WaitFor(c, total[r])
  <2>1. t \in Int /\ w \in Int /\ w >= total[r] - t /\ total[r] \in Nat
    BY <1>1, <1>4, <1>5
  <2>2. Tokens(l, Key(l, r))' + wait'[r] = t + w
    BY <1>1, <1>3
  <2> HIDE DEF t, w
  <2> QED
    BY <2>1, <2>2
<1>7. Capacity[l] \in Nat
  BY Types
<1> QED
  <2> DEFINE x == Tokens(l, Key(l, r))' + wait'[r]
  <2>1. x \in Int /\ x >= total[r]
    BY <1>6
  <2> HIDE DEF x
  <2>2. Smaller(Capacity[l], x) >= Smaller(Capacity[l], base[r] + (total[r] - paid[r]))
    BY <1>1, <1>7, <2>1 DEF Smaller
  <2> QED
    BY <2>2 DEF x

(* A refusal by one bucket takes nothing from another, and a client that    *)
(* waits as long as it was told finds what it needs, unless others spent    *)
(* it, for any capacities, weights and totals.                              *)
THEOREM RefusalsAreSound == Spec => RefusalsHold
<1>1. IInv /\ [Next]_vars =>
        [(\A r \in Requests : paid'[r] <= paid[r] /\ pc[r] \notin {"refunding", "debiting"})
         /\ clock' = clock
         => \A l \in Levels : \A k \in Held(l) \cap DOMAIN bucket'[l] : Tokens(l, k)' >= Tokens(l, k)]_vars
  BY RefusalsTakeNothing
<1>2. IInv /\ [Next]_vars =>
        [\A r \in Requests :
            pc[r] = "refused" /\ pc'[r] = "debiting" =>
                \A l \in Levels :
                    Smaller(Capacity[l], Tokens(l, Key(l, r))' + wait'[r])
                        >= Smaller(Capacity[l], base[r] + (total[r] - paid[r]))]_vars
  BY WaitTold, WaitSuffices
<1> QED
  BY <1>1, <1>2, Invariant, PTL DEF Spec, RefusalsHold, RefusalsAreFree, RetryAfterSuffices
=============================================================================
