------------------------- MODULE Comparisons_proofs -------------------------
(***************************************************************************)
(* Proofs about Comparisons: whatever the requests, networks, slots, cost  *)
(* factors and bounds, every slot comes back, no network is left marked as *)
(* running, the heap finds every pause, at most max_networks are held, and *)
(* a network's counted share of a slot is what the documentation promises. *)
(*                                                                         *)
(* The heart is what Cooldowns.leave forgets: the entries popped are the   *)
(* soonest, none of a pause still remembered is among them, and no more go *)
(* than the bound makes go.                                                *)
(***************************************************************************)
EXTENDS Comparisons, FiniteSetTheorems, TLAPS

Untils == UNION {[P -> Nat] : P \in SUBSET Networks}

Entries == Nat \X Networks

(* The heap finds every pause, and its entries of pauses not over are right.*)
Finds(until, heap, now) ==
    /\ \A n \in DOMAIN until : <<until[n], n>> \in heap
    /\ \A e \in heap : e[1] > now => e[2] \in DOMAIN until /\ until[e[2]] = e[1]

----------------------------------------------------------------------------
(* What is forgotten.                                                       *)

(* Heap entries are totally ordered.                                        *)
LEMMA Ordered ==
    ASSUME NEW a \in Entries, NEW b \in Entries
    PROVE  ~(Before(a, b) /\ Before(b, a))
<1>1. a[1] \in Nat /\ a[2] \in Nat /\ b[1] \in Nat /\ b[2] \in Nat
    BY ComparisonConstants DEF Entries
<1> QED BY <1>1 DEF Before

(* Two ways to pop a heap in its order differ only in how far they go.      *)
LEMMA TailsAreNested ==
    ASSUME NEW heap \in SUBSET Entries, NEW s \in Tails(heap), NEW t \in Tails(heap)
    PROVE  s \subseteq t \/ t \subseteq s
<1> SUFFICES ASSUME NEW x \in s \ t, NEW y \in t \ s PROVE FALSE
    OBVIOUS
<1>1. x \in heap \ t /\ y \in heap \ s
    BY DEF Tails
<1>2. Before(x, y) /\ Before(y, x)
    BY <1>1 DEF Tails
<1> QED BY <1>1, <1>2, Ordered

(* What is left is one such tail, popped far enough.                        *)
LEMMA LeftIsPopped ==
    ASSUME NEW until, NEW heap \in SUBSET Entries, IsFiniteSet(heap), NEW now
    PROVE  /\ Left(until, heap, now) \in Tails(heap)
           /\ Popped(until, heap, Left(until, heap, now), now)
<1> DEFINE done == {t \in Tails(heap) : Popped(until, heap, t, now)}
           R == StrictSubsetOrdering(heap)
           rests == {heap \ t : t \in done}
<1>1. {} \in done
    BY DEF Tails, Popped
<1>2. PICK x \in rests : \A y \in rests : <<y, x>> \notin R
    <2>1. rests \subseteq FiniteSubsetsOf(heap)
        BY FS_Subset DEF FiniteSubsetsOf, Tails
    <2>2. rests # {}
        BY <1>1
    <2>3. IsWellFoundedOn(R, FiniteSubsetsOf(heap))
        BY FS_StrictSubsetOrderingWellFounded
    <2> HIDE DEF rests, R
    <2> QED BY <2>1, <2>2, <2>3, WFMin
<1>3. PICK t \in done : x = heap \ t
    BY <1>2
<1>4. \A s \in done : s \subseteq t
    <2> SUFFICES ASSUME NEW s \in done, ~(s \subseteq t) PROVE FALSE
        OBVIOUS
    <2>1. t \subseteq s
        BY TailsAreNested
    <2>2. heap \ s \subseteq heap \ t /\ heap \ s # heap \ t
        <3>1. PICK e \in s : e \notin t
            OBVIOUS
        <3>2. e \in heap
            BY <3>1 DEF Tails
        <3> QED BY <2>1, <3>1, <3>2
    <2>3. <<heap \ s, heap \ t>> \in R
        BY <2>2 DEF StrictSubsetOrdering
    <2> QED BY <1>2, <1>3, <2>3
<1>5. Left(until, heap, now) = t
    BY <1>4 DEF Left, Tails
<1> QED BY <1>5

(* What pops leave: pauses still remembered unchanged, found, within the    *)
(* bound; the forgotten ones end no later than they do; and none is         *)
(* forgotten that is not over, unless there are too many.                   *)
LEMMA LeftFacts ==
    ASSUME NEW until \in Untils, NEW heap \in SUBSET Entries, IsFiniteSet(heap),
           NEW now \in Nat, Finds(until, heap, now)
    PROVE  LET left == Left(until, heap, now)
               kept == Without(until, heap \ left)
           IN /\ left \subseteq heap /\ IsFiniteSet(left)
              /\ kept \in Untils /\ DOMAIN kept \subseteq DOMAIN until
              /\ \A n \in DOMAIN kept : kept[n] = until[n]
              /\ Finds(kept, left, now)
              /\ Cardinality(DOMAIN kept) <= MaxNetworks
              /\ \A n \in DOMAIN until \ DOMAIN kept, m \in DOMAIN kept : kept[m] >= until[n]
              /\ Cardinality({n \in DOMAIN until : until[n] > now}) <= MaxNetworks
                    => \A n \in DOMAIN until : until[n] > now => n \in DOMAIN kept
<1> DEFINE left == Left(until, heap, now)
           kept == Without(until, heap \ left)
<1>1. left \in Tails(heap) /\ Popped(until, heap, left, now)
    BY LeftIsPopped
<1>2. left \subseteq heap /\ IsFiniteSet(left)
    BY <1>1, FS_Subset DEF Tails
<1>3. /\ DOMAIN until \subseteq Networks
      /\ \A n \in DOMAIN until : until[n] \in Nat /\ <<until[n], n>> \in heap
    BY DEF Untils, Finds
<1>4. /\ DOMAIN kept = {m \in DOMAIN until : <<until[m], m>> \in left}
      /\ \A n \in DOMAIN kept : kept[n] = until[n]
    BY <1>3 DEF Without
<1>5. kept \in Untils
    <2>1. kept = [n \in DOMAIN kept |-> kept[n]]
        BY DEF Without
    <2>2. DOMAIN kept \in SUBSET Networks /\ \A n \in DOMAIN kept : kept[n] \in Nat
        BY <1>3, <1>4
    <2> HIDE DEF kept
    <2>3. kept \in [DOMAIN kept -> Nat]
        BY <2>1, <2>2
    <2> QED BY <2>2, <2>3 DEF Untils
<1>6. \A e \in left : e[1] > now
    BY <1>1 DEF Popped
<1>7. Finds(kept, left, now)
    <2>1. ASSUME NEW e \in left PROVE e[2] \in DOMAIN kept /\ kept[e[2]] = e[1]
        <3>1. e[2] \in DOMAIN until /\ until[e[2]] = e[1]
            BY <1>2, <1>6 DEF Finds
        <3>2. e = <<e[1], e[2]>>
            BY <1>2 DEF Entries
        <3> QED BY <1>4, <3>1, <3>2
    <2>2. \A n \in DOMAIN kept : <<kept[n], n>> \in left
        BY <1>4
    <2> HIDE DEF kept, left
    <2> QED BY <2>1, <2>2 DEF Finds
<1>8. Cardinality(DOMAIN kept) <= MaxNetworks
    <2>1. CASE left = {}
        <3>1. DOMAIN kept = {}
            BY <1>4, <2>1
        <3> QED BY <3>1, FS_EmptySet, ComparisonConstants
    <2>2. CASE left # {}
        BY <1>1, <2>2 DEF Popped
    <2> QED BY <2>1, <2>2
<1>9. ASSUME NEW n \in DOMAIN until \ DOMAIN kept, NEW m \in DOMAIN kept
      PROVE  kept[m] >= until[n]
    <2>1. <<until[n], n>> \in heap \ left /\ <<until[m], m>> \in left /\ kept[m] = until[m]
        BY <1>3, <1>4
    <2>2. Before(<<until[n], n>>, <<until[m], m>>)
        BY <1>1, <2>1 DEF Tails
    <2>3. until[n] \in Nat /\ until[m] \in Nat
        BY <1>3, <1>4
    <2> HIDE DEF kept, left
    <2> QED BY <2>1, <2>2, <2>3 DEF Before
<1>10. ASSUME Cardinality({n \in DOMAIN until : until[n] > now}) <= MaxNetworks,
              NEW n \in DOMAIN until, until[n] > now
       PROVE  n \in DOMAIN kept
    <2> DEFINE lasting == {e \in heap : e[1] > now}
    <2>1. lasting \in Tails(heap)
        <3>1. ASSUME NEW e \in heap \ lasting, NEW f \in lasting PROVE Before(e, f)
            <4>1. e[1] \in Nat /\ f[1] \in Nat /\ ~(e[1] > now) /\ f[1] > now
                BY DEF Entries
            <4> QED BY <4>1 DEF Before
        <3> QED BY <3>1 DEF Tails
    <2>2. DOMAIN Without(until, heap \ lasting) = {m \in DOMAIN until : until[m] > now}
        BY <1>3 DEF Without
    <2>3. Popped(until, heap, lasting, now)
        BY <1>10, <2>2 DEF Popped
    <2>4. lasting \subseteq left
        BY <2>1, <2>3 DEF Left
    <2>5. <<until[n], n>> \in left
        BY <1>3, <1>10, <2>4
    <2> QED BY <1>4, <2>5
<1> HIDE DEF left, kept
<1>11. DOMAIN kept \subseteq DOMAIN until
    BY <1>4
<1> QED BY <1>2, <1>4, <1>5, <1>7, <1>8, <1>9, <1>10, <1>11 DEF left, kept

----------------------------------------------------------------------------
(* The cooldowns as a whole.                                                *)

Gates == [running : SUBSET Networks, until : Untils, soonest : SUBSET Entries]

(* Cooldowns as they are between two steps: one that runs is not paused.    *)
GateOK(g, now) ==
    /\ g \in Gates
    /\ IsFiniteSet(g.soonest)
    /\ Finds(g.until, g.soonest, now)
    /\ g.running \cap DOMAIN g.until = {}

(* enter: the network runs, and its pause, over, goes.                      *)
LEMMA EnteredFacts ==
    ASSUME GateOK(gate, clock), NEW n \in Networks, MayEnter(n), clock \in Nat
    PROVE  /\ GateOK(Entered(n), clock)
           /\ Factor = 0 => Entered(n) = gate
           /\ Factor # 0 =>
                /\ n \notin gate.running
                /\ Entered(n).running = gate.running \cup {n}
                /\ DOMAIN Entered(n).until = Paused \ {n}
           /\ \A m \in Paused \ {n} : m \in DOMAIN Entered(n).until /\ Entered(n).until[m] = gate.until[m]
<1> DEFINE g == Entered(n)
           u == [m \in Paused \ {n} |-> gate.until[m]]
<1>1. CASE Factor = 0
    BY <1>1 DEF Entered, Paused
<1>2. CASE Factor # 0
    <2>1. n \notin gate.running /\ (n \in Paused => gate.until[n] <= clock)
        BY <1>2 DEF MayEnter
    <2>2. /\ gate = [running |-> gate.running, until |-> gate.until, soonest |-> gate.soonest]
          /\ gate.running \subseteq Networks /\ gate.until \in Untils
          /\ gate.soonest \subseteq Entries
        BY DEF GateOK, Gates
    <2>3. g = [running |-> gate.running \cup {n}, until |-> u, soonest |-> gate.soonest]
        BY <1>2, <2>2 DEF Entered
    <2>4. /\ Paused \subseteq Networks /\ \A m \in Paused : gate.until[m] \in Nat
        BY <2>2 DEF Untils, Paused
    <2>5. u \in Untils
        <3>1. u \in [Paused \ {n} -> Nat] /\ Paused \ {n} \in SUBSET Networks
            BY <2>4
        <3> QED BY <3>1 DEF Untils
    <2>6. g \in Gates
        BY <2>2, <2>3, <2>5 DEF Gates
    <2>7. Finds(u, gate.soonest, clock)
        <3>1. \A m \in DOMAIN u : <<u[m], m>> \in gate.soonest
            BY DEF GateOK, Finds, Paused
        <3>2. ASSUME NEW e \in gate.soonest, e[1] > clock
              PROVE  e[2] \in DOMAIN u /\ u[e[2]] = e[1]
            <4>1. e[2] \in Paused /\ gate.until[e[2]] = e[1] /\ e[1] \in Nat
                BY <2>2, <3>2 DEF GateOK, Finds, Paused, Entries
            <4>2. e[2] # n
                BY <2>1, <3>2, <4>1
            <4> QED BY <4>1, <4>2
        <3> QED BY <3>1, <3>2 DEF Finds
    <2>8. GateOK(g, clock)
        BY <2>3, <2>6, <2>7 DEF GateOK, Paused
    <2> QED BY <1>2, <2>1, <2>3, <2>8
<1> QED BY <1>1, <1>2

(* What leaving does before anything is forgotten.                          *)
LEMMA EndedFacts ==
    ASSUME NEW now \in Nat, now = clock, NEW g, GateOK(g, now), NEW n \in Networks,
           NEW used \in Nat, Factor > 0 /\ used > 0 => n \notin DOMAIN g.until
    PROVE  LET h == Ended(g, n, used) IN
           /\ GateOK(h, now)
           /\ h.running = g.running \ {n}
           /\ \A m \in DOMAIN g.until : m \in DOMAIN h.until /\ h.until[m] = g.until[m]
           /\ Factor > 0 /\ used > 0 =>
                /\ DOMAIN h.until = DOMAIN g.until \cup {n}
                /\ h.until[n] = now + Factor * used /\ h.until[n] > now
           /\ ~(Factor > 0 /\ used > 0) => h.until = g.until
<1> DEFINE h == Ended(g, n, used)
<1>1. /\ g = [running |-> g.running, until |-> g.until, soonest |-> g.soonest]
      /\ g.running \subseteq Networks /\ g.until \in Untils
      /\ g.soonest \subseteq Entries /\ IsFiniteSet(g.soonest)
      /\ Finds(g.until, g.soonest, now) /\ g.running \cap DOMAIN g.until = {}
    BY DEF GateOK, Gates
<1>2. CASE ~(Factor > 0 /\ used > 0)
    <2>1. h = [running |-> g.running \ {n}, until |-> g.until, soonest |-> g.soonest]
        BY <1>1, <1>2 DEF Ended
    <2>2. GateOK(h, now)
        BY <1>1, <2>1 DEF GateOK, Gates
    <2> QED BY <1>2, <2>1, <2>2
<1>3. CASE Factor > 0 /\ used > 0
    <2> DEFINE end == now + Factor * used
               u == [m \in DOMAIN g.until \cup {n} |-> IF m = n THEN end ELSE g.until[m]]
               heap == g.soonest \cup {<<end, n>>}
    <2>1. h = [running |-> g.running \ {n}, until |-> u, soonest |-> heap]
        BY <1>3 DEF Ended, Pause
    <2>2. end \in Nat /\ end > now
        <3>1. Factor * used \in Nat /\ Factor * used > 0
            BY <1>3, ComparisonConstants
        <3> QED BY <3>1
    <2> HIDE DEF end
    <2>3. DOMAIN g.until \subseteq Networks /\ \A m \in DOMAIN g.until : g.until[m] \in Nat
        BY <1>1 DEF Untils
    <2>4. u \in Untils
        <3>1. u \in [DOMAIN g.until \cup {n} -> Nat] /\ DOMAIN g.until \cup {n} \in SUBSET Networks
            BY <2>2, <2>3
        <3> QED BY <3>1 DEF Untils
    <2>5. heap \subseteq Entries /\ IsFiniteSet(heap)
        <3>1. <<end, n>> \in Entries
            BY <2>2 DEF Entries
        <3>2. IsFiniteSet(heap)
            BY <1>1, FS_AddElement
        <3> QED BY <1>1, <3>1, <3>2
    <2>6. n \notin DOMAIN g.until
        BY <1>3
    <2>7. Finds(u, heap, now)
        <3>1. \A m \in DOMAIN u : <<u[m], m>> \in heap
            BY <1>1 DEF Finds
        <3>2. ASSUME NEW e \in heap, e[1] > now PROVE e[2] \in DOMAIN u /\ u[e[2]] = e[1]
            <4>1. CASE e = <<end, n>>
                BY <4>1
            <4>2. CASE e \in g.soonest
                <5>1. e[2] \in DOMAIN g.until /\ g.until[e[2]] = e[1]
                    BY <1>1, <3>2, <4>2 DEF Finds
                <5> QED BY <2>6, <5>1
            <4> QED BY <4>1, <4>2
        <3> QED BY <3>1, <3>2 DEF Finds
    <2>8. GateOK(h, now)
        BY <1>1, <2>1, <2>4, <2>5, <2>7 DEF GateOK, Gates
    <2> QED BY <1>3, <2>1, <2>2, <2>6, <2>8 DEF end
<1> QED BY <1>2, <1>3

----------------------------------------------------------------------------
(* A network's share.                                                       *)

ShareOf(a, until, now, m) ==
    (1 + Factor) * a[m].counted
        <= (IF m \in DOMAIN until THEN Later(now, until[m]) ELSE now) - a[m].born

(* A comparison of `held` ticks, `used` when weighted, and its pause after  *)
(* it keep a share that was kept when it began.                             *)
LEMMA PauseEarnsShare ==
    ASSUME NEW F \in Nat, NEW c \in Nat, NEW held \in Nat, NEW used \in Nat,
           NEW base \in Nat, NEW born \in Nat,
           held <= used, (1 + F) * c <= base - born
    PROVE  (1 + F) * (c + held) <= (base + held + F * used) - born
<1>1. (1 + F) * (c + held) = (1 + F) * c + held + F * held
    OBVIOUS
<1>2. PICK more \in Nat : used = held + more
    <2>1. used - held \in Nat /\ used = held + (used - held)
        OBVIOUS
    <2> QED BY <2>1
<1>3. F * used = F * held + F * more /\ F * more \in Nat /\ F * held \in Nat
    BY <1>2
<1>4. (1 + F) * c \in Nat /\ (1 + F) * (c + held) \in Nat
    OBVIOUS
<1> QED BY <1>1, <1>3, <1>4

AnyAccounts == [Networks -> [born : Nat, counted : Nat]]

(* leave: the pauses remembered afterwards are bounded and found, those     *)
(* forgotten are the soonest, and every share is still kept.                *)
LEMMA LeaveFacts ==
    ASSUME NEW now \in Nat, now = clock, NEW g, GateOK(g, now), NEW n \in Networks,
           NEW used \in Nat, NEW held \in Nat, NEW base \in Nat,
           base + held = now, held <= used,
           Factor > 0 => n \notin DOMAIN g.until,
           account \in AnyAccounts,
           Factor > 0 => (1 + Factor) * account[n].counted <= base - account[n].born,
           Factor > 0 => \A m \in Networks \ {n} : ShareOf(account, g.until, now, m),
           Leave(g, n, used, held)
    PROVE  /\ GateOK(gate', now) /\ gate'.running = g.running \ {n}
           /\ Cardinality(DOMAIN gate'.until) <= MaxNetworks
           /\ \A m \in DOMAIN g.until \ DOMAIN gate'.until, k \in DOMAIN gate'.until :
                 g.until[m] > now => gate'.until[k] >= g.until[m]
           /\ account' \in AnyAccounts
           /\ \A m \in Networks : account'[m].born \in {now, account[m].born}
           /\ \A m \in gate'.running : account'[m] = account[m]
           /\ Factor > 0 => \A m \in Networks : ShareOf(account', gate'.until, now, m)
<1> DEFINE h == Ended(g, n, used)
           left == Left(h.until, h.soonest, now)
           kept == Without(h.until, h.soonest \ left)
           lasting == {m \in DOMAIN h.until : h.until[m] > now}
           early == IF Cardinality(lasting) <= MaxNetworks THEN {}
                    ELSE lasting \ DOMAIN gate'.until
<1>1. /\ GateOK(h, now)
      /\ h.running = g.running \ {n}
      /\ \A m \in DOMAIN g.until : m \in DOMAIN h.until /\ h.until[m] = g.until[m]
      /\ Factor > 0 /\ used > 0 =>
           /\ DOMAIN h.until = DOMAIN g.until \cup {n}
           /\ h.until[n] = now + Factor * used /\ h.until[n] > now
      /\ ~(Factor > 0 /\ used > 0) => h.until = g.until
    <2> HIDE DEF h
    <2> QED BY EndedFacts DEF h
<1>2. /\ gate' = Forgotten(h)
      /\ account' = [m \in Networks |->
                        IF m \in early THEN NewAccount(now)
                        ELSE IF m = n THEN [account[m] EXCEPT !.counted = @ + held]
                        ELSE account[m]]
    BY DEF Leave
<1> HIDE DEF h
<1>3. /\ left \subseteq h.soonest /\ IsFiniteSet(left)
      /\ kept \in Untils /\ DOMAIN kept \subseteq DOMAIN h.until
      /\ \A m \in DOMAIN kept : kept[m] = h.until[m]
      /\ Finds(kept, left, now)
      /\ Cardinality(DOMAIN kept) <= MaxNetworks
      /\ \A m \in DOMAIN h.until \ DOMAIN kept, k \in DOMAIN kept : kept[k] >= h.until[m]
      /\ Cardinality(lasting) <= MaxNetworks
            => \A m \in DOMAIN h.until : h.until[m] > now => m \in DOMAIN kept
    BY <1>1, LeftFacts DEF GateOK, Gates
<1>4. /\ gate'.running = h.running /\ gate'.until = kept
      /\ gate' \in Gates /\ IsFiniteSet(gate'.soonest)
      /\ Finds(kept, gate'.soonest, now)
    <2> DEFINE rebuilt == {<<kept[m], m>> : m \in DOMAIN kept}
               soonest == IF Cardinality(left) > 2 * Cardinality(DOMAIN kept) + HeapSlack
                          THEN rebuilt ELSE left
    <2>1. /\ h = [running |-> h.running, until |-> h.until, soonest |-> h.soonest]
          /\ h.running \subseteq Networks /\ h.soonest \subseteq Entries
        BY <1>1 DEF GateOK, Gates
    <2>2. gate' = [running |-> h.running, until |-> kept, soonest |-> soonest]
        BY <1>2, <2>1 DEF Forgotten
    <2>3. rebuilt \subseteq left
        BY <1>3 DEF Finds
    <2>4. Finds(kept, rebuilt, now)
        <3> HIDE DEF kept
        <3> QED BY DEF Finds
    <2>5. soonest \subseteq left /\ Finds(kept, soonest, now)
        BY <1>3, <2>3, <2>4
    <2>6. IsFiniteSet(soonest) /\ soonest \subseteq Entries
        <3> HIDE DEF soonest
        <3> QED BY <1>3, <2>1, <2>5, FS_Subset
    <2> HIDE DEF kept, soonest
    <2> QED BY <1>3, <2>1, <2>2, <2>5, <2>6 DEF Gates
<1> HIDE DEF kept, left
<1>5. GateOK(gate', now)
    BY <1>1, <1>3, <1>4 DEF GateOK
<1>6. /\ \A m \in early : m \in DOMAIN h.until /\ m \notin DOMAIN kept /\ m \notin gate'.running
      /\ \A m \in DOMAIN h.until \ early : h.until[m] > now => m \in DOMAIN kept
    BY <1>1, <1>3, <1>4 DEF GateOK
<1> HIDE DEF early, lasting
<1>7. /\ account' \in AnyAccounts
      /\ \A m \in early : m \in Networks => account'[m].born = now /\ account'[m].counted = 0
      /\ n \notin early => /\ account'[n].born = account[n].born
                          /\ account'[n].counted = account[n].counted + held
      /\ \A m \in Networks : m \notin early /\ m # n => account'[m] = account[m]
    <2>1. /\ \A m \in Networks : account[m] \in [born : Nat, counted : Nat]
          /\ [account[n] EXCEPT !.counted = @ + held] \in [born : Nat, counted : Nat]
          /\ [account[n] EXCEPT !.counted = @ + held].born = account[n].born
          /\ [account[n] EXCEPT !.counted = @ + held].counted = account[n].counted + held
        BY DEF AnyAccounts
    <2>2. NewAccount(now) = [born |-> now, counted |-> 0]
        BY DEF NewAccount
    <2> QED BY <1>2, <2>1, <2>2 DEF AnyAccounts
<1>8. \A m \in gate'.running : account'[m] = account[m]
    <2>1. gate'.running \subseteq Networks /\ n \notin gate'.running
        BY <1>1, <1>4 DEF Gates
    <2> QED BY <1>6, <1>7, <2>1
<1>9. ASSUME Factor > 0, NEW m \in Networks
      PROVE  ShareOf(account', gate'.until, now, m)
    <2>1. /\ account[m].born \in Nat /\ account[m].counted \in Nat /\ Factor \in Nat
          /\ \A k \in DOMAIN h.until : h.until[k] \in Nat
        <3>1. h.until \in Untils
            BY <1>1 DEF GateOK, Gates
        <3>2. \A k \in DOMAIN h.until : h.until[k] \in Nat
            BY <3>1 DEF Untils
        <3> QED BY <3>2, ComparisonConstants DEF AnyAccounts
    <2>2. CASE m \in early
        <3>1. account'[m].born = now /\ account'[m].counted = 0 /\ m \notin DOMAIN gate'.until
            BY <1>4, <1>6, <1>7, <2>2
        <3> QED BY <2>1, <3>1 DEF ShareOf
    <2>3. CASE m = n /\ m \notin early
        <3>1. /\ account'[n].born = account[n].born
              /\ account'[n].counted = account[n].counted + held
            BY <1>7, <2>3
        <3>2. CASE used > 0
            <4>1. n \in DOMAIN kept /\ kept[n] = now + Factor * used /\ kept[n] > now
                BY <1>1, <1>3, <1>6, <1>9, <2>3, <3>2
            <4>2. (1 + Factor) * (account[n].counted + held)
                    <= (base + held + Factor * used) - account[n].born
                BY <1>9, <2>1, <2>3, PauseEarnsShare
            <4>3. (1 + Factor) * account'[n].counted <= kept[n] - account'[n].born
                <5> DEFINE due == (1 + Factor) * (account[n].counted + held)
                           end == base + held + Factor * used
                <5>1. due <= end - account[n].born
                    BY <4>2
                <5>2. kept[n] = end
                    BY <4>1
                <5>3. due = (1 + Factor) * account'[n].counted
                    BY <3>1, Zenon
                <5> HIDE DEF due, end
                <5> QED BY <3>1, <5>1, <5>2, <5>3, Zenon
            <4> QED BY <1>4, <2>3, <4>1, <4>3 DEF ShareOf, Later
        <3>3. CASE ~(used > 0)
            <4>1. held = 0 /\ base = now
                BY <3>3
            <4>2. n \notin DOMAIN kept
                BY <1>1, <1>3, <1>9, <3>3
            <4> QED BY <1>4, <1>9, <2>1, <2>3, <3>1, <4>1, <4>2 DEF ShareOf
        <3> QED BY <3>2, <3>3
    <2>4. CASE m # n /\ m \notin early
        <3>1. account'[m] = account[m] /\ ShareOf(account, g.until, now, m)
            BY <1>7, <1>9, <2>4
        <3>2. m \in DOMAIN g.until <=> m \in DOMAIN h.until
            BY <1>1, <2>4
        <3>3. m \in DOMAIN h.until => h.until[m] = g.until[m] /\ (h.until[m] > now => m \in DOMAIN kept)
            BY <1>1, <1>6, <2>4, <3>2
        <3>4. m \in DOMAIN kept => m \in DOMAIN h.until /\ kept[m] = h.until[m]
            BY <1>3
        <3>5. (1 + Factor) * account[m].counted \in Nat
            BY <2>1
        <3> DEFINE used_ == (1 + Factor) * account[m].counted
        <3> HIDE DEF used_
        <3>6. used_ <= (IF m \in DOMAIN g.until THEN Later(now, g.until[m]) ELSE now) - account[m].born
            BY <3>1 DEF ShareOf, used_
        <3>7. used_ <= (IF m \in DOMAIN kept THEN Later(now, kept[m]) ELSE now) - account[m].born
            <4>1. CASE m \in DOMAIN kept
                BY <3>2, <3>3, <3>4, <3>6, <4>1
            <4>2. CASE m \notin DOMAIN kept /\ m \in DOMAIN h.until
                <5>1. ~(h.until[m] > now) /\ g.until[m] = h.until[m] /\ h.until[m] \in Nat
                    BY <2>1, <3>3, <4>2
                <5>2. Later(now, g.until[m]) = now
                    BY <5>1 DEF Later
                <5> QED BY <3>2, <3>6, <4>2, <5>2
            <4>3. CASE m \notin DOMAIN h.until
                BY <3>2, <3>4, <3>6, <4>3
            <4> QED BY <4>1, <4>2, <4>3
        <3> QED BY <1>4, <3>1, <3>7 DEF ShareOf, used_
    <2> QED BY <2>2, <2>3, <2>4
<1>10. \A m \in DOMAIN g.until \ DOMAIN gate'.until, k \in DOMAIN gate'.until :
          g.until[m] > now => gate'.until[k] >= g.until[m]
    BY <1>1, <1>3, <1>4
<1>11. \A m \in Networks : account'[m].born \in {now, account[m].born}
    BY <1>7
<1> QED BY <1>1, <1>3, <1>4, <1>5, <1>7, <1>8, <1>9, <1>10, <1>11

----------------------------------------------------------------------------
(* The inductive invariant.                                                 *)

Entering(r) == pc[r] \in {"reading", "comparing"}

VariablesOK ==
    /\ clock \in 0..MaxClock /\ free \in Nat
    /\ pc \in [Requests -> {"idle"} \cup Busy]
    /\ network \in [Requests -> Networks \cup {None}]
    /\ started \in [Requests -> 0..MaxClock] /\ upload \in [Requests -> 0..MaxClock]
    /\ account \in AnyAccounts /\ \A n \in Networks : account[n].born <= clock

HoldersOK ==
    \A r \in Requests : pc[r] # "idle" =>
        network[r] \in Networks /\ started[r] <= clock /\ upload[r] <= clock - started[r]

(* The networks marked are those with a comparison not done, one each.      *)
RunningOK ==
    Factor > 0 =>
        /\ \A r \in Requests : Entering(r) => network[r] \in gate.running
        /\ \A r, s \in Requests : Entering(r) /\ Entering(s) /\ network[r] = network[s] => r = s
        /\ \A n \in gate.running : \E r \in Requests : Entering(r) /\ network[r] = n

(* A network's share was kept when its comparison began, and is now, its    *)
(* pause counted whole.                                                     *)
SharesOK ==
    Factor > 0 =>
        /\ \A n \in Networks : ShareOf(account, gate.until, clock, n)
        /\ \A r \in Requests : Entering(r) =>
              (1 + Factor) * account[network[r]].counted <= started[r] - account[network[r]].born

IInv ==
    /\ VariablesOK /\ HoldersOK /\ SlotsComeBack
    /\ GateOK(gate, clock) /\ PausesBounded
    /\ RunningOK /\ SharesOK

(* A weighted upload counts at least the ticks it took.                     *)
LEMMA WeightedIsMore ==
    ASSUME NEW W \in Nat \ {0}, NEW s \in Nat
    PROVE  W * s \in Nat /\ s <= W * s
<1>1. PICK w \in Nat : W = 1 + w
    <2>1. W - 1 \in Nat /\ W = 1 + (W - 1)
        OBVIOUS
    <2> QED BY <2>1
<1>2. W * s = s + w * s /\ w * s \in Nat
    BY <1>1
<1> QED BY <1>2

(* A network the gate lets in has kept its share up to now.                 *)
LEMMA EntersWithinShare ==
    ASSUME IInv, Factor > 0, NEW n \in Networks, MayEnter(n)
    PROVE  (1 + Factor) * account[n].counted <= clock - account[n].born
<1>1. ShareOf(account, gate.until, clock, n)
    BY DEF IInv, SharesOK
<1>2. n \in DOMAIN gate.until => gate.until[n] <= clock /\ gate.until[n] \in Nat
    <2>1. n \in Paused => gate.until[n] <= clock
        BY ComparisonConstants DEF MayEnter
    <2>2. gate.until \in Untils
        BY DEF IInv, GateOK, Gates
    <2> QED BY <2>1, <2>2 DEF Paused, Untils
<1>3. clock \in Nat
    BY ComparisonConstants DEF IInv, VariablesOK
<1>4. (IF n \in DOMAIN gate.until THEN Later(clock, gate.until[n]) ELSE clock) = clock
    BY <1>2, <1>3 DEF Later
<1> QED BY <1>1, <1>4 DEF ShareOf

(* What the end of a comparison's work does, however it ends.               *)
LEMMA WorkEnds ==
    ASSUME IInv, NEW r \in Requests, Entering(r),
           Leave(gate, network[r], Used(r), Held(r))
    PROVE  /\ GateOK(gate', clock) /\ gate'.running = gate.running \ {network[r]}
           /\ Cardinality(DOMAIN gate'.until) <= MaxNetworks
           /\ \A m \in DOMAIN gate.until \ DOMAIN gate'.until, k \in DOMAIN gate'.until :
                 gate.until[m] > clock => gate'.until[k] >= gate.until[m]
           /\ account' \in AnyAccounts
           /\ \A m \in Networks : account'[m].born \in {clock, account[m].born}
           /\ \A m \in gate'.running : account'[m] = account[m]
           /\ Factor > 0 => \A m \in Networks : ShareOf(account', gate'.until, clock, m)
<1> DEFINE n == network[r]
<1>1. clock \in Nat /\ started[r] \in Nat /\ upload[r] \in Nat
    BY ComparisonConstants DEF IInv, VariablesOK
<1>2. n \in Networks /\ started[r] <= clock /\ upload[r] <= clock - started[r]
    BY DEF IInv, HoldersOK, Entering
<1>3. Held(r) \in Nat /\ started[r] + Held(r) = clock
    BY <1>1, <1>2 DEF Held
<1>4. Used(r) \in Nat /\ Held(r) <= Used(r)
    <2> DEFINE sent == IF pc[r] = "reading" THEN Held(r) ELSE upload[r]
    <2>1. sent \in Nat /\ sent <= Held(r)
        BY <1>1, <1>2, <1>3 DEF Held
    <2>2. Used(r) = UploadWeight * sent + (Held(r) - sent)
        BY DEF Used
    <2> HIDE DEF sent
    <2>3. UploadWeight * sent \in Nat /\ sent <= UploadWeight * sent
        BY <2>1, WeightedIsMore, ComparisonConstants
    <2> QED BY <1>3, <2>1, <2>2, <2>3
<1>5. Factor > 0 => n \notin DOMAIN gate.until
    BY DEF IInv, RunningOK, GateOK
<1>6. Factor > 0 => (1 + Factor) * account[n].counted <= started[r] - account[n].born
    BY DEF IInv, SharesOK
<1>7. Factor > 0 => \A m \in Networks \ {n} : ShareOf(account, gate.until, clock, m)
    BY DEF IInv, SharesOK
<1>8. account \in AnyAccounts /\ GateOK(gate, clock)
    BY DEF IInv, VariablesOK
<1> HIDE DEF n
<1>9. Leave(gate, n, Used(r), Held(r))
    BY DEF n
<1> QED BY <1>1, <1>2, <1>3, <1>4, <1>5, <1>6, <1>7, <1>8, <1>9, LeaveFacts DEF n

(* Finitely many comparisons hold a slot.                                   *)
LEMMA HoldingIsFinite == IsFiniteSet(Holding) /\ Cardinality(Holding) \in Nat
<1>1. Holding \subseteq Requests
    BY DEF Holding
<1> QED BY <1>1, FS_Subset, FS_CardinalityType, ComparisonConstants

LEMMA Initially == Init => IInv
<1> SUFFICES ASSUME Init PROVE IInv
    OBVIOUS
<1> USE ComparisonConstants DEF Init
<1>1. VariablesOK
    <2>1. [n \in Networks |-> NewAccount(0)] \in AnyAccounts
        BY DEF NewAccount, AnyAccounts
    <2>2. \A n \in Networks : account[n].born <= clock
        BY DEF NewAccount
    <2> QED BY <2>1, <2>2 DEF VariablesOK
<1>2. HoldersOK
    BY DEF HoldersOK
<1>3. SlotsComeBack
    <2>1. Holding = {}
        BY DEF Holding, Busy
    <2> QED BY <2>1, FS_EmptySet DEF SlotsComeBack
<1>4. DOMAIN gate.until = {} /\ gate.running = {} /\ gate.soonest = {}
    OBVIOUS
<1>5. GateOK(gate, clock)
    <2>1. [n \in {} |-> 0] \in Untils
        <3>1. [n \in {} |-> 0] \in [{} -> Nat] /\ {} \in SUBSET Networks
            OBVIOUS
        <3> QED BY <3>1 DEF Untils
    <2>2. gate \in Gates
        BY <2>1 DEF Gates
    <2> QED BY <1>4, <2>2, FS_EmptySet DEF GateOK, Finds
<1>6. PausesBounded
    BY <1>4, FS_EmptySet DEF PausesBounded, Paused
<1>7. RunningOK
    BY <1>4 DEF RunningOK, Entering
<1>8. SharesOK
    <2>1. ASSUME NEW n \in Networks PROVE ShareOf(account, gate.until, clock, n)
        BY <1>4 DEF ShareOf, NewAccount
    <2> QED BY <2>1 DEF SharesOK, Entering
<1> QED BY <1>1, <1>2, <1>3, <1>5, <1>6, <1>7, <1>8 DEF IInv

(* What a request that takes, returns or keeps its slot does to the count.  *)
LEMMA SlotTaken ==
    ASSUME SlotsComeBack, NEW r \in Requests, free \in Nat, free > 0,
           pc \in [Requests -> {"idle"} \cup Busy], pc[r] = "idle",
           pc' = [pc EXCEPT ![r] = "reading"], free' = free - 1
    PROVE  SlotsComeBack' /\ free' \in Nat
<1>1. Holding' = Holding \cup {r} /\ r \notin Holding
    BY DEF Holding, Busy
<1>2. Cardinality(Holding') = Cardinality(Holding) + 1
    BY <1>1, HoldingIsFinite, FS_AddElement
<1> QED BY <1>2, HoldingIsFinite DEF SlotsComeBack

LEMMA SlotReturned ==
    ASSUME SlotsComeBack, NEW r \in Requests, free \in Nat,
           pc \in [Requests -> {"idle"} \cup Busy], pc[r] # "idle",
           pc' = [pc EXCEPT ![r] = "idle"], free' = free + 1
    PROVE  SlotsComeBack' /\ free' \in Nat
<1>1. Holding' = Holding \ {r} /\ r \in Holding
    BY DEF Holding, Busy
<1>2. Cardinality(Holding') = Cardinality(Holding) - 1
    BY <1>1, HoldingIsFinite, FS_RemoveElement
<1> QED BY <1>2, HoldingIsFinite DEF SlotsComeBack

LEMMA SlotKept ==
    ASSUME SlotsComeBack, NEW r \in Requests, NEW now, now \in Busy,
           pc \in [Requests -> {"idle"} \cup Busy], pc[r] # "idle",
           pc' = [pc EXCEPT ![r] = now], free' = free
    PROVE  SlotsComeBack'
<1>1. Holding' = Holding
    BY DEF Holding, Busy
<1> QED BY <1>1 DEF SlotsComeBack

(* Each action keeps the invariant.                                         *)
LEMMA BeginKeeps ==
    ASSUME IInv, NEW r \in Requests, NEW n \in Networks, Begin(r, n)
    PROVE  IInv'
<1> USE DEF Begin
<1>1. VariablesOK /\ HoldersOK /\ GateOK(gate, clock) /\ SlotsComeBack /\ PausesBounded
    BY DEF IInv
<1>2. clock \in Nat /\ Factor \in Nat
    BY <1>1, ComparisonConstants DEF VariablesOK
<1>3. SlotsComeBack' /\ free' \in Nat
    BY <1>1, SlotTaken DEF VariablesOK
<1>4. /\ GateOK(gate', clock)
      /\ Factor # 0 => /\ n \notin gate.running
                       /\ gate'.running = gate.running \cup {n}
                       /\ DOMAIN gate'.until = Paused \ {n}
      /\ \A m \in Paused \ {n} : m \in DOMAIN gate'.until /\ gate'.until[m] = gate.until[m]
      /\ Factor = 0 => gate' = gate
    <2> DEFINE g == Entered(n)
    <2>1. gate' = g
        OBVIOUS
    <2>2. /\ GateOK(g, clock)
          /\ Factor # 0 => /\ n \notin gate.running
                           /\ g.running = gate.running \cup {n}
                           /\ DOMAIN g.until = Paused \ {n}
          /\ \A m \in Paused \ {n} : m \in DOMAIN g.until /\ g.until[m] = gate.until[m]
          /\ Factor = 0 => g = gate
        BY <1>1, <1>2, EnteredFacts
    <2> HIDE DEF g
    <2> QED BY <2>1, <2>2
<1>5. VariablesOK'
    BY <1>1, <1>3, ComparisonConstants DEF VariablesOK, Busy
<1>6. HoldersOK'
    BY <1>1, <1>2 DEF HoldersOK, VariablesOK
<1>7. PausesBounded'
    <2>1. CASE Factor = 0
        BY <1>1, <1>4, <2>1 DEF PausesBounded, Paused
    <2>2. CASE Factor # 0
        <3>1. IsFiniteSet(Paused)
            <4>1. Paused \subseteq Networks
                BY <1>1 DEF GateOK, Gates, Untils, Paused
            <4> QED BY <4>1, FS_Subset, ComparisonConstants
        <3>2. Cardinality(Paused \ {n}) <= Cardinality(Paused)
            BY <3>1, FS_Subset
        <3>3. Cardinality(Paused \ {n}) \in Nat /\ Cardinality(Paused) \in Nat
            BY <3>1, FS_Subset, FS_CardinalityType
        <3>4. Cardinality(Paused \ {n}) <= MaxNetworks
            BY <1>1, <3>2, <3>3, ComparisonConstants DEF PausesBounded
        <3>5. Paused' = Paused \ {n}
            BY <1>4, <2>2 DEF Paused
        <3> QED BY <3>4, <3>5 DEF PausesBounded
    <2> QED BY <2>1, <2>2
<1>8. RunningOK'
    <2> SUFFICES ASSUME Factor > 0 PROVE RunningOK'
        BY DEF RunningOK
    <2>1. /\ \A s \in Requests : Entering(s) => network[s] \in gate.running
          /\ \A s, t \in Requests : Entering(s) /\ Entering(t) /\ network[s] = network[t] => s = t
          /\ \A m \in gate.running : \E s \in Requests : Entering(s) /\ network[s] = m
        BY DEF IInv, RunningOK
    <2>2. n \notin gate.running /\ gate'.running = gate.running \cup {n}
        BY <1>2, <1>4
    <2>3. Entering(r)' /\ network'[r] = n
        BY <1>1 DEF Entering, VariablesOK
    <2>4. \A s \in Requests \ {r} : (Entering(s)' <=> Entering(s)) /\ network'[s] = network[s]
        BY <1>1 DEF Entering, VariablesOK
    <2>5. ~Entering(r)
        BY DEF Entering
    <2> QED BY <2>1, <2>2, <2>3, <2>4, <2>5 DEF RunningOK
<1>9. SharesOK'
    <2> SUFFICES ASSUME Factor > 0 PROVE SharesOK'
        BY DEF SharesOK
    <2>1. /\ \A m \in Networks : ShareOf(account, gate.until, clock, m)
          /\ \A s \in Requests : Entering(s) =>
                (1 + Factor) * account[network[s]].counted <= started[s] - account[network[s]].born
        BY DEF IInv, SharesOK
    <2>2. (1 + Factor) * account[n].counted <= clock - account[n].born
        BY EntersWithinShare
    <2>3. DOMAIN gate'.until = DOMAIN gate.until \ {n}
        BY <1>2, <1>4 DEF Paused
    <2>4. \A m \in DOMAIN gate.until \ {n} : gate'.until[m] = gate.until[m]
        BY <1>4 DEF Paused
    <2>5. ASSUME NEW m \in Networks PROVE ShareOf(account', gate'.until, clock', m)
        <3>1. CASE m = n
            BY <2>2, <2>3, <3>1 DEF ShareOf
        <3>2. CASE m # n
            BY <2>1, <2>3, <2>4, <3>2 DEF ShareOf
        <3> QED BY <3>1, <3>2
    <2>6. ASSUME NEW s \in Requests, Entering(s)'
          PROVE  (1 + Factor) * account'[network'[s]].counted
                    <= started'[s] - account'[network'[s]].born
        <3>1. CASE s = r
            <4>1. network'[s] = n /\ started'[s] = clock /\ account' = account
                BY <1>1, <3>1 DEF VariablesOK
            <4> QED BY <2>2, <4>1
        <3>2. CASE s # r
            <4>1. /\ network'[s] = network[s] /\ started'[s] = started[s] /\ account' = account
                  /\ Entering(s)
                BY <1>1, <2>6, <3>2 DEF VariablesOK, Entering
            <4> QED BY <2>1, <4>1
        <3> QED BY <3>1, <3>2
    <2> QED BY <2>5, <2>6 DEF SharesOK
<1>10. clock' = clock
    OBVIOUS
<1> QED BY <1>3, <1>4, <1>5, <1>6, <1>7, <1>8, <1>9, <1>10 DEF IInv

(* A refused network leaves with nothing used: what it finds is put back.   *)
LEMMA NoSlotFacts ==
    ASSUME IInv, NEW r \in Requests, NEW n \in Networks, NoSlot(r, n)
    PROVE  /\ GateOK(gate', clock)
           /\ Factor > 0 => gate'.running = gate.running
           /\ Cardinality(DOMAIN gate'.until) <= MaxNetworks
           /\ \A m \in Paused \ DOMAIN gate'.until, k \in DOMAIN gate'.until :
                 gate.until[m] > clock => gate'.until[k] >= gate.until[m]
           /\ account' \in AnyAccounts
           /\ \A m \in Networks : account'[m].born \in {clock, account[m].born}
           /\ \A m \in gate'.running : account'[m] = account[m]
           /\ Factor > 0 => \A m \in Networks : ShareOf(account', gate'.until, clock, m)
<1> DEFINE g == Entered(n)
<1>1. /\ clock \in Nat /\ Factor \in Nat /\ account \in AnyAccounts /\ MayEnter(n)
      /\ GateOK(gate, clock)
    BY ComparisonConstants DEF IInv, VariablesOK, NoSlot
<1>2. /\ GateOK(g, clock)
      /\ Factor # 0 => /\ n \notin gate.running
                       /\ g.running = gate.running \cup {n}
                       /\ DOMAIN g.until = Paused \ {n}
      /\ \A m \in Paused \ {n} : m \in DOMAIN g.until /\ g.until[m] = gate.until[m]
      /\ Factor = 0 => g = gate
    BY <1>1, EnteredFacts
<1>3. Leave(g, n, 0, 0)
    BY DEF NoSlot
<1> HIDE DEF g
<1>4. Factor > 0 => n \notin DOMAIN g.until
    BY <1>1, <1>2
<1>5. Factor > 0 => (1 + Factor) * account[n].counted <= clock - account[n].born
    BY <1>1, EntersWithinShare
<1>6. ASSUME Factor > 0, NEW m \in Networks \ {n} PROVE ShareOf(account, g.until, clock, m)
    <2>1. ShareOf(account, gate.until, clock, m)
        BY <1>6 DEF IInv, SharesOK
    <2>2. m \in DOMAIN g.until <=> m \in DOMAIN gate.until
        BY <1>1, <1>2, <1>6 DEF Paused
    <2>3. m \in DOMAIN gate.until => g.until[m] = gate.until[m]
        BY <1>2 DEF Paused
    <2> QED BY <2>1, <2>2, <2>3 DEF ShareOf
<1>7. /\ GateOK(gate', clock) /\ gate'.running = g.running \ {n}
      /\ Cardinality(DOMAIN gate'.until) <= MaxNetworks
      /\ \A m \in DOMAIN g.until \ DOMAIN gate'.until, k \in DOMAIN gate'.until :
            g.until[m] > clock => gate'.until[k] >= g.until[m]
      /\ account' \in AnyAccounts
      /\ \A m \in Networks : account'[m].born \in {clock, account[m].born}
      /\ \A m \in gate'.running : account'[m] = account[m]
      /\ Factor > 0 => \A m \in Networks : ShareOf(account', gate'.until, clock, m)
    <2>1. clock + 0 = clock /\ 0 \in Nat /\ 0 <= 0
        BY <1>1
    <2> QED BY <1>1, <1>2, <1>3, <1>4, <1>5, <1>6, <2>1, LeaveFacts
<1>8. Factor > 0 => gate'.running = gate.running
    BY <1>1, <1>2, <1>7
<1>9. ASSUME NEW m \in Paused \ DOMAIN gate'.until, NEW k \in DOMAIN gate'.until,
             gate.until[m] > clock
      PROVE  gate'.until[k] >= gate.until[m]
    <2>1. m \in DOMAIN g.until /\ g.until[m] = gate.until[m]
        <3>1. CASE Factor = 0
            BY <1>2, <3>1 DEF Paused
        <3>2. CASE Factor # 0
            <4>1. n \in Paused => gate.until[n] <= clock
                BY <1>1, <3>2 DEF MayEnter
            <4>2. \A i \in Paused : gate.until[i] \in Nat
                BY <1>1 DEF GateOK, Gates, Untils, Paused
            <4>3. m # n
                BY <1>1, <1>9, <4>1, <4>2
            <4> QED BY <1>2, <4>3
        <3> QED BY <3>1, <3>2
    <2> QED BY <1>7, <1>9, <2>1
<1> QED BY <1>7, <1>8, <1>9

LEMMA NoSlotKeeps ==
    ASSUME IInv, NEW r \in Requests, NEW n \in Networks, NoSlot(r, n)
    PROVE  IInv'
<1>1. /\ GateOK(gate', clock)
      /\ Factor > 0 => gate'.running = gate.running
      /\ Cardinality(DOMAIN gate'.until) <= MaxNetworks
      /\ account' \in AnyAccounts
      /\ \A m \in Networks : account'[m].born \in {clock, account[m].born}
      /\ \A m \in gate'.running : account'[m] = account[m]
      /\ Factor > 0 => \A m \in Networks : ShareOf(account', gate'.until, clock, m)
    BY NoSlotFacts
<1>2. UNCHANGED <<clock, free, pc, network, started, upload>>
    BY DEF NoSlot, reqVars
<1>3. VariablesOK /\ HoldersOK /\ SlotsComeBack /\ RunningOK /\ SharesOK
    BY DEF IInv
<1>4. VariablesOK'
    <2>1. clock \in Nat
        BY <1>3, ComparisonConstants DEF VariablesOK
    <2> QED BY <1>1, <1>2, <1>3, <2>1 DEF VariablesOK
<1>5. HoldersOK' /\ SlotsComeBack'
    BY <1>2, <1>3 DEF HoldersOK, SlotsComeBack, Holding
<1>6. PausesBounded' /\ GateOK(gate', clock')
    BY <1>1, <1>2 DEF PausesBounded, Paused
<1>7. RunningOK'
    BY <1>1, <1>2, <1>3 DEF RunningOK, Entering
<1>8. SharesOK'
    <2> SUFFICES ASSUME Factor > 0 PROVE SharesOK'
        BY DEF SharesOK
    <2>1. \A m \in Networks : ShareOf(account', gate'.until, clock', m)
        BY <1>1, <1>2
    <2>2. ASSUME NEW s \in Requests, Entering(s)'
          PROVE  (1 + Factor) * account'[network'[s]].counted
                    <= started'[s] - account'[network'[s]].born
        <3>1. Entering(s) /\ network'[s] = network[s] /\ started'[s] = started[s]
            BY <1>2, <2>2 DEF Entering
        <3>2. account'[network[s]] = account[network[s]]
            BY <1>1, <1>3, <3>1 DEF RunningOK
        <3> QED BY <1>3, <3>1, <3>2 DEF SharesOK
    <2> QED BY <2>1, <2>2 DEF SharesOK
<1> QED BY <1>4, <1>5, <1>6, <1>7, <1>8 DEF IInv

LEMMA UploadedKeeps ==
    ASSUME IInv, NEW r \in Requests, Uploaded(r)
    PROVE  IInv'
<1> USE DEF Uploaded
<1>1. /\ VariablesOK /\ HoldersOK /\ GateOK(gate, clock) /\ SlotsComeBack /\ PausesBounded
      /\ RunningOK /\ SharesOK
    BY DEF IInv
<1>2. /\ clock \in Nat /\ started[r] \in Nat /\ started[r] <= clock /\ clock <= MaxClock
      /\ UNCHANGED <<clock, gate, free, network, started, account>>
    BY <1>1, ComparisonConstants DEF VariablesOK, HoldersOK
<1>3. Held(r) \in 0..MaxClock /\ Held(r) <= clock - started[r]
    BY <1>2, ComparisonConstants DEF Held
<1>4. VariablesOK'
    BY <1>1, <1>2, <1>3 DEF VariablesOK, Busy
<1>5. HoldersOK'
    BY <1>1, <1>2, <1>3 DEF HoldersOK, VariablesOK
<1>6. SlotsComeBack'
    BY <1>1, SlotKept DEF VariablesOK, Busy
<1>7. GateOK(gate', clock') /\ PausesBounded'
    BY <1>1, <1>2 DEF PausesBounded, Paused
<1>8. \A s \in Requests : Entering(s)' <=> Entering(s)
    BY <1>1 DEF Entering, VariablesOK
<1>9. RunningOK'
    BY <1>1, <1>2, <1>8 DEF RunningOK
<1>10. SharesOK'
    BY <1>1, <1>2, <1>8 DEF SharesOK
<1> QED BY <1>4, <1>5, <1>6, <1>7, <1>9, <1>10 DEF IInv

(* The work of a comparison ends: its network leaves.                       *)
LEMMA WorkEndsKeeps ==
    ASSUME IInv, NEW r \in Requests, Entering(r),
           Leave(gate, network[r], Used(r), Held(r)), UNCHANGED clock,
           VariablesOK', HoldersOK', SlotsComeBack',
           ~Entering(r)',
           \A s \in Requests \ {r} : /\ Entering(s)' <=> Entering(s)
                                     /\ network'[s] = network[s] /\ started'[s] = started[s]
    PROVE  IInv'
<1>1. /\ GateOK(gate', clock) /\ gate'.running = gate.running \ {network[r]}
      /\ Cardinality(DOMAIN gate'.until) <= MaxNetworks
      /\ \A m \in gate'.running : account'[m] = account[m]
      /\ Factor > 0 => \A m \in Networks : ShareOf(account', gate'.until, clock, m)
    BY WorkEnds
<1>2. GateOK(gate', clock') /\ PausesBounded'
    BY <1>1 DEF PausesBounded, Paused
<1>3. RunningOK'
    BY <1>1 DEF RunningOK, IInv
<1>4. SharesOK'
    <2> SUFFICES ASSUME Factor > 0 PROVE SharesOK'
        BY DEF SharesOK
    <2>1. \A m \in Networks : ShareOf(account', gate'.until, clock', m)
        BY <1>1
    <2>2. ASSUME NEW s \in Requests, Entering(s)'
          PROVE  (1 + Factor) * account'[network'[s]].counted
                    <= started'[s] - account'[network'[s]].born
        <3>1. s # r /\ Entering(s) /\ network'[s] = network[s] /\ started'[s] = started[s]
            BY <2>2
        <3>2. network[s] \in gate'.running
            BY <1>1, <3>1 DEF IInv, RunningOK
        <3>3. account'[network[s]] = account[network[s]]
            BY <1>1, <3>2
        <3> QED BY <3>1, <3>3 DEF IInv, SharesOK
    <2> QED BY <2>1, <2>2 DEF SharesOK
<1> QED BY <1>2, <1>3, <1>4 DEF IInv

LEMMA ComparedKeeps ==
    ASSUME IInv, NEW r \in Requests, Compared(r)
    PROVE  IInv'
<1> USE DEF Compared
<1>1. VariablesOK /\ HoldersOK /\ SlotsComeBack
    BY DEF IInv
<1>2. /\ account' \in AnyAccounts
      /\ \A m \in Networks : account'[m].born \in {clock, account[m].born}
    BY WorkEnds DEF Entering
<1>3. VariablesOK'
    <2>1. clock \in Nat
        BY <1>1, ComparisonConstants DEF VariablesOK
    <2> QED BY <1>1, <1>2, <2>1 DEF VariablesOK, Busy
<1>4. HoldersOK'
    BY <1>1 DEF HoldersOK, VariablesOK
<1>5. SlotsComeBack'
    BY <1>1, SlotKept DEF VariablesOK, Busy
<1>6. /\ ~Entering(r)'
      /\ \A s \in Requests \ {r} : /\ Entering(s)' <=> Entering(s)
                                   /\ network'[s] = network[s] /\ started'[s] = started[s]
    BY <1>1 DEF Entering, VariablesOK
<1>7. Entering(r) /\ Leave(gate, network[r], Used(r), Held(r)) /\ UNCHANGED clock
    BY DEF Entering
<1> QED BY <1>3, <1>4, <1>5, <1>6, <1>7, WorkEndsKeeps

(* What releasing a slot does to the variables it changes.                  *)
LEMMA ReleaseFacts ==
    ASSUME VariablesOK, HoldersOK, SlotsComeBack, NEW r \in Requests, pc[r] # "idle", Release(r),
           account' \in AnyAccounts,
           \A m \in Networks : account'[m].born \in {clock, account[m].born}
    PROVE  /\ VariablesOK' /\ HoldersOK' /\ SlotsComeBack'
           /\ ~Entering(r)'
           /\ \A s \in Requests \ {r} : /\ Entering(s)' <=> Entering(s)
                                        /\ network'[s] = network[s] /\ started'[s] = started[s]
<1> USE DEF Release
<1>1. SlotsComeBack' /\ free' \in Nat
    BY SlotReturned DEF VariablesOK
<1>2. VariablesOK'
    <2>1. clock \in Nat /\ 0 \in 0..MaxClock
        BY ComparisonConstants DEF VariablesOK
    <2> QED BY <1>1, <2>1 DEF VariablesOK
<1>3. HoldersOK'
    BY DEF HoldersOK, VariablesOK
<1> QED BY <1>1, <1>2, <1>3 DEF Entering, VariablesOK

LEMMA FailKeeps ==
    ASSUME IInv, NEW r \in Requests, Fail(r)
    PROVE  IInv'
<1>1. Entering(r) /\ Leave(gate, network[r], Used(r), Held(r)) /\ Release(r)
    BY DEF Fail, Entering
<1>2. /\ account' \in AnyAccounts
      /\ \A m \in Networks : account'[m].born \in {clock, account[m].born}
    BY <1>1, WorkEnds
<1>3. VariablesOK /\ HoldersOK /\ SlotsComeBack /\ pc[r] # "idle"
    BY <1>1 DEF IInv, Entering
<1>4. UNCHANGED clock
    BY <1>1 DEF Release
<1>5. /\ VariablesOK' /\ HoldersOK' /\ SlotsComeBack'
      /\ ~Entering(r)'
      /\ \A s \in Requests \ {r} : /\ Entering(s)' <=> Entering(s)
                                   /\ network'[s] = network[s] /\ started'[s] = started[s]
    BY <1>1, <1>2, <1>3, ReleaseFacts
<1> QED BY <1>1, <1>4, <1>5, WorkEndsKeeps

LEMMA EncodedKeeps ==
    ASSUME IInv, NEW r \in Requests, Encoded(r)
    PROVE  IInv'
<1>1. Release(r) /\ ~Entering(r) /\ UNCHANGED <<clock, gate, account>>
    BY DEF Encoded, Entering, Release
<1>2. VariablesOK /\ HoldersOK /\ SlotsComeBack /\ pc[r] # "idle"
    BY DEF IInv, Encoded
<1>3. /\ account' \in AnyAccounts
      /\ \A m \in Networks : account'[m].born \in {clock, account[m].born}
    BY <1>1, <1>2 DEF VariablesOK
<1>4. /\ VariablesOK' /\ HoldersOK' /\ SlotsComeBack'
      /\ ~Entering(r)'
      /\ \A s \in Requests \ {r} : /\ Entering(s)' <=> Entering(s)
                                   /\ network'[s] = network[s] /\ started'[s] = started[s]
    BY <1>1, <1>2, <1>3, ReleaseFacts
<1>5. GateOK(gate', clock') /\ PausesBounded'
    BY <1>1 DEF IInv, PausesBounded, Paused
<1>6. RunningOK'
    BY <1>1, <1>4 DEF IInv, RunningOK
<1>7. SharesOK'
    <2> SUFFICES ASSUME Factor > 0 PROVE SharesOK'
        BY DEF SharesOK
    <2>1. \A n \in Networks : ShareOf(account', gate'.until, clock', n)
        BY <1>1 DEF IInv, SharesOK
    <2>2. ASSUME NEW s \in Requests, Entering(s)'
          PROVE  (1 + Factor) * account'[network'[s]].counted
                    <= started'[s] - account'[network'[s]].born
        <3>1. s # r /\ Entering(s) /\ network'[s] = network[s] /\ started'[s] = started[s]
            BY <1>4, <2>2
        <3> QED BY <1>1, <3>1 DEF IInv, SharesOK
    <2> QED BY <2>1, <2>2 DEF SharesOK
<1> QED BY <1>4, <1>5, <1>6, <1>7 DEF IInv

(* Time only passes: what was over is over, and shares only sink.           *)
LEMMA TickKeeps ==
    ASSUME IInv, Tick
    PROVE  IInv'
<1>1. /\ clock < MaxClock /\ clock' = clock + 1
      /\ UNCHANGED <<gate, free, pc, network, started, upload, account>>
    BY DEF Tick, reqVars
<1>2. VariablesOK /\ HoldersOK /\ GateOK(gate, clock)
    BY DEF IInv
<1>3. clock \in Nat /\ clock' \in 0..MaxClock
    BY <1>1, <1>2, ComparisonConstants DEF VariablesOK
<1>4. VariablesOK'
    <2>1. \A n \in Networks : account[n].born \in Nat
        BY <1>2 DEF VariablesOK, AnyAccounts
    <2> QED BY <1>1, <1>2, <1>3, <2>1 DEF VariablesOK
<1>5. HoldersOK'
    <2>1. \A r \in Requests : started[r] \in Nat /\ upload[r] \in Nat
        BY <1>2, ComparisonConstants DEF VariablesOK
    <2> QED BY <1>1, <1>2, <1>3, <2>1 DEF HoldersOK
<1>6. SlotsComeBack' /\ PausesBounded' /\ RunningOK'
    BY <1>1 DEF IInv, SlotsComeBack, Holding, PausesBounded, Paused, RunningOK, Entering
<1>7. GateOK(gate', clock')
    <2>1. \A e \in gate.soonest : e[1] \in Nat
        BY <1>2 DEF GateOK, Gates, Entries
    <2>2. Finds(gate.until, gate.soonest, clock')
        BY <1>1, <1>2, <1>3, <2>1 DEF GateOK, Finds
    <2> QED BY <1>1, <1>2, <2>2 DEF GateOK
<1>8. SharesOK'
    <2> SUFFICES ASSUME Factor > 0 PROVE SharesOK'
        BY DEF SharesOK
    <2>1. ASSUME NEW n \in Networks PROVE ShareOf(account', gate'.until, clock', n)
        <3> DEFINE due == (1 + Factor) * account[n].counted
                   born == account[n].born
                   end(t) == IF n \in DOMAIN gate.until THEN Later(t, gate.until[n]) ELSE t
        <3>1. due <= end(clock) - born
            BY DEF IInv, SharesOK, ShareOf
        <3>2. due \in Nat /\ born \in Nat
            BY <1>2, ComparisonConstants DEF VariablesOK, AnyAccounts
        <3>3. n \in DOMAIN gate.until => gate.until[n] \in Nat
            BY <1>2 DEF GateOK, Gates, Untils
        <3>4. end(clock) \in Nat /\ end(clock') \in Nat /\ end(clock) <= end(clock')
            BY <1>1, <1>3, <3>3 DEF Later
        <3>5. ShareOf(account', gate'.until, clock', n) <=> due <= end(clock') - born
            BY <1>1 DEF ShareOf
        <3> HIDE DEF due, born, end
        <3> QED BY <3>1, <3>2, <3>4, <3>5
    <2>2. \A r \in Requests : Entering(r)' =>
              (1 + Factor) * account'[network'[r]].counted
                    <= started'[r] - account'[network'[r]].born
        BY <1>1 DEF IInv, SharesOK, Entering
    <2> QED BY <2>1, <2>2 DEF SharesOK
<1> QED BY <1>4, <1>5, <1>6, <1>7, <1>8 DEF IInv

LEMMA StutterKeeps ==
    ASSUME IInv, UNCHANGED vars
    PROVE  IInv'
<1>1. UNCHANGED <<clock, gate, free, pc, network, started, upload, account>>
    BY DEF vars, reqVars
<1>2. VariablesOK' /\ HoldersOK'
    BY <1>1 DEF IInv, VariablesOK, HoldersOK
<1>3. SlotsComeBack' /\ PausesBounded' /\ GateOK(gate', clock')
    BY <1>1 DEF IInv, SlotsComeBack, Holding, PausesBounded, Paused
<1>4. RunningOK' /\ SharesOK'
    BY <1>1 DEF IInv, RunningOK, SharesOK, Entering
<1> QED BY <1>2, <1>3, <1>4 DEF IInv

LEMMA Steps == IInv /\ [Next]_vars => IInv'
<1> SUFFICES ASSUME IInv, [Next]_vars PROVE IInv'
    OBVIOUS
<1>1. ASSUME NEW r \in Requests, NEW n \in Networks, Begin(r, n) PROVE IInv'
    BY <1>1, BeginKeeps
<1>2. ASSUME NEW r \in Requests, NEW n \in Networks, NoSlot(r, n) PROVE IInv'
    BY <1>2, NoSlotKeeps
<1>3. ASSUME NEW r \in Requests, Uploaded(r) PROVE IInv'
    BY <1>3, UploadedKeeps
<1>4. ASSUME NEW r \in Requests, Compared(r) PROVE IInv'
    BY <1>4, ComparedKeeps
<1>5. ASSUME NEW r \in Requests, Fail(r) PROVE IInv'
    BY <1>5, FailKeeps
<1>6. ASSUME NEW r \in Requests, Encoded(r) PROVE IInv'
    BY <1>6, EncodedKeeps
<1>7. CASE Tick
    BY <1>7, TickKeeps
<1>8. CASE UNCHANGED vars
    BY <1>8, StutterKeeps
<1> QED BY <1>1, <1>2, <1>3, <1>4, <1>5, <1>6, <1>7, <1>8 DEF Next

(* In every state reached, the invariant holds.                             *)
LEMMA Invariant == Spec => []IInv
BY Initially, Steps, PTL DEF Spec

----------------------------------------------------------------------------
(* The properties.                                                          *)

(* Every variable keeps its type: among others the semaphore is never      *)
(* released above the slots there are.                                      *)
THEOREM Typed == Spec => []TypeOK
<1>1. IInv => TypeOK
    <2> SUFFICES ASSUME IInv PROVE TypeOK
        OBVIOUS
    <2>1. VariablesOK /\ SlotsComeBack /\ GateOK(gate, clock)
        BY DEF IInv
    <2>2. free \in 0..Slots
        BY <2>1, HoldingIsFinite, ComparisonConstants DEF VariablesOK, SlotsComeBack
    <2>3. /\ gate.running \subseteq Networks
          /\ gate.until \in [Paused -> Nat] /\ Paused \subseteq Networks
          /\ gate.soonest \subseteq Nat \X Networks
        BY <2>1 DEF GateOK, Gates, Untils, Paused, Entries
    <2>4. account \in Accounts
        <3>1. ASSUME NEW n \in Networks
              PROVE  account[n] \in [born : 0..MaxClock, counted : Nat]
            <4>1. account[n] \in [born : Nat, counted : Nat] /\ account[n].born <= clock
                BY <2>1 DEF VariablesOK, AnyAccounts
            <4>2. account[n].born \in 0..MaxClock
                BY <2>1, <4>1, ComparisonConstants DEF VariablesOK
            <4> QED BY <4>1, <4>2
        <3> QED BY <2>1, <3>1 DEF VariablesOK, AnyAccounts, Accounts
    <2> QED BY <2>1, <2>2, <2>3, <2>4 DEF TypeOK, VariablesOK
<1> QED BY <1>1, Invariant, PTL

(* However a comparison ends, its slot comes back, once.                    *)
THEOREM SlotsReturn == Spec => []SlotsComeBack
<1>1. IInv => SlotsComeBack
    BY DEF IInv
<1> QED BY <1>1, Invariant, PTL

(* A network is marked as running one exactly when one of its comparisons  *)
(* has work to do, and never has two.                                       *)
THEOREM OneRuns == Spec => []RunningHasOne
<1>1. IInv => RunningHasOne
    <2> SUFFICES ASSUME IInv, Factor > 0, NEW n \in Networks
                 PROVE  Cardinality(Inside(n)) = IF n \in gate.running THEN 1 ELSE 0
        BY DEF RunningHasOne
    <2>1. Inside(n) = {r \in Requests : Entering(r) /\ network[r] = n}
        BY DEF Inside, Entering
    <2>2. CASE n \in gate.running
        <3>1. PICK r \in Requests : Entering(r) /\ network[r] = n
            BY <2>2 DEF IInv, RunningOK
        <3>2. Inside(n) = {r}
            BY <2>1, <3>1 DEF IInv, RunningOK
        <3> QED BY <2>2, <3>2, FS_Singleton
    <2>3. CASE n \notin gate.running
        <3>1. Inside(n) = {}
            BY <2>1, <2>3 DEF IInv, RunningOK
        <3> QED BY <2>3, <3>1, FS_EmptySet
    <2> QED BY <2>2, <2>3
<1> QED BY <1>1, Invariant, PTL

(* compare_records lets go of the slot and leaves the gate on every path.   *)
THEOREM EntriesReturn == Spec => []EntriesComeBack
BY SlotsReturn, OneRuns, PTL DEF EntriesComeBack

(* The heap finds every pause, and is right about those not over.           *)
THEOREM HeapFinds == Spec => []HeapFindsPauses
<1>1. IInv => HeapFindsPauses
    BY DEF IInv, GateOK, Finds, HeapFindsPauses, Paused
<1> QED BY <1>1, Invariant, PTL

(* At most max_networks pauses are remembered.                              *)
THEOREM PausesAreBounded == Spec => []PausesBounded
<1>1. IInv => PausesBounded
    BY DEF IInv
<1> QED BY <1>1, Invariant, PTL

(* A network's counted share of a slot is at most 1 / (1 + factor).         *)
THEOREM SharesAreBounded == Spec => []ShareBounded
<1>1. IInv => ShareBounded
    BY DEF IInv, SharesOK, ShareOf, ShareBounded, Paused
<1> QED BY <1>1, Invariant, PTL

(* Pauses are found, and bound each network's share.                        *)
THEOREM Shares == Spec => []SharesHold
BY HeapFinds, SharesAreBounded, PTL DEF SharesHold

(* A pause is forgotten early only for those that end no sooner.            *)
THEOREM SoonestAreForgotten == Spec => SoonestForgotten
<1> DEFINE Forgets ==
        \A n \in Paused \ DOMAIN gate'.until :
            gate.until[n] > clock => \A m \in DOMAIN gate'.until : gate'.until[m] >= gate.until[n]
<1>1. IInv /\ [Next]_vars => [Forgets]_vars
    <2> SUFFICES ASSUME IInv, Next PROVE Forgets
        OBVIOUS
    <2>1. ASSUME NEW r \in Requests, NEW n \in Networks, Begin(r, n) PROVE Forgets
        <3>1. GateOK(gate, clock) /\ clock \in Nat /\ Factor \in Nat /\ MayEnter(n)
            BY <2>1, ComparisonConstants DEF IInv, VariablesOK, Begin
        <3>2. gate' = Entered(n)
            BY <2>1 DEF Begin
        <3>3. /\ Factor = 0 => gate' = gate
              /\ \A m \in Paused \ {n} : m \in DOMAIN gate'.until
            BY <3>1, <3>2, EnteredFacts
        <3>4. Factor # 0 /\ n \in Paused => ~(gate.until[n] > clock)
            <4>1. \A i \in Paused : gate.until[i] \in Nat
                BY <3>1 DEF GateOK, Gates, Untils, Paused
            <4> QED BY <3>1, <4>1 DEF MayEnter
        <3> QED BY <3>3, <3>4 DEF Paused
    <2>2. ASSUME NEW r \in Requests, NEW n \in Networks, NoSlot(r, n) PROVE Forgets
        BY <2>2, NoSlotFacts
    <2>3. ASSUME NEW r \in Requests, Uploaded(r) \/ Encoded(r) PROVE Forgets
        BY <2>3 DEF Uploaded, Encoded, Paused
    <2>4. ASSUME NEW r \in Requests, Compared(r) \/ Fail(r) PROVE Forgets
        <3>1. Entering(r) /\ Leave(gate, network[r], Used(r), Held(r))
            BY <2>4 DEF Compared, Fail, Entering
        <3> QED BY <3>1, WorkEnds DEF Paused
    <2>5. CASE Tick
        BY <2>5 DEF Tick, Paused
    <2> QED BY <2>1, <2>2, <2>3, <2>4, <2>5 DEF Next
<1>2. Spec => [][Forgets]_vars
    BY <1>1, Invariant, PTL DEF Spec
<1> QED BY <1>2 DEF SoonestForgotten
=============================================================================
