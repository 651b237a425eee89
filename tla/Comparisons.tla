---------------------------- MODULE Comparisons ----------------------------
(***************************************************************************)
(* POST /compare's slots and cooldowns (api/compare.py::compare_records,   *)
(* Comparisons, Cooldowns), on an instance whose rate limit is on.         *)
(*                                                                         *)
(* A comparison enters its network's cooldown and takes a slot without     *)
(* waiting; it holds the slot while its file arrives, while a worker       *)
(* thread compares, and while another encodes the answer.  Its network's   *)
(* pause starts when the comparing ends, in proportion to the slot time    *)
(* used, the upload weighted.  The handlers share one event loop, so what  *)
(* a handler does between two awaits is one step.  Of the pauses held, at  *)
(* most max_networks are remembered, found through a heap whose stale      *)
(* entries are dropped when they surface.                                  *)
(***************************************************************************)
EXTENDS Naturals, FiniteSets

CONSTANTS
    Requests,       \* comparisons that may run at once
    Networks,       \* client networks, numbered in the order of their names
    None,           \* no network
    Slots,          \* comparison_slots
    Factor,         \* compare_cooldown_factor (0: no cooldown)
    UploadWeight,   \* compare_upload_weight
    UploadTicks,    \* compare_upload_seconds
    MaxNetworks,    \* max_clients, the pauses remembered
    HeapSlack,      \* stale entries the heap may hold before it is rebuilt
    MaxClock        \* bound: ticks in a behaviour

ASSUME ComparisonConstants ==
    /\ IsFiniteSet(Requests)
    /\ Networks \subseteq Nat /\ IsFiniteSet(Networks) /\ None \notin Networks
    /\ Slots \in Nat \ {0}
    /\ Factor \in Nat /\ UploadWeight \in Nat \ {0} /\ UploadTicks \in Nat
    /\ MaxNetworks \in Nat \ {0} /\ HeapSlack \in Nat /\ MaxClock \in Nat

VARIABLES
    clock,
    gate,       \* Cooldowns: [running, until, soonest], soonest the heap
    free,       \* the slots' semaphore
    pc,         \* where each comparison stands
    network,    \* its client's network
    started,    \* when it took its slot
    upload,     \* how long its file took to arrive
    account     \* history: what each network used since a pause of its was
                \* forgotten for the bound, at `born`: `counted` ticks of a slot

reqVars == <<pc, network, started, upload>>
vars == <<clock, gate, free, reqVars, account>>

NewAccount(now) == [born |-> now, counted |-> 0]

Init ==
    /\ clock = 0
    /\ gate = [running |-> {}, until |-> [n \in {} |-> 0], soonest |-> {}]
    /\ free = Slots
    /\ pc = [r \in Requests |-> "idle"]
    /\ network = [r \in Requests |-> None]
    /\ started = [r \in Requests |-> 0]
    /\ upload = [r \in Requests |-> 0]
    /\ account = [n \in Networks |-> NewAccount(0)]

----------------------------------------------------------------------------
(* The cooldowns.                                                          *)

Paused == DOMAIN gate.until

MayEnter(n) ==
    \/ Factor = 0
    \/ n \notin gate.running /\ (n \in Paused => gate.until[n] <= clock)

\* Cooldowns.enter, once it lets the network in.
Entered(n) ==
    IF Factor = 0 THEN gate
    ELSE [gate EXCEPT !.running = @ \cup {n},
                      !.until = [m \in Paused \ {n} |-> @[m]]]

(* Heap entries are <<free at, network>>.                                   *)

\* Mutant of Before: entries the other way around.
BeforeByName(a, b) == a[2] < b[2] \/ (a[2] = b[2] /\ a[1] < b[1])

Before(a, b) == a[1] < b[1] \/ (a[1] = b[1] /\ a[2] < b[2])

\* Mutant of Without: a stale entry takes its network's newer pause along.
WithoutByName(until, popped) ==
    [n \in {m \in DOMAIN until : \A e \in popped : e[2] # m} |-> until[n]]

\* What is left of the pauses `until` once the entries `popped` are: an entry
\* that says otherwise than `until` is stale.
Without(until, popped) ==
    [n \in {m \in DOMAIN until : <<until[m], m>> \notin popped} |-> until[n]]

\* Enough entries are popped: no pause over is left, nor too many pauses.
Popped(until, heap, left, now) ==
    \/ left = {}
    \/ /\ \A e \in left : e[1] > now
       /\ Cardinality(DOMAIN Without(until, heap \ left)) <= MaxNetworks

\* What may be left of a heap, popped in its order.
Tails(heap) == {t \in SUBSET heap : \A e \in heap \ t, f \in t : Before(e, f)}

\* The heap with its soonest entries popped, as few as the pauses over and the
\* bound on those remembered allow.
Left(until, heap, now) ==
    {e \in heap : \E t \in Tails(heap) : e \in t /\ Popped(until, heap, t, now)}

\* Forgetting, and the heap rebuilt when too many of its entries are stale.
Forgotten(g) ==
    LET left == Left(g.until, g.soonest, clock)
        until == Without(g.until, g.soonest \ left)
    IN [g EXCEPT
          !.until = until,
          !.soonest = IF Cardinality(left) > 2 * Cardinality(DOMAIN until) + HeapSlack
                      THEN {<<until[n], n>> : n \in DOMAIN until}
                      ELSE left]

\* The pause that `used` ticks of slot time earn, set and pushed.
Pause(g, n, used) ==
    LET until == clock + Factor * used IN
    [running |-> g.running \ {n},
     until |-> [m \in DOMAIN g.until \cup {n} |-> IF m = n THEN until ELSE g.until[m]],
     soonest |-> g.soonest \cup {<<until, n>>}]

Ended(g, n, used) ==
    IF Factor > 0 /\ used > 0 THEN Pause(g, n, used)
    ELSE [g EXCEPT !.running = @ \ {n}]

(* Cooldowns.leave, from cooldowns g, after `used` weighted ticks of which  *)
(* `held` were on the clock.                                                *)
Leave(g, n, used, held) ==
    LET ended == Ended(g, n, used)
        lasting == {m \in DOMAIN ended.until : ended.until[m] > clock}
        early == IF Cardinality(lasting) <= MaxNetworks THEN {}
                 ELSE lasting \ DOMAIN gate'.until
    IN /\ gate' = Forgotten(ended)
       /\ account' = [m \in Networks |->
                        IF m \in early THEN NewAccount(clock)
                        ELSE IF m = n THEN [account[m] EXCEPT !.counted = @ + held]
                        ELSE account[m]]

----------------------------------------------------------------------------
(* A comparison, one step per await.                                       *)

Busy == {"reading", "comparing", "encoding"}

\* Admitted, entered, and a slot taken without waiting.
Begin(r, n) ==
    /\ pc[r] = "idle"
    /\ MayEnter(n)
    /\ free > 0
    /\ gate' = Entered(n)
    /\ free' = free - 1
    /\ pc' = [pc EXCEPT ![r] = "reading"]
    /\ network' = [network EXCEPT ![r] = n]
    /\ started' = [started EXCEPT ![r] = clock]
    /\ upload' = [upload EXCEPT ![r] = 0]
    /\ UNCHANGED <<clock, account>>

\* Mutant of NoSlot: the refusal keeps the network entered.
NoSlotStillEntered(r, n) ==
    /\ pc[r] = "idle"
    /\ MayEnter(n)
    /\ free = 0
    /\ gate' = Entered(n)
    /\ UNCHANGED <<clock, free, reqVars, account>>

\* Entered, and every slot taken: 503, and the network leaves having used none.
NoSlot(r, n) ==
    /\ pc[r] = "idle"
    /\ MayEnter(n)
    /\ free = 0
    /\ Leave(Entered(n), n, 0, 0)
    /\ UNCHANGED <<clock, free, reqVars>>

Held(r) == clock - started[r]

Uploaded(r) ==
    /\ pc[r] = "reading"
    /\ Held(r) <= UploadTicks
    /\ pc' = [pc EXCEPT ![r] = "comparing"]
    /\ upload' = [upload EXCEPT ![r] = Held(r)]
    /\ UNCHANGED <<clock, gate, free, network, started, account>>

\* slot_seconds: an upload that failed is all of the hold.
Used(r) ==
    LET sent == IF pc[r] = "reading" THEN Held(r) ELSE upload[r]
    IN UploadWeight * sent + (Held(r) - sent)

\* The work is done: the pause starts, so that the answer can say how long it is.
Compared(r) ==
    /\ pc[r] = "comparing"
    /\ Leave(gate, network[r], Used(r), Held(r))
    /\ pc' = [pc EXCEPT ![r] = "encoding"]
    /\ UNCHANGED <<clock, free, network, started, upload>>

Release(r) ==
    /\ free' = free + 1
    /\ pc' = [pc EXCEPT ![r] = "idle"]
    /\ network' = [network EXCEPT ![r] = None]
    /\ started' = [started EXCEPT ![r] = 0]
    /\ upload' = [upload EXCEPT ![r] = 0]
    /\ UNCHANGED clock

\* The file is late, too large or its client gone; or the work is refused, past
\* its limit or fails: the slot is released and the network leaves.
Fail(r) ==
    /\ pc[r] \in {"reading", "comparing"}
    /\ Leave(gate, network[r], Used(r), Held(r))
    /\ Release(r)

\* The answer is encoded, or found too large: its network has left already.
Encoded(r) ==
    /\ pc[r] = "encoding"
    /\ Release(r)
    /\ UNCHANGED <<gate, account>>

Tick ==
    /\ clock < MaxClock
    /\ clock' = clock + 1
    /\ UNCHANGED <<gate, free, reqVars, account>>

Next ==
    \/ \E r \in Requests : \/ \E n \in Networks : Begin(r, n) \/ NoSlot(r, n)
                           \/ Uploaded(r) \/ Compared(r) \/ Fail(r) \/ Encoded(r)
    \/ Tick

Spec == Init /\ [][Next]_vars

----------------------------------------------------------------------------
(* Properties.                                                             *)

Accounts == [Networks -> [born : 0..MaxClock, counted : Nat]]

(* Every variable holds what the code can put in it; in particular the      *)
(* semaphore is never released more often than acquired.                    *)
TypeOK ==
    /\ clock \in 0..MaxClock
    /\ gate.running \subseteq Networks
    /\ gate.until \in [Paused -> Nat] /\ Paused \subseteq Networks
    /\ gate.soonest \subseteq Nat \X Networks
    /\ free \in 0..Slots
    /\ pc \in [Requests -> {"idle"} \cup Busy]
    /\ network \in [Requests -> Networks \cup {None}]
    /\ started \in [Requests -> 0..MaxClock] /\ upload \in [Requests -> 0..MaxClock]
    /\ account \in Accounts

Holding == {r \in Requests : pc[r] \in Busy}

Inside(n) == {r \in Requests : pc[r] \in {"reading", "comparing"} /\ network[r] = n}

(* However a comparison ends, its slot comes back, once: the slots free and *)
(* those held are all there are.                                            *)
SlotsComeBack == Cardinality(Holding) + free = Slots

(* "A client network ... runs one comparison at a time" (until its work is  *)
(* done), and a network is never left marked as running one when none of    *)
(* its requests is, which would refuse it comparisons for good.             *)
RunningHasOne ==
    Factor > 0 =>
        \A n \in Networks :
            Cardinality(Inside(n)) = IF n \in gate.running THEN 1 ELSE 0

(* On every path out of a comparison its slot and its network's entry go.   *)
EntriesComeBack == SlotsComeBack /\ RunningHasOne

(* The heap finds every pause, and an entry it still holds of a pause not   *)
(* over is that network's pause: so forgetting goes by the soonest one, and *)
(* the rebuilding of a heap of stale entries is never needed.               *)
HeapFindsPauses ==
    /\ \A n \in Paused : <<gate.until[n], n>> \in gate.soonest
    /\ \A e \in gate.soonest : e[1] > clock => e[2] \in Paused /\ gate.until[e[2]] = e[1]

(* "At most `max_networks` networks are remembered".                        *)
PausesBounded == Cardinality(Paused) <= MaxNetworks

Later(a, b) == IF a < b THEN b ELSE a

(* "A network's sustained share of a slot is at most 1 / (1 + factor),      *)
(* however many addresses it holds", of the slot time its comparisons       *)
(* counted when they left, since a pause of its was forgotten because too   *)
(* many others were remembered.                                             *)
ShareBounded ==
    Factor > 0 =>
        \A n \in Networks :
            (1 + Factor) * account[n].counted
                <= (IF n \in Paused THEN Later(clock, gate.until[n]) ELSE clock) - account[n].born

(* Pauses are found in their order, and no network has more than its share. *)
SharesHold == HeapFindsPauses /\ ShareBounded

(* A pause is forgotten early only for one that ends no sooner: "the one    *)
(* free soonest forgotten first".                                           *)
SoonestForgotten ==
    [][\A n \in Paused \ DOMAIN gate'.until :
          gate.until[n] > clock =>
              \A m \in DOMAIN gate'.until : gate'.until[m] >= gate.until[n]]_vars
=============================================================================
