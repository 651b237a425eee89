------------------------ MODULE PinnedIndexes_proofs ------------------------
(***************************************************************************)
(* Proofs about the locks of PinnedIndexes, for any number of threads,     *)
(* versions and lock objects: one open at a time, no lock held by a        *)
(* request that is over, and none left behind in `_opening`.               *)
(*                                                                         *)
(* A lock object dropped from `_opening` may still have waiters, so two    *)
(* locks of one version can be in use at once.  What holds all the same is *)
(* that a lock is only ever of one version, and that whoever drops out of  *)
(* the wait leaves the holder behind as the entry's owner.                 *)
(***************************************************************************)
EXTENDS PinnedIndexes, SequenceTheorems, TLAPS

(* What the operations of an OrderedDict preserve, for entries of any kind. *)

(* A key that is there is at its place.                                     *)
LEMMA PlaceFacts ==
  ASSUME NEW S, NEW d \in Seq(S), NEW k \in KeysOf(d)
  PROVE  PlaceOf(d, k) \in 1..Len(d) /\ d[PlaceOf(d, k)].key = k
BY DEF PlaceOf, KeysOf

(* del takes that key, no other, and keeps the others' order.               *)
LEMMA WithoutFacts ==
  ASSUME NEW S, NEW d \in Seq(S), IsOrderedDict(d), NEW k
  PROVE  /\ Without(d, k) \in Seq(S)
         /\ IsOrderedDict(Without(d, k))
         /\ KeysOf(Without(d, k)) = KeysOf(d) \ {k}
         /\ Len(Without(d, k)) = IF k \in KeysOf(d) THEN Len(d) - 1 ELSE Len(d)
<1>1. CASE k \notin KeysOf(d)
  BY <1>1 DEF Without
<1>2. CASE k \in KeysOf(d)
  <2> DEFINE p == PlaceOf(d, k)
             n == Len(d) - 1
             w == Without(d, k)
  <2>1. p \in 1..Len(d) /\ d[p].key = k
    BY <1>2, PlaceFacts
  <2>2. n \in Nat /\ w = [i \in 1..n |-> IF i < p THEN d[i] ELSE d[i + 1]]
    BY <1>2, <2>1, LenProperties DEF Without
  <2>3. \A i \in 1..n : w[i] = IF i < p THEN d[i] ELSE d[i + 1]
    BY <2>2
  <2>4. w \in Seq(S) /\ Len(w) = n /\ DOMAIN w = 1..n
    <3>1. w \in [1..n -> S]
      BY <2>1, <2>2
    <3> QED
      BY <2>2, <3>1, SeqDef
  <2> HIDE DEF p, n, w
  <2>5. DOMAIN d = 1..Len(d) /\ Len(d) = n + 1
    BY <2>1, <2>2 DEF n
  <2> DEFINE at(i) == IF i < p THEN i ELSE i + 1
  <2>0. /\ \A i \in 1..n : w[i] = d[at(i)] /\ at(i) \in 1..Len(d) /\ at(i) # p
        /\ \A i, j \in 1..n : at(i) = at(j) => i = j
    BY <2>1, <2>2, <2>3, <2>5
  <2> HIDE DEF at
  <2>6. IsOrderedDict(w)
    BY <2>0, <2>4, <2>5 DEF IsOrderedDict
  <2>7. KeysOf(w) \subseteq KeysOf(d) \ {k}
    <3>1. \A i \in 1..n : w[i].key \in KeysOf(d) /\ w[i].key # k
      BY <2>0, <2>1, <2>5 DEF KeysOf, IsOrderedDict
    <3> QED
      BY <2>4, <3>1 DEF KeysOf
  <2>8. KeysOf(d) \ {k} \subseteq KeysOf(w)
    <3>1. SUFFICES ASSUME NEW i \in 1..Len(d), i # p
                   PROVE  d[i].key \in KeysOf(w)
      BY <2>1, <2>5 DEF KeysOf
    <3>2. CASE i < p
      <4>1. i \in 1..n /\ w[i] = d[i]
        BY <2>1, <2>2, <2>3, <2>5, <3>2
      <4> QED
        BY <2>4, <4>1 DEF KeysOf
    <3>3. CASE i > p
      <4>1. i - 1 \in 1..n /\ w[i - 1] = d[i]
        BY <2>1, <2>2, <2>3, <2>5, <3>3
      <4> QED
        BY <2>4, <4>1 DEF KeysOf
    <3> QED
      BY <2>1, <3>1, <3>2, <3>3
  <2> QED
    BY <1>2, <2>4, <2>5, <2>6, <2>7, <2>8 DEF n, w
<1> QED
  BY <1>1, <1>2

(* Appending an entry whose key is not there adds that key.                 *)
LEMMA AppendFacts ==
  ASSUME NEW S, NEW d \in Seq(S), IsOrderedDict(d), NEW e \in S, e.key \notin KeysOf(d)
  PROVE  /\ Append(d, e) \in Seq(S)
         /\ IsOrderedDict(Append(d, e))
         /\ KeysOf(Append(d, e)) = KeysOf(d) \cup {e.key}
         /\ Len(Append(d, e)) = Len(d) + 1
<1> DEFINE a == Append(d, e)
           n == Len(d)
<1>1. /\ n \in Nat /\ DOMAIN d = 1..n
      /\ a \in Seq(S) /\ Len(a) = n + 1 /\ DOMAIN a = 1..(n + 1)
      /\ \A i \in 1..n : a[i] = d[i]
      /\ a[n + 1] = e
  OBVIOUS
<1> HIDE DEF a, n
<1>2. \A i \in 1..n : d[i].key # e.key
  BY <1>1 DEF KeysOf
<1>3. IsOrderedDict(a)
  BY <1>1, <1>2 DEF IsOrderedDict
<1>4. KeysOf(a) = KeysOf(d) \cup {e.key}
  <2>1. \A i \in 1..(n + 1) : a[i].key \in KeysOf(d) \cup {e.key}
    BY <1>1 DEF KeysOf
  <2>2. \A i \in 1..n : d[i].key \in KeysOf(a)
    BY <1>1 DEF KeysOf
  <2>3. e.key \in KeysOf(a)
    BY <1>1 DEF KeysOf
  <2> QED
    BY <1>1, <2>1, <2>2, <2>3 DEF KeysOf
<1> QED
  BY <1>1, <1>3, <1>4 DEF a, n

(* Assignment adds its key, and takes none away.                            *)
LEMMA PutFacts ==
  ASSUME NEW S, NEW d \in Seq(S), IsOrderedDict(d), NEW e \in S
  PROVE  /\ Put(d, e) \in Seq(S)
         /\ IsOrderedDict(Put(d, e))
         /\ KeysOf(Put(d, e)) = KeysOf(d) \cup {e.key}
         /\ Len(Put(d, e)) = IF e.key \in KeysOf(d) THEN Len(d) ELSE Len(d) + 1
<1>1. CASE e.key \notin KeysOf(d)
  BY <1>1, AppendFacts DEF Put
<1>2. CASE e.key \in KeysOf(d)
  <2> DEFINE p == Put(d, e)
             n == Len(d)
  <2>1. /\ n \in Nat /\ DOMAIN d = 1..n
        /\ p = [i \in 1..n |-> IF d[i].key = e.key THEN e ELSE d[i]]
    BY <1>2 DEF Put
  <2>2. p \in Seq(S) /\ Len(p) = n /\ DOMAIN p = 1..n
    <3>1. p \in [1..n -> S]
      BY <2>1
    <3> QED
      BY <2>1, <3>1, SeqDef
  <2>3. \A i \in 1..n : p[i].key = d[i].key
    BY <2>1
  <2> HIDE DEF p, n
  <2>4. IsOrderedDict(p) /\ KeysOf(p) = KeysOf(d)
    BY <2>1, <2>2, <2>3 DEF IsOrderedDict, KeysOf
  <2> QED
    BY <1>2, <2>2, <2>4 DEF p, n
<1> QED
  BY <1>1, <1>2

(* move_to_end changes only the order.                                      *)
LEMMA MoveToEndFacts ==
  ASSUME NEW S, NEW d \in Seq(S), IsOrderedDict(d), NEW k
  PROVE  /\ MoveToEnd(d, k) \in Seq(S)
         /\ IsOrderedDict(MoveToEnd(d, k))
         /\ KeysOf(MoveToEnd(d, k)) = KeysOf(d)
         /\ Len(MoveToEnd(d, k)) = Len(d)
<1>1. CASE k \notin KeysOf(d)
  BY <1>1 DEF MoveToEnd
<1>2. CASE k \in KeysOf(d)
  <2>1. EntryOf(d, k) \in S /\ EntryOf(d, k).key = k
    BY <1>2, PlaceFacts, ElementOfSeq DEF EntryOf
  <2> DEFINE w == Without(d, k)
             e == EntryOf(d, k)
  <2>2. /\ w \in Seq(S) /\ IsOrderedDict(w)
        /\ KeysOf(w) = KeysOf(d) \ {k} /\ Len(w) = Len(d) - 1
    BY <1>2, WithoutFacts
  <2>3. MoveToEnd(d, k) = Append(w, e)
    BY <1>2 DEF MoveToEnd
  <2> HIDE DEF w, e
  <2>4. /\ Append(w, e) \in Seq(S)
        /\ IsOrderedDict(Append(w, e))
        /\ KeysOf(Append(w, e)) = KeysOf(w) \cup {e.key}
        /\ Len(Append(w, e)) = Len(w) + 1
    BY <2>1, <2>2, AppendFacts DEF e
  <2>5. Len(d) \in Nat /\ e.key = k
    BY <2>1 DEF e
  <2> QED
    BY <1>2, <2>2, <2>3, <2>4, <2>5
<1> QED
  BY <1>1, <1>2

(* popitem(last=False) leaves at most n entries, all of them there before.  *)
LEMMA NewestFacts ==
  ASSUME NEW S, NEW d \in Seq(S), IsOrderedDict(d), NEW n \in Nat
  PROVE  /\ Newest(d, n) \in Seq(S)
         /\ IsOrderedDict(Newest(d, n))
         /\ KeysOf(Newest(d, n)) \subseteq KeysOf(d)
         /\ Len(Newest(d, n)) <= n
<1>1. Len(d) \in Nat /\ DOMAIN d = 1..Len(d) /\ \A i \in 1..Len(d) : d[i] \in S
  OBVIOUS
<1>2. CASE Len(d) <= n
  BY <1>1, <1>2 DEF Newest
<1>3. CASE Len(d) > n
  <2> DEFINE m == Len(d) - n
             s == SubSeq(d, m + 1, Len(d))
  <2>1. m \in Nat /\ Len(d) = m + n
    BY <1>1, <1>3
  <2>2. /\ s \in Seq(S) /\ Len(s) = n
        /\ \A i \in 1..n : s[i] = d[m + i]
    <3>1. Len(d) - (m + 1) + 1 = n /\ \A i \in Int : (m + 1) + i - 1 = m + i
      BY <1>1, <2>1
    <3>2. /\ s \in Seq(S)
          /\ Len(s) = IF m + 1 <= Len(d) THEN Len(d) - (m + 1) + 1 ELSE 0
          /\ \A i \in 1..(Len(d) - (m + 1) + 1) : s[i] = d[(m + 1) + i - 1]
      <4>1. m + 1 \in Int /\ Len(d) \in Int
        BY <1>1, <2>1
      <4>2. \A i \in (m + 1)..Len(d) : d[i] \in S
        BY <1>1, <2>1
      <4> HIDE DEF m
      <4> QED
        BY <4>1, <4>2, SubSeqProperties
    <3> HIDE DEF m, s
    <3>3. 1..(Len(d) - (m + 1) + 1) = 1..n /\ (m + 1 <= Len(d) \/ n = 0)
      BY <1>1, <2>1, <3>1
    <3>4. Len(s) = n
      BY <3>1, <3>2, <3>3
    <3>5. \A i \in 1..n : s[i] = d[(m + 1) + i - 1]
      BY <3>2, <3>3
    <3> QED
      <4>1. \A i \in 1..n : i \in Int /\ (m + 1) + i - 1 = m + i
        BY <3>1
      <4> QED
        BY <3>2, <3>4, <3>5, <4>1
  <2>3. Newest(d, n) = s
    BY <1>3 DEF Newest
  <2> HIDE DEF m, s
  <2>4. /\ DOMAIN s = 1..n
        /\ \A i \in 1..n : m + i \in 1..Len(d)
        /\ \A i, j \in 1..n : m + i = m + j => i = j
    BY <2>1, <2>2
  <2>5. IsOrderedDict(s)
    <3>1. SUFFICES ASSUME NEW i \in 1..n, NEW j \in 1..n, s[i].key = s[j].key
                   PROVE  i = j
      BY <2>4 DEF IsOrderedDict
    <3>2. m + i = m + j
      BY <1>1, <2>2, <2>4, <3>1 DEF IsOrderedDict
    <3> QED
      BY <2>4, <3>2
  <2>6. KeysOf(s) \subseteq KeysOf(d)
    BY <1>1, <2>2, <2>4 DEF KeysOf
  <2> QED
    BY <2>2, <2>3, <2>5, <2>6
<1> QED
  BY <1>1, <1>2, <1>3

(* A dict within its bound is left alone.                                   *)
LEMMA NewestIsAll ==
  ASSUME NEW S, NEW d \in Seq(S), NEW n \in Nat, Len(d) <= n
  PROVE  Newest(d, n) = d
BY DEF Newest

(* The newest entry is never the one popped.                                *)
LEMMA NewestKeepsLast ==
  ASSUME NEW S, NEW d \in Seq(S), IsOrderedDict(d), NEW n \in Nat \ {0}, Len(d) > 0
  PROVE  LET last == d[Len(d)]
         IN  last.key \in KeysOf(Newest(d, n)) /\ EntryOf(Newest(d, n), last.key) = last
<1> DEFINE last == d[Len(d)]
           s == Newest(d, n)
<1>1. /\ Len(d) \in Nat \ {0} /\ DOMAIN d = 1..Len(d)
      /\ s \in Seq(S) /\ IsOrderedDict(s) /\ DOMAIN s = 1..Len(s) /\ Len(s) \in Nat
  BY NewestFacts
<1>2. Len(s) \in DOMAIN s /\ s[Len(s)] = last
  <2>1. CASE Len(d) <= n
    BY <1>1, <2>1 DEF Newest
  <2>2. CASE Len(d) > n
    <3> DEFINE m == Len(d) - n
    <3>1. m \in Nat /\ Len(d) = m + n /\ m + 1 \in 1..Len(d) /\ m + 1 \in Int
      BY <1>1, <2>2
    <3>2. s = SubSeq(d, m + 1, Len(d))
      BY <2>2 DEF Newest
    <3>3. \A i \in (m + 1)..Len(d) : d[i] \in S
      BY <1>1, <3>1
    <3> HIDE DEF m, s
    <3>4. /\ Len(s) = IF m + 1 <= Len(d) THEN Len(d) - (m + 1) + 1 ELSE 0
          /\ \A i \in 1..(Len(d) - (m + 1) + 1) : s[i] = d[(m + 1) + i - 1]
      BY <1>1, <3>1, <3>2, <3>3, SubSeqProperties
    <3>5. Len(s) = n /\ n \in 1..(Len(d) - (m + 1) + 1) /\ (m + 1) + n - 1 = Len(d)
      BY <1>1, <3>1, <3>4
    <3> QED
      BY <1>1, <3>4, <3>5
  <2> QED
    BY <1>1, <2>1, <2>2
<1> HIDE DEF s, last
<1>3. last.key \in KeysOf(s)
  BY <1>2 DEF KeysOf
<1>4. PlaceOf(s, last.key) = Len(s)
  <2>1. PlaceOf(s, last.key) \in DOMAIN s /\ s[PlaceOf(s, last.key)].key = last.key
    BY <1>1, <1>3, PlaceFacts
  <2> QED
    BY <1>1, <1>2, <2>1 DEF IsOrderedDict
<1> QED
  BY <1>2, <1>3, <1>4 DEF EntryOf, s, last

(* Assignment to a full dict drops nothing for a key already there, and     *)
(* for a new key keeps at least the new entry.                              *)
LEMMA NewestPut ==
  ASSUME NEW S, NEW d \in Seq(S), IsOrderedDict(d), NEW n \in Nat \ {0}, Len(d) <= n,
         NEW e \in S
  PROVE  LET r == Newest(Put(d, e), n)
         IN  \/ e.key \in KeysOf(d) /\ KeysOf(r) = KeysOf(d)
             \/ /\ e.key \notin KeysOf(d)
                /\ e.key \in KeysOf(r) /\ EntryOf(r, e.key) = e
<1> DEFINE p == Put(d, e)
<1>1. /\ p \in Seq(S) /\ IsOrderedDict(p) /\ KeysOf(p) = KeysOf(d) \cup {e.key}
      /\ Len(p) = IF e.key \in KeysOf(d) THEN Len(d) ELSE Len(d) + 1
  BY PutFacts
<1>2. CASE e.key \in KeysOf(d)
  <2>1. Len(p) <= n /\ KeysOf(p) = KeysOf(d)
    BY <1>1, <1>2
  <2> HIDE DEF p
  <2>2. Newest(p, n) = p
    BY <1>1, <2>1, NewestIsAll
  <2> QED
    BY <1>2, <2>1, <2>2 DEF p
<1>3. CASE e.key \notin KeysOf(d)
  <2>1. Len(p) > 0 /\ p[Len(p)] = e
    BY <1>3 DEF Put
  <2> HIDE DEF p
  <2>2. e.key \in KeysOf(Newest(p, n)) /\ EntryOf(Newest(p, n), e.key) = e
    BY <1>1, <2>1, NewestKeepsLast
  <2> QED
    BY <1>3, <2>2 DEF p
<1> QED
  BY <1>2, <1>3

----------------------------------------------------------------------------

(* A thread refers to a lock exactly while it still has to let it go.       *)
Aimed ==
    \A t \in Threads :
        /\ pc[t] # "idle" => version[t] \in Versions
        /\ pc[t] \in WithLock <=> lock[t] # None

(* A lock is held by the one thread in its critical section.                *)
LockHeld ==
    /\ \A l \in Locks : holder[l] # None =>
          lock[holder[l]] = l /\ pc[holder[l]] \in Critical
    /\ \A t \in Threads : pc[t] \in Critical => holder[lock[t]] = t

(* So is the one slot for opens and verifications.                          *)
SlotHeld == \A t \in Threads : pc[t] \in InSlot <=> slot = t

(* A lock object serves one version, wherever it is referred to from.       *)
OneVersionPerLock ==
    /\ \A t, u \in Threads : lock[t] # None /\ lock[t] = lock[u] => version[t] = version[u]
    /\ \A t \in Threads, v \in Versions :
          lock[t] # None /\ opening[v] = lock[t] => version[t] = v

(* The inductive invariant of the locks.                                    *)
LInv ==
    /\ LocksTypeOK /\ Aimed /\ LockHeld /\ SlotHeld
    /\ OneVersionPerLock /\ OpeningHasOwner

----------------------------------------------------------------------------

(* Nothing is locked at the start.                                          *)
LEMMA Initially == Init => LInv
  BY PinnedConstants
  DEF Init, LInv, LocksTypeOK, Aimed, LockHeld, SlotHeld, OneVersionPerLock,
      OpeningHasOwner, Critical, WithLock, InSlot, PCs

(* Each program counter goes where the code goes.                           *)
LEMMA TypeStep ==
  ASSUME LocksTypeOK, Aimed, [Next]_vars
  PROVE  (LocksTypeOK /\ Aimed)'
<1> USE PinnedConstants
    DEF LocksTypeOK, Aimed, Critical, WithLock, InSlot, PCs, lockVars
<1>1. ASSUME NEW t \in Threads, NEW v \in Versions, Request(t, v) PROVE (LocksTypeOK /\ Aimed)'
  BY <1>1 DEF Request, Answer, Goto
<1>2. ASSUME NEW t \in Threads, LookUp(t) PROVE (LocksTypeOK /\ Aimed)'
  BY <1>2 DEF LookUp, Answer, Goto
<1>3. ASSUME NEW t \in Threads, EnterOpening(t) PROVE (LocksTypeOK /\ Aimed)'
  BY <1>3 DEF EnterOpening, Unused, Goto
<1>4. ASSUME NEW t \in Threads, TakeLock(t) PROVE (LocksTypeOK /\ Aimed)'
  BY <1>4 DEF TakeLock, Goto
<1>5. ASSUME NEW t \in Threads, LockTimeout(t) PROVE (LocksTypeOK /\ Aimed)'
  BY <1>5 DEF LockTimeout, Answer, Goto
<1>6. ASSUME NEW t \in Threads, Recheck(t) \/ Resolve(t) \/ SlotTimeout(t) \/ Remember(t) PROVE (LocksTypeOK /\ Aimed)'
  BY <1>6 DEF Recheck, Resolve, SlotTimeout, Remember, Answer, Goto
<1>7. ASSUME NEW t \in Threads, TakeSlot(t) PROVE (LocksTypeOK /\ Aimed)'
  BY <1>7 DEF TakeSlot, Goto
<1>8. ASSUME NEW t \in Threads, OpenIndex(t) PROVE (LocksTypeOK /\ Aimed)'
  BY <1>8 DEF OpenIndex, Answer, Goto
<1>9. ASSUME NEW t \in Threads, ReleaseLock(t) PROVE (LocksTypeOK /\ Aimed)'
  BY <1>9 DEF ReleaseLock, Goto
<1>10. ASSUME NEW t \in Threads, ForgetLock(t) PROVE (LocksTypeOK /\ Aimed)'
  BY <1>10 DEF ForgetLock, Goto
<1>11. ASSUME NEW t \in Threads, Finish(t) PROVE (LocksTypeOK /\ Aimed)'
  BY <1>11 DEF Finish, Answer, Goto
<1>12. ASSUME NEW t \in Threads, WantRecords(t) \/ LookUpRecords(t) \/ RecordsSlotTimeout(t) PROVE (LocksTypeOK /\ Aimed)'
  BY <1>12 DEF WantRecords, LookUpRecords, RecordsSlotTimeout, Answer, Goto
<1>13. ASSUME NEW t \in Threads, TakeRecordsSlot(t) PROVE (LocksTypeOK /\ Aimed)'
  BY <1>13 DEF TakeRecordsSlot, Answer, Goto
<1>14. ASSUME NEW t \in Threads, VerifyRecords(t) PROVE (LocksTypeOK /\ Aimed)'
  BY <1>14 DEF VerifyRecords, Answer, Goto
<1>15. ASSUME World \/ UNCHANGED vars PROVE (LocksTypeOK /\ Aimed)'
  BY <1>15 DEF World, Tick, Change, ChangeDisk, ChangeSnapshot, ClearRefusals, FinishReload, vars
<1> QED
  BY <1>1, <1>2, <1>3, <1>4, <1>5, <1>6, <1>7, <1>8, <1>9, <1>10, <1>11, <1>12, <1>13, <1>14, <1>15 DEF Next, Step

(* A lock passes from hand to hand, never to two.                           *)
LEMMA LockStep ==
  ASSUME LocksTypeOK, Aimed, LockHeld, [Next]_vars
  PROVE  LockHeld'
<1> USE PinnedConstants
    DEF LocksTypeOK, Aimed, LockHeld, Critical, WithLock, InSlot, PCs, lockVars
<1>1. ASSUME NEW t \in Threads, NEW v \in Versions, Request(t, v) PROVE LockHeld'
  BY <1>1 DEF Request, Answer, Goto
<1>2. ASSUME NEW t \in Threads, LookUp(t) PROVE LockHeld'
  BY <1>2 DEF LookUp, Answer, Goto
<1>3. ASSUME NEW t \in Threads, EnterOpening(t) PROVE LockHeld'
  BY <1>3 DEF EnterOpening, Unused, Goto
<1>4. ASSUME NEW t \in Threads, TakeLock(t) PROVE LockHeld'
  BY <1>4 DEF TakeLock, Goto
<1>5. ASSUME NEW t \in Threads, LockTimeout(t) PROVE LockHeld'
  BY <1>5 DEF LockTimeout, Answer, Goto
<1>6. ASSUME NEW t \in Threads, Recheck(t) \/ Resolve(t) \/ SlotTimeout(t) \/ Remember(t) PROVE LockHeld'
  BY <1>6 DEF Recheck, Resolve, SlotTimeout, Remember, Answer, Goto
<1>7. ASSUME NEW t \in Threads, TakeSlot(t) PROVE LockHeld'
  BY <1>7 DEF TakeSlot, Goto
<1>8. ASSUME NEW t \in Threads, OpenIndex(t) PROVE LockHeld'
  BY <1>8 DEF OpenIndex, Answer, Goto
<1>9. ASSUME NEW t \in Threads, ReleaseLock(t) PROVE LockHeld'
  BY <1>9 DEF ReleaseLock, Goto
<1>10. ASSUME NEW t \in Threads, ForgetLock(t) PROVE LockHeld'
  BY <1>10 DEF ForgetLock, Goto
<1>11. ASSUME NEW t \in Threads, Finish(t) PROVE LockHeld'
  BY <1>11 DEF Finish, Answer, Goto
<1>12. ASSUME NEW t \in Threads, WantRecords(t) \/ LookUpRecords(t) \/ RecordsSlotTimeout(t) PROVE LockHeld'
  BY <1>12 DEF WantRecords, LookUpRecords, RecordsSlotTimeout, Answer, Goto
<1>13. ASSUME NEW t \in Threads, TakeRecordsSlot(t) PROVE LockHeld'
  BY <1>13 DEF TakeRecordsSlot, Answer, Goto
<1>14. ASSUME NEW t \in Threads, VerifyRecords(t) PROVE LockHeld'
  BY <1>14 DEF VerifyRecords, Answer, Goto
<1>15. ASSUME World \/ UNCHANGED vars PROVE LockHeld'
  BY <1>15 DEF World, Tick, Change, ChangeDisk, ChangeSnapshot, ClearRefusals, FinishReload, vars
<1> QED
  BY <1>1, <1>2, <1>3, <1>4, <1>5, <1>6, <1>7, <1>8, <1>9, <1>10, <1>11, <1>12, <1>13, <1>14, <1>15 DEF Next, Step

(* So does the slot, which engine opens and snapshot verifications share.   *)
LEMMA SlotStep ==
  ASSUME LocksTypeOK, SlotHeld, [Next]_vars
  PROVE  SlotHeld'
<1> USE PinnedConstants
    DEF LocksTypeOK, SlotHeld, Critical, WithLock, InSlot, PCs, lockVars
<1>1. ASSUME NEW t \in Threads, NEW v \in Versions, Request(t, v) PROVE SlotHeld'
  BY <1>1 DEF Request, Answer, Goto
<1>2. ASSUME NEW t \in Threads, LookUp(t) PROVE SlotHeld'
  BY <1>2 DEF LookUp, Answer, Goto
<1>3. ASSUME NEW t \in Threads, EnterOpening(t) PROVE SlotHeld'
  BY <1>3 DEF EnterOpening, Unused, Goto
<1>4. ASSUME NEW t \in Threads, TakeLock(t) PROVE SlotHeld'
  BY <1>4 DEF TakeLock, Goto
<1>5. ASSUME NEW t \in Threads, LockTimeout(t) PROVE SlotHeld'
  BY <1>5 DEF LockTimeout, Answer, Goto
<1>6. ASSUME NEW t \in Threads, Recheck(t) \/ Resolve(t) \/ SlotTimeout(t) \/ Remember(t) PROVE SlotHeld'
  BY <1>6 DEF Recheck, Resolve, SlotTimeout, Remember, Answer, Goto
<1>7. ASSUME NEW t \in Threads, TakeSlot(t) PROVE SlotHeld'
  BY <1>7 DEF TakeSlot, Goto
<1>8. ASSUME NEW t \in Threads, OpenIndex(t) PROVE SlotHeld'
  BY <1>8 DEF OpenIndex, Answer, Goto
<1>9. ASSUME NEW t \in Threads, ReleaseLock(t) PROVE SlotHeld'
  BY <1>9 DEF ReleaseLock, Goto
<1>10. ASSUME NEW t \in Threads, ForgetLock(t) PROVE SlotHeld'
  BY <1>10 DEF ForgetLock, Goto
<1>11. ASSUME NEW t \in Threads, Finish(t) PROVE SlotHeld'
  BY <1>11 DEF Finish, Answer, Goto
<1>12. ASSUME NEW t \in Threads, WantRecords(t) \/ LookUpRecords(t) \/ RecordsSlotTimeout(t) PROVE SlotHeld'
  BY <1>12 DEF WantRecords, LookUpRecords, RecordsSlotTimeout, Answer, Goto
<1>13. ASSUME NEW t \in Threads, TakeRecordsSlot(t) PROVE SlotHeld'
  BY <1>13 DEF TakeRecordsSlot, Answer, Goto
<1>14. ASSUME NEW t \in Threads, VerifyRecords(t) PROVE SlotHeld'
  BY <1>14 DEF VerifyRecords, Answer, Goto
<1>15. ASSUME World \/ UNCHANGED vars PROVE SlotHeld'
  BY <1>15 DEF World, Tick, Change, ChangeDisk, ChangeSnapshot, ClearRefusals, FinishReload, vars
<1> QED
  BY <1>1, <1>2, <1>3, <1>4, <1>5, <1>6, <1>7, <1>8, <1>9, <1>10, <1>11, <1>12, <1>13, <1>14, <1>15 DEF Next, Step

(* A new lock object is one that nothing refers to.                         *)
LEMMA VersionStep ==
  ASSUME LocksTypeOK, Aimed, OneVersionPerLock, OpeningHasOwner, [Next]_vars
  PROVE  OneVersionPerLock'
<1> USE PinnedConstants
    DEF LocksTypeOK, Aimed, OneVersionPerLock, OpeningHasOwner, Critical, WithLock, InSlot, PCs, lockVars
<1>1. ASSUME NEW t \in Threads, NEW v \in Versions, Request(t, v) PROVE OneVersionPerLock'
  BY <1>1 DEF Request, Answer, Goto
<1>2. ASSUME NEW t \in Threads, LookUp(t) PROVE OneVersionPerLock'
  BY <1>2 DEF LookUp, Answer, Goto
<1>3. ASSUME NEW t \in Threads, EnterOpening(t) PROVE OneVersionPerLock'
  BY <1>3 DEF EnterOpening, Unused, Goto
<1>4. ASSUME NEW t \in Threads, TakeLock(t) PROVE OneVersionPerLock'
  BY <1>4 DEF TakeLock, Goto
<1>5. ASSUME NEW t \in Threads, LockTimeout(t) PROVE OneVersionPerLock'
  BY <1>5 DEF LockTimeout, Answer, Goto
<1>6. ASSUME NEW t \in Threads, Recheck(t) \/ Resolve(t) \/ SlotTimeout(t) \/ Remember(t) PROVE OneVersionPerLock'
  BY <1>6 DEF Recheck, Resolve, SlotTimeout, Remember, Answer, Goto
<1>7. ASSUME NEW t \in Threads, TakeSlot(t) PROVE OneVersionPerLock'
  BY <1>7 DEF TakeSlot, Goto
<1>8. ASSUME NEW t \in Threads, OpenIndex(t) PROVE OneVersionPerLock'
  BY <1>8 DEF OpenIndex, Answer, Goto
<1>9. ASSUME NEW t \in Threads, ReleaseLock(t) PROVE OneVersionPerLock'
  BY <1>9 DEF ReleaseLock, Goto
<1>10. ASSUME NEW t \in Threads, ForgetLock(t) PROVE OneVersionPerLock'
  BY <1>10 DEF ForgetLock, Goto
<1>11. ASSUME NEW t \in Threads, Finish(t) PROVE OneVersionPerLock'
  BY <1>11 DEF Finish, Answer, Goto
<1>12. ASSUME NEW t \in Threads, WantRecords(t) \/ LookUpRecords(t) \/ RecordsSlotTimeout(t) PROVE OneVersionPerLock'
  BY <1>12 DEF WantRecords, LookUpRecords, RecordsSlotTimeout, Answer, Goto
<1>13. ASSUME NEW t \in Threads, TakeRecordsSlot(t) PROVE OneVersionPerLock'
  BY <1>13 DEF TakeRecordsSlot, Answer, Goto
<1>14. ASSUME NEW t \in Threads, VerifyRecords(t) PROVE OneVersionPerLock'
  BY <1>14 DEF VerifyRecords, Answer, Goto
<1>15. ASSUME World \/ UNCHANGED vars PROVE OneVersionPerLock'
  BY <1>15 DEF World, Tick, Change, ChangeDisk, ChangeSnapshot, ClearRefusals, FinishReload, vars
<1> QED
  BY <1>1, <1>2, <1>3, <1>4, <1>5, <1>6, <1>7, <1>8, <1>9, <1>10, <1>11, <1>12, <1>13, <1>14, <1>15 DEF Next, Step

(* Whoever gives up waiting leaves the holder as the owner of the entry.    *)
LEMMA OwnerStep ==
  ASSUME LocksTypeOK, Aimed, LockHeld, OneVersionPerLock, OpeningHasOwner, [Next]_vars
  PROVE  OpeningHasOwner'
<1> USE PinnedConstants
    DEF LocksTypeOK, Aimed, LockHeld, OneVersionPerLock, OpeningHasOwner, Critical, WithLock, InSlot, PCs, lockVars
<1>1. ASSUME NEW t \in Threads, NEW v \in Versions, Request(t, v) PROVE OpeningHasOwner'
  BY <1>1 DEF Request, Answer, Goto
<1>2. ASSUME NEW t \in Threads, LookUp(t) PROVE OpeningHasOwner'
  BY <1>2 DEF LookUp, Answer, Goto
<1>3. ASSUME NEW t \in Threads, EnterOpening(t) PROVE OpeningHasOwner'
  BY <1>3 DEF EnterOpening, Unused, Goto
<1>4. ASSUME NEW t \in Threads, TakeLock(t) PROVE OpeningHasOwner'
  BY <1>4 DEF TakeLock, Goto
<1>5. ASSUME NEW t \in Threads, LockTimeout(t) PROVE OpeningHasOwner'
  BY <1>5 DEF LockTimeout, Answer, Goto
<1>6. ASSUME NEW t \in Threads, Recheck(t) \/ Resolve(t) \/ SlotTimeout(t) \/ Remember(t) PROVE OpeningHasOwner'
  BY <1>6 DEF Recheck, Resolve, SlotTimeout, Remember, Answer, Goto
<1>7. ASSUME NEW t \in Threads, TakeSlot(t) PROVE OpeningHasOwner'
  BY <1>7 DEF TakeSlot, Goto
<1>8. ASSUME NEW t \in Threads, OpenIndex(t) PROVE OpeningHasOwner'
  BY <1>8 DEF OpenIndex, Answer, Goto
<1>9. ASSUME NEW t \in Threads, ReleaseLock(t) PROVE OpeningHasOwner'
  BY <1>9 DEF ReleaseLock, Goto
<1>10. ASSUME NEW t \in Threads, ForgetLock(t) PROVE OpeningHasOwner'
  BY <1>10 DEF ForgetLock, Goto
<1>11. ASSUME NEW t \in Threads, Finish(t) PROVE OpeningHasOwner'
  BY <1>11 DEF Finish, Answer, Goto
<1>12. ASSUME NEW t \in Threads, WantRecords(t) \/ LookUpRecords(t) \/ RecordsSlotTimeout(t) PROVE OpeningHasOwner'
  BY <1>12 DEF WantRecords, LookUpRecords, RecordsSlotTimeout, Answer, Goto
<1>13. ASSUME NEW t \in Threads, TakeRecordsSlot(t) PROVE OpeningHasOwner'
  BY <1>13 DEF TakeRecordsSlot, Answer, Goto
<1>14. ASSUME NEW t \in Threads, VerifyRecords(t) PROVE OpeningHasOwner'
  BY <1>14 DEF VerifyRecords, Answer, Goto
<1>15. ASSUME World \/ UNCHANGED vars PROVE OpeningHasOwner'
  BY <1>15 DEF World, Tick, Change, ChangeDisk, ChangeSnapshot, ClearRefusals, FinishReload, vars
<1> QED
  BY <1>1, <1>2, <1>3, <1>4, <1>5, <1>6, <1>7, <1>8, <1>9, <1>10, <1>11, <1>12, <1>13, <1>14, <1>15 DEF Next, Step

----------------------------------------------------------------------------
(* The theorems.                                                           *)

(* The invariant of the locks.                                              *)
THEOREM LockInvariant == Spec => []LInv
<1>1. LInv /\ [Next]_vars => LInv'
  BY TypeStep, LockStep, SlotStep, VersionStep, OwnerStep DEF LInv
<1> QED
  BY Initially, <1>1, PTL DEF Spec

(* At most one pinned index is opened or verified at a time, whatever its   *)
(* version and however many requests name one.                              *)
THEOREM OneOpen == Spec => []OneOpenAtATime
<1>1. LInv => OneOpenAtATime
  BY DEF LInv, SlotHeld, OneOpenAtATime
<1> QED
  BY <1>1, LockInvariant, PTL

(* Every lock, and the slot, is held by a request that is going on: none is *)
(* over with a lock still in its hands.                                     *)
THEOREM LocksLive == Spec => []LocksAreHeldByTheLiving
<1>1. LInv => LocksAreHeldByTheLiving
  BY DEF LInv, LocksTypeOK, LockHeld, SlotHeld, LocksAreHeldByTheLiving
<1> QED
  BY <1>1, LockInvariant, PTL

(* Every lock in `_opening` belongs to a request that will drop it, though  *)
(* its waiters time out and its versions get new locks meanwhile.           *)
THEOREM NoLockLeftBehind == Spec => []OpeningHasOwner
BY LockInvariant, PTL DEF LInv

(* Lock, slot and entry are let go of on every path out of `pinned` and     *)
(* `pinned_records`.                                                        *)
THEOREM LocksReturn == Spec => []LocksComeBack
BY LocksLive, NoLockLeftBehind, PTL DEF LocksComeBack

----------------------------------------------------------------------------
(* The caches.                                                             *)

Engines == [key : Versions]
Reasons == Faults \cup {"absent", "noRecords"}
Refusals == [key : Versions, reason : Reasons, until : Nat]

(* An OrderedDict of entries in S, at most `bound` of them.                 *)
IsMap(d, S, bound) == d \in Seq(S) /\ IsOrderedDict(d) /\ Len(d) <= bound

(* Each map is an OrderedDict of its own kind of entry, within its bound.   *)
MapsInv ==
    /\ IsMap(pinned, Engines, Keep) /\ IsMap(pinnedRecords, Engines, Keep)
    /\ IsMap(refused, Refusals, MaxRefusals) /\ IsMap(absent, Refusals, MaxRefusals)
    /\ IsMap(recordsRefused, Refusals, MaxRefusals)

Outcomes == Faults \cup {"none", "ok", "absent", "busy", "records", "noRecords"}

(* What the rest of the world holds, and what a request was told.           *)
WorldTypeOK ==
    /\ disk \in [Versions -> DiskStates]
    /\ snapshots \subseteq Versions
    /\ clock \in 0..MaxClock /\ changes \in 0..MaxChanges
    /\ served \in Versions \cup {None}
    /\ reload \in {"idle", "loading"}
    /\ found \in [Threads -> Outcomes]

(* The inductive invariant of the locks and the caches.                     *)
CInv == LInv /\ MapsInv /\ WorldTypeOK

(* Looking a version up, or dropping a refusal that has run out, keeps a map.*)
LEMMA LookedUp ==
  ASSUME NEW d, NEW S, NEW bound \in Nat, IsMap(d, S, bound), NEW v
  PROVE  IsMap(MoveToEnd(d, v), S, bound) /\ IsMap(Without(d, v), S, bound)
<1>1. d \in Seq(S) /\ IsOrderedDict(d) /\ Len(d) <= bound /\ Len(d) \in Nat
  BY DEF IsMap
<1>2. /\ MoveToEnd(d, v) \in Seq(S) /\ IsOrderedDict(MoveToEnd(d, v))
      /\ Len(MoveToEnd(d, v)) = Len(d)
  BY <1>1, MoveToEndFacts
<1>3. /\ Without(d, v) \in Seq(S) /\ IsOrderedDict(Without(d, v))
      /\ Len(Without(d, v)) = IF v \in KeysOf(d) THEN Len(d) - 1 ELSE Len(d)
  BY <1>1, WithoutFacts
<1> QED
  BY <1>1, <1>2, <1>3 DEF IsMap

(* So does remembering one more entry, the oldest dropped past the bound.   *)
LEMMA RememberedOne ==
  ASSUME NEW d, NEW S, NEW bound \in Nat, IsMap(d, S, bound), NEW e \in S
  PROVE  IsMap(Newest(Put(d, e), bound), S, bound)
<1>1. Put(d, e) \in Seq(S) /\ IsOrderedDict(Put(d, e))
  BY PutFacts DEF IsMap
<1> QED
  BY <1>1, NewestFacts DEF IsMap

(* A new OrderedDict is a map.                                              *)
LEMMA EmptyMap ==
  ASSUME NEW S, NEW bound \in Nat
  PROVE  IsMap(<<>>, S, bound)
BY DEF IsMap, IsOrderedDict

(* Every map is empty at the start.                                         *)
LEMMA CachesInitially == Init => MapsInv /\ WorldTypeOK
BY EmptyMap, PinnedConstants DEF Init, MapsInv, WorldTypeOK, Outcomes

(* Every cache operation keeps every map.                                   *)
LEMMA MapsStep ==
  ASSUME LInv, MapsInv, WorldTypeOK, [Next]_vars
  PROVE  MapsInv'
<1>1. /\ Keep \in Nat /\ MaxRefusals \in Nat
      /\ \A v \in Versions : Engine(v) \in Engines
      /\ \A v \in Versions, r \in Reasons : Refusal(v, r) \in Refusals
  BY PinnedConstants DEF Engine, Engines, Refusal, Refusals, WorldTypeOK
<1>2. \A t \in Threads : pc[t] # "idle" => version[t] \in Versions
  BY DEF LInv, Aimed
<1>3. ASSUME UNCHANGED cacheVars
      PROVE  MapsInv'
  BY <1>3 DEF MapsInv, cacheVars
<1>4. ASSUME NEW t \in Threads, LookUp(t) \/ Recheck(t)
      PROVE  MapsInv'
  <2> DEFINE v == version[t]
  <2>1. Look(v) /\ UNCHANGED <<pinnedRecords, recordsRefused>>
    BY <1>4 DEF LookUp, Recheck
  <2>2. IsMap(pinned', Engines, Keep)
    BY <1>1, <2>1, LookedUp DEF Look, MapsInv
  <2>3. IsMap(refused', Refusals, MaxRefusals) /\ IsMap(absent', Refusals, MaxRefusals)
    <3>1. /\ refused' \in {refused, Without(refused, v)}
          /\ absent' \in {absent, Without(absent, v)}
      BY <2>1 DEF Look
    <3> QED
      BY <1>1, <3>1, LookedUp DEF MapsInv
  <2> QED
    BY <2>1, <2>2, <2>3 DEF MapsInv
<1>5. ASSUME NEW t \in Threads, Remember(t)
      PROVE  MapsInv'
  <2> DEFINE v == version[t]
             outcome == found[t]
  <2>1. v \in Versions /\ Remembered(v, outcome) /\ UNCHANGED <<pinnedRecords, recordsRefused>>
    BY <1>2, <1>5 DEF Remember
  <2>2. IsMap(pinned', Engines, Keep)
    BY <1>1, <2>1, RememberedOne DEF Remembered, MapsInv
  <2>3. IsMap(absent', Refusals, MaxRefusals)
    BY <1>1, <2>1, RememberedOne DEF Remembered, MapsInv, Reasons
  <2>4. IsMap(refused', Refusals, MaxRefusals)
    BY <1>1, <2>1, RememberedOne DEF Remembered, MapsInv, Reasons
  <2> QED
    BY <2>1, <2>2, <2>3, <2>4 DEF MapsInv
<1>6. ASSUME NEW t \in Threads, LookUpRecords(t)
      PROVE  MapsInv'
  <2> DEFINE v == version[t]
  <2>1. /\ pinnedRecords' = MoveToEnd(pinnedRecords, v)
        /\ recordsRefused' \in {recordsRefused, Without(recordsRefused, v)}
        /\ UNCHANGED <<pinned, refused, absent>>
    BY <1>6 DEF LookUpRecords
  <2> QED
    BY <1>1, <2>1, LookedUp DEF MapsInv
<1>7. ASSUME NEW t \in Threads, VerifyRecords(t)
      PROVE  MapsInv'
  <2> DEFINE v == version[t]
  <2>1. /\ v \in Versions /\ UNCHANGED <<pinned, refused, absent>>
        /\ pinnedRecords' \in {pinnedRecords, Newest(Put(pinnedRecords, Engine(v)), Keep)}
        /\ recordsRefused' \in {recordsRefused,
              Newest(Put(recordsRefused, Refusal(v, "noRecords")), MaxRefusals)}
    BY <1>2, <1>7 DEF VerifyRecords
  <2>2. IsMap(Newest(Put(pinnedRecords, Engine(v)), Keep), Engines, Keep)
    BY <1>1, <2>1, RememberedOne DEF MapsInv
  <2>3. IsMap(Newest(Put(recordsRefused, Refusal(v, "noRecords")), MaxRefusals),
              Refusals, MaxRefusals)
    BY <1>1, <2>1, RememberedOne DEF MapsInv, Reasons
  <2> QED
    BY <2>1, <2>2, <2>3 DEF MapsInv
<1>8. ASSUME ClearRefusals
      PROVE  MapsInv'
  BY <1>1, <1>8, EmptyMap DEF ClearRefusals, MapsInv
<1>9. ASSUME NEW t \in Threads,
             \/ EnterOpening(t) \/ TakeLock(t) \/ LockTimeout(t) \/ Resolve(t)
             \/ TakeSlot(t) \/ SlotTimeout(t) \/ OpenIndex(t) \/ ReleaseLock(t)
             \/ ForgetLock(t) \/ TakeRecordsSlot(t) \/ RecordsSlotTimeout(t)
             \/ WantRecords(t) \/ Finish(t) \/ \E v \in Versions : Request(t, v)
      PROVE  UNCHANGED cacheVars
  BY <1>9 DEF EnterOpening, TakeLock, LockTimeout, Resolve, TakeSlot, SlotTimeout,
      OpenIndex, ReleaseLock, ForgetLock, TakeRecordsSlot, RecordsSlotTimeout,
      WantRecords, Finish, Request
<1>10. ASSUME \/ Tick \/ FinishReload \/ UNCHANGED vars
              \/ \E v \in Versions, s \in DiskStates : ChangeDisk(v, s)
              \/ \E v \in Versions : ChangeSnapshot(v)
       PROVE  UNCHANGED cacheVars
  BY <1>10 DEF Tick, FinishReload, ChangeDisk, ChangeSnapshot, vars, cacheVars
<1> QED
  BY <1>3, <1>4, <1>5, <1>6, <1>7, <1>8, <1>9, <1>10 DEF Next, Step, World

(* What a map remembers of a version is one of the outcomes.                *)
LEMMA CachedOutcome ==
  ASSUME MapsInv, NEW v \in Versions
  PROVE  Cached(v) \in Outcomes \cup {"miss"}
<1>1. v \in KeysOf(refused) => EntryOf(refused, v) \in Refusals
  BY PlaceFacts, ElementOfSeq DEF EntryOf, MapsInv, IsMap
<1> QED
  BY <1>1, Zenon DEF Cached, Live, Outcomes, Refusals, Reasons, Faults

(* What is on the machine changes only to what it can hold.                 *)
LEMMA WorldStep ==
  ASSUME LInv, MapsInv, WorldTypeOK, [Next]_vars
  PROVE  WorldTypeOK'
<1> USE PinnedConstants DEF WorldTypeOK, worldVars, Outcomes, Faults, Answer
<1>1. \A t \in Threads : pc[t] # "idle" => version[t] \in Versions
  BY DEF LInv, Aimed
<1>2. ASSUME NEW t \in Threads, NEW v \in Versions, Request(t, v)
      PROVE  WorldTypeOK'
  BY <1>2 DEF Request
<1>3. ASSUME NEW t \in Threads, LookUp(t) \/ Recheck(t)
      PROVE  WorldTypeOK'
  <2>1. Cached(version[t]) \in Outcomes \cup {"miss"}
    BY <1>1, <1>3, CachedOutcome DEF LookUp, Recheck
  <2>2. found' \in [Threads -> Outcomes] /\ UNCHANGED worldVars
    BY <1>3, <2>1 DEF LookUp, Recheck
  <2> QED
    BY <2>2
<1>4. ASSUME NEW t \in Threads,
             \/ EnterOpening(t) \/ TakeLock(t) \/ Remember(t) \/ ReleaseLock(t)
             \/ ForgetLock(t) \/ TakeSlot(t)
      PROVE  WorldTypeOK'
  BY <1>4 DEF EnterOpening, TakeLock, Remember, ReleaseLock, ForgetLock, TakeSlot
<1>5. ASSUME NEW t \in Threads,
             LockTimeout(t) \/ Resolve(t) \/ SlotTimeout(t) \/ Finish(t)
      PROVE  WorldTypeOK'
  BY <1>5 DEF LockTimeout, Resolve, SlotTimeout, Finish
<1>6. ASSUME NEW t \in Threads, OpenIndex(t)
      PROVE  WorldTypeOK'
  <2>1. Opened(version[t]) \in Outcomes
    BY <1>1, <1>6 DEF OpenIndex, Opened
  <2> QED
    BY <1>6, <2>1 DEF OpenIndex
<1>7. ASSUME NEW t \in Threads,
             \/ WantRecords(t) \/ LookUpRecords(t) \/ TakeRecordsSlot(t)
             \/ RecordsSlotTimeout(t) \/ VerifyRecords(t)
      PROVE  WorldTypeOK'
  BY <1>7 DEF WantRecords, LookUpRecords, TakeRecordsSlot, RecordsSlotTimeout, VerifyRecords
<1>8. ASSUME World \/ UNCHANGED vars
      PROVE  WorldTypeOK'
  BY <1>8 DEF World, Tick, Change, ChangeDisk, ChangeSnapshot, ClearRefusals,
      FinishReload, vars
<1> QED
  BY <1>2, <1>3, <1>4, <1>5, <1>6, <1>7, <1>8 DEF Next, Step

(* The invariant of the locks and the caches together.                      *)
THEOREM Invariant == Spec => []CInv
<1>1. Init => MapsInv /\ WorldTypeOK
  BY CachesInitially
<1>2. LInv /\ MapsInv /\ WorldTypeOK /\ [Next]_vars => MapsInv' /\ WorldTypeOK'
  BY MapsStep, WorldStep
<1> QED
  BY <1>1, <1>2, LockInvariant, PTL DEF Spec, CInv

(* Every variable keeps its type; each map has one entry per version,       *)
(* whatever order entries come and go in.                                   *)
THEOREM TypeCorrect == Spec => []TypeOK
<1>1. ASSUME NEW S, NEW d, NEW bound, IsMap(d, S, bound), \A e \in S : e.key \in Versions
      PROVE  IsOrderedDict(d) /\ KeysOf(d) \subseteq Versions
  BY <1>1, ElementOfSeq DEF IsMap, KeysOf
<1>2. (\A e \in Engines : e.key \in Versions) /\ (\A e \in Refusals : e.key \in Versions)
  BY DEF Engines, Refusals
<1>3. CInv => TypeOK
  <2> SUFFICES ASSUME CInv PROVE TypeOK
    OBVIOUS
  <2>1. \A d \in {pinned, pinnedRecords, refused, absent, recordsRefused} :
           IsOrderedDict(d) /\ KeysOf(d) \subseteq Versions
    BY <1>1, <1>2 DEF CInv, MapsInv
  <2> QED
    BY <2>1 DEF CInv, LInv, WorldTypeOK, Outcomes, TypeOK
<1> QED
  BY <1>3, Invariant, PTL

(* However many versions clients name, no map passes its bound.             *)
THEOREM Bounded == Spec => []CachesBounded
<1>1. CInv => CachesBounded
  BY DEF CInv, MapsInv, IsMap, CachesBounded
<1> QED
  BY <1>1, Invariant, PTL

(* Naming absent versions evicts no remembered fault: one leaves its map    *)
(* only by a reload, once it has run out, or for another fault.             *)
THEOREM FaultsKept == Spec => FaultsOutliveAbsents
<1> DEFINE Kept(v) ==
      \/ v \in KeysOf(refused') \/ reload' # reload \/ ~Live(refused, v)
      \/ \E u \in KeysOf(refused') \ KeysOf(refused) :
            EntryOf(refused', u).reason \in Faults
<1>1. ASSUME CInv, [Next]_vars, NEW v \in KeysOf(refused)
      PROVE  Kept(v)
  <2>1. refused \in Seq(Refusals) /\ IsOrderedDict(refused) /\ Len(refused) <= MaxRefusals
    BY <1>1 DEF CInv, MapsInv, IsMap
  <2>2. ASSUME UNCHANGED refused
        PROVE  Kept(v)
    BY <2>2
  <2>3. ASSUME NEW t \in Threads, LookUp(t) \/ Recheck(t)
        PROVE  Kept(v)
    <3>1. \/ UNCHANGED refused
          \/ refused' = Without(refused, version[t]) /\ ~Live(refused, version[t])
      BY <2>3 DEF LookUp, Recheck, Look
    <3> QED
      BY <2>1, <3>1, WithoutFacts
  <2>4. ASSUME NEW t \in Threads, Remember(t)
        PROVE  Kept(v)
    <3>1. CASE found[t] \notin Faults
      BY <2>4, <3>1 DEF Remember, Remembered
    <3>2. CASE found[t] \in Faults
      <4> DEFINE e == Refusal(version[t], found[t])
      <4>1. refused' = Newest(Put(refused, e), MaxRefusals)
        BY <2>4, <3>2 DEF Remember, Remembered
      <4>2. version[t] \in Versions
        BY <1>1, <2>4 DEF CInv, LInv, Aimed, Remember
      <4>3. e \in Refusals /\ e.reason \in Faults
        BY <1>1, <3>2, <4>2, PinnedConstants
        DEF CInv, WorldTypeOK, Refusal, Refusals, Reasons
      <4> HIDE DEF e
      <4>4. \/ KeysOf(refused') = KeysOf(refused)
            \/ /\ e.key \in KeysOf(refused') \ KeysOf(refused)
               /\ EntryOf(refused', e.key) = e
        BY <2>1, <4>1, <4>3, PinnedConstants, NewestPut
      <4> QED
        BY <4>3, <4>4
    <3> QED
      BY <3>1, <3>2
  <2>5. ASSUME ClearRefusals
        PROVE  Kept(v)
    BY <2>5 DEF ClearRefusals
  <2>6. ASSUME NEW t \in Threads,
               \/ EnterOpening(t) \/ TakeLock(t) \/ LockTimeout(t) \/ Resolve(t)
               \/ TakeSlot(t) \/ SlotTimeout(t) \/ OpenIndex(t) \/ ReleaseLock(t)
               \/ ForgetLock(t) \/ TakeRecordsSlot(t) \/ RecordsSlotTimeout(t)
               \/ LookUpRecords(t) \/ VerifyRecords(t)
               \/ WantRecords(t) \/ Finish(t) \/ \E u \in Versions : Request(t, u)
        PROVE  UNCHANGED refused
    BY <2>6 DEF EnterOpening, TakeLock, LockTimeout, Resolve, TakeSlot, SlotTimeout,
        OpenIndex, ReleaseLock, ForgetLock, TakeRecordsSlot, RecordsSlotTimeout,
        LookUpRecords, VerifyRecords, WantRecords, Finish, Request, cacheVars
  <2>7. ASSUME \/ Tick \/ FinishReload \/ UNCHANGED vars
               \/ \E u \in Versions, s \in DiskStates : ChangeDisk(u, s)
               \/ \E u \in Versions : ChangeSnapshot(u)
        PROVE  UNCHANGED refused
    BY <2>7 DEF Tick, FinishReload, ChangeDisk, ChangeSnapshot, vars, cacheVars
  <2> HIDE DEF Kept
  <2> QED
    BY <1>1, <2>2, <2>3, <2>4, <2>5, <2>6, <2>7 DEF Next, Step, World
<1>2. CInv /\ [Next]_vars =>
        [\A v \in KeysOf(refused) :
            v \in KeysOf(refused') \/ reload' # reload \/ ~Live(refused, v)
            \/ \E u \in KeysOf(refused') \ KeysOf(refused) :
                  EntryOf(refused', u).reason \in Faults]_vars
  BY <1>1
<1> QED
  BY <1>2, Invariant, PTL DEF Spec, FaultsOutliveAbsents
=============================================================================
