---------------------------- MODULE Dedup_proofs ----------------------------
(***************************************************************************)
(* What deduplication never does to the records it was given, whatever the *)
(* records are. The inductive invariant is DedupInv. Its heart is          *)
(* Clustered: every record holds a forum id or names its own proceedings   *)
(* paper, and a merge refuses two forums and two papers, so a cluster is   *)
(* one original (the records of one id) or the pair of a note and a paper, *)
(* and no original is in two. From that: a title or an abstract never finds*)
(* two papers in one group to fold; the first link leaves no link to make; *)
(* every id that went in leads by its merge rows to the record that holds  *)
(* its claims; and the rows name every record that stayed apart.           *)
(*                                                                         *)
(* That a second run changes nothing rests on TwoRunsInv. The passes end   *)
(* only where no step merges, as a merge leaves fewer clusters; and what   *)
(* writing and reconciling take from the clusters, no rule looks at: those *)
(* of the records that come out are Twins of those that were written, so   *)
(* nothing merges among them and their rows are the same.                  *)
(***************************************************************************)
EXTENDS Dedup, FiniteSetTheorems, TLAPS

-----------------------------------------------------------------------------
(* Finite sets.                                                            *)

(* The values of a finite function are finitely many.                       *)
LEMMA FiniteImage ==
  ASSUME NEW S, IsFiniteSet(S), NEW F, F = [x \in S |-> F[x]]
  PROVE  IsFiniteSet({F[x] : x \in S})
<1> DEFINE T == {F[x] : x \in S}
<1>1. F \in Surjection(S, T)
  BY DEF Surjection
<1> HIDE DEF T
<1> QED BY <1>1, FS_Surjection DEF T

LEMMA AtMostOne ==
  ASSUME NEW S, IsFiniteSet(S), Cardinality(S) <= 1, NEW x \in S, NEW y \in S
  PROVE  x = y
<1>1. Cardinality(S) \in Nat /\ Cardinality(S) # 0
  BY FS_CardinalityType, FS_EmptySet
<1>2. Cardinality(S) = 1
  BY <1>1
<1> QED BY <1>2, FS_Singleton

LEMMA MoreThanOne ==
  ASSUME NEW S, IsFiniteSet(S)
  PROVE  Cardinality(S) > 1 <=> \E x, y \in S : x # y
<1>1. Cardinality(S) \in Nat
  BY FS_CardinalityType
<1>2. ASSUME Cardinality(S) > 1 PROVE \E x, y \in S : x # y
  <2>1. S # {}
    BY <1>2, FS_EmptySet
  <2>2. PICK x \in S : TRUE
    BY <2>1
  <2>3. S # {x}
    BY <1>2, <1>1, FS_Singleton
  <2> QED BY <2>2, <2>3
<1>3. ASSUME ~(Cardinality(S) > 1), NEW x \in S, NEW y \in S PROVE x = y
  BY <1>1, <1>3, AtMostOne
<1> QED BY <1>2, <1>3

LEMMA PairIsFinite ==
  ASSUME NEW x, NEW y
  PROVE  IsFiniteSet({x, y})
<1>1. IsFiniteSet({x}) /\ IsFiniteSet({y})
  BY FS_Singleton
<1>2. {x, y} = {x} \cup {y}
  OBVIOUS
<1> QED BY <1>1, <1>2, FS_Union

(* In a finite set a strict order has a last element.                       *)
LEMMA HasLast ==
  ASSUME NEW T, IsFiniteSet(T), T # {}, NEW R,
         \A x \in T : <<x, x>> \notin R,
         \A x, y, z \in T : <<x, y>> \in R /\ <<y, z>> \in R => <<x, z>> \in R
  PROVE  \E x \in T : \A y \in T : <<x, y>> \notin R
<1> DEFINE Above(x) == {y \in T : <<x, y>> \in R}
           Aboves == {Above(x) : x \in T}
<1>1. Aboves \subseteq FiniteSubsetsOf(T) /\ Aboves # {}
  <2>1. \A x \in T : Above(x) \in FiniteSubsetsOf(T)
    BY FS_Subset DEF FiniteSubsetsOf
  <2> HIDE DEF Above
  <2> QED BY <2>1
<1>2. PICK a \in Aboves : \A b \in Aboves : <<b, a>> \notin StrictSubsetOrdering(T)
  <2> HIDE DEF Aboves
  <2> QED BY <1>1, FS_StrictSubsetOrderingWellFounded, WFMin
<1>3. PICK x \in T : a = Above(x)
  BY <1>2
<1>4. \A y \in T : <<x, y>> \notin R
  <2> SUFFICES ASSUME NEW y \in T, <<x, y>> \in R PROVE FALSE
    OBVIOUS
  <2>1. Above(y) \subseteq Above(x) /\ y \in Above(x) /\ y \notin Above(y)
    OBVIOUS
  <2>2. Above(y) \in Aboves
    OBVIOUS
  <2>3. Above(y) # Above(x) /\ Above(y) \in SUBSET T /\ Above(x) \in SUBSET T
    BY <2>1
  <2> HIDE DEF Above, Aboves
  <2>4. <<Above(y), Above(x)>> \in StrictSubsetOrdering(T)
    BY <2>1, <2>3 DEF StrictSubsetOrdering
  <2> QED BY <2>2, <2>4, <1>2, <1>3
<1> QED BY <1>4

-----------------------------------------------------------------------------
(* What a source says last, and what a cluster keeps of it.                 *)

LEMMA PlaceHolds ==
  ASSUME NEW order, NEW S, order \in Seq(S), NEW x \in {order[i] : i \in DOMAIN order}
  PROVE  Place(x, order) \in Nat /\ order[Place(x, order)] = x
<1>1. \E i \in DOMAIN order : order[i] = x
  OBVIOUS
<1>2. Place(x, order) \in DOMAIN order /\ order[Place(x, order)] = x
  BY <1>1 DEF Place
<1> QED BY <1>2

LEMMA TextPlaced ==
  ASSUME NEW x \in Text, NEW y \in Text
  PROVE  /\ Place(x, ValueOrder) \in Nat
         /\ Place(x, ValueOrder) = Place(y, ValueOrder) => x = y
<1>1. \A z \in Text : Place(z, ValueOrder) \in Nat /\ ValueOrder[Place(z, ValueOrder)] = z
  BY PlaceHolds, InputsAssumption DEF Text
<1> QED BY <1>1

LEMMA BeforeIs ==
  ASSUME NEW a \in Nat \X Nat \X Nat, NEW b \in Nat \X Nat \X Nat
  PROVE  Before(a, b) <=> \/ a[1] < b[1]
                          \/ a[1] = b[1] /\ a[2] < b[2]
                          \/ a[1] = b[1] /\ a[2] = b[2] /\ a[3] < b[3]
<1>1. 1..3 = {1, 2, 3} /\ 1..(1 - 1) = {} /\ 1..(2 - 1) = {1} /\ 1..(3 - 1) = {1, 2}
  OBVIOUS
<1> QED BY <1>1 DEF Before

Newer(c, d) == d.field = c.field /\ d.source = c.source /\ Before(SortKey(c), SortKey(d))

LEMMA KeysOfClaims ==
  ASSUME NEW c \in Claims
  PROVE  SortKey(c) \in Nat \X Nat \X Nat
BY TextPlaced DEF Claims, SortKey

LEMMA NewerOrders ==
  ASSUME NEW c \in Claims, NEW d \in Claims, NEW e \in Claims
  PROVE  /\ ~Newer(c, c)
         /\ Newer(c, d) /\ Newer(d, e) => Newer(c, e)
         /\ c.field = d.field /\ c.source = d.source => c = d \/ Newer(c, d) \/ Newer(d, c)
<1>1. /\ SortKey(c) \in Nat \X Nat \X Nat
      /\ SortKey(d) \in Nat \X Nat \X Nat
      /\ SortKey(e) \in Nat \X Nat \X Nat
  BY KeysOfClaims
<1>2. ~Newer(c, c) /\ (Newer(c, d) /\ Newer(d, e) => Newer(c, e))
  BY <1>1, BeforeIs DEF Newer
<1>3. ASSUME c.field = d.field, c.source = d.source, ~Newer(c, d), ~Newer(d, c) PROVE c = d
  <2>1. SortKey(c)[1] = SortKey(d)[1] /\ SortKey(c)[2] = SortKey(d)[2] /\ SortKey(c)[3] = SortKey(d)[3]
    BY <1>1, <1>3, BeforeIs DEF Newer
  <2>2. c.at = d.at /\ Place(c.value, ValueOrder) = Place(d.value, ValueOrder)
          /\ Place(c.evidence, ValueOrder) = Place(d.evidence, ValueOrder)
    BY <2>1 DEF SortKey
  <2>3. c.value = d.value /\ c.evidence = d.evidence
    BY <2>2, TextPlaced DEF Claims
  <2> QED BY <1>3, <2>2, <2>3 DEF Claims
<1> QED BY <1>2, <1>3

(* Whatever a source says of a field, its newest claim of it is kept, alone. *)
LEMMA NewestKept ==
  ASSUME NEW S \in SUBSET Claims, IsFiniteSet(S), NEW c \in S
  PROVE  \E d \in Kept(S) : d.field = c.field /\ d.source = c.source
<1> DEFINE T == {d \in S : d.field = c.field /\ d.source = c.source}
           R == {p \in T \X T : Newer(p[1], p[2])}
<1>1. IsFiniteSet(T) /\ T # {} /\ T \subseteq Claims
  BY FS_Subset
<1>2. \A x \in T : <<x, x>> \notin R
  BY <1>1, NewerOrders
<1>3. \A x, y, z \in T : <<x, y>> \in R /\ <<y, z>> \in R => <<x, z>> \in R
  BY <1>1, NewerOrders
<1>4. PICK d \in T : \A e \in T : <<d, e>> \notin R
  <2> HIDE DEF T, R
  <2> QED BY <1>1, <1>2, <1>3, HasLast
<1>5. d \in Kept(S)
  BY <1>4 DEF Kept, Newer
<1> QED BY <1>5

LEMMA OneKept ==
  ASSUME NEW S \in SUBSET Claims, NEW c \in Kept(S), NEW d \in Kept(S),
         c.field = d.field, c.source = d.source
  PROVE  c = d
BY NewerOrders DEF Kept, Newer

LEMMA KeptOfMore ==
  ASSUME NEW S, NEW T
  PROVE  Kept(S) \subseteq S /\ (S \subseteq T => Kept(T) \cap S \subseteq Kept(S))
BY DEF Kept

-----------------------------------------------------------------------------
(* Clusters as the first step leaves them, and two of them joined.          *)

Distinct(G) == \A c, d \in G : c.id = d.id => c = d
Ided(G) == \A c \in G : c.id \in VenueYears \X Natives

LEMMA IdsPlaced ==
  ASSUME NEW i \in VenueYears \X Natives
  PROVE  i = <<i[1], i[2]>> /\ i[1] \in Text /\ i[2] \in Text
BY InputsAssumption

LEMMA IdsOrdered ==
  ASSUME NEW i \in VenueYears \X Natives, NEW j \in VenueYears \X Natives,
         NEW k \in VenueYears \X Natives
  PROVE  /\ ~IdBefore(i, i)
         /\ IdBefore(i, j) /\ IdBefore(j, k) => IdBefore(i, k)
         /\ i = j \/ IdBefore(i, j) \/ IdBefore(j, i)
<1> DEFINE P(x) == Place(x, ValueOrder)
<1>1. /\ i = <<i[1], i[2]>> /\ j = <<j[1], j[2]>> /\ k = <<k[1], k[2]>>
      /\ \A x \in {i[1], i[2], j[1], j[2], k[1], k[2]} : x \in Text
  BY IdsPlaced
<1>2. /\ \A x \in {i[1], i[2], j[1], j[2], k[1], k[2]} : P(x) \in Nat
      /\ P(i[1]) = P(j[1]) => i[1] = j[1]
      /\ P(i[2]) = P(j[2]) => i[2] = j[2]
  BY <1>1, TextPlaced
<1> QED BY <1>1, <1>2 DEF IdBefore

LEMMA FirstIs ==
  ASSUME NEW G, IsFiniteSet(G), G # {}, Ided(G), Distinct(G)
  PROVE  First(G) \in G /\ \A d \in G \ {First(G)} : IdBefore(First(G).id, d.id)
<1> DEFINE R == {p \in G \X G : IdBefore(p[2].id, p[1].id)}
<1>1. \A x \in G : <<x, x>> \notin R
  BY IdsOrdered DEF Ided
<1>2. \A x, y, z \in G : <<x, y>> \in R /\ <<y, z>> \in R => <<x, z>> \in R
  BY IdsOrdered DEF Ided
<1>3. PICK c \in G : \A d \in G : <<c, d>> \notin R
  <2> HIDE DEF R
  <2> QED BY <1>1, <1>2, HasLast
<1>4. \A d \in G \ {c} : IdBefore(c.id, d.id)
  BY <1>3, IdsOrdered DEF Ided, Distinct
<1> QED BY <1>4 DEF First

LEMMA FirstOfOne == ASSUME NEW c PROVE First({c}) = c
BY DEF First

LEMMA ClusterParts ==
  ASSUME NEW i, NEW S, NEW F
  PROVE  Cluster(i, S, F).id = i /\ Cluster(i, S, F).claims = S /\ Cluster(i, S, F).from = F
BY DEF Cluster

LEMMA ClusterNames ==
  ASSUME NEW i, NEW S, NEW F
  PROVE  /\ Cluster(i, S, F).papers = Values(Kept(S), "proceedings")
         /\ Cluster(i, S, F).forums = Values(Kept(S), "forum") \cup ({i[2]} \cap Forums)
BY DEF Cluster

Heard(a, field) == {c \in a.claims : c.field = field}

(* What the records of one id are together.                                 *)
Original(a) ==
    /\ a = Cluster(a.id, a.claims, {a.id})
    /\ a.id \in VenueYears \X Natives
    /\ a.claims \in SUBSET Claims /\ IsFiniteSet(a.claims)
    /\ a.id[2] \in Papers => a.papers = {a.id[2]}

(* Which of its sources say what, as only the status of a pair rests on.    *)
Acceptors == {AcceptanceOrder[i] : i \in DOMAIN AcceptanceOrder}

Sourced(a) ==
    /\ \A c \in a.claims : ~Absence(c)
    /\ Heard(a, "status") # {}
    /\ \A c \in Heard(a, "status") :
          /\ c.source \in Acceptors
          /\ c.value \in Listable \/ c.source \in OpenReview \cup Imported
    /\ a.id[2] \in Forums =>
          /\ \A c \in a.claims : c.source \in OpenReview \cup Imported
          /\ \A c \in a.claims : \E d \in Heard(a, "status") : d.source = c.source
          /\ \A c \in Heard(a, "proceedings") : c.source \in Imported
    /\ a.id[2] \in Papers =>
          /\ \A c \in a.claims : c.source \notin OpenReview
          /\ (\E c \in a.claims : c.source \notin Imported) =>
                /\ \E c \in Heard(a, "status") : c.source \notin Imported
                /\ \E c \in Heard(a, "proceedings") : c.source \notin Imported

LEMMA ValuesFinite ==
  ASSUME NEW S, IsFiniteSet(S), NEW field
  PROVE  IsFiniteSet(Values(Kept(S), field))
<1> DEFINE T == {d \in Kept(S) : d.field = field}
<1>1. IsFiniteSet(T)
  BY KeptOfMore, FS_Subset
<1> DEFINE F == [c \in T |-> c.value]
<1>2. IsFiniteSet({F[c] : c \in T})
  <2>1. F = [c \in T |-> F[c]]
    OBVIOUS
  <2> HIDE DEF F, T
  <2> QED BY <1>1, <2>1, FiniteImage
<1>3. Values(Kept(S), field) = {F[c] : c \in T}
  BY DEF Values
<1> QED BY <1>2, <1>3

LEMMA NamesFinite ==
  ASSUME NEW i, NEW S, IsFiniteSet(S), NEW F, NEW c, c = Cluster(i, S, F)
  PROVE  IsFiniteSet(c.forums) /\ IsFiniteSet(c.papers)
<1>1. IsFiniteSet({i[2]} \cap Forums)
  <2>1. IsFiniteSet({i[2]}) /\ {i[2]} \cap Forums \in SUBSET {i[2]}
    BY FS_Singleton
  <2> QED BY <2>1, FS_Subset
<1>2. IsFiniteSet(Values(Kept(S), "forum")) /\ IsFiniteSet(Values(Kept(S), "proceedings"))
  BY ValuesFinite
<1>3. c.forums = Values(Kept(S), "forum") \cup ({i[2]} \cap Forums) /\ c.papers = Values(Kept(S), "proceedings")
  BY ClusterNames
<1>4. IsFiniteSet(Values(Kept(S), "forum") \cup ({i[2]} \cap Forums))
  BY <1>1, <1>2, FS_Union
<1> QED BY <1>2, <1>3, <1>4

(* Together, what a cluster says of a field is what its parts say of it.    *)
LEMMA ValuesTogether ==
  ASSUME NEW S \in SUBSET Claims, IsFiniteSet(S), NEW T \in SUBSET Claims, IsFiniteSet(T), NEW field
  PROVE  /\ Values(Kept(S \cup T), field) \subseteq Values(Kept(S), field) \cup Values(Kept(T), field)
         /\ Values(Kept(S), field) # {} => Values(Kept(S \cup T), field) # {}
         /\ Values(Kept(T), field) # {} => Values(Kept(S \cup T), field) # {}
<1>1. Kept(S \cup T) \subseteq Kept(S) \cup Kept(T)
  BY KeptOfMore
<1>2. IsFiniteSet(S \cup T) /\ S \cup T \in SUBSET Claims
  BY FS_Union
<1>3. ASSUME NEW c \in S \cup T, c.field = field PROVE Values(Kept(S \cup T), field) # {}
  <2>1. PICK d \in Kept(S \cup T) : d.field = c.field /\ d.source = c.source
    BY <1>2, NewestKept
  <2> QED BY <2>1, <1>3 DEF Values
<1> QED BY <1>1, <1>3, KeptOfMore DEF Values

(* The two that one record may join: a submission and a proceedings paper   *)
(* of one venue and year, which name no other and share a side of the track *)
(* rule.                                                                    *)
Pair(a, b) ==
    /\ a.id[1] = b.id[1] /\ a.id[2] \in Forums /\ b.id[2] \in Papers
    /\ Cardinality(a.forums \cup b.forums) <= 1 /\ Cardinality(a.papers \cup b.papers) <= 1
    /\ ~TracksDiffer({a, b})

LEMMA OriginalNames ==
  ASSUME NEW a, Original(a)
  PROVE  /\ a.from = {a.id}
         /\ a.id[2] \in Forums => a.id[2] \in a.forums
         /\ a.id[2] \in Papers => a.id[2] \in a.papers /\ a.papers = {a.id[2]}
         /\ a.id[2] \in Forums \/ a.id[2] \in Papers
         /\ ~(a.id[2] \in Forums /\ a.id[2] \in Papers)
         /\ IsFiniteSet(a.forums) /\ IsFiniteSet(a.papers)
         /\ a.forums = Values(Kept(a.claims), "forum") \cup ({a.id[2]} \cap Forums)
         /\ a.papers = Values(Kept(a.claims), "proceedings")
<1>1. /\ a.from = {a.id}
      /\ a.forums = Values(Kept(a.claims), "forum") \cup ({a.id[2]} \cap Forums)
      /\ a.papers = Values(Kept(a.claims), "proceedings")
  <2>1. a = Cluster(a.id, a.claims, {a.id})
    BY DEF Original
  <2> QED BY <2>1, ClusterParts, ClusterNames
<1>2. IsFiniteSet(a.forums) /\ IsFiniteSet(a.papers)
  BY NamesFinite DEF Original
<1>3. a.id[2] \in Natives
  BY DEF Original
<1> QED BY <1>1, <1>2, <1>3, NativesAssumption DEF Natives, Original

LEMMA PairNames ==
  ASSUME NEW a, NEW b, Original(a), Original(b), Pair(a, b)
  PROVE  /\ a.forums = {a.id[2]} /\ b.forums \subseteq {a.id[2]}
         /\ b.papers = {b.id[2]} /\ a.papers \subseteq {b.id[2]}
         /\ a # b /\ a.id # b.id
<1>1. IsFiniteSet(a.forums \cup b.forums) /\ IsFiniteSet(a.papers \cup b.papers)
  BY OriginalNames, FS_Union
<1>2. \A x, y \in a.forums \cup b.forums : x = y
  BY <1>1, AtMostOne DEF Pair
<1>3. \A x, y \in a.papers \cup b.papers : x = y
  BY <1>1, AtMostOne DEF Pair
<1>4. a.id[2] \in a.forums /\ b.id[2] \in b.papers
  BY OriginalNames DEF Pair
<1> QED BY <1>2, <1>3, <1>4, OriginalNames DEF Pair

LEMMA JoinedIs ==
  ASSUME NEW a, NEW b, Original(a), Original(b), Pair(a, b)
  PROVE  /\ Survivor({a, b}) = a.id
         /\ Joined({a, b}) = Cluster(a.id, a.claims \cup b.claims, {a.id, b.id})
<1>1. Survivor({a, b}) = a.id
  <2>1. {c \in {a, b} : c.id[2] \in Forums} = {a}
    BY OriginalNames DEF Pair
  <2> QED BY <2>1, FirstOfOne DEF Survivor
<1>2. /\ UNION {c.claims : c \in {a, b}} = a.claims \cup b.claims
      /\ UNION {c.from : c \in {a, b}} = {a.id, b.id}
  BY OriginalNames
<1> QED BY <1>1, <1>2 DEF Joined

LEMMA JoinedPair ==
  ASSUME NEW a, NEW b, Original(a), Original(b), Pair(a, b)
  PROVE  /\ Joined({a, b}).id = a.id /\ Joined({a, b}).claims = a.claims \cup b.claims
         /\ Joined({a, b}).from = {a.id, b.id}
         /\ Joined({a, b}).forums = {a.id[2]} /\ Joined({a, b}).papers = {b.id[2]}
<1> DEFINE J == Joined({a, b})
<1>3. J = Cluster(a.id, a.claims \cup b.claims, {a.id, b.id})
  BY JoinedIs
<1> HIDE DEF J
<1>4. /\ J.id = a.id /\ J.claims = a.claims \cup b.claims /\ J.from = {a.id, b.id}
      /\ J.forums = Values(Kept(a.claims \cup b.claims), "forum") \cup ({a.id[2]} \cap Forums)
      /\ J.papers = Values(Kept(a.claims \cup b.claims), "proceedings")
  <2> DEFINE S == a.claims \cup b.claims
             F == {a.id, b.id}
             i == a.id
  <2>1. J = Cluster(i, S, F)
    BY <1>3
  <2> HIDE DEF S, F, i
  <2>2. J.id = i /\ J.claims = S /\ J.from = F
    BY <2>1, ClusterParts
  <2>3. J.forums = Values(Kept(S), "forum") \cup ({i[2]} \cap Forums)
    BY <2>1, ClusterNames
  <2>4. J.papers = Values(Kept(S), "proceedings")
    BY <2>1, ClusterNames
  <2> QED BY <2>2, <2>3, <2>4 DEF S, F, i
<1>5. /\ Values(Kept(a.claims \cup b.claims), "forum") \subseteq a.forums \cup b.forums
      /\ Values(Kept(a.claims \cup b.claims), "proceedings") \subseteq a.papers \cup b.papers
      /\ Values(Kept(a.claims \cup b.claims), "proceedings") # {}
  <2>1. /\ a.claims \in SUBSET Claims /\ IsFiniteSet(a.claims)
        /\ b.claims \in SUBSET Claims /\ IsFiniteSet(b.claims)
    BY DEF Original
  <2>2. /\ Values(Kept(a.claims), "forum") \subseteq a.forums /\ Values(Kept(b.claims), "forum") \subseteq b.forums
        /\ a.papers = Values(Kept(a.claims), "proceedings") /\ b.papers = Values(Kept(b.claims), "proceedings")
        /\ b.papers # {}
    BY OriginalNames, PairNames
  <2>3. /\ Values(Kept(a.claims \cup b.claims), "forum")
              \subseteq Values(Kept(a.claims), "forum") \cup Values(Kept(b.claims), "forum")
        /\ Values(Kept(a.claims \cup b.claims), "proceedings")
              \subseteq Values(Kept(a.claims), "proceedings") \cup Values(Kept(b.claims), "proceedings")
        /\ Values(Kept(b.claims), "proceedings") # {} => Values(Kept(a.claims \cup b.claims), "proceedings") # {}
    BY <2>1, ValuesTogether
  <2> QED BY <2>2, <2>3
<1>6. J.forums = {a.id[2]} /\ J.papers = {b.id[2]}
  <2> DEFINE VF == Values(Kept(a.claims \cup b.claims), "forum")
             VP == Values(Kept(a.claims \cup b.claims), "proceedings")
  <2>1. /\ J.forums = VF \cup ({a.id[2]} \cap Forums) /\ J.papers = VP
        /\ VF \subseteq a.forums \cup b.forums /\ VP \subseteq a.papers \cup b.papers /\ VP # {}
    BY <1>4, <1>5
  <2>2. /\ a.forums = {a.id[2]} /\ b.forums \subseteq {a.id[2]}
        /\ b.papers = {b.id[2]} /\ a.papers \subseteq {b.id[2]} /\ a.id[2] \in Forums
    BY PairNames DEF Pair
  <2> HIDE DEF VF, VP
  <2> QED BY <2>1, <2>2
<1> QED BY <1>4, <1>6 DEF J

-----------------------------------------------------------------------------
(* What every step leaves: each cluster is an original or a pair of them.    *)

Originals(A) == IsFiniteSet(A) /\ Distinct(A) /\ \A a \in A : Original(a) /\ Sourced(a)

Shape(C, A) == \A c \in C : c \in A \/ \E a, b \in A : Pair(a, b) /\ c = Joined({a, b})
Apart(C) == \A c, d \in C : c # d => c.from \cap d.from = {}
Covers(C, A) == \A a \in A : \E c \in C : a.id \in c.from

JoinOf(c, a, b) ==
    /\ Pair(a, b) /\ c = Joined({a, b}) /\ c.id = a.id /\ c.from = {a.id, b.id}
    /\ c.forums = {a.id[2]} /\ c.papers = {b.id[2]}

LEMMA PairKind ==
  ASSUME NEW A, Originals(A), NEW C, Shape(C, A), NEW c \in C, c \notin A
  PROVE  \E a, b \in A : JoinOf(c, a, b)
<1>1. PICK a \in A, b \in A : Pair(a, b) /\ c = Joined({a, b})
  BY DEF Shape
<1>2. Original(a) /\ Original(b)
  BY DEF Originals
<1>3. /\ c.id = a.id /\ c.from = {a.id, b.id} /\ c.forums = {a.id[2]} /\ c.papers = {b.id[2]}
  BY <1>1, <1>2, JoinedPair
<1> QED BY <1>1, <1>3 DEF JoinOf

LEMMA Kinds ==
  ASSUME NEW A, Originals(A), NEW C, Shape(C, A), NEW c \in C
  PROVE  /\ c.id \in VenueYears \X Natives /\ c.id \in c.from
         /\ IsFiniteSet(c.forums) /\ IsFiniteSet(c.papers)
         /\ c.id[2] \in Forums => c.id[2] \in c.forums
         /\ c.id[2] \in Papers => c \in A /\ c.id[2] \in c.papers
         /\ c.id[2] \in Forums \/ c.id[2] \in Papers
         /\ c \in A => c.from = {c.id}
<1>1. CASE c \in A
  BY <1>1, OriginalNames DEF Originals, Original
<1>2. CASE c \notin A
  <2>1. PICK a \in A, b \in A : JoinOf(c, a, b)
    BY <1>2, PairKind
  <2>2. IsFiniteSet(c.forums) /\ IsFiniteSet(c.papers)
    BY <2>1, FS_Singleton DEF JoinOf
  <2>3. a.id \in VenueYears \X Natives /\ a.id[2] \in Forums /\ a.id[2] \notin Papers
    BY <2>1, OriginalNames DEF JoinOf, Original, Originals, Pair
  <2> QED BY <1>2, <2>1, <2>2, <2>3 DEF JoinOf
<1> QED BY <1>1, <1>2

LEMMA IdsDiffer ==
  ASSUME NEW A, Originals(A), NEW C, Shape(C, A), Apart(C)
  PROVE  Distinct(C) /\ Ided(C)
BY Kinds DEF Distinct, Ided, Apart

LEMMA NamesOfAGroup ==
  ASSUME NEW A, Originals(A), NEW C, Shape(C, A), NEW g \in SUBSET C, IsFiniteSet(g)
  PROVE  /\ IsFiniteSet(UNION {c.forums : c \in g})
         /\ IsFiniteSet(UNION {c.papers : c \in g})
<1>1. \A c \in g : IsFiniteSet(c.forums) /\ IsFiniteSet(c.papers)
  BY Kinds
<1> DEFINE F == [c \in g |-> c.forums]
           P == [c \in g |-> c.papers]
<1>2. IsFiniteSet({F[c] : c \in g}) /\ IsFiniteSet({P[c] : c \in g})
  <2>1. F = [c \in g |-> F[c]] /\ P = [c \in g |-> P[c]]
    OBVIOUS
  <2> HIDE DEF F, P
  <2> QED BY <2>1, FiniteImage
<1>3. {F[c] : c \in g} = {c.forums : c \in g} /\ {P[c] : c \in g} = {c.papers : c \in g}
  OBVIOUS
<1> HIDE DEF F, P
<1>4. IsFiniteSet({c.forums : c \in g}) /\ IsFiniteSet({c.papers : c \in g})
  BY <1>2, <1>3
<1>5. \A T \in {c.forums : c \in g} : IsFiniteSet(T)
  BY <1>1
<1>6. \A T \in {c.papers : c \in g} : IsFiniteSet(T)
  BY <1>1
<1> QED BY <1>4, <1>5, <1>6, FS_UNION

(* What may be one record is an original submission and an original paper.  *)
LEMMA OneOfEach ==
  ASSUME NEW A, Originals(A), NEW C, Shape(C, A), Apart(C),
         NEW g \in SUBSET C, IsFiniteSet(g), NEW x \in g, NEW y \in g, x # y,
         \A c, d \in g : c.id[1] = d.id[1],
         Cardinality(UNION {c.forums : c \in g}) <= 1,
         Cardinality(UNION {c.papers : c \in g}) <= 1,
         ~TracksDiffer(g)
  PROVE  \E a, b \in A : g = {a, b} /\ Pair(a, b)
<1> DEFINE FF == UNION {c.forums : c \in g}
           PP == UNION {c.papers : c \in g}
<1>1. IsFiniteSet(FF) /\ IsFiniteSet(PP)
  BY NamesOfAGroup
<1>2. (\A p, q \in FF : p = q) /\ (\A p, q \in PP : p = q)
  BY <1>1, AtMostOne
<1>3. \A c \in g : c.forums \subseteq FF /\ c.papers \subseteq PP
  OBVIOUS
<1>4. \A c \in g : c \in C /\ c.id \in VenueYears \X Natives
  BY Kinds
<1>5. \A c, d \in g : c.id[2] = d.id[2] => c = d
  <2> SUFFICES ASSUME NEW c \in g, NEW d \in g, c.id[2] = d.id[2] PROVE c = d
    OBVIOUS
  <2>1. c.id = d.id
    <3>1. c.id[1] = d.id[1]
      OBVIOUS
    <3>2. c.id = <<c.id[1], c.id[2]>> /\ d.id = <<d.id[1], d.id[2]>>
      BY <1>4
    <3> QED BY <3>1, <3>2
  <2> QED BY <2>1, <1>4, IdsDiffer DEF Distinct
<1>6. \A c, d \in g : c.id[2] \in Forums /\ d.id[2] \in Forums => c = d
  BY <1>2, <1>3, <1>5, Kinds
<1>7. \A c, d \in g : c.id[2] \in Papers /\ d.id[2] \in Papers => c = d
  <2>1. \A c \in g : c.id[2] \in Papers => c.id[2] \in PP
    BY <1>3, Kinds
  <2> HIDE DEF PP
  <2> QED BY <2>1, <1>2, <1>5
<1>8. \A c \in g : c.id[2] \in Forums \/ c.id[2] \in Papers
  BY Kinds
<1>9. PICK a \in g, b \in g : a.id[2] \in Forums /\ b.id[2] \in Papers
  BY <1>6, <1>7, <1>8
<1>10. g = {a, b}
  BY <1>6, <1>7, <1>8, <1>9
<1>11. b \in A /\ b.id[2] \in b.papers
  BY <1>9, Kinds
<1>12. a \in A
  <2> SUFFICES ASSUME a \notin A PROVE FALSE
    OBVIOUS
  <2>1. PICK p \in A, q \in A : JoinOf(a, p, q)
    BY PairKind
  <2>2. q.id[2] = b.id[2]
    <3>1. a.papers \subseteq PP /\ b.papers \subseteq PP
      OBVIOUS
    <3>2. q.id[2] \in a.papers
      BY <2>1 DEF JoinOf
    <3> HIDE DEF PP
    <3> QED BY <3>1, <3>2, <1>11, <1>2
  <2>3. q.id[1] = b.id[1]
    BY <2>1 DEF JoinOf, Pair
  <2>4. q.id = <<q.id[1], q.id[2]>> /\ b.id = <<b.id[1], b.id[2]>>
    <3>1. q.id \in VenueYears \X Natives /\ b.id \in VenueYears \X Natives
      BY <1>11 DEF Originals, Original
    <3> QED BY <3>1
  <2>5. b.id \in a.from /\ b.id \in b.from /\ a # b
    <3>1. q.id = b.id
      BY <2>2, <2>3, <2>4
    <3>2. a.from = {p.id, q.id}
      BY <2>1 DEF JoinOf
    <3>3. b.id \in b.from
      BY Kinds
    <3> QED BY <3>1, <3>2, <3>3, <1>11
  <2> QED BY <2>5 DEF Apart
<1>13. Pair(a, b)
  <2>1. FF = a.forums \cup b.forums /\ PP = a.papers \cup b.papers
    BY <1>10
  <2>2. ~TracksDiffer({a, b})
    BY <1>10
  <2>3. Cardinality(a.forums \cup b.forums) <= 1 /\ Cardinality(a.papers \cup b.papers) <= 1
    BY <2>1
  <2> QED BY <2>2, <2>3, <1>9 DEF Pair
<1> QED BY <1>10, <1>11, <1>12, <1>13

-----------------------------------------------------------------------------
(* Chains.                                                                 *)

Closed(S, groups) == \A h \in groups : h \subseteq S \/ h \cap S = {}

LEMMA ChainsAre ==
  ASSUME NEW groups, NEW S
  PROVE  S \in Chains(groups) <=>
           /\ S \subseteq UNION groups /\ S # {} /\ Closed(S, groups)
           /\ \A T \in SUBSET S : Closed(T, groups) => T = {} \/ T = S
BY DEF Chains, Closed

LEMMA ChainsApart ==
  ASSUME NEW groups, NEW S \in Chains(groups), NEW T \in Chains(groups), S # T
  PROVE  S \cap T = {}
<1>1. Closed(S \cap T, groups)
  BY ChainsAre DEF Closed
<1>2. (S \cap T = {} \/ S \cap T = S) /\ (S \cap T = {} \/ S \cap T = T)
  BY <1>1, ChainsAre
<1> QED BY <1>2

LEMMA ChainHoldsAGroup ==
  ASSUME NEW groups, NEW S \in Chains(groups)
  PROVE  \E h \in groups : h \subseteq S /\ h # {}
BY ChainsAre DEF Closed

LEMMA ChainOfOneVenue ==
  ASSUME NEW groups, NEW S \in Chains(groups),
         \A h \in groups : \A c, d \in h : c.id[1] = d.id[1]
  PROVE  \A c, d \in S : c.id[1] = d.id[1]
<1> SUFFICES ASSUME NEW c \in S, NEW d \in S PROVE c.id[1] = d.id[1]
  OBVIOUS
<1> DEFINE T == {e \in S : e.id[1] = c.id[1]}
<1>1. Closed(T, groups)
  <2> SUFFICES ASSUME NEW h \in groups, NEW e \in h, e \in T PROVE h \subseteq T
    BY DEF Closed
  <2>1. h \subseteq S
    BY ChainsAre DEF Closed
  <2> QED BY <2>1
<1>2. T = S
  <2>1. T \in SUBSET S /\ c \in T
    OBVIOUS
  <2> HIDE DEF T
  <2> QED BY <2>1, <1>1, ChainsAre
<1> QED BY <1>2

(* Groups that may chain: some of the clusters, two or more, of one venue.   *)
Groupings(groups, C) ==
    \A h \in groups : h \subseteq C /\ (\E c, d \in h : c # d) /\ \A c, d \in h : c.id[1] = d.id[1]

JoinsPairs(chains, C, A) ==
    /\ \A g \in chains : g \subseteq C /\ \E a, b \in A : g = {a, b} /\ Pair(a, b)
    /\ \A g, h \in chains : g # h => g \cap h = {}

LEMMA ChainsArePairs ==
  ASSUME NEW A, Originals(A), NEW C, Shape(C, A), Apart(C), IsFiniteSet(C),
         NEW groups, Groupings(groups, C), NEW chains \in SUBSET Chains(groups),
         \A g \in chains :
            /\ Cardinality(UNION {c.forums : c \in g}) <= 1
            /\ Cardinality(UNION {c.papers : c \in g}) <= 1
            /\ ~TracksDiffer(g)
  PROVE  JoinsPairs(chains, C, A)
<1>1. ASSUME NEW g \in chains
      PROVE  g \subseteq C /\ \E a, b \in A : g = {a, b} /\ Pair(a, b)
  <2>1. g \subseteq C
    BY ChainsAre DEF Groupings
  <2>2. IsFiniteSet(g)
    BY <2>1, FS_Subset
  <2>3. PICK x \in g, y \in g : x # y
    BY ChainHoldsAGroup DEF Groupings
  <2>4. \A c, d \in g : c.id[1] = d.id[1]
    BY ChainOfOneVenue DEF Groupings
  <2> QED BY <2>1, <2>2, <2>3, <2>4, OneOfEach
<1>2. \A g, h \in chains : g # h => g \cap h = {}
  BY ChainsApart
<1> QED BY <1>1, <1>2 DEF JoinsPairs

Merged(C, chains) == (C \ UNION chains) \cup {Joined(g) : g \in chains}

(* A step that joins such pairs leaves originals and pairs of them.          *)
LEMMA MergeKeepsShape ==
  ASSUME NEW A, Originals(A), NEW C, Shape(C, A), Apart(C), Covers(C, A), IsFiniteSet(C),
         NEW chains, JoinsPairs(chains, C, A)
  PROVE  /\ Shape(Merged(C, chains), A) /\ Apart(Merged(C, chains))
         /\ Covers(Merged(C, chains), A) /\ IsFiniteSet(Merged(C, chains))
<1> DEFINE M == Merged(C, chains)
<1>0. ASSUME NEW g \in chains
      PROVE  /\ Joined(g).from = UNION {c.from : c \in g}
             /\ \E a, b \in A : g = {a, b} /\ Pair(a, b) /\ Joined(g).from = {a.id, b.id}
  <2>1. PICK a \in A, b \in A : g = {a, b} /\ Pair(a, b)
    BY DEF JoinsPairs
  <2>2. Original(a) /\ Original(b)
    BY DEF Originals
  <2>3. a.from = {a.id} /\ b.from = {b.id}
    BY <2>2, OriginalNames
  <2>4. Joined(g).from = {a.id, b.id}
    BY <2>1, <2>2, JoinedPair
  <2>5. UNION {c.from : c \in g} = {a.id, b.id}
    BY <2>1, <2>3
  <2> QED BY <2>1, <2>4, <2>5
<1>1. Shape(M, A)
  <2> SUFFICES ASSUME NEW c \in M, c \notin A PROVE \E a, b \in A : Pair(a, b) /\ c = Joined({a, b})
    BY DEF Shape
  <2>1. CASE c \in C
    BY <2>1 DEF Shape
  <2>2. CASE c \notin C
    <3>1. PICK g \in chains : c = Joined(g)
      BY <2>2 DEF Merged
    <3>2. PICK a \in A, b \in A : g = {a, b} /\ Pair(a, b)
      BY <1>0
    <3> QED BY <3>1, <3>2
  <2> QED BY <2>1, <2>2
<1>2. Apart(M)
  <2> SUFFICES ASSUME NEW c \in M, NEW d \in M, c # d, NEW i, i \in c.from, i \in d.from PROVE FALSE
    BY DEF Apart
  <2>1. ASSUME NEW g \in chains, NEW j, j \in Joined(g).from PROVE \E e \in g : e \in C /\ j \in e.from
    <3>1. j \in UNION {e.from : e \in g}
      BY <2>1, <1>0
    <3>2. g \subseteq C
      BY DEF JoinsPairs
    <3> QED BY <3>1, <3>2
  <2>2. CASE c \in C \ UNION chains /\ d \in C \ UNION chains
    BY <2>2 DEF Apart
  <2>3. ASSUME NEW e \in C \ UNION chains, NEW g \in chains, i \in e.from, i \in Joined(g).from PROVE FALSE
    <3>1. PICK f \in g : f \in C /\ i \in f.from
      BY <2>1, <2>3
    <3> QED BY <3>1, <2>3 DEF Apart
  <2>4. ASSUME NEW g \in chains, NEW h \in chains, c = Joined(g), d = Joined(h) PROVE FALSE
    <3>1. PICK e \in g : e \in C /\ i \in e.from
      BY <2>1, <2>4
    <3>2. PICK f \in h : f \in C /\ i \in f.from
      BY <2>1, <2>4
    <3>3. g # h
      BY <2>4
    <3> QED BY <3>1, <3>2, <3>3 DEF Apart, JoinsPairs
  <2> QED BY <2>2, <2>3, <2>4 DEF Merged
<1>3. Covers(M, A)
  <2> SUFFICES ASSUME NEW a \in A PROVE \E c \in M : a.id \in c.from
    BY DEF Covers
  <2>1. PICK c \in C : a.id \in c.from
    BY DEF Covers
  <2>2. CASE c \notin UNION chains
    BY <2>1, <2>2 DEF Merged
  <2>3. ASSUME NEW g \in chains, c \in g PROVE \E d \in M : a.id \in d.from
    BY <2>1, <2>3, <1>0 DEF Merged
  <2> QED BY <2>2, <2>3
<1>4. IsFiniteSet(M)
  <2>1. chains \in SUBSET SUBSET C
    BY DEF JoinsPairs
  <2>2. IsFiniteSet(chains) /\ IsFiniteSet(C \ UNION chains)
    BY <2>1, FS_SUBSET, FS_Subset
  <2> DEFINE F == [g \in chains |-> Joined(g)]
  <2>3. IsFiniteSet({F[g] : g \in chains})
    <3>1. F = [g \in chains |-> F[g]]
      OBVIOUS
    <3> HIDE DEF F
    <3> QED BY <3>1, <2>2, FiniteImage
  <2>4. {F[g] : g \in chains} = {Joined(g) : g \in chains}
    OBVIOUS
  <2> HIDE DEF F
  <2>5. IsFiniteSet({Joined(g) : g \in chains})
    BY <2>3, <2>4
  <2> QED BY <2>2, <2>5, FS_Union DEF Merged
<1> QED BY <1>1, <1>2, <1>3, <1>4

-----------------------------------------------------------------------------
(* The groups of each step.                                                *)

LEMMA GroupsAre ==
  ASSUME NEW C, IsFiniteSet(C), NEW keys, DOMAIN keys = C
  PROVE  Groupings(Groups(keys), C)
<1> SUFFICES ASSUME NEW h \in Groups(keys)
             PROVE  h \subseteq C /\ (\E c, d \in h : c # d) /\ \A c, d \in h : c.id[1] = d.id[1]
  BY DEF Groupings
<1>1. PICK v, k : h = Sharing(keys, v, k)
  BY DEF Groups
<1>2. h \subseteq C /\ \A c, d \in h : c.id[1] = d.id[1]
  BY <1>1 DEF Sharing
<1>3. IsFiniteSet(h) /\ Cardinality(h) > 1
  BY <1>2, FS_Subset DEF Groups
<1> QED BY <1>2, <1>3, MoreThanOne

LEMMA RefusalSays ==
  ASSUME NEW g, IsFiniteSet(UNION {c.forums : c \in g}), IsFiniteSet(UNION {c.papers : c \in g}),
         NEW l, Refusal(g, l) = None
  PROVE  /\ ~Ambiguous(g, l) /\ ~TracksDiffer(g)
         /\ Cardinality(UNION {c.forums : c \in g}) <= 1
         /\ Cardinality(UNION {c.papers : c \in g}) <= 1
<1>1. ~Ambiguous(g, l) /\ ~TracksDiffer(g)
  BY NoneAssumption DEF Refusal
<1>2. /\ ~(Cardinality(UNION {c.forums : c \in g}) > 1)
      /\ ~(Cardinality(UNION {c.papers : c \in g}) > 1)
  BY <1>1 DEF Ambiguous
<1>3. Cardinality(UNION {c.forums : c \in g}) \in Nat /\ Cardinality(UNION {c.papers : c \in g}) \in Nat
  BY FS_CardinalityType
<1> QED BY <1>1, <1>2, <1>3

(* What any step merges: pairs, unrefused as a group that links or as one    *)
(* that does not.                                                          *)
LEMMA UnrefusedArePairs ==
  ASSUME NEW A, Originals(A), NEW C, Shape(C, A), Apart(C), IsFiniteSet(C),
         NEW groups, Groupings(groups, C), NEW chains \in SUBSET Chains(groups),
         NEW l, \A g \in chains : Refusal(g, l) = None
  PROVE  JoinsPairs(chains, C, A)
<1>1. ASSUME NEW g \in chains
      PROVE  /\ Cardinality(UNION {c.forums : c \in g}) <= 1
             /\ Cardinality(UNION {c.papers : c \in g}) <= 1
             /\ ~TracksDiffer(g)
  <2>1. g \in SUBSET C
    BY ChainsAre DEF Groupings
  <2>2. IsFiniteSet(g)
    BY <2>1, FS_Subset
  <2>3. IsFiniteSet(UNION {c.forums : c \in g}) /\ IsFiniteSet(UNION {c.papers : c \in g})
    BY <2>1, <2>2, NamesOfAGroup
  <2> QED BY <2>3, RefusalSays
<1> QED BY <1>1, ChainsArePairs

LEMMA SomeOfGroupings ==
  ASSUME NEW C, IsFiniteSet(C), NEW gs, Groupings(gs, C), NEW groups,
         \A h \in groups : Cardinality(h) > 1 /\ \E g \in gs : h \subseteq g
  PROVE  Groupings(groups, C)
<1> SUFFICES ASSUME NEW h \in groups
             PROVE  h \subseteq C /\ (\E c, d \in h : c # d) /\ \A c, d \in h : c.id[1] = d.id[1]
  BY DEF Groupings
<1>1. h \subseteq C /\ \A c, d \in h : c.id[1] = d.id[1]
  BY DEF Groupings
<1>2. IsFiniteSet(h) /\ Cardinality(h) > 1
  BY <1>1, FS_Subset
<1> QED BY <1>1, <1>2, MoreThanOne

LEMMA LinksArePairs ==
  ASSUME NEW A, Originals(A), NEW C, Shape(C, A), Apart(C), IsFiniteSet(C)
  PROVE  JoinsPairs(LinkChains(C), C, A)
<1> DEFINE groups == {h \in ByForum(C) : Refusal(h, TRUE) = None}
<1>1. Groupings(ByForum(C), C)
  BY GroupsAre DEF ByForum
<1>2. Groupings(groups, C)
  BY <1>1 DEF Groupings
<1>3. LinkChains(C) \in SUBSET Chains(groups) /\ \A g \in LinkChains(C) : Refusal(g, TRUE) = None
  BY DEF LinkChains
<1> HIDE DEF groups
<1> QED BY <1>2, <1>3, UnrefusedArePairs

LEMMA TitlesArePairs ==
  ASSUME NEW A, Originals(A), NEW C, Shape(C, A), Apart(C), IsFiniteSet(C)
  PROVE  JoinsPairs(TitleChains(C), C, A)
<1> DEFINE groups == {h \in TitleGroups(C) : Cardinality(h) > 1}
<1>1. Groupings(ByTitle(C), C)
  BY GroupsAre DEF ByTitle
<1>2. \A h \in groups : Cardinality(h) > 1 /\ \E g \in ByTitle(C) : h \subseteq g
  <2> SUFFICES ASSUME NEW h \in groups PROVE \E g \in ByTitle(C) : h \subseteq g
    OBVIOUS
  <2>1. PICK g \in ByTitle(C) : h = TitleMerging(g \ Yielding(g, C))
    BY DEF TitleGroups
  <2>2. \A k : TitleMerging(k) \subseteq k
    BY DEF TitleMerging
  <2> QED BY <2>1, <2>2
<1>3. TitleChains(C) \in SUBSET Chains(groups) /\ \A g \in TitleChains(C) : Refusal(g, FALSE) = None
  BY DEF TitleChains
<1> HIDE DEF groups
<1>4. Groupings(groups, C)
  BY <1>1, <1>2, SomeOfGroupings
<1> QED BY <1>4, <1>3, UnrefusedArePairs

LEMMA AbstractsArePairs ==
  ASSUME NEW A, Originals(A), NEW C, Shape(C, A), Apart(C), IsFiniteSet(C)
  PROVE  JoinsPairs(AbstractChains(C), C, A)
<1> DEFINE groups == {AbstractMerging(h) : h \in ByAbstract(C, FALSE)} \ {{}}
           keys == [c \in C |-> AbstractKeys(c)]
<1>1. Groupings(Groups(keys), C)
  BY GroupsAre
<1>2. \A g \in ByAbstract(C, FALSE) : g \in Groups(keys)
  BY DEF ByAbstract
<1>3. ASSUME NEW h \in groups PROVE Cardinality(h) > 1 /\ \E g \in Groups(keys) : h \subseteq g
  <2>1. PICK g \in ByAbstract(C, FALSE) : h = AbstractMerging(g) /\ h # {}
    OBVIOUS
  <2>2. h \subseteq g /\ ~(Cardinality(h) < 2)
    BY <2>1 DEF AbstractMerging
  <2>3. h \subseteq C
    BY <2>1, <2>2, <1>1, <1>2 DEF Groupings
  <2>4. Cardinality(h) \in Nat
    BY <2>3, FS_Subset, FS_CardinalityType
  <2>5. Cardinality(h) > 1
    BY <2>2, <2>4
  <2>6. g \in Groups(keys)
    BY <1>2
  <2> HIDE DEF groups, keys
  <2> QED BY <2>2, <2>5, <2>6
<1>4. AbstractChains(C) \in SUBSET Chains(groups)
  BY DEF AbstractChains
<1>5. \A g \in AbstractChains(C) : Refusal(g, FALSE) = None
  <2>1. \A g \in AbstractChains(C) : AbstractRefusal(g) = None
    BY DEF AbstractChains
  <2>2. \A g : AbstractRefusal(g) = None => Refusal(g, FALSE) = None
    BY NoneAssumption DEF AbstractRefusal
  <2> QED BY <2>1, <2>2
<1> HIDE DEF groups, keys
<1>6. Groupings(groups, C)
  BY <1>1, <1>3, SomeOfGroupings
<1> DEFINE l == FALSE
<1>7. \A g \in AbstractChains(C) : Refusal(g, l) = None
  BY <1>5
<1> HIDE DEF l
<1> QED BY <1>4, <1>6, <1>7, UnrefusedArePairs

-----------------------------------------------------------------------------
(* The records of one id.                                                  *)

ClaimsOf(R, i) == UNION {r.claims : r \in {s \in R : s.id = i}}
IdsOf(R) == {r.id : r \in R}

LEMMA RecordsTogether ==
  ASSUME NEW R \in Inputs, NEW i \in IdsOf(R), NEW S, S = ClaimsOf(R, i)
  PROVE  /\ S \in SUBSET Claims /\ IsFiniteSet(S) /\ i \in VenueYears \X Natives
         /\ \A c \in S : \E r \in R : c \in r.claims /\ r.id = i /\ InputRecord(r) /\ r.claims \subseteq S
         /\ \E r \in R : r.id = i /\ InputRecord(r) /\ r.claims \subseteq S
<1> DEFINE T == {s \in R : s.id = i}
<1>1. \A r \in R : InputRecord(r)
  BY InputsAssumption
<1>2. \A r \in T : r.claims \in SUBSET Claims /\ IsFiniteSet(r.claims) /\ i \in VenueYears \X Natives
  BY <1>1 DEF InputRecord
<1>3. T # {} /\ T \subseteq R
  BY DEF IdsOf
<1>4. IsFiniteSet(T)
  BY <1>3, InputsAssumption, FS_Subset
<1> DEFINE F == [r \in T |-> r.claims]
<1>5. IsFiniteSet({F[r] : r \in T})
  <2>1. F = [r \in T |-> F[r]]
    OBVIOUS
  <2> HIDE DEF F, T
  <2> QED BY <2>1, <1>4, FiniteImage
<1>6. {F[r] : r \in T} = {r.claims : r \in T} /\ S = UNION {r.claims : r \in T}
  BY DEF ClaimsOf
<1>7. IsFiniteSet(S)
  <2>1. \A x \in {F[r] : r \in T} : IsFiniteSet(x)
    BY <1>2
  <2>2. S = UNION {F[r] : r \in T}
    BY <1>6
  <2> HIDE DEF F, T
  <2> QED BY <2>1, <2>2, <1>5, FS_UNION
<1>8. \A r \in T : r.claims \subseteq S
  BY <1>6
<1>9. \A c \in S : \E r \in T : c \in r.claims
  BY <1>6
<1>10. S \in SUBSET Claims
  BY <1>2, <1>9
<1> HIDE DEF F
<1> QED BY <1>1, <1>2, <1>3, <1>7, <1>8, <1>9, <1>10

LEMMA OneIdIsOriginal ==
  ASSUME NEW R \in Inputs, \A r \in R : NamesItself(r), NEW i \in IdsOf(R),
         NEW S, S = ClaimsOf(R, i), NEW a, a = Cluster(i, S, {i})
  PROVE  a.id = i /\ Original(a)
<1>1. a.id = i /\ a.claims = S /\ a.from = {i}
  BY ClusterParts
<1>2. S \in SUBSET Claims /\ IsFiniteSet(S) /\ i \in VenueYears \X Natives
  BY RecordsTogether
<1>3. ASSUME i[2] \in Papers PROVE a.papers = {i[2]}
  <2>1. a.papers = Values(Kept(S), "proceedings")
    BY ClusterNames
  <2>2. ASSUME NEW c \in S, c.field = "proceedings" PROVE c.value = i[2]
    <3>1. PICK r \in R : c \in r.claims /\ r.id = i /\ InputRecord(r)
      BY RecordsTogether
    <3>2. Values(r.claims, "proceedings") \subseteq {i[2]}
      BY <3>1, <1>3 DEF InputRecord
    <3> QED BY <3>1, <3>2, <2>2 DEF Values
  <2>3. PICK r \in R : r.id = i /\ r.claims \subseteq S
    BY RecordsTogether
  <2>4. i[2] \in Values(r.claims, "proceedings")
    BY <2>3, <1>3, NativesAssumption DEF NamesItself
  <2>5. PICK c \in S : c.field = "proceedings"
    BY <2>3, <2>4 DEF Values
  <2>6. PICK d \in Kept(S) : d.field = "proceedings"
    BY <2>5, <1>2, NewestKept
  <2>7. Values(Kept(S), "proceedings") \subseteq {i[2]} /\ Values(Kept(S), "proceedings") # {}
    BY <2>2, <2>6, KeptOfMore DEF Values
  <2> QED BY <2>1, <2>7
<1> QED BY <1>1, <1>2, <1>3 DEF Original

LEMMA SourceOf ==
  ASSUME NEW r, InputRecord(r)
  PROVE  \E s \in Acceptors :
            /\ From(r, s)
            /\ r.id[2] \in Forums => s \in OpenReview \cup Imported
            /\ s \in OpenReview => r.id[2] \in Forums /\ Values(r.claims, "proceedings") = {}
            /\ s \notin OpenReview \cup Imported => Values(r.claims, "status") \subseteq Listable
BY DEF InputRecord, Acceptors

LEMMA OneIdIsSourced ==
  ASSUME NEW R \in Inputs, \A r \in R : NamesItself(r), NEW i \in IdsOf(R),
         NEW S, S = ClaimsOf(R, i), NEW a, a.id = i, a.claims = S
  PROVE  Sourced(a)
<1>1. \A c \in S : ~Absence(c)
  BY RecordsTogether DEF InputRecord
<1>2. Heard(a, "status") # {}
  <2>1. PICK r \in R : r.id = i /\ InputRecord(r) /\ r.claims \subseteq S
    BY RecordsTogether
  <2>2. \E c \in r.claims : c.field = "status"
    BY <2>1, SourceOf DEF From
  <2> QED BY <2>1, <2>2 DEF Heard
<1>3. ASSUME NEW c \in Heard(a, "status")
      PROVE  c.source \in Acceptors /\ (c.value \in Listable \/ c.source \in OpenReview \cup Imported)
  <2>1. c \in S /\ c.field = "status"
    BY DEF Heard
  <2>2. PICK r \in R : c \in r.claims /\ InputRecord(r)
    BY <2>1, RecordsTogether
  <2>3. PICK s \in Acceptors :
           From(r, s) /\ (s \notin OpenReview \cup Imported => Values(r.claims, "status") \subseteq Listable)
    BY <2>2, SourceOf
  <2>4. c.source = s
    BY <2>1, <2>2, <2>3 DEF From
  <2>5. c.value \in Values(r.claims, "status")
    BY <2>1, <2>2 DEF Values
  <2> QED BY <2>3, <2>4, <2>5
<1>4. ASSUME i[2] \in Forums, NEW c \in S
      PROVE  /\ c.source \in OpenReview \cup Imported
             /\ \E d \in Heard(a, "status") : d.source = c.source
             /\ c.field = "proceedings" => c.source \in Imported
  <2>1. PICK r \in R : c \in r.claims /\ r.id = i /\ InputRecord(r) /\ r.claims \subseteq S
    BY RecordsTogether
  <2>2. PICK s \in OpenReview \cup Imported :
           From(r, s) /\ (s \in OpenReview => Values(r.claims, "proceedings") = {})
    BY <2>1, <1>4, SourceOf
  <2>3. c.source = s
    BY <2>1, <2>2 DEF From, OpenReview, Imported
  <2>4. PICK d \in r.claims : d.source = s /\ d.field = "status"
    BY <2>2 DEF From
  <2>5. d \in Heard(a, "status")
    BY <2>1, <2>4 DEF Heard
  <2>6. c.field = "proceedings" => Values(r.claims, "proceedings") # {}
    BY <2>1 DEF Values
  <2> QED BY <2>2, <2>3, <2>4, <2>5, <2>6
<1>5. ASSUME i[2] \in Papers, NEW c \in S
      PROVE  /\ c.source \notin OpenReview
             /\ c.source \notin Imported =>
                   /\ \E d \in Heard(a, "status") : d.source \notin Imported
                   /\ \E d \in Heard(a, "proceedings") : d.source \notin Imported
  <2>1. PICK r \in R : c \in r.claims /\ r.id = i /\ InputRecord(r) /\ r.claims \subseteq S
    BY RecordsTogether
  <2>2. PICK s \in Acceptors : From(r, s) /\ s \notin OpenReview
    BY <2>1, <1>5, SourceOf, NativesAssumption
  <2>3. c.source # s => s \notin Imported /\ c.source \notin OpenReview
    BY <2>1, <2>2 DEF From, OpenReview, Imported
  <2>4. PICK d \in r.claims : d.source = s /\ d.field = "status"
    BY <2>2 DEF From
  <2>5. i[2] \in Values(r.claims, "proceedings")
    BY <2>1, <1>5, NativesAssumption DEF NamesItself
  <2>6. PICK e \in r.claims : e.field = "proceedings"
    BY <2>5 DEF Values
  <2>7. e.source = s
    BY <2>2, <2>6 DEF From
  <2>8. d \in Heard(a, "status") /\ e \in Heard(a, "proceedings")
    BY <2>1, <2>4, <2>6 DEF Heard
  <2> QED BY <2>2, <2>3, <2>4, <2>7, <2>8
<1> QED BY <1>1, <1>2, <1>3, <1>4, <1>5 DEF Sourced, Heard

-----------------------------------------------------------------------------
(* No link but the first.                                                  *)

(* The clusters after the first forum link.                                 *)
FirstLink(A) == Merged(A, LinkChains(A))

LEMMA JoinedIsNew ==
  ASSUME NEW A, Originals(A), NEW a \in A, NEW b \in A, Pair(a, b)
  PROVE  Joined({a, b}) \notin A /\ JoinOf(Joined({a, b}), a, b) /\ a # b
<1> DEFINE J == Joined({a, b})
<1>1. Original(a) /\ Original(b)
  BY DEF Originals
<1>2. J.id = a.id /\ J.from = {a.id, b.id} /\ J.forums = {a.id[2]} /\ J.papers = {b.id[2]}
  BY <1>1, JoinedPair
<1>3. a.id # b.id /\ a # b
  BY <1>1, PairNames
<1> HIDE DEF J
<1>4. J \notin A
  BY <1>2, <1>3, OriginalNames DEF Originals
<1>5. J = Joined({a, b})
  BY DEF J
<1> QED BY <1>2, <1>3, <1>4, <1>5 DEF JoinOf

LEMMA OriginalsShape ==
  ASSUME NEW A, Originals(A)
  PROVE  Shape(A, A) /\ Apart(A) /\ Covers(A, A) /\ IsFiniteSet(A)
BY OriginalNames DEF Originals, Shape, Apart, Covers, Distinct

LEMMA SharingForum ==
  ASSUME NEW C, NEW v, NEW k, NEW c
  PROVE  c \in Sharing([d \in C |-> d.forums], v, k) <=> c \in C /\ c.id[1] = v /\ k \in c.forums
BY DEF Sharing

(* Which clusters a group of the forum link is.                             *)
OfForum(h, C, v, k) == v \in VenueYears /\ \A c : c \in h <=> c \in C /\ c.id[1] = v /\ k \in c.forums

(* A group that links now, with nothing merged away that shared its forum,   *)
(* would have linked at first.                                             *)
LEMMA LinkGroups ==
  ASSUME NEW C, IsFiniteSet(C), NEW h \in ByForum(C)
  PROVE  \E v, k : OfForum(h, C, v, k)
<1>1. PICK v, k : v \in VenueYears /\ h = Sharing([d \in C |-> d.forums], v, k)
  BY DEF ByForum, Groups
<1> QED BY <1>1, SharingForum DEF OfForum

LEMMA IsLinkGroup ==
  ASSUME NEW C, NEW v \in VenueYears, NEW k, NEW a \in C, NEW b \in C, a # b,
         \A c : c \in {a, b} <=> c \in C /\ c.id[1] = v /\ k \in c.forums
  PROVE  {a, b} \in ByForum(C)
<1> DEFINE keys == [d \in C |-> d.forums]
<1>1. {a, b} = Sharing(keys, v, k)
  <2>1. \A c : c \in {a, b} <=> c \in Sharing(keys, v, k)
    BY SharingForum
  <2> HIDE DEF keys
  <2> QED BY <2>1
<1>2. k \in UNION {keys[c] : c \in DOMAIN keys}
  OBVIOUS
<1>3. Cardinality({a, b}) > 1
  BY PairIsFinite, MoreThanOne
<1> HIDE DEF keys
<1>4. {a, b} \in Groups(keys)
  BY <1>1, <1>2, <1>3 DEF Groups
<1> QED BY <1>4 DEF keys, ByForum

(* A pair alone with its forum links.                                       *)
LEMMA PairAloneLinks ==
  ASSUME NEW A, Originals(A), NEW a \in A, NEW b \in A, Pair(a, b), {a, b} \in ByForum(A),
         Refusal({a, b}, TRUE) = None
  PROVE  {a, b} \in LinkChains(A)
<1> DEFINE groups == {h \in ByForum(A) : Refusal(h, TRUE) = None}
           S == {a, b}
<1>1. S \in groups
  OBVIOUS
<1>2. a.forums = {a.id[2]} /\ b.forums \subseteq {a.id[2]} /\ a # b
  BY PairNames DEF Originals
<1>3. IsFiniteSet(A)
  BY DEF Originals
<1>4. PICK v, k : OfForum(S, A, v, k)
  BY <1>3, LinkGroups
<1>5. k = a.id[2] /\ v = a.id[1] /\ v = b.id[1]
  BY <1>2, <1>4 DEF OfForum
<1>6. ASSUME NEW h \in groups, h \cap S # {} PROVE h = S
  <2>0. h \in ByForum(A)
    OBVIOUS
  <2>1. PICK w, l : OfForum(h, A, w, l)
    BY <2>0, <1>3, LinkGroups
  <2>2. PICK c \in S : c \in h
    BY <1>6
  <2>3. w = v /\ l = k
    BY <2>1, <2>2, <1>2, <1>5 DEF OfForum
  <2> QED BY <2>1, <2>3, <1>4 DEF OfForum
<1>7. Closed(S, groups)
  BY <1>6 DEF Closed
<1>8. ASSUME NEW T \in SUBSET S, Closed(T, groups) PROVE T = {} \/ T = S
  BY <1>1, <1>8 DEF Closed
<1>9. S \subseteq UNION groups /\ S # {}
  BY <1>1
<1> HIDE DEF groups, S
<1>10. S \in Chains(groups)
  BY <1>7, <1>8, <1>9, ChainsAre
<1> QED BY <1>10 DEF groups, S, LinkChains

(* A chain of the forum link is one of its groups.                          *)
LEMMA LinkChainIsAGroup ==
  ASSUME NEW A, Originals(A), NEW C, Shape(C, A), Apart(C), IsFiniteSet(C), NEW g \in LinkChains(C)
  PROVE  /\ g \in ByForum(C) /\ Refusal(g, TRUE) = None /\ g \subseteq C
         /\ \E a, b \in A : g = {a, b} /\ Pair(a, b)
<1>1. g \subseteq C /\ \E a, b \in A : g = {a, b} /\ Pair(a, b)
  BY LinksArePairs DEF JoinsPairs
<1> DEFINE groups == {h \in ByForum(C) : Refusal(h, TRUE) = None}
<1>2. Refusal(g, TRUE) = None /\ g \in Chains(groups)
  BY DEF LinkChains
<1>3. PICK h \in groups : h \subseteq g /\ h # {}
  <2> HIDE DEF groups
  <2> QED BY <1>2, ChainHoldsAGroup
<1>4. Groupings(ByForum(C), C)
  BY GroupsAre DEF ByForum
<1>5. PICK x \in h, y \in h : x # y
  BY <1>3, <1>4 DEF Groupings
<1>6. h = g
  BY <1>1, <1>3, <1>5
<1> QED BY <1>1, <1>2, <1>3, <1>6

LEMMA LinkedOnce ==
  ASSUME NEW A, Originals(A), NEW C, Shape(C, A), Apart(C), Covers(C, A), IsFiniteSet(C),
         C \cap A \subseteq FirstLink(A)
  PROVE  LinkChains(C) = {}
<1> SUFFICES ASSUME NEW g \in LinkChains(C) PROVE FALSE
  OBVIOUS
<1>1. g \in ByForum(C) /\ Refusal(g, TRUE) = None /\ g \subseteq C
  BY LinkChainIsAGroup
<1>2. PICK a \in A, b \in A : g = {a, b} /\ Pair(a, b)
  <2>1. \E a, b \in A : g = {a, b} /\ Pair(a, b)
    BY LinksArePairs DEF JoinsPairs
  <2> QED BY <2>1
<1>3. PICK v, k : OfForum(g, C, v, k)
  BY <1>1, LinkGroups
<1>4. a \in C /\ b \in C /\ a # b /\ k \in a.forums /\ k \in b.forums /\ a.id[1] = v /\ b.id[1] = v
  BY <1>1, <1>2, <1>3, JoinedIsNew DEF OfForum
<1>5. ASSUME NEW d \in A, d.id[1] = v, k \in d.forums PROVE d \in {a, b}
  <2>1. PICK c \in C : d.id \in c.from
    BY DEF Covers
  <2>2. CASE c \in A
    <3>1. c.from = {c.id} /\ c = d
      BY <2>1, <2>2, OriginalNames DEF Originals, Distinct
    <3> QED BY <3>1, <1>2, <1>3, <1>5 DEF OfForum
  <2>3. CASE c \notin A
    <3>1. PICK p \in A, q \in A : JoinOf(c, p, q)
      BY <2>3, PairKind
    <3>2. d = p \/ d = q
      BY <3>1, <2>1 DEF JoinOf, Originals, Distinct
    <3>3. p.forums = {p.id[2]} /\ q.forums \subseteq {p.id[2]} /\ p.id[1] = q.id[1]
      BY <3>1, PairNames DEF JoinOf, Originals, Pair
    <3>4. c.id[1] = v /\ k \in c.forums
      BY <3>1, <3>2, <3>3, <1>5 DEF JoinOf
    <3>5. c \in g
      BY <3>4, <1>3 DEF OfForum
    <3> QED BY <3>5, <2>3, <1>2
  <2> QED BY <2>2, <2>3
<1>6. \A c : c \in {a, b} <=> c \in A /\ c.id[1] = v /\ k \in c.forums
  BY <1>4, <1>5
<1>7. {a, b} \in ByForum(A)
  <2>1. v \in VenueYears /\ a # b
    BY <1>3, <1>4 DEF OfForum
  <2> QED BY <2>1, <1>6, IsLinkGroup
<1>8. {a, b} \in LinkChains(A)
  BY <1>1, <1>2, <1>7, PairAloneLinks
<1>9. a \notin FirstLink(A)
  <2> SUFFICES ASSUME a \in FirstLink(A) PROVE FALSE
    OBVIOUS
  <2>1. PICK h \in LinkChains(A) : a = Joined(h)
    BY <1>8 DEF FirstLink, Merged
  <2>2. PICK p \in A, q \in A : h = {p, q} /\ Pair(p, q)
    BY OriginalsShape, LinkChainIsAGroup
  <2> QED BY <2>1, <2>2, JoinedIsNew
<1> QED BY <1>4, <1>9

-----------------------------------------------------------------------------
(* The status that a cluster resolves to.                                  *)

LEMMA AcceptorsPlaced ==
  ASSUME NEW s \in Acceptors
  PROVE  Place(s, AcceptanceOrder) \in 1..9 /\ AcceptanceOrder[Place(s, AcceptanceOrder)] = s
<1>1. DOMAIN AcceptanceOrder = 1..9
  BY DEF AcceptanceOrder
<1>2. \E i \in DOMAIN AcceptanceOrder : AcceptanceOrder[i] = s
  BY DEF Acceptors
<1>3. Place(s, AcceptanceOrder) \in DOMAIN AcceptanceOrder /\ AcceptanceOrder[Place(s, AcceptanceOrder)] = s
  BY <1>2 DEF Place
<1> QED BY <1>1, <1>3

(* OpenReview and imports say least of acceptance.                          *)
LEMMA LeastOfAll ==
  ASSUME NEW s \in Acceptors
  PROVE  /\ s \in OpenReview \cup Imported <=> Place(s, AcceptanceOrder) >= 7
         /\ s \in Imported <=> Place(s, AcceptanceOrder) = 9
<1> DEFINE n == Place(s, AcceptanceOrder)
<1>1. n \in 1..9 /\ AcceptanceOrder[n] = s
  BY AcceptorsPlaced
<1> HIDE DEF n
<1>2. n = 1 \/ n = 2 \/ n = 3 \/ n = 4 \/ n = 5 \/ n = 6 \/ n = 7 \/ n = 8 \/ n = 9
  BY <1>1
<1>3. (s \in OpenReview \cup Imported <=> n >= 7) /\ (s \in Imported <=> n = 9)
  BY <1>1, <1>2 DEF AcceptanceOrder, OpenReview, Imported
<1> QED BY <1>3 DEF n

StatusOf(S) == {c \in S : c.field = "status"}

LEMMA StatusRank ==
  ASSUME NEW S, NEW c \in StatusOf(S)
  PROVE  Rank(c) = Place(c.source, AcceptanceOrder)
BY DEF StatusOf, Rank

(* It is one claim's, kept and best ranked.                                 *)
LEMMA StatusResolved ==
  ASSUME NEW S \in SUBSET Claims, IsFiniteSet(S), StatusOf(S) # {},
         \A c \in StatusOf(S) : c.source \in Acceptors
  PROVE  \E c \in StatusOf(S) \cap Kept(S) :
            /\ Resolved(Kept(S), "status") = c.value
            /\ \A d \in StatusOf(S) : Rank(c) <= Rank(d)
            /\ \A d \in StatusOf(S) \cap Kept(S) : Rank(d) <= Rank(c) => d = c
<1> DEFINE T == {c \in Kept(S) : c.field = "status"}
           R == {p \in T \X T : Rank(p[2]) < Rank(p[1])}
<1>1. T \subseteq StatusOf(S) /\ T = StatusOf(S) \cap Kept(S)
  BY KeptOfMore DEF StatusOf
<1>2. \A c \in StatusOf(S) : Rank(c) \in Nat
  BY AcceptorsPlaced, StatusRank
<1>3. IsFiniteSet(T)
  BY KeptOfMore, FS_Subset
<1>4. \A c \in StatusOf(S) : \E d \in T : Rank(d) = Rank(c) /\ d.source = c.source
  <2> SUFFICES ASSUME NEW c \in StatusOf(S) PROVE \E d \in T : Rank(d) = Rank(c) /\ d.source = c.source
    OBVIOUS
  <2>1. c \in S /\ c.field = "status"
    BY DEF StatusOf
  <2>2. PICK d \in Kept(S) : d.field = c.field /\ d.source = c.source
    BY <2>1, NewestKept
  <2>3. d \in T /\ Rank(d) = Rank(c)
    BY <2>1, <2>2 DEF Rank
  <2> QED BY <2>2, <2>3
<1>5. T # {}
  BY <1>4
<1>6. \A x \in T : <<x, x>> \notin R
  BY <1>1, <1>2
<1>7. \A x, y, z \in T : <<x, y>> \in R /\ <<y, z>> \in R => <<x, z>> \in R
  BY <1>1, <1>2
<1>8. PICK best \in T : \A y \in T : <<best, y>> \notin R
  <2> HIDE DEF T, R
  <2> QED BY <1>3, <1>5, <1>6, <1>7, HasLast
<1>9. \A d \in T : Rank(best) <= Rank(d)
  <2> SUFFICES ASSUME NEW d \in T PROVE Rank(best) <= Rank(d)
    OBVIOUS
  <2>1. ~(Rank(d) < Rank(best))
    BY <1>8
  <2>2. Rank(d) \in Nat /\ Rank(best) \in Nat
    BY <1>1, <1>2
  <2> QED BY <2>1, <2>2
<1>10. \A d, e \in T : Rank(d) = Rank(e) => d = e
  <2> SUFFICES ASSUME NEW d \in T, NEW e \in T, Rank(d) = Rank(e) PROVE d = e
    OBVIOUS
  <2>1. d.source \in Acceptors /\ e.source \in Acceptors
    BY <1>1
  <2>2. Place(d.source, AcceptanceOrder) = Place(e.source, AcceptanceOrder)
    BY <1>1, StatusRank
  <2>3. d.source = e.source
    BY <2>1, <2>2, AcceptorsPlaced
  <2> QED BY <2>3, OneKept
<1>11. PICK c \in T : c = CHOOSE x \in T : \A d \in T : Rank(x) <= Rank(d)
  BY <1>9
<1>12. \A d \in T : Rank(c) <= Rank(d)
  BY <1>9, <1>11
<1>13. Resolved(Kept(S), "status") = c.value
  BY <1>5, <1>11 DEF Resolved
<1>14. \A d \in StatusOf(S) : Rank(c) <= Rank(d)
  BY <1>4, <1>12
<1>15. \A d \in T : Rank(d) <= Rank(c) => d = c
  BY <1>12, <1>10, <1>1, <1>2
<1> HIDE DEF T
<1> QED BY <1>1, <1>13, <1>14, <1>15

LEMMA ClusterSays ==
  ASSUME NEW i, NEW S, NEW F, \A c \in S : ~Absence(c)
  PROVE  /\ Cluster(i, S, F).status = Resolved(Kept(S), "status")
         /\ \A s : s \in Cluster(i, S, F).sources <=> \E c \in S : c.source = s
         /\ (\A c \in S : c.source \in OpenReview \cup Imported)
            /\ (\A c \in S : c.field = "proceedings" => c.source \in Imported) => ~Cluster(i, S, F).crawled
<1>1. Cluster(i, S, F).status = Resolved(Kept(S), "status")
  BY DEF Cluster
<1>2. \A s : s \in Cluster(i, S, F).sources <=> \E c \in S : c.source = s
  BY DEF Cluster
<1>3. ASSUME \A c \in S : c.source \in OpenReview \cup Imported,
             \A c \in S : c.field = "proceedings" => c.source \in Imported
      PROVE  ~Cluster(i, S, F).crawled
  <2>1. Values({c \in Kept(S) : c.source \notin Imported}, "proceedings") = {}
    BY <1>3, KeptOfMore DEF Values
  <2>2. {c.source : c \in {d \in S : ~Absence(d)}} \cap Proceedings = {}
    BY <1>3 DEF Proceedings, OpenReview, Imported
  <2> QED BY <2>1, <2>2 DEF Cluster
<1> QED BY <1>1, <1>2, <1>3

LEMMA OriginalSays ==
  ASSUME NEW a, Original(a), Sourced(a)
  PROVE  /\ a.claims \in SUBSET Claims /\ IsFiniteSet(a.claims)
         /\ StatusOf(a.claims) # {} /\ \A c \in StatusOf(a.claims) : c.source \in Acceptors
         /\ a.status = Resolved(Kept(a.claims), "status")
         /\ OnlyImported(a) <=> \A c \in a.claims : c.source \in Imported
         /\ (\A c \in a.claims : c.source \in OpenReview \cup Imported)
            /\ (\A c \in a.claims : c.field = "proceedings" => c.source \in Imported) => ~a.crawled
<1>1. a = Cluster(a.id, a.claims, {a.id}) /\ a.claims \in SUBSET Claims /\ IsFiniteSet(a.claims)
  BY DEF Original
<1>2. (\A c \in a.claims : ~Absence(c)) /\ StatusOf(a.claims) # {}
  BY DEF Sourced, Heard, StatusOf
<1>3. \A c \in StatusOf(a.claims) : c.source \in Acceptors
  BY DEF Sourced, Heard, StatusOf
<1>4. a.status = Resolved(Kept(a.claims), "status") /\ \A s : s \in a.sources <=> \E c \in a.claims : c.source = s
  BY <1>1, <1>2, ClusterSays
<1>5. (\A c \in a.claims : c.source \in OpenReview \cup Imported)
      /\ (\A c \in a.claims : c.field = "proceedings" => c.source \in Imported) => ~a.crawled
  BY <1>1, <1>2, ClusterSays
<1>6. a.claims # {}
  BY <1>2 DEF StatusOf
<1>7. OnlyImported(a) <=> \A c \in a.claims : c.source \in Imported
  BY <1>4, <1>6 DEF OnlyImported, Imported
<1> QED BY <1>1, <1>2, <1>3, <1>4, <1>5, <1>7

(* A pair that may merge without a link has a status some listing has.      *)
LEMMA MergedStatus ==
  ASSUME NEW a, NEW b, Original(a), Sourced(a), Original(b), Sourced(b), Pair(a, b),
         ~ImportWouldTakeItsStatus({a, b})
  PROVE  Joined({a, b}).status \in Listable
<1> DEFINE S == a.claims \cup b.claims
<1>1. /\ a.claims \in SUBSET Claims /\ IsFiniteSet(a.claims)
      /\ b.claims \in SUBSET Claims /\ IsFiniteSet(b.claims)
      /\ StatusOf(a.claims) # {} /\ StatusOf(b.claims) # {}
      /\ \A c \in StatusOf(a.claims) : c.source \in Acceptors
      /\ \A c \in StatusOf(b.claims) : c.source \in Acceptors
  BY OriginalSays
<1>2. S \in SUBSET Claims /\ IsFiniteSet(S)
  BY <1>1, FS_Union
<1>3. StatusOf(S) = StatusOf(a.claims) \cup StatusOf(b.claims)
  BY DEF StatusOf
<1>4. StatusOf(S) # {} /\ \A c \in StatusOf(S) : c.source \in Acceptors
  BY <1>1, <1>3
<1>5. Joined({a, b}).status = Resolved(Kept(S), "status")
  <2>1. Joined({a, b}) = Cluster(a.id, S, {a.id, b.id})
    BY JoinedIs
  <2>2. \A c \in S : ~Absence(c)
    BY DEF Sourced
  <2> HIDE DEF S
  <2>3. \A F : Cluster(a.id, S, F).status = Resolved(Kept(S), "status")
    BY <2>2, ClusterSays
  <2> QED BY <2>1, <2>3
<1>6. PICK c \in StatusOf(S) \cap Kept(S) :
            /\ Resolved(Kept(S), "status") = c.value
            /\ \A d \in StatusOf(S) : Rank(c) <= Rank(d)
  <2> HIDE DEF S
  <2> QED BY <1>2, <1>4, StatusResolved
<1>7. a.id[2] \in Forums /\ b.id[2] \in Papers
  BY DEF Pair
<1>8. ~a.crawled
  BY <1>7, OriginalSays DEF Sourced, Heard
<1>9. a # b
  BY PairNames
<1>10. CASE ~OnlyImported(b)
  <2>1. PICK d \in Heard(b, "status") : d.source \notin Imported
    BY <1>7, <1>10, OriginalSays DEF Sourced
  <2>2. d.source \notin OpenReview /\ d \in StatusOf(b.claims)
    BY <1>7, <2>1 DEF Sourced, Heard, StatusOf
  <2>3. d \in StatusOf(S) /\ Rank(d) < 7
    <3>1. d.source \in Acceptors /\ d \in StatusOf(S) /\ Rank(d) = Place(d.source, AcceptanceOrder)
      BY <2>2, <1>1, <1>3, StatusRank
    <3> QED BY <3>1, <2>1, <2>2, LeastOfAll, AcceptorsPlaced
  <2>4. c.source \notin OpenReview \cup Imported
    <3>1. c.source \in Acceptors /\ Rank(c) = Place(c.source, AcceptanceOrder)
      BY <1>4, StatusRank
    <3>2. d.source \in Acceptors /\ Rank(d) = Place(d.source, AcceptanceOrder)
      BY <2>3, <1>4, StatusRank
    <3>3. Rank(c) <= Rank(d)
      BY <1>6, <2>3
    <3> QED BY <3>1, <3>2, <3>3, <2>3, LeastOfAll, AcceptorsPlaced
  <2>5. c \in Heard(a, "status") \/ c \in Heard(b, "status")
    BY <1>3 DEF StatusOf, Heard
  <2> QED BY <2>4, <2>5, <1>5, <1>6 DEF Sourced
<1>11. CASE OnlyImported(b)
  <2>1. a.status \in Listable
    <3>1. \A d \in {a, b} \ {a} : OnlyImported(d)
      BY <1>11
    <3> QED BY <3>1, <1>8, <1>9 DEF ImportWouldTakeItsStatus
  <2>2. \A d \in b.claims : d.source \in Imported
    BY <1>11, OriginalSays
  <2>3. PICK ca \in StatusOf(a.claims) \cap Kept(a.claims) :
            /\ a.status = ca.value
            /\ \A d \in StatusOf(a.claims) : Rank(ca) <= Rank(d)
            /\ \A d \in StatusOf(a.claims) \cap Kept(a.claims) : Rank(d) <= Rank(ca) => d = ca
    BY <1>1, StatusResolved, OriginalSays
  <2>4. Rank(c) <= Rank(ca)
    BY <1>3, <1>6, <2>3
  <2>5. c \in a.claims => c \in StatusOf(a.claims) \cap Kept(a.claims)
    <3>1. a.claims \subseteq S
      OBVIOUS
    <3> HIDE DEF S
    <3> QED BY <3>1, KeptOfMore DEF StatusOf
  <2>6. CASE c \in a.claims
    <3>1. c = ca
      BY <2>3, <2>4, <2>5, <2>6
    <3> QED BY <3>1, <2>1, <2>3, <1>5, <1>6
  <2>7. CASE c \notin a.claims
    <3>1. c \in b.claims /\ c \in StatusOf(b.claims) /\ c.source \in Imported
      BY <2>7, <2>2 DEF StatusOf
    <3>2. ca.source \in Imported
      <4>1. Rank(c) = 9
        BY <3>1, <1>1, LeastOfAll, StatusRank
      <4>2. ca.source \in Acceptors /\ Rank(ca) = Place(ca.source, AcceptanceOrder)
        BY <2>3, <1>1, StatusRank
      <4> QED BY <4>1, <4>2, <2>4, LeastOfAll, AcceptorsPlaced
    <3>3. OnlyImported(a)
      <4>1. \A d \in StatusOf(a.claims) : d.source \in Imported
        <5> SUFFICES ASSUME NEW d \in StatusOf(a.claims) PROVE d.source \in Imported
          OBVIOUS
        <5>1. Rank(ca) <= Rank(d) /\ Rank(ca) = 9
          BY <3>2, <2>3, <1>1, LeastOfAll, StatusRank
        <5>2. d.source \in Acceptors /\ Rank(d) = Place(d.source, AcceptanceOrder)
          BY <1>1, StatusRank
        <5> QED BY <5>1, <5>2, LeastOfAll, AcceptorsPlaced
      <4>2. \A e \in a.claims : e.source \in Imported
        BY <4>1, <1>7 DEF Sourced, Heard, StatusOf
      <4> QED BY <4>2, OriginalSays
    <3>4. b.status \in Listable
      <4>1. ~b.crawled
        BY <2>2, OriginalSays
      <4>2. \A d \in {a, b} \ {b} : OnlyImported(d)
        BY <3>3
      <4> QED BY <4>1, <4>2, <1>9 DEF ImportWouldTakeItsStatus
    <3>5. PICK cb \in StatusOf(b.claims) \cap Kept(b.claims) :
              /\ b.status = cb.value
              /\ \A d \in StatusOf(b.claims) : Rank(cb) <= Rank(d)
              /\ \A d \in StatusOf(b.claims) \cap Kept(b.claims) : Rank(d) <= Rank(cb) => d = cb
      BY <1>1, StatusResolved, OriginalSays
    <3>6. Rank(c) <= Rank(cb)
      BY <1>3, <1>6, <3>5
    <3>7. c \in StatusOf(b.claims) \cap Kept(b.claims)
      <4>1. b.claims \subseteq S
        OBVIOUS
      <4> HIDE DEF S
      <4> QED BY <4>1, <3>1, KeptOfMore DEF StatusOf
    <3>8. c = cb
      BY <3>5, <3>6, <3>7
    <3> QED BY <3>8, <3>4, <3>5, <1>5, <1>6
  <2> QED BY <2>6, <2>7
<1> QED BY <1>10, <1>11

-----------------------------------------------------------------------------
(* The merge rows.                                                         *)

MergesTell(M, C, A) ==
    /\ \A p \in M : \/ \E i \in IdsOf(A) : p = <<i, i>>
                    \/ \E a, b \in A : Pair(a, b) /\ Joined({a, b}) \in C /\ p = <<a.id, b.id>>
    /\ \A a, b \in A : Pair(a, b) /\ Joined({a, b}) \in C => <<a.id, b.id>> \in M

NewMerges(chains) ==
    UNION {{<<Survivor(g), c.id>> : c \in {d \in g : d.id # Survivor(g)}} : g \in chains}

Joining(chains, a, b) == Pair(a, b) /\ {a, b} \in chains

LEMMA NewMergesAre ==
  ASSUME NEW A, Originals(A), NEW C, NEW chains, JoinsPairs(chains, C, A), NEW p
  PROVE  p \in NewMerges(chains) <=>
            \E a, b \in A : Joining(chains, a, b) /\ p = <<a.id, b.id>>
<1>1. ASSUME NEW a \in A, NEW b \in A, Pair(a, b), {a, b} \in chains
      PROVE  Survivor({a, b}) = a.id /\ a.id # b.id
  BY <1>1, JoinedIs, PairNames DEF Originals
<1>2. ASSUME NEW a \in A, NEW b \in A, Pair(a, b), {a, b} \in chains, p = <<a.id, b.id>>
      PROVE  p \in NewMerges(chains)
  <2> DEFINE g == {a, b}
  <2>1. b \in {d \in g : d.id # Survivor(g)} /\ g \in chains /\ p = <<Survivor(g), b.id>>
    BY <1>1, <1>2
  <2> HIDE DEF g
  <2> QED BY <2>1 DEF NewMerges
<1>3. ASSUME p \in NewMerges(chains)
      PROVE  \E a, b \in A : Joining(chains, a, b) /\ p = <<a.id, b.id>>
  <2>1. PICK g \in chains : \E c \in g : c.id # Survivor(g) /\ p = <<Survivor(g), c.id>>
    BY <1>3 DEF NewMerges
  <2>2. PICK a \in A, b \in A : g = {a, b} /\ Pair(a, b)
    BY DEF JoinsPairs
  <2>3. Survivor(g) = a.id
    BY <1>1, <2>2
  <2>4. PICK c \in g : c.id # a.id /\ p = <<a.id, c.id>>
    BY <2>1, <2>3
  <2>5. c = b
    BY <2>2, <2>4
  <2> QED BY <2>2, <2>4, <2>5 DEF Joining
<1> QED BY <1>2, <1>3 DEF Joining

LEMMA MergeTells ==
  ASSUME NEW A, Originals(A), NEW C, NEW chains, JoinsPairs(chains, C, A), NEW M, MergesTell(M, C, A)
  PROVE  MergesTell(M \cup NewMerges(chains), Merged(C, chains), A)
<1>1. ASSUME NEW a \in A, NEW b \in A, Pair(a, b), Joined({a, b}) \in C
      PROVE  Joined({a, b}) \in Merged(C, chains)
  <2>1. Joined({a, b}) \notin A
    BY <1>1, JoinedIsNew
  <2>2. \A g \in chains : g \subseteq A
    BY DEF JoinsPairs
  <2> QED BY <2>1, <2>2, <1>1 DEF Merged
<1>2. ASSUME NEW p \in M \cup NewMerges(chains)
      PROVE  \/ \E i \in IdsOf(A) : p = <<i, i>>
             \/ \E a, b \in A : Pair(a, b) /\ Joined({a, b}) \in Merged(C, chains) /\ p = <<a.id, b.id>>
  <2>1. CASE p \in M
    BY <2>1, <1>1 DEF MergesTell
  <2>2. CASE p \in NewMerges(chains)
    <3>1. PICK a \in A, b \in A : Joining(chains, a, b) /\ p = <<a.id, b.id>>
      BY <2>2, NewMergesAre
    <3> QED BY <3>1 DEF Merged, Joining
  <2> QED BY <2>1, <2>2
<1>3. ASSUME NEW a \in A, NEW b \in A, Pair(a, b), Joined({a, b}) \in Merged(C, chains)
      PROVE  <<a.id, b.id>> \in M \cup NewMerges(chains)
  <2>1. CASE Joined({a, b}) \in C
    BY <2>1, <1>3 DEF MergesTell
  <2>2. CASE Joined({a, b}) \notin C
    <3>1. PICK g \in chains : Joined({a, b}) = Joined(g)
      BY <2>2, <1>3 DEF Merged
    <3>2. PICK c \in A, d \in A : g = {c, d} /\ Pair(c, d)
      BY DEF JoinsPairs
    <3>3. JoinOf(Joined({a, b}), a, b) /\ JoinOf(Joined({c, d}), c, d)
      BY <1>3, <3>2, JoinedIsNew
    <3>4. a.id = c.id /\ {a.id, b.id} = {c.id, d.id} /\ a.id # b.id /\ c.id # d.id
      BY <3>1, <3>2, <3>3, <1>3, PairNames DEF JoinOf, Originals
    <3>5. <<a.id, b.id>> = <<c.id, d.id>>
      BY <3>4
    <3>6. Joining(chains, c, d)
      BY <3>1, <3>2 DEF Joining
    <3> QED BY <3>5, <3>6, NewMergesAre
  <2> QED BY <2>1, <2>2
<1> QED BY <1>2, <1>3 DEF MergesTell

-----------------------------------------------------------------------------
(* Which cluster an id is in.                                              *)

LEMMA HolderKinds ==
  ASSUME NEW A, Originals(A), NEW C, Shape(C, A), NEW c \in C, NEW i \in c.from
  PROVE  /\ i \in IdsOf(A) /\ i = <<i[1], i[2]>>
         /\ i = c.id \/ \E a, b \in A : JoinOf(c, a, b) /\ i = b.id /\ c.id = a.id
         /\ i[2] \in Forums => i = c.id
<1>1. CASE c \in A
  <2>1. i = c.id
    BY <1>1, OriginalNames DEF Originals
  <2>2. c.id \in VenueYears \X Natives
    BY <1>1 DEF Originals, Original
  <2> QED BY <2>1, <2>2, <1>1, IdsPlaced DEF IdsOf
<1>2. CASE c \notin A
  <2>1. PICK a \in A, b \in A : JoinOf(c, a, b)
    BY <1>2, PairKind
  <2>2. (i = a.id \/ i = b.id) /\ c.id = a.id /\ b.id[2] \notin Forums
    BY <2>1, NativesAssumption DEF JoinOf, Pair
  <2>3. a.id = <<a.id[1], a.id[2]>> /\ b.id = <<b.id[1], b.id[2]>>
    <3>1. a.id \in VenueYears \X Natives /\ b.id \in VenueYears \X Natives
      BY DEF Originals, Original
    <3> QED BY <3>1, IdsPlaced
  <2> QED BY <2>1, <2>2, <2>3 DEF IdsOf
<1> QED BY <1>1, <1>2

(* Every id is in one, and is the id of it or the merged side of its row.    *)
LEMMA HeldOnce ==
  ASSUME NEW A, Originals(A), NEW C, Shape(C, A), Apart(C), Covers(C, A), NEW i \in IdsOf(A)
  PROVE  \E c \in C : i \in c.from /\ \A d \in C : i \in d.from => d = c
BY DEF Covers, IdsOf, Apart

LEMMA RowsOfAnId ==
  ASSUME NEW A, Originals(A), NEW C, Shape(C, A), Apart(C), Covers(C, A), NEW M, MergesTell(M, C, A),
         NEW i \in IdsOf(A)
  PROVE  Cardinality({p \in M : p[2] = i /\ p[1] # i}) = IF i \in {c.id : c \in C} THEN 0 ELSE 1
<1> DEFINE T == {p \in M : p[2] = i /\ p[1] # i}
<1>1. PICK c \in C : i \in c.from /\ \A d \in C : i \in d.from => d = c
  BY HeldOnce
<1>2. ASSUME NEW p \in T PROVE \E a, b \in A : JoinOf(c, a, b) /\ i = b.id /\ p = <<a.id, b.id>>
  <2>0. p \in M /\ p[1] # p[2] /\ p[2] = i
    OBVIOUS
  <2> HIDE DEF T
  <2>1. PICK a \in A, b \in A : Pair(a, b) /\ Joined({a, b}) \in C /\ p = <<a.id, b.id>>
    <3>1. \A j : p # <<j, j>>
      BY <2>0
    <3> QED BY <2>0, <3>1 DEF MergesTell
  <2>2. JoinOf(Joined({a, b}), a, b) /\ i = b.id
    BY <2>0, <2>1, JoinedIsNew
  <2>3. Joined({a, b}) = c
    BY <1>1, <2>1, <2>2 DEF JoinOf
  <2> QED BY <2>1, <2>2, <2>3
<1>3. CASE i = c.id
  <2>1. i \in {d.id : d \in C}
    BY <1>3
  <2>2. T = {}
    <3> SUFFICES ASSUME NEW p \in T PROVE FALSE
      OBVIOUS
    <3>1. PICK a \in A, b \in A : JoinOf(c, a, b) /\ i = b.id /\ p = <<a.id, b.id>>
      BY <1>2
    <3> QED BY <3>1, <1>3, NativesAssumption DEF JoinOf, Pair
  <2> QED BY <2>1, <2>2, FS_EmptySet
<1>4. CASE i # c.id
  <2>1. PICK a \in A, b \in A : JoinOf(c, a, b) /\ i = b.id /\ c.id = a.id
    BY <1>1, <1>4, HolderKinds
  <2>2. i \notin {d.id : d \in C}
    <3> SUFFICES ASSUME NEW d \in C, d.id = i PROVE FALSE
      OBVIOUS
    <3>1. d.id \in d.from
      BY Kinds
    <3> QED BY <3>1, <1>1, <1>4
  <2>3. <<a.id, b.id>> \in T
    BY <2>1, <1>1, <1>4 DEF MergesTell, JoinOf
  <2>4. \A p \in T : p = <<a.id, b.id>>
    <3> SUFFICES ASSUME NEW p \in T PROVE p = <<a.id, b.id>>
      OBVIOUS
    <3>1. PICK d \in A, e \in A : JoinOf(c, d, e) /\ i = e.id /\ p = <<d.id, e.id>>
      BY <1>2
    <3> QED BY <3>1, <2>1 DEF JoinOf
  <2>5. T = {<<a.id, b.id>>}
    BY <2>3, <2>4
  <2>6. Cardinality({<<a.id, b.id>>}) = 1
    BY FS_Singleton
  <2> QED BY <2>2, <2>5, <2>6
<1> QED BY <1>3, <1>4

-----------------------------------------------------------------------------
(* What a takedown of an id reaches.                                       *)

Accounts ==
    /\ Originals(asked) /\ Shape(clusters, asked) /\ Apart(clusters) /\ Covers(clusters, asked)
    /\ MergesTell(merges, clusters, asked)

OutIds == {c.id : c \in clusters}
Seen(i) == Reach!Universe({i}, merges, OutIds)

(* The clusters a takedown of an id is to reach, and the ids in them.       *)
Told(i) == {d \in clusters : i \in d.from \/ ForumsIn(d) \cap ForumsIn(Out(i)) # {}}
TellsIds(i) == {j \in Seen(i) : \E d \in Told(i) : j \in d.from}

LEMMA ReachedIs ==
  ASSUME NEW i, NEW r
  PROVE  r \in Reach!SamePaper({i}, merges, OutIds) <=>
            /\ r \in OutIds /\ r \in Seen(i)
            /\ \A S \in SUBSET Seen(i) : {i} \subseteq S /\ Reach!LinkClosed(S, Seen(i), merges) => r \in S
BY DEF Reach!SamePaper, Reach!Reached, Seen

LEMMA LinkedIs ==
  ASSUME NEW a \in Ids, NEW b \in Ids
  PROVE  Reach!Linked(a, b, merges) <=>
            <<a, b>> \in merges \/ <<b, a>> \in merges \/ (a[2] \in Forums /\ a[2] = b[2])
<1>1. GlobalNative[a] = (IF a[2] \in Forums THEN a[2] ELSE NoNative)
  BY DEF GlobalNative
<1>2. GlobalNative[b] = (IF b[2] \in Forums THEN b[2] ELSE NoNative)
  BY DEF GlobalNative
<1>3. NoNative \notin Forums
  BY InputsAssumption
<1>4. GlobalNative[a] # NoNative /\ GlobalNative[a] = GlobalNative[b] <=> a[2] \in Forums /\ a[2] = b[2]
  BY <1>1, <1>2, <1>3
<1>5. Reach!Linked(a, b, merges) <=>
         <<a, b>> \in merges \/ <<b, a>> \in merges \/ (GlobalNative[a] # NoNative /\ GlobalNative[a] = GlobalNative[b])
  BY DEF Reach!Linked
<1> QED BY <1>4, <1>5

LEMMA SeenIds ==
  ASSUME Accounts, NEW i \in Ids
  PROVE  Seen(i) \subseteq Ids /\ i \in Seen(i) /\ OutIds \subseteq Seen(i)
<1>1. Ids = IdsOf(asked)
  BY DEF Ids, IdsOf
<1>2. OutIds \subseteq Ids
  BY <1>1, HolderKinds, Kinds DEF Accounts, OutIds
<1>3. \A p \in merges : p[1] \in Ids /\ p[2] \in Ids
  <2> SUFFICES ASSUME NEW p \in merges PROVE p[1] \in Ids /\ p[2] \in Ids
    OBVIOUS
  <2>1. \/ \E j \in Ids : p = <<j, j>>
        \/ \E a, b \in asked : p = <<a.id, b.id>>
    BY <1>1 DEF Accounts, MergesTell
  <2>2. \A a \in asked : a.id \in Ids
    BY DEF Ids
  <2> QED BY <2>1, <2>2
<1> QED BY <1>2, <1>3 DEF Seen, Reach!Universe

LEMMA OutIs ==
  ASSUME Accounts, NEW i \in Ids
  PROVE  Out(i) \in clusters /\ i \in Out(i).from /\ \A d \in clusters : i \in d.from => d = Out(i)
<1>1. \E c \in clusters : i \in c.from /\ \A d \in clusters : i \in d.from => d = c
  BY HeldOnce DEF Ids, IdsOf, Accounts
<1> QED BY <1>1 DEF Out

(* A cluster holds at most the forum id it has.                             *)
LEMMA ForumsOfOne ==
  ASSUME Accounts, NEW c \in clusters, NEW f
  PROVE  f \in ForumsIn(c) <=> f \in Forums /\ c.id[2] = f
<1>1. c.id \in c.from
  BY Kinds DEF Accounts
<1>2. \A i \in c.from : i[2] \in Forums => i = c.id
  BY HolderKinds DEF Accounts
<1> QED BY <1>1, <1>2 DEF ForumsIn

LEMMA MergesStayInside ==
  ASSUME Accounts, NEW x, NEW y, <<x, y>> \in merges, NEW d \in clusters
  PROVE  x \in d.from <=> y \in d.from
<1>1. \/ \E j \in IdsOf(asked) : <<x, y>> = <<j, j>>
      \/ \E a, b \in asked : Pair(a, b) /\ Joined({a, b}) \in clusters /\ <<x, y>> = <<a.id, b.id>>
  BY DEF Accounts, MergesTell
<1>2. CASE x = y
  BY <1>2
<1>3. ASSUME NEW a \in asked, NEW b \in asked, Pair(a, b), Joined({a, b}) \in clusters, x = a.id, y = b.id
      PROVE  x \in d.from <=> y \in d.from
  <2>1. JoinOf(Joined({a, b}), a, b)
    BY <1>3, JoinedIsNew DEF Accounts
  <2>2. x \in Joined({a, b}).from /\ y \in Joined({a, b}).from
    BY <1>3, <2>1 DEF JoinOf
  <2> QED BY <2>2, <1>3 DEF Accounts, Apart
<1> QED BY <1>1, <1>2, <1>3

(* Nothing leads out of the clusters told of.                               *)
LEMMA ToldIsClosed ==
  ASSUME Accounts, NEW i \in Ids
  PROVE  i \in TellsIds(i) /\ Reach!LinkClosed(TellsIds(i), Seen(i), merges)
<1>1. i \in TellsIds(i)
  BY OutIs, SeenIds DEF TellsIds, Told
<1>2. ASSUME NEW x \in TellsIds(i), NEW y \in Seen(i), Reach!Linked(x, y, merges) PROVE y \in TellsIds(i)
  <2>1. PICK d \in Told(i) : x \in d.from
    BY DEF TellsIds
  <2>2. x \in Ids /\ y \in Ids /\ d \in clusters
    BY SeenIds DEF TellsIds, Told
  <2>3. CASE <<x, y>> \in merges \/ <<y, x>> \in merges
    BY <2>1, <2>2, <2>3, MergesStayInside DEF TellsIds
  <2>4. CASE x[2] \in Forums /\ x[2] = y[2]
    <3>1. Out(y) \in clusters /\ y \in Out(y).from
      BY <2>2, OutIs
    <3>2. x[2] \in ForumsIn(d) /\ x[2] \in ForumsIn(Out(y))
      BY <2>1, <2>4, <3>1 DEF ForumsIn
    <3>3. Out(y) \in Told(i)
      <4>1. CASE i \in d.from
        <5>1. d = Out(i)
          BY <4>1, <2>2, OutIs
        <5> QED BY <5>1, <3>1, <3>2 DEF Told
      <4>2. CASE i \notin d.from
        <5>1. PICK f : f \in ForumsIn(d) /\ f \in ForumsIn(Out(i))
          BY <4>2 DEF Told
        <5>2. f = x[2]
          BY <5>1, <3>2, <2>2, ForumsOfOne
        <5> QED BY <5>1, <5>2, <3>1, <3>2 DEF Told
      <4> QED BY <4>1, <4>2
    <3> QED BY <3>1, <3>3 DEF TellsIds
  <2> QED BY <1>2, <2>2, <2>3, <2>4, LinkedIs
<1> QED BY <1>1, <1>2 DEF Reach!LinkClosed

(* Whatever the links close around an id holds the record that holds it.     *)
LEMMA HolderReached ==
  ASSUME Accounts, NEW i \in Ids, NEW S \in SUBSET Seen(i), Reach!LinkClosed(S, Seen(i), merges),
         NEW j \in S, NEW c \in clusters, j \in c.from
  PROVE  c.id \in S
<1>1. j = c.id \/ \E a, b \in asked : JoinOf(c, a, b) /\ j = b.id /\ c.id = a.id
  BY HolderKinds DEF Accounts
<1>2. ASSUME NEW a \in asked, NEW b \in asked, JoinOf(c, a, b), j = b.id, c.id = a.id PROVE c.id \in S
  <2>1. <<c.id, j>> \in merges
    BY <1>2 DEF Accounts, MergesTell, JoinOf
  <2>2. c.id \in Seen(i) /\ Reach!Linked(j, c.id, merges)
    BY <2>1, SeenIds DEF OutIds, Reach!Linked
  <2> QED BY <2>2 DEF Reach!LinkClosed
<1> QED BY <1>1, <1>2

LEMMA ReachesTheHolders ==
  ASSUME Accounts, NEW i \in Ids
  PROVE  Reach!SamePaper({i}, merges, OutIds) = {c.id : c \in Told(i)}
<1>1. ASSUME NEW r \in Reach!SamePaper({i}, merges, OutIds) PROVE r \in {c.id : c \in Told(i)}
  <2>1. TellsIds(i) \in SUBSET Seen(i) /\ {i} \subseteq TellsIds(i)
    BY ToldIsClosed DEF TellsIds
  <2>2. r \in TellsIds(i) /\ r \in OutIds
    BY <2>1, ToldIsClosed, ReachedIs
  <2>3. PICK d \in Told(i) : r \in d.from
    BY <2>2 DEF TellsIds
  <2>4. PICK c \in clusters : r = c.id
    BY <2>2 DEF OutIds
  <2>5. c.id \in c.from
    BY Kinds DEF Accounts
  <2>6. c = d
    BY <2>3, <2>4, <2>5 DEF Accounts, Apart, Told
  <2> QED BY <2>4, <2>6
<1>2. ASSUME NEW d \in Told(i) PROVE d.id \in Reach!SamePaper({i}, merges, OutIds)
  <2>1. d \in clusters /\ d.id \in OutIds /\ d.id \in Seen(i) /\ d.id \in Ids
    BY SeenIds DEF Told, OutIds
  <2>2. ASSUME NEW S \in SUBSET Seen(i), {i} \subseteq S, Reach!LinkClosed(S, Seen(i), merges) PROVE d.id \in S
    <3>1. CASE i \in d.from
      BY <2>1, <2>2, <3>1, HolderReached
    <3>2. CASE i \notin d.from
      <4>1. PICK f : f \in ForumsIn(d) /\ f \in ForumsIn(Out(i))
        BY <3>2 DEF Told
      <4>2. Out(i) \in clusters /\ i \in Out(i).from
        BY OutIs
      <4>3. Out(i).id \in S
        BY <2>2, <4>2, HolderReached
      <4>4. f \in Forums /\ d.id[2] = f /\ Out(i).id[2] = f
        BY <4>1, <4>2, <2>1, ForumsOfOne
      <4>5. Out(i).id \in Ids
        BY <4>3, SeenIds
      <4>6. Reach!Linked(Out(i).id, d.id, merges)
        BY <4>4, <4>5, <2>1, LinkedIs
      <4> QED BY <4>3, <4>6, <2>1, <2>2 DEF Reach!LinkClosed
    <3> QED BY <3>1, <3>2
  <2> QED BY <2>1, <2>2, ReachedIs
<1> QED BY <1>1, <1>2

LEMMA IdsAccounted == Accounts => EveryIdAccounted
<1> SUFFICES ASSUME Accounts, NEW i \in Ids
             PROVE  /\ Cardinality({p \in merges : p[2] = i /\ p[1] # i}) = IF i \in OutIds THEN 0 ELSE 1
                    /\ Reach!SamePaper({i}, merges, OutIds) = {c.id : c \in Told(i)}
  BY DEF EveryIdAccounted, OutIds, Told
<1>1. Cardinality({p \in merges : p[2] = i /\ p[1] # i}) = IF i \in OutIds THEN 0 ELSE 1
  BY RowsOfAnId DEF Accounts, OutIds, Ids, IdsOf
<1> QED BY <1>1, ReachesTheHolders

-----------------------------------------------------------------------------
(* Who is reported.                                                        *)

Paired(c, d, R) == {c.id, d.id} \in Pairs(R)

LEMMA StarTells ==
  ASSUME NEW field, NEW c, NEW G, NEW d \in G \ {c}, NEW R, Star(field, c, G) \subseteq R
  PROVE  Paired(c, d, R) /\ Paired(d, c, R)
<1> DEFINE row == <<field, c.id, d.id>>
<1>1. row \in R
  BY DEF Star
<1>2. {row[2], row[3]} \in Pairs(R)
  BY <1>1 DEF Pairs
<1>3. row[2] = c.id /\ row[3] = d.id
  OBVIOUS
<1>4. {c.id, d.id} \in Pairs(R)
  BY <1>2, <1>3
<1>5. {d.id, c.id} = {c.id, d.id}
  OBVIOUS
<1> QED BY <1>4, <1>5 DEF Paired

Judged(all) == IsFiniteSet(all) /\ Distinct(all) /\ Ided(all)

LEMMA FirstOf ==
  ASSUME NEW all, Judged(all), NEW G \in SUBSET all, G # {}
  PROVE  First(G) \in G
<1>1. IsFiniteSet(G)
  BY FS_Subset DEF Judged
<1>2. Distinct(G) /\ Ided(G)
  BY DEF Judged, Distinct, Ided
<1> QED BY <1>1, <1>2, FirstIs

Mentioned(g, R) == \A c \in g : \E d \in g \ {c} : Paired(c, d, R)

LEMMA ForumGroupsMentioned ==
  ASSUME NEW all, Judged(all), NEW g \in ByForum(all), NEW R, ForumRows(all) \subseteq R
  PROVE  Mentioned(g, R)
<1>1. Groupings(ByForum(all), all)
  BY GroupsAre DEF ByForum, Judged
<1>2. g \in SUBSET all /\ \E c, d \in g : c # d
  BY <1>1 DEF Groupings
<1>3. First(g) \in g
  BY <1>2, FirstOf
<1>4. Star("forum", First(g), g) \subseteq R
  BY DEF ForumRows
<1>5. \A d \in g \ {First(g)} : Paired(First(g), d, R) /\ Paired(d, First(g), R)
  BY <1>4, StarTells
<1> QED BY <1>2, <1>3, <1>5 DEF Mentioned

LEMMA MoreThanOneIn ==
  ASSUME NEW all, Judged(all), NEW G \in SUBSET all, NEW c \in G, NEW d \in G, c # d
  PROVE  ~(Cardinality(G) < 2)
<1>1. IsFiniteSet(G)
  BY FS_Subset DEF Judged
<1>2. Cardinality(G) > 1 /\ Cardinality(G) \in Nat
  BY <1>1, MoreThanOne, FS_CardinalityType
<1> QED BY <1>2

LEMMA TitleGroupsMentioned ==
  ASSUME NEW all, Judged(all), NEW g \in ByTitle(all), NEW R, TitleRows(all) \subseteq R,
         Yielding(g, all) # g
  PROVE  Mentioned(g, R)
<1> DEFINE yielding == Yielding(g, all)
           bucket == g \ yielding
           listings == {c \in bucket : c.listed}
           aside == IF listings # {} /\ Refusal(bucket, FALSE) # None
                    THEN {c \in bucket : NotTheListedPaper(c, bucket) # None} ELSE {}
           rest == bucket \ aside
<1>1. Groupings(ByTitle(all), all)
  BY GroupsAre DEF ByTitle, Judged
<1>2. g \in SUBSET all /\ \E c, d \in g : c # d
  BY <1>1 DEF Groupings
<1>3. yielding \subseteq g /\ bucket # {} /\ listings \subseteq bucket
  BY DEF Yielding
<1>4. aside \subseteq bucket /\ aside \cap listings = {} /\ (aside # {} => listings # {})
  BY DEF NotTheListedPaper
<1>5. TitleRowsOf(g, all) \subseteq R
  BY DEF TitleRows
<1>6. Star("title", First(bucket), yielding) \subseteq R
  BY <1>3, <1>5 DEF TitleRowsOf
<1>7. aside # {} => Star("title", First(listings), aside) \subseteq R
  BY <1>5 DEF TitleRowsOf
<1>8. ~(Cardinality(rest) < 2) => Star("title", First(rest), rest) \subseteq R
  BY <1>5 DEF TitleRowsOf
<1>9. rest = bucket \ aside /\ g = bucket \cup yielding /\ bucket \cap yielding = {}
  BY <1>3
<1> HIDE DEF yielding, bucket, listings, aside, rest
<1>10. First(bucket) \in bucket
  BY <1>2, <1>3, <1>9, FirstOf
<1>11. \A d \in yielding : Paired(First(bucket), d, R) /\ Paired(d, First(bucket), R)
  <2>1. \A d \in yielding : d \in yielding \ {First(bucket)}
    BY <1>9, <1>10
  <2> QED BY <2>1, <1>6, StarTells
<1>12. aside # {} => First(listings) \in listings
  BY <1>2, <1>3, <1>4, <1>9, FirstOf
<1>13. \A d \in aside : Paired(First(listings), d, R) /\ Paired(d, First(listings), R)
  <2>1. \A d \in aside : d \in aside \ {First(listings)}
    BY <1>4, <1>12
  <2> QED BY <2>1, <1>7, StarTells
<1>14. \A c, d \in rest : c # d => \E e \in rest \ {c} : Paired(c, e, R)
  <2> SUFFICES ASSUME NEW c \in rest, NEW d \in rest, c # d PROVE \E e \in rest \ {c} : Paired(c, e, R)
    OBVIOUS
  <2>1. rest \in SUBSET all
    BY <1>2, <1>3, <1>9
  <2>2. First(rest) \in rest /\ Star("title", First(rest), rest) \subseteq R
    BY <2>1, <1>8, FirstOf, MoreThanOneIn
  <2>3. \A e \in rest \ {First(rest)} : Paired(First(rest), e, R) /\ Paired(e, First(rest), R)
    BY <2>2, StarTells
  <2> QED BY <2>2, <2>3
<1>15. ASSUME NEW c \in g PROVE \E d \in g \ {c} : Paired(c, d, R)
  <2>1. CASE c \in yielding
    BY <2>1, <1>9, <1>10, <1>11
  <2>2. CASE c \in aside
    BY <2>2, <1>3, <1>4, <1>9, <1>12, <1>13
  <2>3. CASE c \in rest
    <3>1. CASE \E d \in rest : c # d
      BY <2>3, <3>1, <1>9, <1>14
    <3>2. CASE rest = {c} /\ aside # {}
      <4>1. First(listings) = c
        BY <3>2, <1>3, <1>4, <1>9, <1>12
      <4> QED BY <3>2, <4>1, <1>3, <1>4, <1>9, <1>12, <1>13
    <3>3. CASE rest = {c} /\ aside = {}
      <4>1. bucket = {c} /\ First(bucket) = c
        BY <3>3, <1>4, <1>9, <1>10
      <4> QED BY <4>1, <1>2, <1>9, <1>11
    <3> QED BY <2>3, <3>1, <3>2, <3>3
  <2> QED BY <2>1, <2>2, <2>3, <1>9
<1> QED BY <1>15 DEF Mentioned

ClustersOf(R) == {Cluster(r.id, r.claims, {}) : r \in R}

LEMMA ApartAndReported ==
  ASSUME Judged(ClustersOf(records)), rows = NotMergedRows(ClustersOf(records))
  PROVE  NothingApartSilently
<1> DEFINE all == ClustersOf(records)
<1>1. ForumRows(all) \subseteq rows /\ TitleRows(all) \subseteq rows
  BY DEF NotMergedRows
<1>2. \A g \in ByForum(all) : Mentioned(g, rows)
  <2> HIDE DEF all
  <2> QED BY <1>1, ForumGroupsMentioned DEF all
<1>3. \A g \in ByTitle(all) : Yielding(g, all) = g \/ Mentioned(g, rows)
  <2> HIDE DEF all
  <2> QED BY <1>1, TitleGroupsMentioned DEF all
<1> QED BY <1>2, <1>3 DEF NothingApartSilently, Reported, Mentioned, Paired, ClustersOf

(* What is written of the clusters is judged so.                            *)
Written(C) == {[id |-> c.id, claims |-> Kept(c.claims)] : c \in C}

LEMMA WrittenJudged ==
  ASSUME NEW C, IsFiniteSet(C), Distinct(C), Ided(C)
  PROVE  Judged(ClustersOf(Written(C)))
<1> DEFINE D == ClustersOf(Written(C))
           F == [c \in C |-> Cluster(c.id, Kept(c.claims), {})]
<1>1. D = {F[c] : c \in C}
  <2>1. ASSUME NEW d \in D PROVE d \in {F[c] : c \in C}
    <3>1. PICK r \in Written(C) : d = Cluster(r.id, r.claims, {})
      BY DEF ClustersOf
    <3>2. PICK c \in C : r = [id |-> c.id, claims |-> Kept(c.claims)]
      BY DEF Written
    <3>3. r.id = c.id /\ r.claims = Kept(c.claims)
      BY <3>2
    <3>4. d = F[c]
      BY <3>1, <3>3
    <3> QED BY <3>4
  <2>2. ASSUME NEW c \in C PROVE F[c] \in D
    <3> DEFINE r == [id |-> c.id, claims |-> Kept(c.claims)]
    <3>1. r \in Written(C) /\ r.id = c.id /\ r.claims = Kept(c.claims)
      BY DEF Written
    <3> HIDE DEF r
    <3>2. Cluster(r.id, r.claims, {}) \in ClustersOf(Written(C))
      BY <3>1 DEF ClustersOf
    <3> QED BY <3>1, <3>2
  <2> HIDE DEF D, F
  <2> QED BY <2>1, <2>2
<1>2. \A c \in C : F[c].id = c.id
  BY ClusterParts
<1>3. IsFiniteSet({F[c] : c \in C})
  <2>1. F = [c \in C |-> F[c]]
    OBVIOUS
  <2> HIDE DEF F
  <2> QED BY <2>1, FiniteImage
<1> HIDE DEF D, F
<1>4. Distinct(D) /\ Ided(D)
  BY <1>1, <1>2 DEF Distinct, Ided
<1> QED BY <1>1, <1>3, <1>4 DEF Judged, D

-----------------------------------------------------------------------------
(* The invariant of the first run.                                         *)

(* No link but the first made any cluster, and whatever else did left it a   *)
(* status that a listing may have.                                         *)
LinkedAtFirst ==
    /\ linked = {} => clusters = asked /\ (phase = "link" \/ asked = {})
    /\ linked # {} =>
          /\ linked = FirstLink(asked)
          /\ \A c \in clusters : c \in linked \/ (c \notin asked /\ c.status \in Listable)

Clustered == Accounts /\ IsFiniteSet(clusters) /\ LinkedAtFirst

RecordsCameIn == records \in Inputs /\ \A r \in records : NamesItself(r)
RowsAreOf == Judged(ClustersOf(records)) /\ rows = NotMergedRows(ClustersOf(records))

DedupInv ==
    run = 1 =>
        /\ phase = "ids" => RecordsCameIn
        /\ phase # "ids" => Clustered
        /\ phase = "reconcile" => RowsAreOf

LEMMA DedupInit == Init => DedupInv
BY DEF Init, DedupInv, RecordsCameIn

-----------------------------------------------------------------------------
(* The steps.                                                              *)

OfOneId(R) == {Cluster(i, ClaimsOf(R, i), {i}) : i \in IdsOf(R)}

LEMMA OfOneIdAreOriginals ==
  ASSUME NEW R \in Inputs, \A r \in R : NamesItself(r)
  PROVE  Originals(OfOneId(R)) /\ IdsOf(OfOneId(R)) = IdsOf(R)
<1> DEFINE I == IdsOf(R)
           F == [i \in I |-> Cluster(i, ClaimsOf(R, i), {i})]
           G == [r \in R |-> r.id]
<1>1. IsFiniteSet(I)
  <2>1. G = [r \in R |-> G[r]]
    OBVIOUS
  <2>2. I = {G[r] : r \in R}
    BY DEF IdsOf
  <2>3. IsFiniteSet(R)
    BY InputsAssumption
  <2> HIDE DEF G, I
  <2> QED BY <2>1, <2>2, <2>3, FiniteImage
<1>2. OfOneId(R) = {F[i] : i \in I}
  BY DEF OfOneId
<1>3. IsFiniteSet({F[i] : i \in I})
  <2>1. F = [i \in I |-> F[i]]
    OBVIOUS
  <2> HIDE DEF F, I
  <2> QED BY <2>1, <1>1, FiniteImage
<1>4. \A i \in I : F[i].id = i /\ Original(F[i]) /\ Sourced(F[i])
  <2> SUFFICES ASSUME NEW i \in I PROVE F[i].id = i /\ Original(F[i]) /\ Sourced(F[i])
    OBVIOUS
  <2> DEFINE S == ClaimsOf(R, i)
             a == Cluster(i, S, {i})
  <2>1. F[i] = a
    OBVIOUS
  <2>2. i \in IdsOf(R)
    OBVIOUS
  <2>3. a.id = i /\ a.claims = S
    BY ClusterParts
  <2>4. S = ClaimsOf(R, i) /\ a = Cluster(i, S, {i})
    OBVIOUS
  <2> HIDE DEF a, S, F, I
  <2>5. Original(a)
    BY <2>2, <2>4, OneIdIsOriginal
  <2>6. Sourced(a)
    BY <2>2, <2>3, <2>4, OneIdIsSourced
  <2> QED BY <2>1, <2>3, <2>5, <2>6
<1>5. Distinct({F[i] : i \in I}) /\ IdsOf({F[i] : i \in I}) = I
  <2> HIDE DEF F, I
  <2>1. Distinct({F[i] : i \in I})
    BY <1>4 DEF Distinct
  <2>2. \A j : j \in IdsOf({F[i] : i \in I}) <=> j \in I
    BY <1>4 DEF IdsOf
  <2> QED BY <2>1, <2>2
<1> HIDE DEF F, I
<1> QED BY <1>2, <1>3, <1>4, <1>5 DEF Originals, I

LEMMA ByIdClusters ==
  ASSUME RecordsCameIn, ById
  PROVE  Clustered' /\ phase' = "link" /\ run' = run
<1>1. clusters' = OfOneId(records) /\ asked' = OfOneId(records) /\ linked' = {} /\ phase' = "link"
  BY DEF ById, OfOneId, ClaimsOf, IdsOf
<1>2. Originals(asked') /\ IdsOf(asked') = IdsOf(records)
  BY <1>1, OfOneIdAreOriginals DEF RecordsCameIn
<1>3. Shape(asked', asked') /\ Apart(asked') /\ Covers(asked', asked') /\ IsFiniteSet(asked')
  BY <1>2, OriginalsShape
<1>4. MergesTell(merges', clusters', asked')
  <2>1. \A p \in merges' : \E i \in IdsOf(records) : p = <<i, i>>
    <3> SUFFICES ASSUME NEW p \in merges' PROVE \E i \in IdsOf(records) : p = <<i, i>>
      OBVIOUS
    <3>1. PICK i \in {r.id : r \in {s \in records : \E t \in records \ {s} : s.id = t.id}} : p = <<i, i>>
      BY DEF ById
    <3> QED BY <3>1 DEF IdsOf
  <2>2. \A a, b \in asked' : Pair(a, b) => Joined({a, b}) \notin clusters'
    BY <1>1, <1>2, JoinedIsNew
  <2> QED BY <2>1, <2>2, <1>2 DEF MergesTell
<1>5. run' = run
  BY DEF ById
<1> QED BY <1>1, <1>2, <1>3, <1>4, <1>5 DEF Clustered, Accounts, LinkedAtFirst

LEMMA MergeIs ==
  ASSUME NEW chains, NEW next, Merge(chains, next)
  PROVE  clusters' = Merged(clusters, chains) /\ merges' = merges \cup NewMerges(chains) /\ phase' = next
BY DEF Merge, Merged, NewMerges

LEMMA MergeAccounts ==
  ASSUME Clustered, NEW chains, NEW next, Merge(chains, next), JoinsPairs(chains, clusters, asked), asked' = asked
  PROVE  Accounts' /\ IsFiniteSet(clusters')
<1>1. clusters' = Merged(clusters, chains) /\ merges' = merges \cup NewMerges(chains)
  BY MergeIs
<1>2. /\ Originals(asked) /\ Shape(clusters, asked) /\ Apart(clusters) /\ Covers(clusters, asked)
      /\ IsFiniteSet(clusters) /\ MergesTell(merges, clusters, asked)
  BY DEF Clustered, Accounts
<1>3. /\ Shape(Merged(clusters, chains), asked) /\ Apart(Merged(clusters, chains))
      /\ Covers(Merged(clusters, chains), asked) /\ IsFiniteSet(Merged(clusters, chains))
  BY <1>2, MergeKeepsShape
<1>4. MergesTell(merges \cup NewMerges(chains), Merged(clusters, chains), asked)
  BY <1>2, MergeTells
<1> QED BY <1>1, <1>2, <1>3, <1>4 DEF Accounts

LEMMA LinkKeeps ==
  ASSUME Clustered, Link
  PROVE  Clustered' /\ phase' = "titles" /\ run' = run
<1> DEFINE chains == LinkChains(clusters)
<1>0. /\ Originals(asked) /\ Shape(clusters, asked) /\ Apart(clusters) /\ Covers(clusters, asked)
      /\ IsFiniteSet(clusters)
  BY DEF Clustered, Accounts
<1>1. Merge(chains, "titles") /\ asked' = asked /\ run' = run
      /\ linked' = (IF linked = {} THEN clusters' ELSE linked)
  BY DEF Link
<1>2. JoinsPairs(chains, clusters, asked)
  BY <1>0, LinksArePairs
<1>3. Accounts' /\ IsFiniteSet(clusters')
  BY <1>1, <1>2, MergeAccounts
<1>4. clusters' = Merged(clusters, chains) /\ phase' = "titles"
  BY <1>1, MergeIs
<1>5. CASE linked = {}
  <2>1. clusters = asked /\ linked' = clusters' /\ clusters' = FirstLink(asked)
    BY <1>1, <1>4, <1>5 DEF Clustered, LinkedAtFirst, FirstLink
  <2>2. clusters' = {} => asked = {}
    BY <1>1, <1>3 DEF Accounts, Covers
  <2> QED BY <1>1, <1>3, <1>4, <2>1, <2>2 DEF Clustered, LinkedAtFirst
<1>6. CASE linked # {}
  <2>1. linked = FirstLink(asked) /\ \A c \in clusters : c \in linked \/ (c \notin asked /\ c.status \in Listable)
    BY <1>6 DEF Clustered, LinkedAtFirst
  <2>2. clusters \cap asked \subseteq FirstLink(asked)
    BY <2>1
  <2>3. chains = {}
    BY <1>0, <2>2, LinkedOnce
  <2>4. clusters' = clusters
    BY <1>4, <2>3 DEF Merged
  <2> QED BY <1>1, <1>3, <1>4, <1>6, <2>1, <2>4 DEF Clustered, LinkedAtFirst
<1> QED BY <1>1, <1>4, <1>5, <1>6

(* The two steps that do not link.                                          *)
LEMMA UnlinkedKeeps ==
  ASSUME Clustered, phase # "link", NEW chains, NEW next, Merge(chains, next),
         JoinsPairs(chains, clusters, asked), \A g \in chains : ~Ambiguous(g, FALSE),
         asked' = asked, linked' = linked
  PROVE  Clustered'
<1>1. Accounts' /\ IsFiniteSet(clusters')
  BY MergeAccounts
<1>2. clusters' = Merged(clusters, chains)
  BY MergeIs
<1>3. CASE linked = {}
  <2>1. asked = {} /\ asked' = {} /\ linked' = {}
    BY <1>3 DEF Clustered, LinkedAtFirst
  <2>2. clusters' = {}
    BY <1>1, <2>1 DEF Accounts, Shape
  <2> QED BY <1>1, <2>1, <2>2 DEF Clustered, LinkedAtFirst
<1>4. CASE linked # {}
  <2>1. linked = FirstLink(asked) /\ \A c \in clusters : c \in linked \/ (c \notin asked /\ c.status \in Listable)
    BY <1>4 DEF Clustered, LinkedAtFirst
  <2>2. ASSUME NEW g \in chains PROVE Joined(g) \notin asked /\ Joined(g).status \in Listable
    <3>1. PICK a \in asked, b \in asked : g = {a, b} /\ Pair(a, b)
      BY DEF JoinsPairs
    <3>2. ~ImportWouldTakeItsStatus({a, b})
      <4>1. ~Ambiguous({a, b}, FALSE)
        BY <3>1
      <4> QED BY <4>1 DEF Ambiguous
    <3>3. Originals(asked) /\ Original(a) /\ Sourced(a) /\ Original(b) /\ Sourced(b)
      BY DEF Clustered, Accounts, Originals
    <3> QED BY <3>1, <3>2, <3>3, MergedStatus, JoinedIsNew
  <2>3. \A c \in clusters' : c \in linked \/ (c \notin asked /\ c.status \in Listable)
    BY <1>2, <2>1, <2>2 DEF Merged
  <2> QED BY <1>1, <1>4, <2>1, <2>3 DEF Clustered, LinkedAtFirst
<1> QED BY <1>3, <1>4

LEMMA Unambiguous ==
  ASSUME NEW g, NEW l, Refusal(g, l) = None
  PROVE  ~Ambiguous(g, l)
BY NoneAssumption DEF Refusal

LEMMA TitlesKeep ==
  ASSUME Clustered, JoinTitles
  PROVE  Clustered' /\ phase' = "abstracts" /\ run' = run
<1> DEFINE chains == TitleChains(clusters)
<1>1. Merge(chains, "abstracts") /\ asked' = asked /\ linked' = linked /\ run' = run /\ phase # "link"
  BY DEF JoinTitles
<1>2. JoinsPairs(chains, clusters, asked)
  BY TitlesArePairs DEF Clustered, Accounts
<1>3. \A g \in chains : ~Ambiguous(g, FALSE)
  BY Unambiguous DEF TitleChains
<1>4. phase' = "abstracts"
  BY <1>1, MergeIs
<1> HIDE DEF chains
<1> QED BY <1>1, <1>2, <1>3, <1>4, UnlinkedKeeps

LEMMA AbstractsKeep ==
  ASSUME Clustered, JoinAbstracts
  PROVE  Clustered' /\ phase' \in {"write", "link"} /\ run' = run
<1> DEFINE chains == AbstractChains(clusters)
           next == IF Cardinality(clusters') = before THEN "write" ELSE "link"
<1>1. Merge(chains, next) /\ asked' = asked /\ linked' = linked /\ run' = run /\ phase # "link"
  BY DEF JoinAbstracts
<1>2. JoinsPairs(chains, clusters, asked)
  BY AbstractsArePairs DEF Clustered, Accounts
<1>3. \A g \in chains : ~Ambiguous(g, FALSE)
  <2>1. \A g \in chains : AbstractRefusal(g) = None
    BY DEF AbstractChains
  <2>2. \A g : AbstractRefusal(g) = None => Refusal(g, FALSE) = None
    BY NoneAssumption DEF AbstractRefusal
  <2> QED BY <2>1, <2>2, Unambiguous
<1>4. next \in {"write", "link"}
  OBVIOUS
<1> HIDE DEF chains, next
<1>5. phase' = next
  BY <1>1, MergeIs
<1> QED BY <1>1, <1>2, <1>3, <1>4, <1>5, UnlinkedKeeps

LEMMA StaysClustered ==
  ASSUME Clustered, clusters' = clusters, merges' = merges, asked' = asked, linked' = linked, phase # "link"
  PROVE  Clustered'
BY DEF Clustered, Accounts, LinkedAtFirst

LEMMA WriteRows ==
  ASSUME Clustered, Write
  PROVE  Clustered' /\ RowsAreOf' /\ phase' = "reconcile"
<1>1. Clustered'
  BY StaysClustered DEF Write
<1>2. records' = Written(clusters) /\ rows' = NotMergedRows(ClustersOf(records')) /\ phase' = "reconcile"
  BY DEF Write, Written, ClustersOf
<1>3. Distinct(clusters) /\ Ided(clusters) /\ IsFiniteSet(clusters)
  BY IdsDiffer DEF Clustered, Accounts
<1>4. Judged(ClustersOf(Written(clusters)))
  BY <1>3, WrittenJudged
<1> QED BY <1>1, <1>2, <1>4 DEF RowsAreOf

LEMMA DedupStep == DedupInv /\ [Next]_vars => DedupInv'
<1> SUFFICES ASSUME DedupInv, [Next]_vars, run' = 1 PROVE DedupInv'
  BY DEF DedupInv
<1>1. CASE UNCHANGED vars
  BY <1>1 DEF vars, DedupInv, Clustered, Accounts, LinkedAtFirst, RecordsCameIn, RowsAreOf
<1>2. ASSUME Next PROVE run = 1 /\ ~Again
  BY <1>2 DEF Next, ById, Link, JoinTitles, JoinAbstracts, Write, Reconcile, Again
<1>3. CASE ById
  <2>1. RecordsCameIn
    BY <1>3, <1>2 DEF DedupInv, ById, Next
  <2> QED BY <2>1, <1>3, ByIdClusters DEF DedupInv
<1>4. CASE Link
  <2>1. Clustered
    BY <1>4, <1>2 DEF DedupInv, Link, Next
  <2> QED BY <2>1, <1>4, LinkKeeps DEF DedupInv
<1>5. CASE JoinTitles
  <2>1. Clustered
    BY <1>5, <1>2 DEF DedupInv, JoinTitles, Next
  <2> QED BY <2>1, <1>5, TitlesKeep DEF DedupInv
<1>6. CASE JoinAbstracts
  <2>1. Clustered
    BY <1>6, <1>2 DEF DedupInv, JoinAbstracts, Next
  <2> QED BY <2>1, <1>6, AbstractsKeep DEF DedupInv
<1>7. CASE Write
  <2>1. Clustered
    BY <1>7, <1>2 DEF DedupInv, Write, Next
  <2> QED BY <2>1, <1>7, WriteRows DEF DedupInv
<1>8. CASE Reconcile
  <2>1. Clustered
    BY <1>8, <1>2 DEF DedupInv, Reconcile, Next
  <2>2. Clustered' /\ phase' = "done"
    BY <2>1, <1>8, StaysClustered DEF Reconcile
  <2> QED BY <2>2 DEF DedupInv
<1> QED BY <1>1, <1>2, <1>3, <1>4, <1>5, <1>6, <1>7, <1>8 DEF Next

-----------------------------------------------------------------------------
(* What it implies.                                                        *)

LEMMA PartsOfACluster ==
  ASSUME Accounts, NEW c \in clusters
  PROVE  OnePaper(c)
<1> DEFINE parts == {a \in asked : a.from \subseteq c.from}
<1>1. \A a \in asked : a.from = {a.id}
  BY OriginalNames DEF Accounts, Originals
<1>2. CASE c \in asked
  <2>1. parts = {c}
    BY <1>1, <1>2 DEF Accounts, Originals, Distinct
  <2>2. ~(Cardinality(parts) > 1)
    BY <2>1, FS_Singleton
  <2> QED BY <2>2 DEF OnePaper
<1>3. CASE c \notin asked
  <2>1. PICK a \in asked, b \in asked : JoinOf(c, a, b)
    BY <1>3, PairKind DEF Accounts
  <2>2. parts = {a, b}
    <3>1. \A d \in asked : d.from \subseteq c.from <=> d.id \in {a.id, b.id}
      BY <1>1, <2>1 DEF JoinOf
    <3>2. \A d \in asked : d.id \in {a.id, b.id} <=> d \in {a, b}
      BY DEF Accounts, Originals, Distinct
    <3> QED BY <3>1, <3>2
  <2>3. {d.id[1] : d \in parts} = {a.id[1]}
    BY <2>1, <2>2 DEF JoinOf, Pair
  <2>4. UNION {d.forums : d \in parts} = a.forums \cup b.forums /\ UNION {d.papers : d \in parts} = a.papers \cup b.papers
    BY <2>2
  <2>5. Cardinality({a.id[1]}) = 1
    BY FS_Singleton
  <2>6. ~TracksDiffer(parts)
    BY <2>1, <2>2 DEF JoinOf, Pair
  <2>7. Cardinality(a.forums \cup b.forums) <= 1 /\ Cardinality(a.papers \cup b.papers) <= 1
    BY <2>1 DEF JoinOf, Pair
  <2> HIDE DEF parts
  <2>8. /\ Cardinality({d.id[1] : d \in parts}) = 1
        /\ Cardinality(UNION {d.forums : d \in parts}) <= 1
        /\ Cardinality(UNION {d.papers : d \in parts}) <= 1
    BY <2>3, <2>4, <2>5, <2>7
  <2> QED BY <2>6, <2>8 DEF OnePaper, parts
<1> QED BY <1>2, <1>3

LEMMA StatusOfACluster ==
  ASSUME Clustered, NEW c \in clusters
  PROVE  StatusOutlived(c)
<1> DEFINE within == {a \in linked : a.from \subseteq c.from}
<1>1. /\ Originals(asked) /\ Shape(clusters, asked) /\ Apart(clusters)
  BY DEF Clustered, Accounts
<1>2. CASE c \in linked
  <2>1. linked = FirstLink(asked)
    BY <1>2 DEF Clustered, LinkedAtFirst
  <2>2. Shape(asked, asked) /\ Apart(asked) /\ Covers(asked, asked) /\ IsFiniteSet(asked)
    BY <1>1, OriginalsShape
  <2>3. Shape(linked, asked) /\ Apart(linked)
    BY <1>1, <2>1, <2>2, MergeKeepsShape, LinksArePairs DEF FirstLink
  <2>4. \A a \in linked : a.from # {}
    BY <1>1, <2>3, Kinds
  <2>5. within = {c}
    BY <1>2, <2>3, <2>4 DEF Apart
  <2>6. ~(Cardinality(within) > 1)
    BY <2>5, FS_Singleton
  <2> QED BY <2>6 DEF StatusOutlived
<1>3. CASE linked = {}
  <2>1. within = {} /\ Cardinality({}) = 0
    BY <1>3, FS_EmptySet
  <2>2. ~(Cardinality(within) > 1)
    BY <2>1
  <2> QED BY <2>2 DEF StatusOutlived
<1>4. CASE linked # {} /\ c \notin linked
  BY <1>4 DEF Clustered, LinkedAtFirst, StatusOutlived
<1> QED BY <1>2, <1>3, <1>4

(* Deduplication keeps its invariant, whatever the records that come in.     *)
THEOREM DedupKeepsInv == Spec => []DedupInv
BY DedupInit, DedupStep, PTL DEF Spec

(* No forum link but the first merges anything.                             *)
THEOREM LinksOnce == Spec => []OnlyTheFirstPassLinks
<1>1. ASSUME DedupInv, Ended({"link"}), linked # {} PROVE LinkChains(clusters) = {}
  <2>1. Clustered
    BY <1>1 DEF DedupInv, Ended
  <2>2. clusters \cap asked \subseteq FirstLink(asked)
    BY <1>1, <2>1 DEF Clustered, LinkedAtFirst
  <2> QED BY <2>1, <2>2, LinkedOnce DEF Clustered, Accounts
<1>2. DedupInv => OnlyTheFirstPassLinks
  BY <1>1 DEF OnlyTheFirstPassLinks
<1> QED BY <1>2, DedupKeepsInv, PTL

(* No two papers are folded into one record, nor could a later link fold any.*)
THEOREM NeverFolds == Spec => []NeverFoldsTwoPapers
<1>1. DedupInv /\ OnlyTheFirstPassLinks => NeverFoldsTwoPapers
  BY PartsOfACluster, StatusOfACluster DEF DedupInv, NeverFoldsTwoPapers, Ended, Clustered
<1> QED BY <1>1, DedupKeepsInv, LinksOnce, PTL

(* The audit tells all: each id leads to the record that holds its claims,   *)
(* and whoever stays apart is named.                                       *)
THEOREM AuditTold == Spec => []AuditTellsAll
<1>1. DedupInv => EveryIdAccounted
  <2>1. CASE Ended({"write"})
    BY <2>1, IdsAccounted DEF DedupInv, Ended, Clustered
  <2>2. CASE ~Ended({"write"})
    BY <2>2 DEF EveryIdAccounted
  <2> QED BY <2>1, <2>2
<1>2. DedupInv => NothingApartSilently
  <2>1. CASE Ended({"reconcile"})
    BY <2>1, ApartAndReported DEF DedupInv, Ended, RowsAreOf
  <2>2. CASE ~Ended({"reconcile"})
    BY <2>2 DEF NothingApartSilently
  <2> QED BY <2>1, <2>2
<1>3. DedupInv => AuditTellsAll
  BY <1>1, <1>2 DEF AuditTellsAll
<1> QED BY <1>3, DedupKeepsInv, PTL

-----------------------------------------------------------------------------
(* Clusters the rules cannot tell apart.  They look at no claims, at no ids  *)
(* that were merged, and at a status only for whether a listing may have it.*)

Like(c, d) ==
    /\ c.id = d.id /\ c.sources = d.sources /\ c.titles = d.titles /\ c.abstracts = d.abstracts
    /\ c.papers = d.papers /\ c.forums = d.forums /\ c.listed = d.listed /\ c.crawled = d.crawled
    /\ c.track = d.track /\ c.family = d.family
    /\ c.status \in Listable <=> d.status \in Listable

Twins(A, B) ==
    /\ IsFiniteSet(A) /\ IsFiniteSet(B) /\ Distinct(A) /\ Distinct(B)
    /\ \A c \in A : \E d \in B : Like(c, d)
    /\ \A d \in B : \E c \in A : Like(c, d)

(* The twins in B of a set of clusters.                                     *)
Twin(g, B) == {d \in B : \E c \in g : c.id = d.id}

LEMMA TwinsTurn ==
  ASSUME NEW A, NEW B, Twins(A, B)
  PROVE  Twins(B, A)
BY DEF Twins, Like

LEMMA LikeById ==
  ASSUME NEW A, NEW B, Twins(A, B), NEW c \in A, NEW d \in B
  PROVE  c.id = d.id <=> Like(c, d)
BY DEF Twins, Like, Distinct

LEMMA TwinsWithin ==
  ASSUME NEW G, NEW K, Twins(G, K), NEW g \in SUBSET G, NEW k \in SUBSET K,
         \A c \in G, d \in K : Like(c, d) => (c \in g <=> d \in k)
  PROVE  Twins(g, k)
<1>1. IsFiniteSet(g) /\ IsFiniteSet(k)
  BY FS_Subset DEF Twins
<1>2. Distinct(g) /\ Distinct(k)
  BY DEF Twins, Distinct
<1>3. \A c \in g : \E d \in k : Like(c, d)
  BY DEF Twins
<1>4. \A d \in k : \E c \in g : Like(c, d)
  BY DEF Twins
<1> QED BY <1>1, <1>2, <1>3, <1>4 DEF Twins

LEMMA TwinOf ==
  ASSUME NEW A, NEW B, Twins(A, B), NEW g \in SUBSET A
  PROVE  Twin(g, B) \in SUBSET B /\ Twins(g, Twin(g, B)) /\ Twin(Twin(g, B), A) = g
<1>1. Twin(g, B) \in SUBSET B
  BY DEF Twin
<1>2. \A c \in A, d \in B : Like(c, d) => (c \in g <=> d \in Twin(g, B))
  BY LikeById DEF Twin, Twins, Distinct, Like
<1>3. Twins(g, Twin(g, B))
  BY <1>1, <1>2, TwinsWithin
<1>4. \A c \in A : c \in Twin(Twin(g, B), A) <=> c \in g
  BY <1>1, <1>3 DEF Twin, Twins, Distinct, Like
<1> QED BY <1>1, <1>3, <1>4 DEF Twin

LEMMA TwinIs ==
  ASSUME NEW A, NEW B, Twins(A, B), NEW g \in SUBSET A, NEW k \in SUBSET B, Twins(g, k)
  PROVE  k = Twin(g, B)
<1>1. \A d \in B : d \in k <=> d \in Twin(g, B)
  BY DEF Twin, Twins, Distinct, Like
<1> QED BY <1>1 DEF Twin

(* Twins have the same names between them.                                  *)
LEMMA TwinsNames ==
  ASSUME NEW g, NEW k, Twins(g, k)
  PROVE  /\ UNION {c.forums : c \in g} = UNION {c.forums : c \in k}
         /\ UNION {c.papers : c \in g} = UNION {c.papers : c \in k}
         /\ {c.family : c \in g} = {c.family : c \in k}
         /\ {c.id : c \in g} = {c.id : c \in k}
<1>1. UNION {c.forums : c \in g} = UNION {c.forums : c \in k}
  BY DEF Twins, Like
<1>2. UNION {c.papers : c \in g} = UNION {c.papers : c \in k}
  BY DEF Twins, Like
<1>3. {c.family : c \in g} = {c.family : c \in k}
  BY DEF Twins, Like
<1>4. {c.id : c \in g} = {c.id : c \in k}
  BY DEF Twins, Like
<1> QED BY <1>1, <1>2, <1>3, <1>4

LEMMA TwinsNone ==
  ASSUME NEW g, NEW k, Twins(g, k)
  PROVE  g = {} <=> k = {}
BY DEF Twins

LEMMA TwinsMany ==
  ASSUME NEW g, NEW k, Twins(g, k)
  PROVE  /\ Cardinality(g) > 1 <=> Cardinality(k) > 1
         /\ Cardinality(g) < 2 <=> Cardinality(k) < 2
<1>1. IsFiniteSet(g) /\ IsFiniteSet(k)
  BY DEF Twins
<1>2. (\E c, d \in g : c # d) <=> (\E c, d \in k : c # d)
  BY DEF Twins, Distinct, Like
<1>3. Cardinality(g) > 1 <=> Cardinality(k) > 1
  BY <1>1, <1>2, MoreThanOne
<1>4. Cardinality(g) \in Nat /\ Cardinality(k) \in Nat
  BY <1>1, FS_CardinalityType
<1> QED BY <1>3, <1>4

-----------------------------------------------------------------------------
(* The rules on twins.                                                      *)

LEMMA ImportsTwins ==
  ASSUME NEW g, NEW k, Twins(g, k), ImportWouldTakeItsStatus(g)
  PROVE  ImportWouldTakeItsStatus(k)
<1>1. PICK c \in g : /\ g # {c} /\ ~c.crawled /\ c.status \notin Listable
                     /\ \A e \in g \ {c} : OnlyImported(e)
  BY DEF ImportWouldTakeItsStatus
<1>2. PICK d \in k : Like(c, d)
  BY DEF Twins
<1>3. k # {d}
  BY <1>1, <1>2 DEF Twins, Distinct, Like
<1>4. ~d.crawled /\ d.status \notin Listable
  BY <1>1, <1>2 DEF Like
<1>5. \A e \in k \ {d} : OnlyImported(e)
  BY <1>1, <1>2 DEF Twins, Distinct, Like, OnlyImported
<1> QED BY <1>3, <1>4, <1>5 DEF ImportWouldTakeItsStatus

LEMMA AmbiguousTwins ==
  ASSUME NEW g, NEW k, Twins(g, k), NEW l, Ambiguous(g, l)
  PROVE  Ambiguous(k, l)
<1>1. ASSUME ~l, NEW c \in g, NEW d \in g, c # d, (c.sources \cap d.sources) \ Imported # {}
      PROVE  Ambiguous(k, l)
  <2>1. PICK e \in k : Like(c, e)
    BY DEF Twins
  <2>2. PICK f \in k : Like(d, f)
    BY DEF Twins
  <2>3. e # f /\ (e.sources \cap f.sources) \ Imported # {}
    BY <1>1, <2>1, <2>2 DEF Twins, Distinct, Like
  <2> QED BY <1>1, <2>3 DEF Ambiguous
<1>2. UNION {c.forums : c \in g} = UNION {c.forums : c \in k}
      /\ UNION {c.papers : c \in g} = UNION {c.papers : c \in k}
  BY TwinsNames
<1>3. ImportWouldTakeItsStatus(g) => ImportWouldTakeItsStatus(k)
  BY ImportsTwins
<1> QED BY <1>1, <1>2, <1>3 DEF Ambiguous

LEMMA TracksTwins ==
  ASSUME NEW g, NEW k, Twins(g, k)
  PROVE  TracksDiffer(g) <=> TracksDiffer(k)
<1>1. {c.family : c \in g} = {c.family : c \in k}
  BY TwinsNames
<1>2. (\E c \in g : c.listed) <=> (\E c \in k : c.listed)
  BY DEF Twins, Like
<1> QED BY <1>1, <1>2 DEF TracksDiffer

LEMMA RefusalTwins ==
  ASSUME NEW g, NEW k, Twins(g, k), NEW l
  PROVE  Refusal(g, l) = Refusal(k, l)
<1>1. Ambiguous(g, l) <=> Ambiguous(k, l)
  BY AmbiguousTwins, TwinsTurn
<1>2. TracksDiffer(g) <=> TracksDiffer(k)
  BY TracksTwins
<1> QED BY <1>1, <1>2 DEF Refusal

LEMMA NotListedTwins ==
  ASSUME NEW g, NEW k, Twins(g, k), NEW c, NEW d, Like(c, d)
  PROVE  NotTheListedPaper(c, g) = NotTheListedPaper(d, k)
<1>1. {e.family : e \in {f \in g : f.listed}} = {e.family : e \in {f \in k : f.listed}}
  BY DEF Twins, Like
<1> QED BY <1>1 DEF NotTheListedPaper, Like

LEMMA TitleMergingTwins ==
  ASSUME NEW g, NEW k, Twins(g, k)
  PROVE  Twins(TitleMerging(g), TitleMerging(k))
<1> DEFINE r(h) == {c \in h : NotTheListedPaper(c, h) = None}
<1>1. \A c \in g, d \in k : Like(c, d) => (c \in r(g) <=> d \in r(k))
  BY NotListedTwins
<1>2. r(g) \in SUBSET g /\ r(k) \in SUBSET k
  OBVIOUS
<1>3. Twins(r(g), r(k))
  <2> HIDE DEF r
  <2> QED BY <1>1, <1>2, TwinsWithin
<1>4. Refusal(g, FALSE) = Refusal(k, FALSE) /\ Refusal(r(g), FALSE) = Refusal(r(k), FALSE)
  <2> HIDE DEF r
  <2> QED BY <1>3, RefusalTwins
<1>5. Cardinality(r(g)) > 1 <=> Cardinality(r(k)) > 1
  <2> HIDE DEF r
  <2> QED BY <1>3, TwinsMany
<1>6. (\E c \in g : c.listed) <=> (\E c \in k : c.listed)
  BY DEF Twins, Like
<1>7. Twins({}, {})
  BY FS_EmptySet DEF Twins, Distinct
<1>8. \A h : TitleMerging(h) =
         IF Refusal(h, FALSE) = None THEN h
         ELSE IF (\E c \in h : c.listed) /\ Cardinality(r(h)) > 1 /\ Refusal(r(h), FALSE) = None
         THEN r(h) ELSE {}
  BY DEF TitleMerging
<1> HIDE DEF r
<1> QED BY <1>3, <1>4, <1>5, <1>6, <1>7, <1>8

LEMMA AsideTwins ==
  ASSUME NEW g, NEW k, Twins(g, k), NEW c, NEW d, Like(c, d)
  PROVE  AbstractAside(c, g) = AbstractAside(d, k)
<1>1. (\E e \in g : e.listed) <=> (\E e \in k : e.listed)
  BY DEF Twins, Like
<1>2. NotTheListedPaper(c, g) = NotTheListedPaper(d, k)
  BY NotListedTwins
<1> QED BY <1>1, <1>2 DEF AbstractAside, Like

LEMMA AbstractRefusalTwins ==
  ASSUME NEW g, NEW k, Twins(g, k)
  PROVE  AbstractRefusal(g) = AbstractRefusal(k)
<1> DEFINE r(h) == {c \in h : ~OnlyImported(c)}
<1>1. \A c \in g, d \in k : Like(c, d) => (c \in r(g) <=> d \in r(k))
  BY DEF Like, OnlyImported
<1>2. r(g) \in SUBSET g /\ r(k) \in SUBSET k
  OBVIOUS
<1>3. Twins(r(g), r(k))
  <2> HIDE DEF r
  <2> QED BY <1>1, <1>2, TwinsWithin
<1>4. Cardinality(r(g)) > 1 <=> Cardinality(r(k)) > 1
  <2> HIDE DEF r
  <2> QED BY <1>3, TwinsMany
<1>5. r(g) = g <=> r(k) = k
  BY <1>1 DEF Twins
<1>6. (\E c \in g : ~c.crawled /\ c.status \notin Listable) <=> (\E c \in k : ~c.crawled /\ c.status \notin Listable)
  BY DEF Twins, Like
<1>7. Refusal(g, FALSE) = Refusal(k, FALSE)
  BY RefusalTwins
<1>8. \A h : AbstractRefusal(h) =
         IF \/ Cardinality(r(h)) > 1 \/ r(h) = h
            \/ \E c \in h : ~c.crawled /\ c.status \notin Listable
         THEN "ambiguous_not_merged" ELSE Refusal(h, FALSE)
  BY DEF AbstractRefusal
<1> HIDE DEF r
<1> QED BY <1>4, <1>5, <1>6, <1>7, <1>8

LEMMA AbstractMergingTwins ==
  ASSUME NEW g, NEW k, Twins(g, k)
  PROVE  Twins(AbstractMerging(g), AbstractMerging(k))
<1> DEFINE r(h) == {c \in h : AbstractAside(c, h) = None}
<1>1. \A c \in g, d \in k : Like(c, d) => (c \in r(g) <=> d \in r(k))
  BY AsideTwins
<1>2. r(g) \in SUBSET g /\ r(k) \in SUBSET k
  OBVIOUS
<1>3. Twins(r(g), r(k))
  <2> HIDE DEF r
  <2> QED BY <1>1, <1>2, TwinsWithin
<1>4. (Cardinality(r(g)) < 2 <=> Cardinality(r(k)) < 2) /\ AbstractRefusal(r(g)) = AbstractRefusal(r(k))
  <2> HIDE DEF r
  <2> QED BY <1>3, TwinsMany, AbstractRefusalTwins
<1>5. Twins({}, {})
  BY FS_EmptySet DEF Twins, Distinct
<1>6. \A h : AbstractMerging(h) =
         IF Cardinality(r(h)) < 2 \/ AbstractRefusal(r(h)) # None THEN {} ELSE r(h)
  BY DEF AbstractMerging
<1> HIDE DEF r
<1> QED BY <1>3, <1>4, <1>5, <1>6

LEMMA YieldsTwins ==
  ASSUME NEW A, NEW B, Twins(A, B), NEW g, NEW k, Twins(g, k), NEW c, NEW d, Like(c, d),
         c \in g, d \in k, Yields(c, g, A)
  PROVE  Yields(d, k, B)
<1>1. OnlyImported(d) /\ AbstractKeys(c) = AbstractKeys(d)
  BY DEF Yields, Like, OnlyImported, AbstractKeys
<1>2. PICK x \in AbstractKeys(c) :
         /\ \E e \in A : ~OnlyImported(e) /\ e.id[1] = c.id[1] /\ x \in CrawledAbstracts(e)
         /\ \A e \in g \ {c} : x \notin AbstractKeys(e)
  BY DEF Yields
<1>3. \E e \in B : ~OnlyImported(e) /\ e.id[1] = d.id[1] /\ x \in CrawledAbstracts(e)
  <2>1. PICK e \in A : ~OnlyImported(e) /\ e.id[1] = c.id[1] /\ x \in CrawledAbstracts(e)
    BY <1>2
  <2>2. PICK f \in B : Like(e, f)
    BY DEF Twins
  <2> QED BY <2>1, <2>2 DEF Like, OnlyImported, CrawledAbstracts
<1>4. ASSUME NEW f \in k \ {d} PROVE x \notin AbstractKeys(f)
  <2>1. PICK e \in g : Like(e, f)
    BY DEF Twins
  <2>2. e # c
    BY <2>1 DEF Twins, Distinct, Like
  <2>3. AbstractKeys(e) = AbstractKeys(f)
    BY <2>1 DEF Like, AbstractKeys
  <2> QED BY <1>2, <2>2, <2>3
<1> QED BY <1>1, <1>2, <1>3, <1>4 DEF Yields

LEMMA YieldingTwins ==
  ASSUME NEW A, NEW B, Twins(A, B), NEW g, NEW k, Twins(g, k)
  PROVE  /\ Twins(Yielding(g, A), Yielding(k, B))
         /\ Twins(g \ Yielding(g, A), k \ Yielding(k, B))
<1>1. \A c \in g, d \in k : Like(c, d) => Like(d, c)
  BY DEF Like
<1>2. Twins(B, A) /\ Twins(k, g)
  BY TwinsTurn
<1>3. \A c \in g, d \in k : Like(c, d) => (Yields(c, g, A) <=> Yields(d, k, B))
  BY <1>1, <1>2, YieldsTwins
<1>4. \A c \in g, d \in k : Like(c, d) => (c \in Yielding(g, A) <=> d \in Yielding(k, B))
  BY <1>3 DEF Yielding
<1>5. Yielding(g, A) \in SUBSET g /\ Yielding(k, B) \in SUBSET k
  BY DEF Yielding
<1>6. Twins(Yielding(g, A), Yielding(k, B))
  BY <1>4, <1>5, TwinsWithin
<1>7. \A c \in g, d \in k : Like(c, d) => (c \in g \ Yielding(g, A) <=> d \in k \ Yielding(k, B))
  BY <1>4
<1>8. Twins(g \ Yielding(g, A), k \ Yielding(k, B))
  <2>1. g \ Yielding(g, A) \in SUBSET g /\ k \ Yielding(k, B) \in SUBSET k
    OBVIOUS
  <2> QED BY <1>7, <2>1, TwinsWithin
<1> QED BY <1>6, <1>8

-----------------------------------------------------------------------------
(* The groups of twins are twins.                                           *)

LEMMA SharingTwins ==
  ASSUME NEW A, NEW B, Twins(A, B), NEW p, NEW q, DOMAIN p = A, DOMAIN q = B,
         \A c \in A, d \in B : Like(c, d) => p[c] = q[d], NEW v, NEW x
  PROVE  Twins(Sharing(p, v, x), Sharing(q, v, x))
<1>1. Sharing(p, v, x) \in SUBSET A /\ Sharing(q, v, x) \in SUBSET B
  BY DEF Sharing
<1>2. \A c \in A, d \in B : Like(c, d) => (c \in Sharing(p, v, x) <=> d \in Sharing(q, v, x))
  BY DEF Sharing, Like
<1> QED BY <1>1, <1>2, TwinsWithin

LEMMA GroupIs ==
  ASSUME NEW keys, NEW g
  PROVE  g \in Groups(keys) <=>
           /\ Cardinality(g) > 1
           /\ \E v \in VenueYears : \E c \in DOMAIN keys : \E x \in keys[c] : g = Sharing(keys, v, x)
<1>1. ASSUME NEW v \in VenueYears, NEW c \in DOMAIN keys, NEW x \in keys[c],
             g = Sharing(keys, v, x), Cardinality(g) > 1
      PROVE  g \in Groups(keys)
  <2>1. x \in UNION {keys[d] : d \in DOMAIN keys}
    OBVIOUS
  <2> QED BY <1>1, <2>1 DEF Groups
<1>2. ASSUME g \in Groups(keys)
      PROVE  /\ Cardinality(g) > 1
             /\ \E v \in VenueYears : \E c \in DOMAIN keys : \E x \in keys[c] : g = Sharing(keys, v, x)
  <2>1. PICK v \in VenueYears, x \in UNION {keys[d] : d \in DOMAIN keys} : g = Sharing(keys, v, x) /\ Cardinality(g) > 1
    BY <1>2 DEF Groups
  <2> QED BY <2>1
<1> QED BY <1>1, <1>2

LEMMA GroupsTwins ==
  ASSUME NEW A, NEW B, Twins(A, B), NEW p, NEW q, DOMAIN p = A, DOMAIN q = B,
         \A c \in A, d \in B : Like(c, d) => p[c] = q[d], NEW g \in Groups(p)
  PROVE  \E k \in Groups(q) : Twins(g, k)
<1>1. PICK v \in VenueYears, c \in A : \E x \in p[c] : g = Sharing(p, v, x)
  BY GroupIs
<1>0. PICK x \in p[c] : g = Sharing(p, v, x)
  BY <1>1
<1>2. PICK d \in B : Like(c, d)
  BY DEF Twins
<1>3. x \in q[d]
  BY <1>0, <1>2
<1>4. Twins(g, Sharing(q, v, x))
  BY <1>0, SharingTwins
<1>5. Cardinality(Sharing(q, v, x)) > 1
  BY <1>4, TwinsMany, GroupIs
<1>6. Sharing(q, v, x) \in Groups(q)
  BY <1>3, <1>5, GroupIs
<1> QED BY <1>4, <1>6

LEMMA ByForumTwins ==
  ASSUME NEW A, NEW B, Twins(A, B), NEW g \in ByForum(A)
  PROVE  \E k \in ByForum(B) : Twins(g, k)
<1> DEFINE p == [c \in A |-> c.forums]
           q == [c \in B |-> c.forums]
<1>1. DOMAIN p = A /\ DOMAIN q = B /\ \A c \in A, d \in B : Like(c, d) => p[c] = q[d]
  BY DEF Like
<1>2. ByForum(A) = Groups(p) /\ ByForum(B) = Groups(q)
  BY DEF ByForum
<1> HIDE DEF p, q
<1> QED BY <1>1, <1>2, GroupsTwins

LEMMA ByTitleTwins ==
  ASSUME NEW A, NEW B, Twins(A, B), NEW g \in ByTitle(A)
  PROVE  \E k \in ByTitle(B) : Twins(g, k)
<1> DEFINE p == [c \in A |-> c.titles]
           q == [c \in B |-> c.titles]
<1>1. DOMAIN p = A /\ DOMAIN q = B /\ \A c \in A, d \in B : Like(c, d) => p[c] = q[d]
  BY DEF Like
<1>2. ByTitle(A) = Groups(p) /\ ByTitle(B) = Groups(q)
  BY DEF ByTitle
<1> HIDE DEF p, q
<1> QED BY <1>1, <1>2, GroupsTwins

LEMMA AnchorsLike ==
  ASSUME NEW c, NEW d, Like(c, d), NEW m
  PROVE  Anchors(c, m) = Anchors(d, m)
<1>1. OnlyImported(c) = OnlyImported(d)
  BY DEF OnlyImported, Like
<1>2. ImportedAbstracts(c) = ImportedAbstracts(d) /\ AbstractKeys(c) = AbstractKeys(d)
  BY DEF ImportedAbstracts, AbstractKeys, Like
<1>3. c.listed = d.listed /\ c.sources = d.sources
  BY DEF Like
<1> QED BY <1>1, <1>2, <1>3 DEF Anchors

LEMMA ByAbstractTwins ==
  ASSUME NEW A, NEW B, Twins(A, B), NEW m, NEW g \in ByAbstract(A, m)
  PROVE  \E k \in ByAbstract(B, m) : Twins(g, k)
<1> DEFINE p == [c \in A |-> AbstractKeys(c)]
           q == [c \in B |-> AbstractKeys(c)]
<1>1. DOMAIN p = A /\ DOMAIN q = B /\ \A c \in A, d \in B : Like(c, d) => p[c] = q[d]
  BY DEF Like, AbstractKeys
<1>2. \A h : h \in ByAbstract(A, m) <=>
          h \in Groups(p) /\ \E c \in h : \E x \in Anchors(c, m) : h = Sharing(p, c.id[1], x)
  BY DEF ByAbstract
<1>3. \A h : h \in ByAbstract(B, m) <=>
          h \in Groups(q) /\ \E c \in h : \E x \in Anchors(c, m) : h = Sharing(q, c.id[1], x)
  BY DEF ByAbstract
<1> HIDE DEF p, q
<1>4. PICK c \in g : \E x \in Anchors(c, m) : g = Sharing(p, c.id[1], x)
  BY <1>2
<1>5. PICK x \in Anchors(c, m) : g = Sharing(p, c.id[1], x)
  BY <1>4
<1>6. PICK k \in Groups(q) : Twins(g, k)
  BY <1>1, <1>2, GroupsTwins
<1>7. PICK d \in k : Like(c, d)
  BY <1>6 DEF Twins
<1>8. x \in Anchors(d, m) /\ c.id = d.id
  BY <1>5, <1>7, AnchorsLike DEF Like
<1>9. Twins(g, Sharing(q, d.id[1], x))
  BY <1>1, <1>5, <1>8, SharingTwins
<1>10. k = Sharing(q, d.id[1], x)
  <2>1. PICK v, y : k = Sharing(q, v, y)
    BY <1>6, GroupIs
  <2>2. k \in SUBSET B /\ Sharing(q, d.id[1], x) \in SUBSET B
    BY <2>1, <1>1 DEF Sharing
  <2>3. g \in SUBSET A
    BY <1>1, <1>5 DEF Sharing
  <2> QED BY <2>2, <2>3, <1>6, <1>9, TwinIs
<1> QED BY <1>3, <1>6, <1>7, <1>8, <1>10

-----------------------------------------------------------------------------
(* If twins chain, so do those whose twins they are.                        *)

(* Two families of groups, each of twins of the other's.                    *)
TwinGroups(G, H, A, B) ==
    /\ \A g \in G : g \subseteq A /\ \E h \in H : Twins(g, h)
    /\ \A h \in H : h \subseteq B /\ \E g \in G : Twins(g, h)

LEMMA TwinClosed ==
  ASSUME NEW A, NEW B, Twins(A, B), NEW G, NEW H, TwinGroups(G, H, A, B),
         NEW S \in SUBSET A, Closed(S, G)
  PROVE  Closed(Twin(S, B), H)
<1> SUFFICES ASSUME NEW h \in H PROVE h \subseteq Twin(S, B) \/ h \cap Twin(S, B) = {}
  BY DEF Closed
<1>1. PICK g \in G : Twins(g, h)
  BY DEF TwinGroups
<1>2. g \in SUBSET A /\ h \in SUBSET B
  BY DEF TwinGroups
<1>3. g \subseteq S \/ g \cap S = {}
  BY DEF Closed
<1>4. h = Twin(g, B)
  BY <1>1, <1>2, TwinIs
<1>5. ASSUME NEW d \in h, NEW e \in h, d \in Twin(S, B) PROVE e \in Twin(S, B)
  <2>1. PICK c \in g : Like(c, d)
    BY <1>1 DEF Twins
  <2>2. PICK b \in g : Like(b, e)
    BY <1>1 DEF Twins
  <2>3. c \in S
    BY <1>2, <1>5, <2>1 DEF Twin, Twins, Distinct, Like
  <2>4. b \in S
    BY <1>3, <2>1, <2>2, <2>3
  <2> QED BY <1>2, <2>2, <2>4 DEF Twin, Like
<1> QED BY <1>5

LEMMA TwinGroupsTurn ==
  ASSUME NEW A, NEW B, NEW G, NEW H, TwinGroups(G, H, A, B)
  PROVE  TwinGroups(H, G, B, A)
BY TwinsTurn DEF TwinGroups

LEMMA ChainsTwins ==
  ASSUME NEW A, NEW B, Twins(A, B), NEW G, NEW H, TwinGroups(G, H, A, B),
         NEW S \in Chains(G)
  PROVE  Twin(S, B) \in Chains(H) /\ Twins(S, Twin(S, B)) /\ S \in SUBSET A
<1> DEFINE k == Twin(S, B)
<1>1. S \in SUBSET A /\ S # {} /\ Closed(S, G) /\ \A T \in SUBSET S : Closed(T, G) => T = {} \/ T = S
  BY ChainsAre DEF TwinGroups
<1>2. k \in SUBSET B /\ Twins(S, k) /\ Twin(k, A) = S
  BY <1>1, TwinOf
<1>3. Closed(k, H)
  BY <1>1, TwinClosed
<1>4. k # {}
  BY <1>1, <1>2, TwinsNone
<1>5. k \subseteq UNION H
  <2> SUFFICES ASSUME NEW d \in k PROVE \E h \in H : d \in h
    OBVIOUS
  <2>1. PICK c \in S : Like(c, d)
    BY <1>2 DEF Twins
  <2>2. PICK g \in G : c \in g
    BY ChainsAre
  <2>3. PICK h \in H : Twins(g, h)
    BY DEF TwinGroups
  <2>4. PICK e \in h : Like(c, e)
    BY <2>2, <2>3 DEF Twins
  <2>5. e \in B /\ d \in B
    BY <1>2, <2>3, <2>4 DEF TwinGroups
  <2>6. e = d
    <3>1. e.id = d.id
      BY <2>1, <2>4 DEF Like
    <3>2. Distinct(B)
      BY DEF Twins
    <3> QED BY <3>1, <3>2, <2>5 DEF Distinct
  <2> QED BY <2>4, <2>6
<1>6. ASSUME NEW T \in SUBSET k, Closed(T, H) PROVE T = {} \/ T = k
  <2>1. Twins(B, A) /\ TwinGroups(H, G, B, A) /\ T \in SUBSET B
    BY <1>2, TwinsTurn, TwinGroupsTurn
  <2>2. Closed(Twin(T, A), G)
    BY <1>6, <2>1, TwinClosed
  <2>3. Twin(T, A) \subseteq Twin(k, A)
    BY DEF Twin
  <2>4. Twin(T, A) = {} \/ Twin(T, A) = S
    BY <1>1, <1>2, <2>2, <2>3
  <2>5. Twin(Twin(T, A), B) = T /\ Twins(T, Twin(T, A))
    BY <2>1, TwinOf
  <2>6. Twin({}, B) = {}
    BY DEF Twin
  <2> QED BY <2>4, <2>5, <2>6
<1> HIDE DEF k
<1>7. k \in Chains(H)
  BY <1>3, <1>4, <1>5, <1>6, ChainsAre
<1> QED BY <1>1, <1>2, <1>7 DEF k

(* Nothing to merge.                                                       *)
Unmerging(all) == LinkChains(all) = {} /\ TitleChains(all) = {} /\ AbstractChains(all) = {}

LEMMA LinksTwins ==
  ASSUME NEW A, NEW B, Twins(A, B), LinkChains(B) = {}
  PROVE  LinkChains(A) = {}
<1> DEFINE G == {h \in ByForum(A) : Refusal(h, TRUE) = None}
           H == {h \in ByForum(B) : Refusal(h, TRUE) = None}
<1>1. \A h \in ByForum(A) : h \subseteq A
  BY GroupsAre DEF ByForum, Groupings, Twins
<1>2. \A h \in ByForum(B) : h \subseteq B
  BY GroupsAre DEF ByForum, Groupings, Twins
<1>3. \A g \in G : \E h \in H : Twins(g, h)
  BY ByForumTwins, RefusalTwins
<1>4. \A h \in H : \E g \in G : Twins(g, h)
  <2> SUFFICES ASSUME NEW h \in H PROVE \E g \in G : Twins(g, h)
    OBVIOUS
  <2>1. Twins(B, A)
    BY TwinsTurn
  <2>2. PICK g \in ByForum(A) : Twins(h, g)
    BY <2>1, ByForumTwins
  <2>3. Refusal(h, TRUE) = Refusal(g, TRUE) /\ Twins(g, h)
    BY <2>2, RefusalTwins, TwinsTurn
  <2> QED BY <2>3
<1>5. TwinGroups(G, H, A, B)
  BY <1>1, <1>2, <1>3, <1>4 DEF TwinGroups
<1>6. \A g : g \in LinkChains(A) <=> g \in Chains(G) /\ Refusal(g, TRUE) = None
  BY DEF LinkChains
<1>7. \A g : g \in LinkChains(B) <=> g \in Chains(H) /\ Refusal(g, TRUE) = None
  BY DEF LinkChains
<1> HIDE DEF G, H
<1>8. ASSUME NEW g \in LinkChains(A) PROVE FALSE
  <2>1. Twin(g, B) \in Chains(H) /\ Twins(g, Twin(g, B))
    BY <1>5, <1>6, ChainsTwins
  <2>2. Refusal(Twin(g, B), TRUE) = None
    BY <1>6, <2>1, RefusalTwins
  <2> QED BY <1>7, <2>1, <2>2
<1> QED BY <1>8

LEMMA TitleGroupsTwins ==
  ASSUME NEW A, NEW B, Twins(A, B), NEW g \in TitleGroups(A)
  PROVE  g \in SUBSET A /\ \E h \in TitleGroups(B) : Twins(g, h)
<1>1. PICK t \in ByTitle(A) : g = TitleMerging(t \ Yielding(t, A)) /\ g # {}
  BY DEF TitleGroups
<1>2. PICK u \in ByTitle(B) : Twins(t, u)
  BY ByTitleTwins
<1>3. Twins(t \ Yielding(t, A), u \ Yielding(u, B))
  BY <1>2, YieldingTwins
<1>4. Twins(g, TitleMerging(u \ Yielding(u, B)))
  BY <1>1, <1>3, TitleMergingTwins
<1>5. TitleMerging(u \ Yielding(u, B)) # {}
  BY <1>1, <1>4, TwinsNone
<1>6. TitleMerging(u \ Yielding(u, B)) \in TitleGroups(B)
  BY <1>5 DEF TitleGroups
<1>7. t \subseteq A
  BY GroupsAre DEF ByTitle, Groupings, Twins
<1>8. g \subseteq t
  BY <1>1 DEF TitleMerging
<1> QED BY <1>4, <1>6, <1>7, <1>8

LEMMA TitlesTwins ==
  ASSUME NEW A, NEW B, Twins(A, B), TitleChains(B) = {}
  PROVE  TitleChains(A) = {}
<1> DEFINE G == {h \in TitleGroups(A) : Cardinality(h) > 1}
           H == {h \in TitleGroups(B) : Cardinality(h) > 1}
<1>1. Twins(B, A)
  BY TwinsTurn
<1>2. \A g \in G : g \subseteq A /\ \E h \in H : Twins(g, h)
  BY TitleGroupsTwins, TwinsMany
<1>3. \A h \in H : h \subseteq B /\ \E g \in G : Twins(g, h)
  <2> SUFFICES ASSUME NEW h \in H PROVE h \subseteq B /\ \E g \in G : Twins(g, h)
    OBVIOUS
  <2>1. h \in SUBSET B /\ \E g \in TitleGroups(A) : Twins(h, g)
    BY <1>1, TitleGroupsTwins
  <2>2. PICK g \in TitleGroups(A) : Twins(h, g)
    BY <2>1
  <2>3. Cardinality(g) > 1 /\ Twins(g, h)
    BY <2>2, TwinsMany, TwinsTurn
  <2> QED BY <2>1, <2>3
<1>5. TwinGroups(G, H, A, B)
  BY <1>2, <1>3 DEF TwinGroups
<1>6. \A g : g \in TitleChains(A) <=> g \in Chains(G) /\ Refusal(g, FALSE) = None
  BY DEF TitleChains
<1>7. \A g : g \in TitleChains(B) <=> g \in Chains(H) /\ Refusal(g, FALSE) = None
  BY DEF TitleChains
<1> HIDE DEF G, H
<1>8. ASSUME NEW g \in TitleChains(A) PROVE FALSE
  <2>1. Twin(g, B) \in Chains(H) /\ Twins(g, Twin(g, B))
    BY <1>5, <1>6, ChainsTwins
  <2>2. Refusal(Twin(g, B), FALSE) = None
    BY <1>6, <2>1, RefusalTwins
  <2> QED BY <1>7, <2>1, <2>2
<1> QED BY <1>8

AbstractGroups(all) == {AbstractMerging(h) : h \in ByAbstract(all, FALSE)} \ {{}}

LEMMA ByAbstractWithin ==
  ASSUME NEW A, IsFiniteSet(A), NEW m, NEW g \in ByAbstract(A, m)
  PROVE  g \in SUBSET A
<1> DEFINE p == [c \in A |-> AbstractKeys(c)]
<1>1. DOMAIN p = A
  OBVIOUS
<1>2. g \in Groups(p)
  BY DEF ByAbstract
<1> HIDE DEF p
<1> QED BY <1>1, <1>2, GroupsAre DEF Groupings

LEMMA AbstractGroupsTwins ==
  ASSUME NEW A, NEW B, Twins(A, B), NEW g \in AbstractGroups(A)
  PROVE  g \in SUBSET A /\ \E h \in AbstractGroups(B) : Twins(g, h)
<1>1. PICK t \in ByAbstract(A, FALSE) : g = AbstractMerging(t) /\ g # {}
  BY DEF AbstractGroups
<1>2. PICK u \in ByAbstract(B, FALSE) : Twins(t, u)
  BY ByAbstractTwins
<1>4. Twins(g, AbstractMerging(u))
  BY <1>1, <1>2, AbstractMergingTwins
<1>5. AbstractMerging(u) # {}
  BY <1>1, <1>4, TwinsNone
<1>6. AbstractMerging(u) \in AbstractGroups(B)
  BY <1>5 DEF AbstractGroups
<1>7. t \in SUBSET A
  BY ByAbstractWithin DEF Twins
<1>8. g \subseteq t
  BY <1>1 DEF AbstractMerging
<1> QED BY <1>4, <1>6, <1>7, <1>8

LEMMA AbstractsTwins ==
  ASSUME NEW A, NEW B, Twins(A, B), AbstractChains(B) = {}
  PROVE  AbstractChains(A) = {}
<1> DEFINE G == AbstractGroups(A)
           H == AbstractGroups(B)
<1>1. Twins(B, A)
  BY TwinsTurn
<1>2. \A g \in G : g \subseteq A /\ \E h \in H : Twins(g, h)
  BY AbstractGroupsTwins
<1>3. \A h \in H : h \subseteq B /\ \E g \in G : Twins(g, h)
  <2> SUFFICES ASSUME NEW h \in H PROVE h \subseteq B /\ \E g \in G : Twins(g, h)
    OBVIOUS
  <2>1. h \in SUBSET B /\ \E g \in G : Twins(h, g)
    BY <1>1, AbstractGroupsTwins
  <2> QED BY <2>1, TwinsTurn
<1>5. TwinGroups(G, H, A, B)
  BY <1>2, <1>3 DEF TwinGroups
<1>6. \A g : g \in AbstractChains(A) <=> g \in Chains(G) /\ AbstractRefusal(g) = None
  BY DEF AbstractChains, AbstractGroups
<1>7. \A g : g \in AbstractChains(B) <=> g \in Chains(H) /\ AbstractRefusal(g) = None
  BY DEF AbstractChains, AbstractGroups
<1> HIDE DEF G, H
<1>8. ASSUME NEW g \in AbstractChains(A) PROVE FALSE
  <2>1. Twin(g, B) \in Chains(H) /\ Twins(g, Twin(g, B))
    BY <1>5, <1>6, ChainsTwins
  <2>2. AbstractRefusal(Twin(g, B)) = None
    BY <1>6, <2>1, AbstractRefusalTwins
  <2> QED BY <1>7, <2>1, <2>2
<1> QED BY <1>8

LEMMA UnmergingTwins ==
  ASSUME NEW A, NEW B, Twins(A, B), Unmerging(A)
  PROVE  Unmerging(B)
<1>1. Twins(B, A)
  BY TwinsTurn
<1> QED BY <1>1, LinksTwins, TitlesTwins, AbstractsTwins DEF Unmerging

-----------------------------------------------------------------------------
(* The rows of twins are the same rows.                                     *)

LEMMA StarWithin ==
  ASSUME NEW A, NEW B, Twins(A, B), NEW c \in A, NEW d \in B, Like(c, d),
         NEW g \in SUBSET A, NEW k \in SUBSET B, Twins(g, k), NEW field
  PROVE  Star(field, c, g) \subseteq Star(field, d, k)
<1> SUFFICES ASSUME NEW e \in g \ {c} PROVE <<field, c.id, e.id>> \in Star(field, d, k)
  BY DEF Star
<1>1. PICK f \in k : Like(e, f)
  BY DEF Twins
<1>2. c.id = d.id /\ e.id = f.id
  BY <1>1 DEF Like
<1>3. f # d
  BY <1>2 DEF Twins, Distinct
<1>4. <<field, d.id, f.id>> \in Star(field, d, k)
  BY <1>3 DEF Star
<1> QED BY <1>2, <1>4

LEMMA StarTwins ==
  ASSUME NEW A, NEW B, Twins(A, B), NEW c \in A, NEW d \in B, Like(c, d),
         NEW g \in SUBSET A, NEW k \in SUBSET B, Twins(g, k), NEW field
  PROVE  Star(field, c, g) = Star(field, d, k)
<1>1. Star(field, c, g) \subseteq Star(field, d, k)
  BY StarWithin
<1>2. Twins(B, A) /\ Twins(k, g) /\ Like(d, c)
  BY TwinsTurn DEF Like
<1>3. Star(field, d, k) \subseteq Star(field, c, g)
  BY <1>2, StarWithin
<1> QED BY <1>1, <1>3

LEMMA FirstTwins ==
  ASSUME NEW A, NEW B, Judged(A), Judged(B),
         NEW g \in SUBSET A, NEW k \in SUBSET B, Twins(g, k), g # {}
  PROVE  First(g) \in g /\ First(k) \in k /\ Like(First(g), First(k))
<1> DEFINE a == First(g)
           b == First(k)
<1>1. k # {}
  BY TwinsNone
<1>2. IsFiniteSet(g) /\ Distinct(g) /\ Ided(g)
  BY DEF Twins, Judged, Ided
<1>3. IsFiniteSet(k) /\ Distinct(k) /\ Ided(k)
  BY DEF Twins, Judged, Ided
<1>4. a \in g /\ \A e \in g \ {a} : IdBefore(a.id, e.id)
  BY <1>2, FirstIs
<1>5. b \in k /\ \A e \in k \ {b} : IdBefore(b.id, e.id)
  BY <1>1, <1>3, FirstIs
<1> HIDE DEF a, b
<1>6. PICK d \in k : Like(a, d)
  BY <1>4 DEF Twins
<1>7. PICK e \in g : Like(e, b)
  BY <1>5 DEF Twins
<1>8. a.id = d.id /\ e.id = b.id
  BY <1>6, <1>7 DEF Like
<1>9. d = b
  <2> SUFFICES ASSUME d # b PROVE FALSE
    OBVIOUS
  <2>1. IdBefore(b.id, d.id)
    BY <1>5
  <2>2. e # a
    BY <1>3, <1>5, <1>8 DEF Distinct
  <2>3. IdBefore(d.id, b.id)
    BY <1>4, <1>8, <2>2
  <2>4. b.id \in VenueYears \X Natives /\ d.id \in VenueYears \X Natives
    BY <1>3, <1>5 DEF Ided
  <2>5. IdBefore(b.id, b.id)
    BY <2>1, <2>3, <2>4, IdsOrdered
  <2> QED BY <2>4, <2>5, IdsOrdered
<1> QED BY <1>4, <1>5, <1>6, <1>9 DEF a, b

LEMMA StarOfFirst ==
  ASSUME NEW A, NEW B, Judged(A), Judged(B), Twins(A, B),
         NEW f \in SUBSET A, NEW h \in SUBSET B, Twins(f, h), f # {},
         NEW g \in SUBSET A, NEW k \in SUBSET B, Twins(g, k), NEW field
  PROVE  Star(field, First(f), g) = Star(field, First(h), k)
<1>1. First(f) \in f /\ First(h) \in h /\ Like(First(f), First(h))
  BY FirstTwins
<1> QED BY <1>1, StarTwins

LEMMA ForumRowsTwins ==
  ASSUME NEW A, NEW B, Judged(A), Judged(B), Twins(A, B)
  PROVE  ForumRows(A) \subseteq ForumRows(B)
<1> SUFFICES ASSUME NEW g \in ByForum(A) PROVE Star("forum", First(g), g) \subseteq ForumRows(B)
  BY DEF ForumRows
<1>1. PICK k \in ByForum(B) : Twins(g, k)
  BY ByForumTwins
<1>2. \A h \in ByForum(A) : h \subseteq A /\ \E c, d \in h : c # d
  BY GroupsAre DEF ByForum, Groupings, Twins
<1>3. \A h \in ByForum(B) : h \subseteq B
  BY GroupsAre DEF ByForum, Groupings, Twins
<1>4. g \in SUBSET A /\ g # {} /\ k \in SUBSET B
  BY <1>2, <1>3
<1>5. Star("forum", First(g), g) = Star("forum", First(k), k)
  BY <1>1, <1>4, StarOfFirst
<1>6. Star("forum", First(k), k) \subseteq ForumRows(B)
  BY DEF ForumRows
<1> QED BY <1>5, <1>6

HoldingForum(all, f) == {c \in all : f \in c.forums}
OfOtherVenues(same) == {c \in same : c.id[1] # First(same).id[1]}

ElsewhereOf(same) == Star("elsewhere", First(same), OfOtherVenues(same))

LEMMA ElsewhereIs ==
  ASSUME NEW all, NEW row
  PROVE  row \in ElsewhereRows(all) <=>
           \E c \in all : \E f \in c.forums : row \in ElsewhereOf(HoldingForum(all, f))
<1>1. ElsewhereRows(all) = UNION {ElsewhereOf(HoldingForum(all, f)) : f \in UNION {c.forums : c \in all}}
  BY DEF ElsewhereRows, ElsewhereOf, HoldingForum, OfOtherVenues
<1> QED BY <1>1

LEMMA ElsewhereRowsTwins ==
  ASSUME NEW A, NEW B, Judged(A), Judged(B), Twins(A, B)
  PROVE  ElsewhereRows(A) \subseteq ElsewhereRows(B)
<1> SUFFICES ASSUME NEW row \in ElsewhereRows(A) PROVE row \in ElsewhereRows(B)
  OBVIOUS
<1>1. PICK c \in A : \E f \in c.forums :
         row \in ElsewhereOf(HoldingForum(A, f))
  BY ElsewhereIs
<1>2. PICK f \in c.forums :
         row \in ElsewhereOf(HoldingForum(A, f))
  BY <1>1
<1>3. PICK d \in B : Like(c, d)
  BY DEF Twins
<1>4. f \in d.forums
  BY <1>3 DEF Like
<1> DEFINE g == HoldingForum(A, f)
           k == HoldingForum(B, f)
<1>5. g \in SUBSET A /\ k \in SUBSET B /\ g # {}
  BY DEF HoldingForum
<1>6. \A x \in A, y \in B : Like(x, y) => (x \in g <=> y \in k)
  BY DEF HoldingForum, Like
<1> HIDE DEF g, k
<1>7. Twins(g, k)
  BY <1>5, <1>6, TwinsWithin
<1>8. First(g).id = First(k).id
  BY <1>5, <1>7, FirstTwins DEF Like
<1>9. \A x \in g, y \in k : Like(x, y) => (x \in OfOtherVenues(g) <=> y \in OfOtherVenues(k))
  BY <1>8 DEF OfOtherVenues, Like
<1>10. OfOtherVenues(g) \in SUBSET g /\ OfOtherVenues(k) \in SUBSET k
  BY DEF OfOtherVenues
<1>11. Twins(OfOtherVenues(g), OfOtherVenues(k))
  BY <1>7, <1>9, <1>10, TwinsWithin
<1>12. OfOtherVenues(g) \in SUBSET A /\ OfOtherVenues(k) \in SUBSET B
  BY <1>5, <1>10
<1>13. Star("elsewhere", First(g), OfOtherVenues(g)) = Star("elsewhere", First(k), OfOtherVenues(k))
  BY <1>5, <1>7, <1>11, <1>12, StarOfFirst
<1>14. row \in ElsewhereOf(k)
  BY <1>2, <1>13 DEF g, ElsewhereOf
<1> QED BY <1>4, <1>14, ElsewhereIs DEF k

(* A group's title rows, by the parts the code splits it into.              *)
ListingsOf(bucket) == {c \in bucket : c.listed}
TitleAside(bucket) ==
    IF ListingsOf(bucket) # {} /\ Refusal(bucket, FALSE) # None
    THEN {c \in bucket : NotTheListedPaper(c, bucket) # None} ELSE {}
StarOrNone(none, field, first, g) == IF none THEN {} ELSE Star(field, First(first), g)
RowsOfBucket(bucket, yielding) ==
    UNION {StarOrNone(bucket = {}, "title", bucket, yielding),
           StarOrNone(TitleAside(bucket) = {}, "title", ListingsOf(bucket), TitleAside(bucket)),
           StarOrNone(Cardinality(bucket \ TitleAside(bucket)) < 2, "title",
                      bucket \ TitleAside(bucket), bucket \ TitleAside(bucket))}

LEMMA TitleRowsAre ==
  ASSUME NEW g, NEW all
  PROVE  TitleRowsOf(g, all) = RowsOfBucket(g \ Yielding(g, all), Yielding(g, all))
BY DEF TitleRowsOf, RowsOfBucket, StarOrNone, TitleAside, ListingsOf

LEMMA StarOrNoneTwins ==
  ASSUME NEW A, NEW B, Judged(A), Judged(B), Twins(A, B),
         NEW f \in SUBSET A, NEW h \in SUBSET B, Twins(f, h),
         NEW g \in SUBSET A, NEW k \in SUBSET B, Twins(g, k), NEW field,
         NEW none, NEW nobody, none <=> nobody, ~none => f # {}
  PROVE  StarOrNone(none, field, f, g) = StarOrNone(nobody, field, h, k)
<1>1. CASE none
  BY <1>1 DEF StarOrNone
<1>2. CASE ~none
  <2>1. Star(field, First(f), g) = Star(field, First(h), k)
    BY <1>2, StarOfFirst
  <2> QED BY <1>2, <2>1 DEF StarOrNone
<1> QED BY <1>1, <1>2

LEMMA BucketTwins ==
  ASSUME NEW A, NEW B, Judged(A), Judged(B), Twins(A, B),
         NEW g \in SUBSET A, NEW k \in SUBSET B, Twins(g, k),
         NEW y \in SUBSET A, NEW z \in SUBSET B, Twins(y, z)
  PROVE  RowsOfBucket(g, y) = RowsOfBucket(k, z)
<1>1. Twins(ListingsOf(g), ListingsOf(k)) /\ ListingsOf(g) \in SUBSET A /\ ListingsOf(k) \in SUBSET B
  <2>1. ListingsOf(g) \in SUBSET g /\ ListingsOf(k) \in SUBSET k
    BY DEF ListingsOf
  <2>2. \A c \in g, d \in k : Like(c, d) => (c \in ListingsOf(g) <=> d \in ListingsOf(k))
    BY DEF ListingsOf, Like
  <2> QED BY <2>1, <2>2, TwinsWithin
<1>2. TitleAside(g) \in SUBSET g /\ TitleAside(k) \in SUBSET k
  BY DEF TitleAside
<1>3. \A c \in g, d \in k : Like(c, d) => (c \in TitleAside(g) <=> d \in TitleAside(k))
  <2>1. Refusal(g, FALSE) = Refusal(k, FALSE) /\ (ListingsOf(g) = {} <=> ListingsOf(k) = {})
    BY <1>1, RefusalTwins, TwinsNone
  <2>2. \A c \in g, d \in k : Like(c, d) => NotTheListedPaper(c, g) = NotTheListedPaper(d, k)
    BY NotListedTwins
  <2> QED BY <2>1, <2>2 DEF TitleAside
<1>4. Twins(TitleAside(g), TitleAside(k)) /\ TitleAside(g) \in SUBSET A /\ TitleAside(k) \in SUBSET B
  BY <1>2, <1>3, TwinsWithin
<1> DEFINE s == g \ TitleAside(g)
           t == k \ TitleAside(k)
<1>5. Twins(s, t) /\ s \in SUBSET A /\ t \in SUBSET B
  <2>1. s \in SUBSET g /\ t \in SUBSET k
    OBVIOUS
  <2>2. \A c \in g, d \in k : Like(c, d) => (c \in s <=> d \in t)
    BY <1>3
  <2> HIDE DEF s, t
  <2> QED BY <2>1, <2>2, TwinsWithin
<1>6. TitleAside(g) # {} => ListingsOf(g) # {}
  BY DEF TitleAside
<1>7. Cardinality(s) < 2 \/ s # {}
  BY FS_EmptySet
<1>8. /\ (g = {} <=> k = {}) /\ (TitleAside(g) = {} <=> TitleAside(k) = {})
      /\ (Cardinality(s) < 2 <=> Cardinality(t) < 2)
  <2> HIDE DEF s, t
  <2> QED BY <1>4, <1>5, TwinsNone, TwinsMany
<1>9. RowsOfBucket(g, y) = UNION {StarOrNone(g = {}, "title", g, y),
           StarOrNone(TitleAside(g) = {}, "title", ListingsOf(g), TitleAside(g)),
           StarOrNone(Cardinality(s) < 2, "title", s, s)}
  BY DEF RowsOfBucket
<1>10. RowsOfBucket(k, z) = UNION {StarOrNone(k = {}, "title", k, z),
           StarOrNone(TitleAside(k) = {}, "title", ListingsOf(k), TitleAside(k)),
           StarOrNone(Cardinality(t) < 2, "title", t, t)}
  BY DEF RowsOfBucket
<1> HIDE DEF s, t
<1>11. StarOrNone(g = {}, "title", g, y) = StarOrNone(k = {}, "title", k, z)
  <2> DEFINE m == g = {}
             n == k = {}
  <2>1. (m <=> n) /\ (~m => g # {})
    BY <1>8
  <2> HIDE DEF m, n
  <2>2. StarOrNone(m, "title", g, y) = StarOrNone(n, "title", k, z)
    BY <2>1, StarOrNoneTwins
  <2> QED BY <2>2 DEF m, n
<1>12. StarOrNone(TitleAside(g) = {}, "title", ListingsOf(g), TitleAside(g))
         = StarOrNone(TitleAside(k) = {}, "title", ListingsOf(k), TitleAside(k))
  <2> DEFINE m == TitleAside(g) = {}
             n == TitleAside(k) = {}
  <2>1. (m <=> n) /\ (~m => ListingsOf(g) # {})
    BY <1>6, <1>8
  <2> HIDE DEF m, n
  <2>2. StarOrNone(m, "title", ListingsOf(g), TitleAside(g)) = StarOrNone(n, "title", ListingsOf(k), TitleAside(k))
    BY <1>1, <1>4, <2>1, StarOrNoneTwins
  <2> QED BY <2>2 DEF m, n
<1>13. StarOrNone(Cardinality(s) < 2, "title", s, s) = StarOrNone(Cardinality(t) < 2, "title", t, t)
  <2> DEFINE m == Cardinality(s) < 2
             n == Cardinality(t) < 2
  <2>1. (m <=> n) /\ (~m => s # {})
    BY <1>7, <1>8
  <2> HIDE DEF m, n
  <2>2. StarOrNone(m, "title", s, s) = StarOrNone(n, "title", t, t)
    BY <1>5, <2>1, StarOrNoneTwins
  <2> QED BY <2>2 DEF m, n
<1> QED BY <1>9, <1>10, <1>11, <1>12, <1>13

LEMMA TitleRowsTwins ==
  ASSUME NEW A, NEW B, Judged(A), Judged(B), Twins(A, B)
  PROVE  TitleRows(A) \subseteq TitleRows(B)
<1> SUFFICES ASSUME NEW g \in ByTitle(A) PROVE TitleRowsOf(g, A) \subseteq TitleRows(B)
  BY DEF TitleRows
<1>1. PICK k \in ByTitle(B) : Twins(g, k)
  BY ByTitleTwins
<1>2. \A h \in ByTitle(A) : h \subseteq A
  BY GroupsAre DEF ByTitle, Groupings, Twins
<1>3. \A h \in ByTitle(B) : h \subseteq B
  BY GroupsAre DEF ByTitle, Groupings, Twins
<1>4. g \in SUBSET A /\ k \in SUBSET B
  BY <1>2, <1>3
<1> DEFINE y == Yielding(g, A)
           z == Yielding(k, B)
           s == g \ y
           t == k \ z
<1>5. Twins(y, z) /\ Twins(s, t)
  BY <1>1, YieldingTwins
<1>6. y \in SUBSET A /\ z \in SUBSET B /\ s \in SUBSET A /\ t \in SUBSET B
  BY <1>4 DEF Yielding
<1>7. TitleRowsOf(g, A) = RowsOfBucket(s, y) /\ TitleRowsOf(k, B) = RowsOfBucket(t, z)
  BY TitleRowsAre
<1> HIDE DEF y, z, s, t
<1>8. TitleRowsOf(g, A) = TitleRowsOf(k, B)
  BY <1>5, <1>6, <1>7, BucketTwins
<1>9. TitleRowsOf(k, B) \subseteq TitleRows(B)
  BY DEF TitleRows
<1> QED BY <1>8, <1>9

AbstractOut(g) == {c \in g : AbstractAside(c, g) # None}
AbstractSide(g) == IF AbstractOut(g) = g THEN {} ELSE AbstractOut(g)

LEMMA AbstractRowsAre ==
  ASSUME NEW g
  PROVE  AbstractRowsOf(g) = UNION {Star("abstract", First(g \ AbstractSide(g)), AbstractSide(g)),
                                    Star("abstract", First(g \ AbstractSide(g)), g \ AbstractSide(g))}
BY DEF AbstractRowsOf, AbstractSide, AbstractOut

LEMMA AbstractRowsOfTwins ==
  ASSUME NEW A, NEW B, Judged(A), Judged(B), Twins(A, B),
         NEW g \in SUBSET A, NEW k \in SUBSET B, Twins(g, k), g # {}
  PROVE  AbstractRowsOf(g) = AbstractRowsOf(k)
<1>1. \A c \in g, d \in k : Like(c, d) => AbstractAside(c, g) = AbstractAside(d, k)
  BY AsideTwins
<1>2. \A c \in g, d \in k : Like(c, d) => (c \in AbstractOut(g) <=> d \in AbstractOut(k))
  BY <1>1 DEF AbstractOut
<1>3. AbstractOut(g) \in SUBSET g /\ AbstractOut(k) \in SUBSET k
  BY DEF AbstractOut
<1>4. AbstractOut(g) = g <=> AbstractOut(k) = k
  BY <1>2, <1>3 DEF Twins
<1> DEFINE a == AbstractSide(g)
           b == AbstractSide(k)
           r == g \ a
           s == k \ b
<1>5. /\ a \in SUBSET g /\ b \in SUBSET k /\ r \in SUBSET g /\ s \in SUBSET k
      /\ \A c \in g, d \in k : Like(c, d) => (c \in a <=> d \in b)
      /\ r # {}
  BY <1>2, <1>3, <1>4 DEF AbstractSide
<1>6. \A c \in g, d \in k : Like(c, d) => (c \in r <=> d \in s)
  BY <1>5
<1>7. /\ AbstractRowsOf(g) = UNION {Star("abstract", First(r), a), Star("abstract", First(r), r)}
      /\ AbstractRowsOf(k) = UNION {Star("abstract", First(s), b), Star("abstract", First(s), s)}
  BY AbstractRowsAre
<1> HIDE DEF a, b, r, s
<1>8. Twins(a, b) /\ Twins(r, s)
  BY <1>5, <1>6, TwinsWithin
<1>9. a \in SUBSET A /\ b \in SUBSET B /\ r \in SUBSET A /\ s \in SUBSET B
  BY <1>5
<1>10. Star("abstract", First(r), a) = Star("abstract", First(s), b)
  BY <1>5, <1>8, <1>9, StarOfFirst
<1>11. Star("abstract", First(r), r) = Star("abstract", First(s), s)
  BY <1>5, <1>8, <1>9, StarOfFirst
<1> QED BY <1>7, <1>10, <1>11

LEMMA AbstractRowsTwins ==
  ASSUME NEW A, NEW B, Judged(A), Judged(B), Twins(A, B)
  PROVE  AbstractRows(A) \subseteq AbstractRows(B)
<1> SUFFICES ASSUME NEW g \in ByAbstract(A, TRUE) PROVE AbstractRowsOf(g) \subseteq AbstractRows(B)
  BY DEF AbstractRows
<1>1. PICK k \in ByAbstract(B, TRUE) : Twins(g, k)
  BY ByAbstractTwins
<1>2. g \in SUBSET A /\ k \in SUBSET B
  BY ByAbstractWithin DEF Twins
<1>3. g # {}
  BY DEF ByAbstract
<1>4. AbstractRowsOf(g) = AbstractRowsOf(k)
  BY <1>1, <1>2, <1>3, AbstractRowsOfTwins
<1>5. AbstractRowsOf(k) \subseteq AbstractRows(B)
  BY DEF AbstractRows
<1> QED BY <1>4, <1>5

LEMMA RowsTwins ==
  ASSUME NEW A, NEW B, Judged(A), Judged(B), Twins(A, B)
  PROVE  NotMergedRows(A) = NotMergedRows(B)
<1>1. Twins(B, A)
  BY TwinsTurn
<1>2. ElsewhereRows(A) = ElsewhereRows(B)
  BY <1>1, ElsewhereRowsTwins
<1>3. ForumRows(A) = ForumRows(B)
  BY <1>1, ForumRowsTwins
<1>4. TitleRows(A) = TitleRows(B)
  BY <1>1, TitleRowsTwins
<1>5. AbstractRows(A) = AbstractRows(B)
  BY <1>1, AbstractRowsTwins
<1> QED BY <1>2, <1>3, <1>4, <1>5 DEF NotMergedRows

-----------------------------------------------------------------------------
(* The passes end where nothing merges.                                     *)

LEMMA MergedIds ==
  ASSUME NEW A, Originals(A), NEW C, Shape(C, A), Apart(C), Covers(C, A), IsFiniteSet(C),
         NEW chains, JoinsPairs(chains, C, A), NEW c \in Merged(C, chains)
  PROVE  \E d \in C : d.id = c.id
<1>1. CASE c \in C
  BY <1>1
<1>2. CASE c \notin C
  <2>1. PICK g \in chains : c = Joined(g)
    BY <1>2 DEF Merged
  <2>2. PICK a \in A, b \in A : g = {a, b} /\ Pair(a, b)
    BY DEF JoinsPairs
  <2>3. a \in C
    BY <2>2 DEF JoinsPairs
  <2>4. c.id = a.id
    BY <2>1, <2>2, JoinedPair DEF Originals
  <2> QED BY <2>3, <2>4
<1> QED BY <1>1, <1>2

LEMMA MergedAway ==
  ASSUME NEW A, Originals(A), NEW C, Shape(C, A), Apart(C), Covers(C, A), IsFiniteSet(C),
         NEW chains, JoinsPairs(chains, C, A), chains # {}
  PROVE  \E b \in C : \A c \in Merged(C, chains) : c.id # b.id
<1>1. PICK g \in chains : TRUE
  OBVIOUS
<1>2. PICK a \in A, b \in A : g = {a, b} /\ Pair(a, b)
  BY DEF JoinsPairs
<1>3. b \in C
  BY <1>2 DEF JoinsPairs
<1> DEFINE M == Merged(C, chains)
           j == Joined(g)
<1>4. Shape(M, A) /\ Apart(M)
  BY MergeKeepsShape
<1>5. j \in M
  BY DEF Merged
<1>6. j.id = a.id /\ j.from = {a.id, b.id} /\ a.id # b.id
  BY <1>2, JoinedPair, PairNames DEF Originals
<1> HIDE DEF M, j
<1>7. ASSUME NEW c \in M, c.id = b.id PROVE FALSE
  <2>1. c.id \in c.from
    BY <1>4, Kinds
  <2>2. c = j
    BY <1>4, <1>5, <1>6, <1>7, <2>1 DEF Apart
  <2> QED BY <1>6, <1>7, <2>2
<1> QED BY <1>3, <1>7 DEF M

(* Fewer clusters, by an injection of what a merge leaves into what it found.*)
LEMMA FewerIds ==
  ASSUME NEW C, IsFiniteSet(C), NEW M, Distinct(M), \A c \in M : \E d \in C : d.id = c.id,
         NEW b \in C, \A c \in M : c.id # b.id
  PROVE  Cardinality(M) < Cardinality(C)
<1> DEFINE T == C \ {b}
           f == [c \in M |-> CHOOSE d \in C : d.id = c.id]
<1>1. \A c \in M : f[c] \in C /\ f[c].id = c.id
  OBVIOUS
<1>2. \A c \in M : f[c] \in T
  BY <1>1
<1>3. \A c, d \in M : f[c] = f[d] => c = d
  BY <1>1 DEF Distinct
<1>4. f \in [M -> T]
  BY <1>2
<1>5. f \in Injection(M, T)
  BY <1>3, <1>4 DEF Injection, IsInjective
<1> HIDE DEF f
<1>6. IsFiniteSet(T) /\ Cardinality(T) = Cardinality(C) - 1
  BY FS_RemoveElement
<1> HIDE DEF T
<1>7. Cardinality(M) <= Cardinality(T) /\ IsFiniteSet(M)
  BY <1>5, <1>6, FS_Injection
<1>8. Cardinality(M) \in Nat /\ Cardinality(C) \in Nat
  BY <1>7, FS_CardinalityType
<1> QED BY <1>6, <1>7, <1>8

LEMMA MergeShrinks ==
  ASSUME NEW A, Originals(A), NEW C, Shape(C, A), Apart(C), Covers(C, A), IsFiniteSet(C),
         NEW chains, JoinsPairs(chains, C, A)
  PROVE  /\ chains = {} => Merged(C, chains) = C
         /\ chains # {} => Cardinality(Merged(C, chains)) < Cardinality(C)
<1>1. chains = {} => Merged(C, chains) = C
  BY DEF Merged
<1>2. ASSUME chains # {} PROVE Cardinality(Merged(C, chains)) < Cardinality(C)
  <2>1. PICK b \in C : \A c \in Merged(C, chains) : c.id # b.id
    BY <1>2, MergedAway
  <2>2. Distinct(Merged(C, chains))
    BY MergeKeepsShape, IdsDiffer
  <2>3. \A c \in Merged(C, chains) : \E d \in C : d.id = c.id
    BY MergedIds
  <2> QED BY <2>1, <2>2, <2>3, FewerIds
<1> QED BY <1>1, <1>2

(* What a pass has merged since it counted the clusters.                     *)
Counted(done) == before \in Nat /\ Cardinality(clusters) <= before /\ (Cardinality(clusters) = before => done)

PassedOver ==
    /\ phase = "link" => before \in Nat /\ before = Cardinality(clusters)
    /\ phase = "titles" => Counted(LinkChains(clusters) = {})
    /\ phase = "abstracts" => Counted(LinkChains(clusters) = {} /\ TitleChains(clusters) = {})
    /\ phase \in {"write", "reconcile"} => Unmerging(clusters)

LEMMA ClustersCounted ==
  ASSUME Clustered
  PROVE  Cardinality(clusters) \in Nat
BY FS_CardinalityType DEF Clustered

(* A step merges nothing, or leaves fewer clusters.                          *)
LEMMA StepShrinks ==
  ASSUME Clustered, NEW chains, NEW next, Merge(chains, next), JoinsPairs(chains, clusters, asked)
  PROVE  /\ chains = {} => clusters' = clusters
         /\ chains # {} => Cardinality(clusters') < Cardinality(clusters)
BY MergeIs, MergeShrinks DEF Clustered, Accounts

LEMMA LinkPasses ==
  ASSUME Clustered, PassedOver, Link
  PROVE  PassedOver'
<1> DEFINE chains == LinkChains(clusters)
<1>1. Merge(chains, "titles") /\ before' = before /\ before \in Nat /\ before = Cardinality(clusters)
  BY DEF Link, PassedOver
<1>2. JoinsPairs(chains, clusters, asked)
  BY LinksArePairs DEF Clustered, Accounts
<1>3. IsFiniteSet(clusters') /\ phase' = "titles"
  BY LinkKeeps DEF Clustered
<1>4. Cardinality(clusters') \in Nat
  BY <1>3, FS_CardinalityType
<1>5. chains = {} => clusters' = clusters
  <2> HIDE DEF chains
  <2> QED BY <1>1, <1>2, StepShrinks
<1>6. chains # {} => Cardinality(clusters') < Cardinality(clusters)
  <2> HIDE DEF chains
  <2> QED BY <1>1, <1>2, StepShrinks
<1>7. CASE chains = {}
  BY <1>1, <1>3, <1>5, <1>7 DEF PassedOver, Counted
<1>8. CASE chains # {}
  <2>1. Cardinality(clusters') < before'
    BY <1>1, <1>6, <1>8
  <2> QED BY <1>1, <1>3, <1>4, <2>1 DEF PassedOver, Counted
<1> QED BY <1>7, <1>8

LEMMA TitlesPass ==
  ASSUME Clustered, PassedOver, JoinTitles
  PROVE  PassedOver'
<1> DEFINE chains == TitleChains(clusters)
<1>1. Merge(chains, "abstracts") /\ before' = before /\ Counted(LinkChains(clusters) = {})
  BY DEF JoinTitles, PassedOver
<1>2. JoinsPairs(chains, clusters, asked)
  BY TitlesArePairs DEF Clustered, Accounts
<1>3. IsFiniteSet(clusters') /\ phase' = "abstracts"
  BY TitlesKeep DEF Clustered
<1>4. Cardinality(clusters') \in Nat /\ Cardinality(clusters) \in Nat
  BY <1>3, FS_CardinalityType, ClustersCounted
<1>5. chains = {} => clusters' = clusters
  <2> HIDE DEF chains
  <2> QED BY <1>1, <1>2, StepShrinks
<1>6. chains # {} => Cardinality(clusters') < Cardinality(clusters)
  <2> HIDE DEF chains
  <2> QED BY <1>1, <1>2, StepShrinks
<1>7. CASE chains = {}
  BY <1>1, <1>3, <1>5, <1>7 DEF PassedOver, Counted
<1>8. CASE chains # {}
  <2>1. Cardinality(clusters') < before' /\ before' \in Nat
    BY <1>1, <1>4, <1>6, <1>8 DEF Counted
  <2> QED BY <1>3, <1>4, <2>1 DEF PassedOver, Counted
<1> QED BY <1>7, <1>8

LEMMA AbstractsPass ==
  ASSUME Clustered, PassedOver, JoinAbstracts
  PROVE  PassedOver'
<1> DEFINE chains == AbstractChains(clusters)
           next == IF Cardinality(clusters') = before THEN "write" ELSE "link"
<1>1. /\ Merge(chains, next) /\ before' = Cardinality(clusters')
      /\ Counted(LinkChains(clusters) = {} /\ TitleChains(clusters) = {})
  BY DEF JoinAbstracts, PassedOver
<1>2. JoinsPairs(chains, clusters, asked)
  BY AbstractsArePairs DEF Clustered, Accounts
<1>3. IsFiniteSet(clusters')
  BY AbstractsKeep DEF Clustered
<1>4. Cardinality(clusters') \in Nat /\ Cardinality(clusters) \in Nat
  BY <1>3, FS_CardinalityType, ClustersCounted
<1>5. chains = {} => clusters' = clusters
  <2> HIDE DEF chains, next
  <2> QED BY <1>1, <1>2, StepShrinks
<1>6. chains # {} => Cardinality(clusters') < Cardinality(clusters)
  <2> HIDE DEF chains, next
  <2> QED BY <1>1, <1>2, StepShrinks
<1>7. phase' = next
  <2> HIDE DEF chains, next
  <2> QED BY <1>1, MergeIs
<1>8. CASE Cardinality(clusters') = before
  <2>1. chains = {} /\ before \in Nat /\ Cardinality(clusters) <= before
    BY <1>1, <1>4, <1>6, <1>8 DEF Counted
  <2>2. clusters' = clusters
    BY <1>5, <2>1
  <2>3. Unmerging(clusters')
    BY <1>1, <1>8, <2>1, <2>2 DEF Counted, Unmerging
  <2>4. phase' = "write"
    BY <1>7, <1>8
  <2> QED BY <2>3, <2>4 DEF PassedOver
<1>9. CASE Cardinality(clusters') # before
  <2>1. phase' = "link"
    BY <1>7, <1>9
  <2> QED BY <1>1, <1>4, <2>1 DEF PassedOver
<1> QED BY <1>8, <1>9

LEMMA ByIdPasses ==
  ASSUME RecordsCameIn, ById
  PROVE  PassedOver'
<1>1. IsFiniteSet(clusters') /\ phase' = "link"
  BY ByIdClusters DEF Clustered
<1>2. Cardinality(clusters') \in Nat
  BY <1>1, FS_CardinalityType
<1>3. before' = Cardinality(clusters')
  BY DEF ById
<1> QED BY <1>1, <1>2, <1>3 DEF PassedOver

-----------------------------------------------------------------------------
(* What is written keeps what its cluster says.                             *)

(* Clusters of claims that some source made, not of absences.                *)
Stated(S) == S \in SUBSET Claims /\ IsFiniteSet(S) /\ \A c \in S : ~Absence(c)

SourcesOf(S) == {c.source : c \in {d \in S : ~Absence(d)}}

LEMMA KeptOfKept ==
  ASSUME NEW S
  PROVE  Kept(Kept(S)) = Kept(S)
BY DEF Kept

LEMMA KeptStated ==
  ASSUME NEW S, Stated(S)
  PROVE  Stated(Kept(S))
<1>1. Kept(S) \subseteq S
  BY DEF Kept
<1> QED BY <1>1, FS_Subset DEF Stated

LEMMA KeptSources ==
  ASSUME NEW S, Stated(S)
  PROVE  SourcesOf(Kept(S)) = SourcesOf(S)
<1>1. Kept(S) \subseteq S
  BY DEF Kept
<1>2. \A c \in S : \E d \in Kept(S) : d.source = c.source
  BY NewestKept DEF Stated
<1>3. \A c \in S : ~Absence(c)
  BY DEF Stated
<1> QED BY <1>1, <1>2, <1>3 DEF SourcesOf

(* What the rules look at is told by the claims kept and by their sources.   *)
SeenAs(c, i, K, S) ==
    /\ c.id = i /\ c.sources = S
    /\ c.titles = Values(K, "title") \ {NoKey}
    /\ c.abstracts = {a \in K : OwnAbstract(a, i, Values(K, "proceedings")) /\ a.value # NoKey}
    /\ c.papers = Values(K, "proceedings")
    /\ c.forums = Values(K, "forum") \cup ({i[2]} \cap Forums)
    /\ c.listed = (Values(K, "proceedings") # {} \/ S \cap Proceedings # {})
    /\ c.crawled = (Values({a \in K : a.source \notin Imported}, "proceedings") # {} \/ S \cap Proceedings # {})
    /\ c.track = Resolved(K, "track") /\ c.status = Resolved(K, "status")
    /\ c.family = Family(i, K, Values(K, "proceedings") # {} \/ S \cap Proceedings # {}, S)

LEMMA ClusterIs ==
  ASSUME NEW i, NEW S, NEW F
  PROVE  SeenAs(Cluster(i, S, F), i, Kept(S), SourcesOf(S))
BY DEF Cluster, SourcesOf, SeenAs

LEMMA SeenAlike ==
  ASSUME NEW c, NEW d, NEW i, NEW K, NEW S, SeenAs(c, i, K, S), SeenAs(d, i, K, S)
  PROVE  Like(c, d)
BY DEF SeenAs, Like

LEMMA WrittenLike ==
  ASSUME NEW i, NEW S, Stated(S), NEW F, NEW G
  PROVE  Like(Cluster(i, S, F), Cluster(i, Kept(S), G))
<1>1. Kept(Kept(S)) = Kept(S) /\ SourcesOf(Kept(S)) = SourcesOf(S)
  BY KeptOfKept, KeptSources
<1>2. SeenAs(Cluster(i, S, F), i, Kept(S), SourcesOf(S))
  BY ClusterIs
<1>3. SeenAs(Cluster(i, Kept(S), G), i, Kept(S), SourcesOf(S))
  BY <1>1, ClusterIs
<1> QED BY <1>2, <1>3, SeenAlike

-----------------------------------------------------------------------------
(* Reconciling adds statements of absence, which no rule but the status sees. *)

(* Statements that a listing which gave no claim lacks the paper.            *)
Absences(X, S) ==
    /\ X \subseteq Claims
    /\ \A x \in X : Absence(x) /\ x.value = "unknown"
    /\ \A x, y \in X : x.source = y.source => x = y
    /\ \A x \in X, c \in S : x.source # c.source

LEMMA KeptWithAbsences ==
  ASSUME NEW S, NEW X, Absences(X, S), Kept(S) = S
  PROVE  Kept(S \cup X) = S \cup X
<1>1. ASSUME NEW c \in S \cup X, NEW d \in S \cup X, d.field = c.field, d.source = c.source,
             Before(SortKey(c), SortKey(d))
      PROVE  FALSE
  <2>1. CASE c \in S /\ d \in S
    BY <1>1, <2>1 DEF Kept
  <2>2. CASE c \in X /\ d \in X
    <3>1. c = d /\ c \in Claims
      BY <1>1, <2>2 DEF Absences
    <3>2. ~Newer(c, c)
      BY <3>1, NewerOrders
    <3> QED BY <1>1, <3>1, <3>2 DEF Newer
  <2>3. CASE (c \in S /\ d \in X) \/ (c \in X /\ d \in S)
    BY <1>1, <2>3 DEF Absences
  <2> QED BY <1>1, <2>1, <2>2, <2>3
<1> QED BY <1>1 DEF Kept

LEMMA ValuesWithAbsences ==
  ASSUME NEW S, NEW X, Absences(X, S), NEW field, field # "status"
  PROVE  Values(S \cup X, field) = Values(S, field)
<1>1. {d \in S \cup X : d.field = field} = {d \in S : d.field = field}
  BY DEF Absences, Absence
<1> QED BY <1>1 DEF Values

ValueOfBest(said) ==
    IF said = {} THEN None ELSE (CHOOSE c \in said : \A d \in said : Rank(c) <= Rank(d)).value

LEMMA ResolvedWithAbsences ==
  ASSUME NEW S, NEW X, Absences(X, S), NEW field, field # "status"
  PROVE  Resolved(S \cup X, field) = Resolved(S, field)
<1>1. {d \in S \cup X : d.field = field} = {d \in S : d.field = field}
  BY DEF Absences, Absence
<1>2. \A K : Resolved(K, field) = ValueOfBest({d \in K : d.field = field})
  BY DEF Resolved, ValueOfBest
<1> QED BY <1>1, <1>2

LEMMA SourcesWithAbsences ==
  ASSUME NEW S, NEW X, Absences(X, S)
  PROVE  SourcesOf(S \cup X) = SourcesOf(S)
<1>1. {d \in S \cup X : ~Absence(d)} = {d \in S : ~Absence(d)}
  BY DEF Absences
<1> QED BY <1>1 DEF SourcesOf

Said(K) == {c \in K : c.field \in {"venue_id", "proceedings"}}

LEMMA FamilyWithAbsences ==
  ASSUME NEW S, NEW X, Absences(X, S), NEW id, NEW listed, NEW sources
  PROVE  Family(id, S \cup X, listed, sources) = Family(id, S, listed, sources)
<1>1. Resolved(S \cup X, "track") = Resolved(S, "track")
  BY ResolvedWithAbsences
<1>2. ASSUME NEW s
      PROVE  NamesCreativeAI({d \in S \cup X : d.source = s}) <=> NamesCreativeAI({d \in S : d.source = s})
  <2>1. Said({d \in S \cup X : d.source = s}) = Said({d \in S : d.source = s})
    BY DEF Said, Absences, Absence
  <2>2. \A K : NamesCreativeAI(K) <=> Said(K) # {} /\ \A c \in Said(K) : c.value \in CreativePapers \cup {"creative_ai"}
    BY DEF NamesCreativeAI, Said
  <2> QED BY <2>1, <2>2
<1>3. \A c \in X : c.field # "track"
  BY DEF Absences, Absence
<1>4. CreativeAI(id, S \cup X) <=> CreativeAI(id, S)
  BY <1>1, <1>2, <1>3 DEF CreativeAI
<1> QED BY <1>1, <1>4 DEF Family

-----------------------------------------------------------------------------
(* The records as they are written, and as they are reconciled.             *)

(* A written record: its claims are the newest of what some source states.   *)
IsWritten(r) ==
    /\ r = [id |-> r.id, claims |-> r.claims] /\ r.id \in VenueYears \X Natives
    /\ Stated(r.claims) /\ Kept(r.claims) = r.claims
    /\ \A c \in StatusOf(r.claims) : c.source \in Acceptors

LEMMA ListsIs ==
  ASSUME NEW r, ~Lists(r)
  PROVE  \A s \in SourcesOf(r.claims) : s \notin Proceedings
<1>1. SeenAs(Cluster(r.id, r.claims, {}), r.id, Kept(r.claims), SourcesOf(r.claims))
  BY ClusterIs
<1> QED BY <1>1 DEF SeenAs, Lists

LEMMA AbsenceClaims ==
  ASSUME NEW P \in SUBSET Proceedings, NEW r, IsWritten(r), ~Lists(r)
  PROVE  Absences({AbsenceClaim(s) : s \in P}, r.claims)
<1>1. \A s \in Proceedings : AbsenceClaim(s) \in Claims /\ Absence(AbsenceClaim(s))
  <2>1. \A s \in Proceedings : s \in {TextOrder[i] : i \in DOMAIN TextOrder}
    BY DEF Proceedings, TextOrder
  <2>2. "unknown" \in Text /\ Absent \in Text /\ ListedAt \in Nat /\ "status" \in Fields
    BY InputsAssumption DEF Fields
  <2> QED BY <2>1, <2>2 DEF AbsenceClaim, Claims, Absence
<1>2. \A s : AbsenceClaim(s).source = s /\ AbsenceClaim(s).value = "unknown"
  BY DEF AbsenceClaim
<1>3. \A c \in r.claims : c.source \notin Proceedings
  BY ListsIs DEF IsWritten, Stated, SourcesOf
<1> QED BY <1>1, <1>2, <1>3 DEF Absences

(* Either reconciling leaves a record alone, or OpenReview says accepted and *)
(* statements of absence join its claims.                                   *)
Lacking(q, r, X) ==
    /\ Absences(X, r.claims) /\ X # {} /\ AcceptedByOpenReview(r)
    /\ q = [id |-> r.id, claims |-> r.claims \cup X]

LEMMA ReconciledIs ==
  ASSUME NEW r, IsWritten(r), NEW W, NEW crawls, NEW q, q = Reconciled(r, W, crawls)
  PROVE  q = r \/ \E X : Lacking(q, r, X)
<1> DEFINE P == Judging(r, W, crawls)
           X == {AbsenceClaim(s) : s \in P}
<1>1. CASE ~(AcceptedByOpenReview(r) /\ ~Lists(r) /\ ~SharesListing(r, W))
  BY <1>1 DEF Reconciled
<1>2. CASE AcceptedByOpenReview(r) /\ ~Lists(r) /\ ~SharesListing(r, W)
  <2>1. P \in SUBSET Proceedings
    BY DEF Judging
  <2>2. Absences(X, r.claims)
    <3> HIDE DEF P
    <3> QED BY <1>2, <2>1, AbsenceClaims
  <2>3. q = [r EXCEPT !.claims = Kept(r.claims \cup X)]
    BY <1>2 DEF Reconciled
  <2> HIDE DEF X
  <2>4. Kept(r.claims \cup X) = r.claims \cup X
    BY <2>2, KeptWithAbsences DEF IsWritten
  <2>5. q = [id |-> r.id, claims |-> r.claims \cup X]
    BY <2>3, <2>4 DEF IsWritten
  <2>6. CASE X = {}
    BY <2>5, <2>6 DEF IsWritten
  <2>7. CASE X # {}
    BY <1>2, <2>2, <2>5, <2>7 DEF Lacking
  <2> QED BY <2>6, <2>7
<1> QED BY <1>1, <1>2

LEMMA BareIs ==
  ASSUME NEW r, IsWritten(r), NEW q, q = r \/ \E X : Lacking(q, r, X)
  PROVE  Bare(q) = r /\ q.id = r.id /\ Kept(q.claims) = q.claims /\ q = [id |-> q.id, claims |-> q.claims]
<1>1. \A c \in r.claims : ~Absence(c)
  BY DEF IsWritten, Stated
<1>2. r = [id |-> r.id, claims |-> r.claims] /\ Kept(r.claims) = r.claims
  BY DEF IsWritten
<1>3. CASE q = r
  <2>1. {c \in q.claims : ~Absence(c)} = r.claims
    BY <1>1, <1>3
  <2> QED BY <1>2, <1>3, <2>1 DEF Bare
<1>4. CASE q # r
  <2>1. PICK X : Lacking(q, r, X)
    BY <1>4
  <2>2. q = [id |-> r.id, claims |-> r.claims \cup X]
    BY <2>1 DEF Lacking
  <2>3. {c \in q.claims : ~Absence(c)} = r.claims
    BY <1>1, <2>1, <2>2 DEF Lacking, Absences
  <2>4. Bare(q) = [id |-> r.id, claims |-> r.claims]
    BY <2>2, <2>3 DEF Bare
  <2>5. Kept(r.claims \cup X) = r.claims \cup X
    BY <1>2, <2>1, KeptWithAbsences DEF Lacking
  <2> QED BY <1>2, <2>2, <2>4, <2>5
<1> QED BY <1>3, <1>4

(* The best that then tells the status is a listing's, which says unknown.   *)
LEMMA LackingStatus ==
  ASSUME NEW r, IsWritten(r), NEW q, NEW X, Lacking(q, r, X)
  PROVE  Resolved(q.claims, "status") = "unknown" /\ Resolved(r.claims, "status") = "accepted"
<1> DEFINE said == {c \in q.claims : c.field = "status"}
           best(c) == \A d \in said : Rank(c) <= Rank(d)
<1>1. /\ Absences(X, r.claims) /\ X # {} /\ AcceptedByOpenReview(r) /\ q.claims = r.claims \cup X
      /\ \A c \in StatusOf(r.claims) : c.source \in Acceptors
  BY DEF Lacking, IsWritten
<1>2. said = StatusOf(r.claims) \cup X
  BY <1>1 DEF StatusOf, Absences, Absence
<1>3. \A x \in X : Rank(x) \in {1, 2, 3}
  <2> SUFFICES ASSUME NEW x \in X PROVE Rank(x) \in {1, 2, 3}
    OBVIOUS
  <2>1. x.field = "status" /\ x.source \in Proceedings
    BY <1>1 DEF Absences, Absence
  <2>2. x.source \in Acceptors
    BY <2>1 DEF Acceptors, AcceptanceOrder, Proceedings
  <2>3. Place(x.source, AcceptanceOrder) \in 1..9 /\ AcceptanceOrder[Place(x.source, AcceptanceOrder)] = x.source
    BY <2>2, AcceptorsPlaced
  <2>4. Place(x.source, AcceptanceOrder) \in {1, 2, 3}
    BY <2>1, <2>3 DEF AcceptanceOrder, Proceedings
  <2> QED BY <2>1, <2>4 DEF Rank
<1>4. \A c \in StatusOf(r.claims) : Rank(c) \in 7..9
  <2>1. PICK c \in StatusOf(r.claims) : c.source \in OpenReview /\ \A d \in StatusOf(r.claims) : Rank(c) <= Rank(d)
    BY <1>1 DEF AcceptedByOpenReview, StatusOf
  <2>2. Rank(c) >= 7
    BY <1>1, <2>1, LeastOfAll, StatusRank
  <2>3. \A d \in StatusOf(r.claims) : Rank(d) \in 1..9
    BY <1>1, AcceptorsPlaced, StatusRank
  <2> QED BY <2>1, <2>2, <2>3
<1>5. \E c \in X : \A d \in X : Rank(c) <= Rank(d)
  <2>1. PICK x \in X : TRUE
    BY <1>1
  <2>2. CASE \E y \in X : Rank(y) = 1
    BY <1>3, <2>2
  <2>3. CASE (\A y \in X : Rank(y) # 1) /\ \E y \in X : Rank(y) = 2
    BY <1>3, <2>3
  <2>4. CASE \A y \in X : Rank(y) # 1 /\ Rank(y) # 2
    BY <1>3, <2>1, <2>4
  <2> QED BY <2>2, <2>3, <2>4
<1>6. \E c \in said : best(c)
  <2>1. PICK c \in X : \A d \in X : Rank(c) <= Rank(d)
    BY <1>5
  <2>2. \A d \in StatusOf(r.claims) : Rank(c) <= Rank(d)
    BY <1>3, <1>4
  <2> QED BY <1>2, <2>1, <2>2
<1>7. \A c \in said : best(c) => c \in X
  <2> SUFFICES ASSUME NEW c \in said, best(c) PROVE c \in X
    OBVIOUS
  <2>1. PICK x \in X : TRUE
    BY <1>1
  <2>2. Rank(c) <= Rank(x)
    BY <1>2
  <2> QED BY <1>2, <1>3, <1>4, <2>1, <2>2
<1>8. Resolved(q.claims, "status") = (CHOOSE c \in said : best(c)).value
  BY <1>6 DEF Resolved
<1> HIDE DEF said, best
<1>9. (CHOOSE c \in said : best(c)) \in X
  BY <1>6, <1>7
<1>10. Resolved(q.claims, "status") = "unknown"
  BY <1>1, <1>8, <1>9 DEF Absences
<1>11. Kept(r.claims) = r.claims /\ Says(r, "status") = "accepted"
  BY <1>1 DEF IsWritten, AcceptedByOpenReview
<1> QED BY <1>10, <1>11 DEF Says

LEMMA LackingLike ==
  ASSUME NEW r, IsWritten(r), NEW q, NEW X, Lacking(q, r, X), NEW F, NEW G
  PROVE  Like(Cluster(r.id, r.claims, F), Cluster(q.id, q.claims, G))
<1> DEFINE c == Cluster(r.id, r.claims, F)
           d == Cluster(q.id, q.claims, G)
           K == r.claims
           L == q.claims
           S == SourcesOf(r.claims)
<1>1. Kept(K) = K /\ Absences(X, K) /\ L = K \cup X /\ q.id = r.id
  BY DEF IsWritten, Lacking
<1>2. Kept(L) = L
  BY <1>1, KeptWithAbsences
<1>3. SourcesOf(L) = S
  BY <1>1, SourcesWithAbsences
<1>4. SeenAs(c, r.id, K, S)
  BY <1>1, ClusterIs
<1>5. SeenAs(d, r.id, L, S)
  BY <1>1, <1>2, <1>3, ClusterIs
<1>6. Resolved(L, "status") \in Listable /\ Resolved(K, "status") \in Listable
  BY LackingStatus DEF Listable
<1> HIDE DEF c, d, K, L, S
<1>7. \A field \in {"title", "forum", "proceedings"} : Values(L, field) = Values(K, field)
  BY <1>1, ValuesWithAbsences
<1>8. Resolved(L, "track") = Resolved(K, "track")
  BY <1>1, ResolvedWithAbsences
<1>9. \A l, s : Family(r.id, L, l, s) = Family(r.id, K, l, s)
  BY <1>1, FamilyWithAbsences
<1>10. \A x \in X : x.field # "abstract" /\ x.field # "proceedings"
  BY <1>1 DEF Absences, Absence
<1>11. c.abstracts = d.abstracts
  <2>1. {a \in L : OwnAbstract(a, r.id, Values(K, "proceedings")) /\ a.value # NoKey}
          = {a \in K : OwnAbstract(a, r.id, Values(K, "proceedings")) /\ a.value # NoKey}
    BY <1>1, <1>10 DEF OwnAbstract
  <2> QED BY <1>4, <1>5, <1>7, <2>1 DEF SeenAs
<1>12. c.crawled = d.crawled
  <2>1. Values({a \in L : a.source \notin Imported}, "proceedings")
          = Values({a \in K : a.source \notin Imported}, "proceedings")
    BY <1>1, <1>10 DEF Values
  <2> QED BY <1>4, <1>5, <2>1 DEF SeenAs
<1>13. c.id = d.id /\ c.sources = d.sources /\ c.titles = d.titles /\ c.papers = d.papers
  BY <1>4, <1>5, <1>7 DEF SeenAs
<1>14. c.forums = d.forums /\ c.listed = d.listed /\ c.track = d.track
  BY <1>4, <1>5, <1>7, <1>8 DEF SeenAs
<1>15. c.family = d.family
  BY <1>4, <1>5, <1>7, <1>9 DEF SeenAs
<1>16. c.status \in Listable /\ d.status \in Listable
  BY <1>4, <1>5, <1>6 DEF SeenAs
<1>17. Like(c, d)
  BY <1>11, <1>12, <1>13, <1>14, <1>15, <1>16 DEF Like
<1> QED BY <1>17 DEF c, d

-----------------------------------------------------------------------------
(* A run's output, and what the next run makes of it.                       *)

LEMMA ClusterClaims ==
  ASSUME NEW A, Originals(A), NEW C, Shape(C, A), NEW c \in C
  PROVE  /\ c = Cluster(c.id, c.claims, c.from) /\ Stated(c.claims)
         /\ \A x \in StatusOf(c.claims) : x.source \in Acceptors
<1>1. ASSUME NEW a \in A
      PROVE  /\ a = Cluster(a.id, a.claims, a.from) /\ Stated(a.claims)
             /\ \A x \in StatusOf(a.claims) : x.source \in Acceptors
  <2>1. Original(a) /\ Sourced(a)
    BY DEF Originals
  <2>2. a.from = {a.id}
    BY <2>1, OriginalNames
  <2> QED BY <2>1, <2>2 DEF Original, Sourced, Stated, StatusOf, Heard
<1>2. CASE c \in A
  BY <1>1, <1>2
<1>3. CASE c \notin A
  <2>1. PICK a \in A, b \in A : Pair(a, b) /\ c = Joined({a, b})
    BY <1>3 DEF Shape
  <2>2. c = Cluster(a.id, a.claims \cup b.claims, {a.id, b.id})
    BY <2>1, JoinedIs DEF Originals
  <2>3. c.id = a.id /\ c.claims = a.claims \cup b.claims /\ c.from = {a.id, b.id}
    BY <2>2, ClusterParts
  <2>4. Stated(a.claims) /\ Stated(b.claims)
    BY <1>1
  <2>5. Stated(c.claims)
    <3>1. IsFiniteSet(a.claims \cup b.claims)
      BY <2>4, FS_Union DEF Stated
    <3> QED BY <2>3, <2>4, <3>1 DEF Stated
  <2>6. \A x \in StatusOf(c.claims) : x \in StatusOf(a.claims) \/ x \in StatusOf(b.claims)
    BY <2>3 DEF StatusOf
  <2> QED BY <1>1, <2>2, <2>3, <2>5, <2>6
<1> QED BY <1>2, <1>3

(* Records as a run writes them: one of each id, of which nothing merges.    *)
Settled(W) ==
    /\ IsFiniteSet(W) /\ \A r \in W : IsWritten(r)
    /\ \A q, r \in W : q.id = r.id => q = r
    /\ Judged(ClustersOf(W)) /\ Unmerging(ClustersOf(W))

LEMMA WrittenRecords ==
  ASSUME NEW A, Originals(A), NEW C, Shape(C, A), Apart(C), NEW r \in Written(C)
  PROVE  /\ IsWritten(r)
         /\ \E c \in C : /\ r = [id |-> c.id, claims |-> Kept(c.claims)]
                         /\ Like(c, Cluster(r.id, r.claims, {}))
<1>1. PICK c \in C : r = [id |-> c.id, claims |-> Kept(c.claims)]
  BY DEF Written
<1>2. /\ c = Cluster(c.id, c.claims, c.from) /\ Stated(c.claims)
      /\ \A x \in StatusOf(c.claims) : x.source \in Acceptors
  BY ClusterClaims
<1>3. c.id \in VenueYears \X Natives
  BY Kinds
<1>4. Stated(Kept(c.claims)) /\ Kept(Kept(c.claims)) = Kept(c.claims)
  BY <1>2, KeptStated, KeptOfKept
<1>5. \A x \in StatusOf(Kept(c.claims)) : x \in StatusOf(c.claims)
  BY DEF StatusOf, Kept
<1>6. IsWritten(r)
  BY <1>1, <1>2, <1>3, <1>4, <1>5 DEF IsWritten
<1>7. Like(Cluster(c.id, c.claims, c.from), Cluster(c.id, Kept(c.claims), {}))
  BY <1>2, WrittenLike
<1> QED BY <1>1, <1>2, <1>6, <1>7

LEMMA WrittenSettled ==
  ASSUME Clustered, Unmerging(clusters)
  PROVE  Settled(Written(clusters))
<1> DEFINE W == Written(clusters)
           T == ClustersOf(W)
<1>1. Originals(asked) /\ Shape(clusters, asked) /\ Apart(clusters) /\ IsFiniteSet(clusters)
  BY DEF Clustered, Accounts
<1>2. Distinct(clusters) /\ Ided(clusters)
  BY <1>1, IdsDiffer
<1>3. Judged(T)
  BY <1>1, <1>2, WrittenJudged
<1>4. IsFiniteSet(W)
  <2> DEFINE F == [c \in clusters |-> [id |-> c.id, claims |-> Kept(c.claims)]]
  <2>1. F = [c \in clusters |-> F[c]] /\ W = {F[c] : c \in clusters}
    BY DEF Written
  <2> HIDE DEF F, W
  <2> QED BY <1>1, <2>1, FiniteImage
<1>5. \A r \in W : /\ IsWritten(r)
                   /\ \E c \in clusters : /\ r = [id |-> c.id, claims |-> Kept(c.claims)]
                                          /\ Like(c, Cluster(r.id, r.claims, {}))
  BY <1>1, WrittenRecords
<1>6. \A c \in clusters : [id |-> c.id, claims |-> Kept(c.claims)] \in W
  BY DEF Written
<1>7. \A t : t \in T <=> \E r \in W : t = Cluster(r.id, r.claims, {})
  BY DEF ClustersOf
<1> HIDE DEF W, T
<1>8. \A q, r \in W : q.id = r.id => q = r
  BY <1>2, <1>5 DEF Distinct
<1>9. \A t \in T : \E c \in clusters : Like(c, t)
  BY <1>5, <1>7
<1>10. \A c \in clusters : \E t \in T : Like(c, t)
  <2> SUFFICES ASSUME NEW c \in clusters PROVE \E t \in T : Like(c, t)
    OBVIOUS
  <2> DEFINE r == [id |-> c.id, claims |-> Kept(c.claims)]
  <2>1. r \in W /\ r.id = c.id
    BY <1>6
  <2> HIDE DEF r
  <2>2. PICK d \in clusters : r.id = d.id /\ Like(d, Cluster(r.id, r.claims, {}))
    BY <1>5, <2>1
  <2>3. d = c
    BY <1>2, <2>1, <2>2 DEF Distinct
  <2> QED BY <1>7, <2>1, <2>2, <2>3
<1>11. Twins(clusters, T)
  BY <1>1, <1>2, <1>3, <1>9, <1>10 DEF Twins, Judged
<1>12. Unmerging(T)
  BY <1>11, UnmergingTwins
<1> QED BY <1>3, <1>4, <1>5, <1>8, <1>12 DEF Settled, W, T

(* What reconciling leaves of them, and the clusters the next run begins with.*)
Reckoned(W, crawls) == {Reconciled(r, W, crawls) : r \in W}
Bared(D) == {Bare(q) : q \in D}
Alone(D) == {Cluster(q.id, q.claims, {q.id}) : q \in D}

Outlives(q, r) == q = r \/ \E X : Lacking(q, r, X)

LEMMA ReckonedIs ==
  ASSUME NEW W, Settled(W), NEW crawls, NEW D, D = Reckoned(W, crawls)
  PROVE  /\ \A q \in D : \E r \in W : q = Reconciled(r, W, crawls) /\ Outlives(q, r)
         /\ \A r \in W : Reconciled(r, W, crawls) \in D /\ Outlives(Reconciled(r, W, crawls), r)
<1>1. \A r \in W : Outlives(Reconciled(r, W, crawls), r)
  BY ReconciledIs DEF Settled, Outlives
<1> QED BY <1>1 DEF Reckoned

LEMMA OutlivesIs ==
  ASSUME NEW r, IsWritten(r), NEW q, Outlives(q, r)
  PROVE  Bare(q) = r /\ q.id = r.id /\ Kept(q.claims) = q.claims /\ q = [id |-> q.id, claims |-> q.claims]
BY BareIs DEF Outlives

LEMMA OutlivesLike ==
  ASSUME NEW r, IsWritten(r), NEW q, Outlives(q, r), NEW F, NEW G
  PROVE  Like(Cluster(r.id, r.claims, F), Cluster(q.id, q.claims, G))
<1>1. CASE q = r
  <2>1. SeenAs(Cluster(r.id, r.claims, F), r.id, Kept(r.claims), SourcesOf(r.claims))
    BY ClusterIs
  <2>2. SeenAs(Cluster(r.id, r.claims, G), r.id, Kept(r.claims), SourcesOf(r.claims))
    BY ClusterIs
  <2> QED BY <1>1, <2>1, <2>2, SeenAlike
<1>2. CASE q # r
  BY <1>2, LackingLike DEF Outlives
<1> QED BY <1>1, <1>2

LEMMA ReckonedRecords ==
  ASSUME NEW W, Settled(W), NEW crawls, NEW D, D = Reckoned(W, crawls)
  PROVE  /\ IsFiniteSet(D) /\ Bared(D) = W
         /\ \A q, p \in D : q.id = p.id => q = p
         /\ \A q \in D : Kept(q.claims) = q.claims /\ q = [id |-> q.id, claims |-> q.claims]
<1> DEFINE F == [r \in W |-> Reconciled(r, W, crawls)]
<1>1. /\ \A q \in D : \E r \in W : q = Reconciled(r, W, crawls) /\ Outlives(q, r)
      /\ \A r \in W : Reconciled(r, W, crawls) \in D /\ Outlives(Reconciled(r, W, crawls), r)
  BY ReckonedIs
<1>2. IsFiniteSet(D)
  <2>1. F = [r \in W |-> F[r]] /\ D = {F[r] : r \in W} /\ IsFiniteSet(W)
    BY DEF Reckoned, Settled
  <2> HIDE DEF F
  <2> QED BY <2>1, FiniteImage
<1> HIDE DEF F
<1>3. \A r \in W : IsWritten(r)
  BY DEF Settled
<1>4. ASSUME NEW q \in D
      PROVE  /\ \E r \in W : q = Reconciled(r, W, crawls) /\ Bare(q) = r /\ q.id = r.id
             /\ Kept(q.claims) = q.claims /\ q = [id |-> q.id, claims |-> q.claims]
  <2>1. PICK r \in W : q = Reconciled(r, W, crawls) /\ Outlives(q, r)
    BY <1>1
  <2>2. Bare(q) = r /\ q.id = r.id /\ Kept(q.claims) = q.claims /\ q = [id |-> q.id, claims |-> q.claims]
    BY <1>3, <2>1, OutlivesIs
  <2> QED BY <2>1, <2>2
<1>5. \A r \in W : Bare(Reconciled(r, W, crawls)) = r
  BY <1>1, <1>3, OutlivesIs
<1>6. Bared(D) = W
  <2>1. \A b \in Bared(D) : b \in W
    BY <1>4 DEF Bared
  <2>2. \A r \in W : r \in Bared(D)
    BY <1>1, <1>5 DEF Bared
  <2> QED BY <2>1, <2>2
<1>7. \A q, p \in D : q.id = p.id => q = p
  BY <1>4 DEF Settled
<1> QED BY <1>2, <1>4, <1>6, <1>7

(* Clusters of the reconciled records, whatever ids they came from, are twins *)
(* of those of the written ones.                                            *)
LEMMA ReckonedTwins ==
  ASSUME NEW W, Settled(W), NEW crawls, NEW D, D = Reckoned(W, crawls), NEW E,
         IsFiniteSet(E),
         \A e \in E : \E q \in D : \E G : e = Cluster(q.id, q.claims, G),
         \A q \in D : \E e \in E : \E G : e = Cluster(q.id, q.claims, G),
         Distinct(E)
  PROVE  Twins(ClustersOf(W), E)
<1>1. /\ \A q \in D : \E r \in W : q = Reconciled(r, W, crawls) /\ Outlives(q, r)
      /\ \A r \in W : Reconciled(r, W, crawls) \in D /\ Outlives(Reconciled(r, W, crawls), r)
  BY ReckonedIs
<1>2. \A r \in W : IsWritten(r)
  BY DEF Settled
<1>3. \A t : t \in ClustersOf(W) <=> \E r \in W : t = Cluster(r.id, r.claims, {})
  BY DEF ClustersOf
<1>4. ASSUME NEW t \in ClustersOf(W) PROVE \E e \in E : Like(t, e)
  <2>1. PICK r \in W : t = Cluster(r.id, r.claims, {})
    BY <1>3
  <2>2. PICK q \in D : Outlives(q, r)
    BY <1>1
  <2>3. PICK e \in E : \E G : e = Cluster(q.id, q.claims, G)
    OBVIOUS
  <2>4. PICK G : e = Cluster(q.id, q.claims, G)
    BY <2>3
  <2> QED BY <1>2, <2>1, <2>2, <2>4, OutlivesLike
<1>5. ASSUME NEW e \in E PROVE \E t \in ClustersOf(W) : Like(t, e)
  <2>1. PICK q \in D : \E G : e = Cluster(q.id, q.claims, G)
    OBVIOUS
  <2>2. PICK G : e = Cluster(q.id, q.claims, G)
    BY <2>1
  <2>3. PICK r \in W : Outlives(q, r)
    BY <1>1
  <2>4. Like(Cluster(r.id, r.claims, {}), e)
    BY <1>2, <2>2, <2>3, OutlivesLike
  <2> QED BY <1>3, <2>4
<1>6. IsFiniteSet(ClustersOf(W)) /\ Distinct(ClustersOf(W))
  BY DEF Settled, Judged
<1> QED BY <1>4, <1>5, <1>6 DEF Twins

LEMMA AloneTwins ==
  ASSUME NEW W, Settled(W), NEW crawls, NEW D, D = Reckoned(W, crawls)
  PROVE  Twins(ClustersOf(W), Alone(D)) /\ Twins(ClustersOf(W), ClustersOf(D)) /\ Judged(ClustersOf(D))
<1> DEFINE F == [q \in D |-> Cluster(q.id, q.claims, {q.id})]
           H == [q \in D |-> Cluster(q.id, q.claims, {})]
<1>1. IsFiniteSet(D) /\ \A q, p \in D : q.id = p.id => q = p
  BY ReckonedRecords
<1>2. Alone(D) = {F[q] : q \in D} /\ ClustersOf(D) = {H[q] : q \in D}
  BY DEF Alone, ClustersOf
<1>3. \A q \in D : F[q].id = q.id /\ H[q].id = q.id
  BY ClusterParts
<1>4. F = [q \in D |-> F[q]] /\ H = [q \in D |-> H[q]]
  OBVIOUS
<1>5. \A q \in D : F[q] = Cluster(q.id, q.claims, {q.id}) /\ H[q] = Cluster(q.id, q.claims, {})
  OBVIOUS
<1> HIDE DEF F, H
<1>6. IsFiniteSet(Alone(D)) /\ Distinct(Alone(D))
  <2>1. IsFiniteSet({F[q] : q \in D})
    BY <1>1, <1>4, FiniteImage
  <2> QED BY <1>1, <1>2, <1>3, <2>1 DEF Distinct
<1>7. IsFiniteSet(ClustersOf(D)) /\ Distinct(ClustersOf(D))
  <2>1. IsFiniteSet({H[q] : q \in D})
    BY <1>1, <1>4, FiniteImage
  <2> QED BY <1>1, <1>2, <1>3, <2>1 DEF Distinct
<1>8. /\ \A e \in Alone(D) : \E q \in D : \E G : e = Cluster(q.id, q.claims, G)
      /\ \A q \in D : \E e \in Alone(D) : \E G : e = Cluster(q.id, q.claims, G)
  <2>1. \A e \in Alone(D) : \E q \in D : e = Cluster(q.id, q.claims, {q.id})
    BY DEF Alone
  <2>2. \A q \in D : Cluster(q.id, q.claims, {q.id}) \in Alone(D)
    BY DEF Alone
  <2>3. ASSUME NEW q \in D PROVE \E e \in Alone(D) : \E G : e = Cluster(q.id, q.claims, G)
    <3> DEFINE e == Cluster(q.id, q.claims, {q.id})
    <3>1. e \in Alone(D) /\ \E G : e = Cluster(q.id, q.claims, G)
      BY <2>2
    <3> QED BY <3>1
  <2>4. ASSUME NEW e \in Alone(D) PROVE \E q \in D : \E G : e = Cluster(q.id, q.claims, G)
    BY <2>1
  <2> QED BY <2>3, <2>4
<1>9. /\ \A e \in ClustersOf(D) : \E q \in D : \E G : e = Cluster(q.id, q.claims, G)
      /\ \A q \in D : \E e \in ClustersOf(D) : \E G : e = Cluster(q.id, q.claims, G)
  <2>1. \A e \in ClustersOf(D) : \E q \in D : e = Cluster(q.id, q.claims, {})
    BY DEF ClustersOf
  <2>2. \A q \in D : Cluster(q.id, q.claims, {}) \in ClustersOf(D)
    BY DEF ClustersOf
  <2> QED BY <2>1, <2>2
<1>10. Twins(ClustersOf(W), Alone(D))
  BY <1>6, <1>8, ReckonedTwins
<1>11. Twins(ClustersOf(W), ClustersOf(D))
  BY <1>7, <1>9, ReckonedTwins
<1>12. Ided(ClustersOf(D))
  <2> SUFFICES ASSUME NEW e \in ClustersOf(D) PROVE e.id \in VenueYears \X Natives
    BY DEF Ided
  <2>1. PICK t \in ClustersOf(W) : Like(t, e)
    BY <1>11 DEF Twins
  <2> QED BY <2>1 DEF Like, Settled, Judged, Ided
<1> QED BY <1>7, <1>10, <1>11, <1>12 DEF Judged

-----------------------------------------------------------------------------
(* The invariant of the two runs.                                           *)

(* What the first run left, from last; what the second has made of it.       *)
Left(W, D, R) == Settled(W) /\ D = Reckoned(W, complete) /\ R = NotMergedRows(ClustersOf(W))

LeftByFirst == Left(Bared(last[1]), last[1], last[2]) /\ last = <<last[1], last[2]>>

TwoRunsInv ==
    /\ run \in {1, 2}
    /\ run = 1 =>
          /\ PassedOver
          /\ phase = "reconcile" => Settled(records) /\ rows = NotMergedRows(ClustersOf(records))
          /\ phase = "done" => Left(Bared(records), records, rows)
    /\ run = 2 =>
          /\ LeftByFirst /\ records = last[1]
          /\ phase # "ids" => merges = {}
          /\ phase \in {"link", "titles", "abstracts", "write"} => clusters = Alone(last[1])
          /\ phase \in {"reconcile", "done"} => rows = last[2]

LEMMA TwoRunsInit == Init => TwoRunsInv
BY DEF Init, TwoRunsInv, PassedOver

LEMMA FirstRunStep ==
  ASSUME DedupInv, TwoRunsInv, Next, run = 1, run' = 1
  PROVE  TwoRunsInv'
<1>1. CASE ById
  <2>1. RecordsCameIn /\ phase = "ids"
    BY <1>1 DEF DedupInv, ById
  <2>2. PassedOver' /\ phase' = "link"
    BY <1>1, <2>1, ByIdPasses, ByIdClusters
  <2> QED BY <2>2 DEF TwoRunsInv
<1>2. CASE Link
  <2>1. Clustered /\ PassedOver
    BY <1>2 DEF DedupInv, Link, TwoRunsInv
  <2>2. PassedOver' /\ phase' = "titles"
    BY <1>2, <2>1, LinkPasses, LinkKeeps
  <2> QED BY <2>2 DEF TwoRunsInv
<1>3. CASE JoinTitles
  <2>1. Clustered /\ PassedOver
    BY <1>3 DEF DedupInv, JoinTitles, TwoRunsInv
  <2>2. PassedOver' /\ phase' = "abstracts"
    BY <1>3, <2>1, TitlesPass, TitlesKeep
  <2> QED BY <2>2 DEF TwoRunsInv
<1>4. CASE JoinAbstracts
  <2>1. Clustered /\ PassedOver
    BY <1>4 DEF DedupInv, JoinAbstracts, TwoRunsInv
  <2>2. PassedOver' /\ phase' \in {"write", "link"}
    BY <1>4, <2>1, AbstractsPass, AbstractsKeep
  <2> QED BY <2>2 DEF TwoRunsInv
<1>5. CASE Write
  <2>1. Clustered /\ Unmerging(clusters)
    BY <1>5 DEF DedupInv, Write, TwoRunsInv, PassedOver
  <2>2. records' = Written(clusters) /\ rows' = NotMergedRows(ClustersOf(records')) /\ phase' = "reconcile" /\ clusters' = clusters
    BY <1>5 DEF Write, Written, ClustersOf
  <2>3. Settled(records')
    BY <2>1, <2>2, WrittenSettled
  <2>4. PassedOver'
    BY <2>1, <2>2 DEF PassedOver
  <2> QED BY <2>2, <2>3, <2>4 DEF TwoRunsInv
<1>6. CASE Reconcile
  <2>1. Settled(records) /\ rows = NotMergedRows(ClustersOf(records))
    BY <1>6 DEF TwoRunsInv, Reconcile
  <2>2. Bared(records) = records
    <3>1. \A r \in records : Bare(r) = r
      BY <2>1, OutlivesIs DEF Settled, Outlives
    <3> QED BY <3>1 DEF Bared
  <2>3. records' = Reckoned(Bared(records), complete') /\ rows' = rows /\ phase' = "done"
    BY <1>6 DEF Reconcile, Reckoned, Bared
  <2>4. Bared(records') = records
    BY <2>1, <2>2, <2>3, ReckonedRecords
  <2>5. Left(Bared(records), records, rows)'
    BY <2>1, <2>2, <2>3, <2>4 DEF Left
  <2>6. PassedOver'
    BY <2>3 DEF PassedOver
  <2> QED BY <2>3, <2>5, <2>6 DEF TwoRunsInv
<1>7. CASE Again
  BY <1>7 DEF Again
<1> QED BY <1>1, <1>2, <1>3, <1>4, <1>5, <1>6, <1>7 DEF Next

(* The second run begins with a cluster for each record, and merges none.    *)
LEMMA AgainByIds ==
  ASSUME LeftByFirst, records = last[1], ById
  PROVE  merges' = {} /\ clusters' = Alone(records)
<1> DEFINE D == last[1]
<1>1. \A q, p \in D : q.id = p.id => q = p
  BY ReckonedRecords DEF LeftByFirst, Left
<1>2. records = D
  OBVIOUS
<1> HIDE DEF D
<1>3. merges' = {}
  <2>1. {s \in records : \E t \in records \ {s} : s.id = t.id} = {}
    BY <1>1, <1>2
  <2>2. merges' = {<<i, i>> : i \in {r.id : r \in {s \in records : \E t \in records \ {s} : s.id = t.id}}}
    BY DEF ById
  <2> QED BY <2>1, <2>2
<1>4. clusters' = OfOneId(records)
  BY DEF ById, OfOneId, ClaimsOf, IdsOf
<1>5. \A q \in records : ClaimsOf(records, q.id) = q.claims
  BY <1>1, <1>2 DEF ClaimsOf
<1>6. OfOneId(records) = Alone(records)
  BY <1>5 DEF OfOneId, Alone, IdsOf
<1> QED BY <1>3, <1>4, <1>6

LEMMA NothingMerges ==
  ASSUME LeftByFirst, clusters = Alone(last[1])
  PROVE  Unmerging(clusters)
<1>1. Twins(ClustersOf(Bared(last[1])), Alone(last[1])) /\ Unmerging(ClustersOf(Bared(last[1])))
  BY AloneTwins DEF LeftByFirst, Left, Settled
<1> QED BY <1>1, UnmergingTwins

LEMMA MergeOfNone ==
  ASSUME NEW next, Merge({}, next)
  PROVE  clusters' = clusters /\ merges' = merges /\ phase' = next
BY DEF Merge

LEMMA AgainWrites ==
  ASSUME LeftByFirst, records = last[1], clusters = Alone(last[1]), Write
  PROVE  records' = records /\ rows' = last[2]
<1> DEFINE D == last[1]
           W == Bared(D)
<1>1. Settled(W) /\ D = Reckoned(W, complete) /\ last[2] = NotMergedRows(ClustersOf(W))
  BY DEF LeftByFirst, Left
<1>2. records' = Written(clusters) /\ rows' = NotMergedRows(ClustersOf(records'))
  BY DEF Write, Written, ClustersOf
<1> HIDE DEF D, W
<1>3. \A q \in D : Kept(q.claims) = q.claims /\ q = [id |-> q.id, claims |-> q.claims]
  BY <1>1, ReckonedRecords
<1>4. Written(Alone(D)) = D
  <2>1. \A q \in D : [id |-> Cluster(q.id, q.claims, {q.id}).id,
                      claims |-> Kept(Cluster(q.id, q.claims, {q.id}).claims)] = q
    BY <1>3, ClusterParts
  <2>2. ASSUME NEW w \in Written(Alone(D)) PROVE w \in D
    <3>1. PICK c \in Alone(D) : w = [id |-> c.id, claims |-> Kept(c.claims)]
      BY DEF Written
    <3>2. PICK q \in D : c = Cluster(q.id, q.claims, {q.id})
      BY DEF Alone
    <3> QED BY <2>1, <3>1, <3>2
  <2>3. ASSUME NEW q \in D PROVE q \in Written(Alone(D))
    <3>1. Cluster(q.id, q.claims, {q.id}) \in Alone(D)
      BY DEF Alone
    <3> QED BY <2>1, <3>1 DEF Written
  <2> QED BY <2>2, <2>3
<1>5. Twins(ClustersOf(W), ClustersOf(D)) /\ Judged(ClustersOf(D)) /\ Judged(ClustersOf(W))
  BY <1>1, AloneTwins DEF Settled
<1>6. NotMergedRows(ClustersOf(W)) = NotMergedRows(ClustersOf(D))
  BY <1>5, RowsTwins
<1>7. records = D /\ clusters = Alone(D)
  BY DEF D
<1> QED BY <1>1, <1>2, <1>4, <1>6, <1>7

LEMMA SecondRunStep ==
  ASSUME TwoRunsInv, Next, run = 2
  PROVE  TwoRunsInv'
<1>1. LeftByFirst /\ records = last[1] /\ run # 1
  BY DEF TwoRunsInv
<1>2. CASE ById
  <2>1. merges' = {} /\ clusters' = Alone(last[1])
    BY <1>1, <1>2, AgainByIds
  <2> QED BY <1>1, <1>2, <2>1 DEF ById, TwoRunsInv, LeftByFirst, Left
<1>3. CASE Link
  <2>1. Unmerging(clusters) /\ clusters = Alone(last[1]) /\ merges = {}
    BY <1>1, <1>3, NothingMerges DEF TwoRunsInv, Link
  <2>2. clusters' = clusters /\ merges' = merges /\ phase' = "titles"
    BY <1>3, <2>1, MergeOfNone DEF Link, Unmerging
  <2> QED BY <1>1, <1>3, <2>1, <2>2 DEF Link, TwoRunsInv, LeftByFirst, Left
<1>4. CASE JoinTitles
  <2>1. Unmerging(clusters) /\ clusters = Alone(last[1]) /\ merges = {}
    BY <1>1, <1>4, NothingMerges DEF TwoRunsInv, JoinTitles
  <2>2. clusters' = clusters /\ merges' = merges /\ phase' = "abstracts"
    BY <1>4, <2>1, MergeOfNone DEF JoinTitles, Unmerging
  <2> QED BY <1>1, <1>4, <2>1, <2>2 DEF JoinTitles, TwoRunsInv, LeftByFirst, Left
<1>5. CASE JoinAbstracts
  <2>1. Unmerging(clusters) /\ clusters = Alone(last[1]) /\ merges = {}
    BY <1>1, <1>5, NothingMerges DEF TwoRunsInv, JoinAbstracts
  <2>2. clusters' = clusters /\ merges' = merges /\ phase' \in {"write", "link"}
    <3> DEFINE next == IF Cardinality(clusters') = before THEN "write" ELSE "link"
    <3>1. Merge({}, next) /\ next \in {"write", "link"}
      BY <1>5, <2>1 DEF JoinAbstracts, Unmerging
    <3> HIDE DEF next
    <3> QED BY <3>1, MergeOfNone
  <2> QED BY <1>1, <1>5, <2>1, <2>2 DEF JoinAbstracts, TwoRunsInv, LeftByFirst, Left
<1>6. CASE Write
  <2>1. clusters = Alone(last[1]) /\ merges = {}
    BY <1>6 DEF TwoRunsInv, Write
  <2>2. records' = records /\ rows' = last[2]
    BY <1>1, <1>6, <2>1, AgainWrites
  <2> QED BY <1>1, <1>6, <2>1, <2>2 DEF Write, TwoRunsInv, LeftByFirst, Left
<1>7. CASE Reconcile
  <2>1. merges = {} /\ rows = last[2]
    BY <1>7 DEF TwoRunsInv, Reconcile
  <2>2. complete' = complete
    BY <1>1, <1>7 DEF Reconcile
  <2>3. records' = Reckoned(Bared(records), complete')
    BY <1>7 DEF Reconcile, Reckoned, Bared
  <2>4. records' = last[1]
    BY <1>1, <2>2, <2>3 DEF LeftByFirst, Left
  <2> QED BY <1>1, <1>7, <2>1, <2>2, <2>4 DEF Reconcile, TwoRunsInv, LeftByFirst, Left
<1>8. CASE Again
  BY <1>1, <1>8 DEF Again
<1> QED BY <1>2, <1>3, <1>4, <1>5, <1>6, <1>7, <1>8 DEF Next

LEMMA TurnsOver ==
  ASSUME TwoRunsInv, Again
  PROVE  TwoRunsInv'
<1>1. Left(Bared(records), records, rows)
  BY DEF TwoRunsInv, Again
<1>2. /\ last' = <<records, rows>> /\ records' = records /\ complete' = complete
      /\ run' = 2 /\ phase' = "ids"
  BY DEF Again
<1>3. LeftByFirst' /\ records' = last'[1]
  BY <1>1, <1>2 DEF LeftByFirst, Left
<1> QED BY <1>2, <1>3 DEF TwoRunsInv

LEMMA TwoRunsStep == DedupInv /\ TwoRunsInv /\ [Next]_vars => TwoRunsInv'
<1> SUFFICES ASSUME DedupInv, TwoRunsInv, [Next]_vars PROVE TwoRunsInv'
  OBVIOUS
<1>1. CASE UNCHANGED vars
  BY <1>1 DEF vars, TwoRunsInv, PassedOver, Counted, LeftByFirst, Left
<1>2. CASE Again
  BY <1>2, TurnsOver
<1>3. CASE Next /\ ~Again
  <2>1. run' = run
    BY <1>3 DEF Next, ById, Link, JoinTitles, JoinAbstracts, Write, Reconcile
  <2>2. run = 1 \/ run = 2
    BY DEF TwoRunsInv
  <2> QED BY <1>3, <2>1, <2>2, FirstRunStep, SecondRunStep
<1> QED BY <1>1, <1>2, <1>3

(* A run over its own reconciled output merges nothing, and gives the same   *)
(* records and the same rows.                                              *)
THEOREM SecondRun == Spec => []SecondRunChangesNothing
<1>1. Spec => []TwoRunsInv
  BY DedupKeepsInv, TwoRunsInit, TwoRunsStep, PTL DEF Spec
<1>2. TwoRunsInv => SecondRunChangesNothing
  BY DEF TwoRunsInv, SecondRunChangesNothing, LeftByFirst
<1> QED BY <1>1, <1>2, PTL
=============================================================================
