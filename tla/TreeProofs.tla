----------------------------- MODULE TreeProofs -----------------------------
(***************************************************************************)
(* Building a tree with hard buckets, and the mutable tree that is built   *)
(* so, for every bucket size, every set of points, every source and every  *)
(* sequence of calls.                                                      *)
(*                                                                         *)
(* First what holds of every bucket (its length, and that a split leaves   *)
(* something on either side) and of the stems (which are interior, how     *)
(* points are routed through them, and that a split at a terminal stem     *)
(* sends on what was routed there and nothing else); then construction;    *)
(* then a tree in use, and its refinement of PointStore.                   *)
(***************************************************************************)
EXTENDS TreeProperties, ConstructionProperties, CommonTheorems, SequencesExt

-----------------------------------------------------------------------------
(* Lengths.                                                                *)

(* Points and items are finitely many, and so are entries. *)
LEMMA EntriesFinite == IsFiniteSet(Entries)
<1> DEFINE f == [pq \in Points \X Items |-> [point |-> pq[1], item |-> pq[2]]]
<1>1. IsFiniteSet(Points \X Items)
  BY PointsAssumption, FS_Product
<1>2. f \in [Points \X Items -> Entries]
  BY DEF Entries
<1>3. \A e \in Entries : \E pq \in Points \X Items : f[pq] = e
  <2> TAKE e \in Entries
  <2>1. <<e.point, e.item>> \in Points \X Items
    BY DEF Entries
  <2>2. f[<<e.point, e.item>>] = e
    BY <2>1 DEF Entries
  <2> QED
    BY <2>1, <2>2
<1> HIDE DEF f
<1>4. QED
  BY <1>1, <1>2, <1>3, FiniteImage

(* A bucket takes a finite number of slots. *)
LEMMA BucketLenType ==
    ASSUME NEW b \in Bucket
    PROVE  IsFiniteSet(Slots(b)) /\ BucketLen(b) \in Nat
<1> DEFINE copies(e) == {e} \X (1 .. b[e])
           all == {copies(e) : e \in Entries}
           f == [e \in Entries |-> copies(e)]
<1>1. IsFiniteSet(all)
  <2>1. f \in [Entries -> all]
    OBVIOUS
  <2>2. \A t \in all : \E e \in Entries : f[e] = t
    OBVIOUS
  <2> HIDE DEF f, all
  <2>3. QED
    BY <2>1, <2>2, EntriesFinite, FiniteImage
<1>2. \A t \in all : IsFiniteSet(t)
  <2>1. SUFFICES ASSUME NEW e \in Entries PROVE IsFiniteSet(copies(e))
    OBVIOUS
  <2>2. IsFiniteSet({e})
    BY FS_Singleton
  <2>3. IsFiniteSet(1 .. b[e])
    <3>1. b[e] \in Nat
      BY DEF Bucket
    <3>2. QED
      BY <3>1, FS_Interval
  <2>4. QED
    BY <2>2, <2>3, FS_Product
<1>3. Slots(b) = UNION all
  BY DEF Slots
<1> HIDE DEF all
<1>4. IsFiniteSet(Slots(b))
  BY <1>1, <1>2, <1>3, FS_UNION
<1>5. QED
  BY <1>4, FS_CardinalityType DEF BucketLen

(* A bucket with at least as many copies of each entry is as long, and     *)
(* longer where it has more of one.                                        *)
LEMMA BucketLenMonotone ==
    ASSUME NEW b \in Bucket, NEW c \in Bucket,
           \A e \in Entries : b[e] <= c[e]
    PROVE  /\ BucketLen(b) <= BucketLen(c)
           /\ (\E e \in Entries : b[e] < c[e]) => BucketLen(b) < BucketLen(c)
<1>1. Slots(b) \in SUBSET Slots(c)
  <2>1. SUFFICES ASSUME NEW e \in Entries
                 PROVE  {e} \X (1 .. b[e]) \subseteq {e} \X (1 .. c[e])
    BY <2>1 DEF Slots
  <2>2. b[e] \in Nat /\ c[e] \in Nat /\ b[e] <= c[e]
    BY DEF Bucket
  <2>3. 1 .. b[e] \subseteq 1 .. c[e]
    BY <2>2
  <2>4. QED
    BY <2>3
<1>2. IsFiniteSet(Slots(c)) /\ BucketLen(c) \in Nat /\ BucketLen(b) \in Nat
  BY BucketLenType
<1>3. BucketLen(b) <= BucketLen(c)
  BY <1>1, <1>2, FS_Subset DEF BucketLen
<1>4. ASSUME NEW e \in Entries, b[e] < c[e] PROVE BucketLen(b) # BucketLen(c)
  <2>1. b[e] \in Nat /\ c[e] \in Nat
    BY DEF Bucket
  <2>2. <<e, c[e]>> \in Slots(c)
    <3>1. c[e] \in 1 .. c[e]
      BY <2>1, <1>4
    <3>2. QED
      BY <3>1 DEF Slots
  <2>3. <<e, c[e]>> \notin Slots(b)
    <3>1. SUFFICES ASSUME NEW g \in Entries, <<e, c[e]>> \in {g} \X (1 .. b[g])
                   PROVE  FALSE
      BY DEF Slots
    <3>2. g = e /\ c[e] \in 1 .. b[e]
      BY <3>1
    <3>3. QED
      BY <3>2, <2>1, <1>4
  <2>4. QED
    BY <1>1, <1>2, <2>2, <2>3, FS_Subset DEF BucketLen
<1>5. QED
  BY <1>2, <1>3, <1>4

(* The empty bucket takes no slot. *)
LEMMA EmptyBucketLen ==
    EmptyBucket \in Bucket /\ BucketLen(EmptyBucket) = 0
<1>1. EmptyBucket \in Bucket
  BY DEF EmptyBucket, Bucket
<1>2. Slots(EmptyBucket) = {}
  BY DEF Slots, EmptyBucket
<1>3. QED
  BY <1>1, <1>2, FS_EmptySet DEF BucketLen

(* A bucket is longer than nothing exactly when it holds something. *)
LEMMA OccupiedLen ==
    ASSUME NEW b \in Bucket
    PROVE  /\ BucketLen(b) > 0 <=> Occupied(b) # {}
           /\ b # EmptyBucket <=> Occupied(b) # {}
<1>1. \A e \in Entries : b[e] \in Nat
  BY DEF Bucket
<1>2. \A e \in Entries : EmptyBucket[e] = 0
  BY DEF EmptyBucket
<1>3. Occupied(b) # {} => BucketLen(b) > 0
  <2>1. \A e \in Entries : EmptyBucket[e] <= b[e]
    BY <1>1, <1>2
  <2>2. Occupied(b) # {} => \E e \in Entries : EmptyBucket[e] < b[e]
    BY <1>1, <1>2 DEF Occupied
  <2>3. QED
    BY <2>1, <2>2, EmptyBucketLen, BucketLenMonotone
<1>4. Occupied(b) = {} => b = EmptyBucket
  <2>1. SUFFICES ASSUME Occupied(b) = {} PROVE b = EmptyBucket
    OBVIOUS
  <2>2. \A e \in Entries : b[e] = 0
    BY <2>1, <1>1 DEF Occupied
  <2>3. QED
    BY <2>2 DEF Bucket, EmptyBucket
<1>5. QED
  BY <1>2, <1>3, <1>4, EmptyBucketLen DEF Occupied

-----------------------------------------------------------------------------
(* Coordinates.                                                            *)

(* The coordinates of a bucket are finitely many numbers. *)
LEMMA CoordsType ==
    ASSUME NEW b \in Bucket, NEW dim \in 0 .. K - 1
    PROVE  Coords(b, dim) \in SUBSET Int /\ IsFiniteSet(Coords(b, dim))
<1>1. \A e \in Entries : e.point[dim] \in Int
  BY PointsAssumption DEF Entries
<1>2. Occupied(b) \in SUBSET Entries
  BY DEF Occupied
<1>3. IsFiniteSet(Occupied(b))
  BY <1>2, EntriesFinite, FS_Subset
<1> DEFINE f == [e \in Occupied(b) |-> e.point[dim]]
<1>4. f \in [Occupied(b) -> Coords(b, dim)]
  BY DEF Coords
<1>5. \A v \in Coords(b, dim) : \E e \in Occupied(b) : f[e] = v
  BY DEF Coords
<1> HIDE DEF f
<1>6. IsFiniteSet(Coords(b, dim))
  BY <1>3, <1>4, <1>5, FiniteImage
<1>7. QED
  BY <1>1, <1>2, <1>6 DEF Coords

(* A bucket divides into what is below a value and the rest. *)
LEMMA SidesType ==
    ASSUME NEW b \in Bucket, NEW dim, NEW v
    PROVE  Below(b, dim, v) \in Bucket /\ AtLeast(b, dim, v) \in Bucket
  BY DEF Bucket, Below, AtLeast

(* A value that is a coordinate of the bucket and above another one has    *)
(* something on either side.                                               *)
LEMMA SidesOccupied ==
    ASSUME NEW b \in Bucket, NEW dim \in 0 .. K - 1,
           NEW v \in Coords(b, dim), NEW w \in Coords(b, dim), w < v
    PROVE  /\ BucketLen(Below(b, dim, v)) \in 1 .. BucketLen(b) - 1
           /\ BucketLen(AtLeast(b, dim, v)) \in 1 .. BucketLen(b) - 1
<1> DEFINE l == Below(b, dim, v)
           r == AtLeast(b, dim, v)
<1>1. l \in Bucket /\ r \in Bucket
  BY SidesType
<1>2. v \in Int /\ w \in Int
  BY CoordsType
<1>3. PICK e \in Entries : b[e] > 0 /\ e.point[dim] = w
  BY DEF Coords, Occupied
<1>4. PICK g \in Entries : b[g] > 0 /\ g.point[dim] = v
  BY DEF Coords, Occupied
<1>5. l[e] = b[e] /\ r[e] = 0
  BY <1>2, <1>3 DEF Below, AtLeast
<1>6. l[g] = 0 /\ r[g] = b[g]
  BY <1>2, <1>4 DEF Below, AtLeast
<1>7. \A h \in Entries : l[h] <= b[h] /\ r[h] <= b[h]
  <2> TAKE h \in Entries
  <2>1. b[h] \in Nat
    BY DEF Bucket
  <2>2. l[h] \in {0, b[h]} /\ r[h] \in {0, b[h]}
    BY DEF Below, AtLeast
  <2> QED
    BY <2>1, <2>2
<1>8. b[e] \in Nat /\ b[g] \in Nat
  BY DEF Bucket
<1> HIDE DEF l, r
<1>9. BucketLen(l) > 0 /\ BucketLen(r) > 0
  <2>1. e \in Occupied(l) /\ g \in Occupied(r)
    BY <1>3, <1>4, <1>5, <1>6 DEF Occupied
  <2>2. QED
    BY <2>1, <1>1, OccupiedLen
<1>10. BucketLen(l) < BucketLen(b) /\ BucketLen(r) < BucketLen(b)
  <2>1. l[g] < b[g] /\ r[e] < b[e]
    BY <1>3, <1>4, <1>5, <1>6, <1>8
  <2>2. QED
    BY <2>1, <1>1, <1>7, BucketLenMonotone
<1>11. BucketLen(b) \in Nat /\ BucketLen(l) \in Nat /\ BucketLen(r) \in Nat
  BY <1>1, BucketLenType
<1>12. QED
  BY <1>9, <1>10, <1>11 DEF l, r

-----------------------------------------------------------------------------
(* The pivot of a split.                                                   *)

(* Each slot of a bucket has a value: the greatest coordinate that at most *)
(* the slots before it are below.                                          *)
LEMMA ValueAtRankType ==
    ASSUME NEW b \in Bucket, NEW dim \in 0 .. K - 1,
           NEW k \in 0 .. BucketLen(b) - 1
    PROVE  /\ ValueAtRank(b, dim, k) \in Coords(b, dim)
           /\ k < BucketLen(Below(b, dim, ValueAtRank(b, dim, k) + 1))
<1> DEFINE C == Coords(b, dim)
           len(v) == BucketLen(Below(b, dim, v))
           low == {v \in C : len(v) <= k}
<1>1. C \in SUBSET Int /\ IsFiniteSet(C) /\ BucketLen(b) \in Nat
  BY CoordsType, BucketLenType
<1>2. C # {}
  <2>1. BucketLen(b) > 0
    BY <1>1
  <2>2. QED
    BY <2>1, OccupiedLen DEF Coords
<1>3. \A e \in Entries : e.point[dim] \in Int /\ b[e] \in Nat
  BY PointsAssumption DEF Entries, Bucket
<1>4. low # {}
  <2>1. PICK m \in C : \A n \in C : m <= n
    BY <1>1, <1>2, LeastMember
  <2>2. \A e \in Entries : Below(b, dim, m)[e] = 0
    <3> TAKE e \in Entries
    <3>1. CASE b[e] > 0
      <4>1. m <= e.point[dim]
        BY <2>1, <3>1 DEF Coords, Occupied
      <4>2. QED
        BY <4>1, <2>1, <1>1, <1>3 DEF Below
    <3>2. CASE b[e] = 0
      BY <3>2 DEF Below
    <3> QED
      BY <3>1, <3>2, <1>3
  <2>3. Below(b, dim, m) = EmptyBucket
    BY <2>2, SidesType DEF Bucket, EmptyBucket
  <2>4. len(m) = 0
    BY <2>3, EmptyBucketLen
  <2>5. QED
    BY <2>1, <2>4, <1>1
<1>5. PICK v \in low : \A n \in low : n <= v
  <2>1. low \in SUBSET Int /\ IsFiniteSet(low)
    BY <1>1, FS_Subset
  <2> HIDE DEF low
  <2>2. QED
    BY <2>1, <1>4, GreatestMember
<1>6. v \in Int /\ v \in C /\ len(v) <= k
  BY <1>1, <1>5
<1>7. k < len(v + 1)
  <2>1. CASE \A n \in C : n <= v
    <3>1. \A e \in Entries : Below(b, dim, v + 1)[e] = b[e]
      <4> TAKE e \in Entries
      <4>1. CASE b[e] > 0
        <5>1. e.point[dim] <= v
          BY <2>1, <4>1 DEF Coords, Occupied
        <5>2. e.point[dim] < v + 1
          BY <5>1, <1>3, <1>6
        <5>3. QED
          BY <5>2 DEF Below
      <4>2. CASE b[e] = 0
        BY <4>2 DEF Below
      <4> QED
        BY <4>1, <4>2, <1>3
    <3>2. Below(b, dim, v + 1) = b
      BY <3>1, SidesType DEF Bucket
    <3>3. QED
      BY <3>2, <1>1
  <2>2. CASE \E n \in C : n > v
    <3> DEFINE above == {n \in C : n > v}
    <3>1. PICK w \in above : \A n \in above : w <= n
      <4>1. above \in SUBSET Int /\ IsFiniteSet(above) /\ above # {}
        BY <1>1, <2>2, FS_Subset
      <4> HIDE DEF above
      <4>2. QED
        BY <4>1, LeastMember
    <3>2. w \in Int /\ w \in C /\ w > v
      BY <3>1, <1>1
    <3>3. w \notin low
      BY <3>2, <1>5, <1>6
    <3>4. k < len(w)
      <4>1. len(w) \in Nat
        BY SidesType, BucketLenType
      <4>2. QED
        BY <4>1, <3>2, <3>3, <1>1
    <3>5. \A e \in Entries : Below(b, dim, w)[e] = Below(b, dim, v + 1)[e]
      <4> TAKE e \in Entries
      <4>1. CASE b[e] > 0
        <5>1. e.point[dim] \in C
          BY <4>1 DEF Coords, Occupied
        <5>2. e.point[dim] < w <=> e.point[dim] < v + 1
          BY <5>1, <3>1, <3>2, <1>3, <1>6
        <5>3. QED
          BY <5>2 DEF Below
      <4>2. CASE b[e] = 0
        BY <4>2 DEF Below
      <4> QED
        BY <4>1, <4>2, <1>3
    <3>6. Below(b, dim, w) = Below(b, dim, v + 1)
      BY <3>5, SidesType DEF Bucket
    <3>7. QED
      BY <3>4, <3>6
  <2>3. QED
    BY <2>1, <2>2, <1>1, <1>6
<1>8. QED
  BY <1>6, <1>7 DEF ValueAtRank

(* A bucket that can be split has pivots, and each of them is one of its   *)
(* coordinates and above another one.                                      *)
LEMMA SplitValuesInside ==
    ASSUME NEW b \in Bucket, NEW dim \in 0 .. K - 1,
           NEW k \in 0 .. BucketLen(b) - 1, Splittable(b, dim)
    PROVE  /\ SplitValues(b, dim, k) # {}
           /\ SplitValues(b, dim, k) \subseteq Coords(b, dim)
           /\ \A v \in SplitValues(b, dim, k) :
                 \E w \in Coords(b, dim) : w < v
<1> DEFINE C == Coords(b, dim)
           v == ValueAtRank(b, dim, k)
<1>1. v \in C /\ C \in SUBSET Int
  BY ValueAtRankType, CoordsType
<1>2. PICK x \in C, y \in C : x # y
  BY DEF Splittable, Coords
<1>3. CASE \E w \in C : w < v
  <2>1. SplitValues(b, dim, k) = {v}
    BY <1>3 DEF SplitValues
  <2>2. QED
    BY <2>1, <1>1, <1>3
<1>4. CASE ~\E w \in C : w < v
  <2>1. SplitValues(b, dim, k) = {w \in C : w > v}
    BY <1>4 DEF SplitValues
  <2>2. x > v \/ y > v
    BY <1>1, <1>2, <1>4
  <2>3. QED
    BY <2>1, <2>2, <1>1, <1>2
<1>5. QED
  BY <1>3, <1>4

(* So either side of a split holds something, and less than the whole. *)
LEMMA SplitValuesDivide ==
    ASSUME NEW b \in Bucket, NEW dim \in 0 .. K - 1,
           NEW k \in 0 .. BucketLen(b) - 1, Splittable(b, dim),
           NEW v \in SplitValues(b, dim, k)
    PROVE  /\ v \in Int
           /\ BucketLen(Below(b, dim, v)) \in 1 .. BucketLen(b) - 1
           /\ BucketLen(AtLeast(b, dim, v)) \in 1 .. BucketLen(b) - 1
<1>1. v \in Coords(b, dim) /\ \E w \in Coords(b, dim) : w < v
  BY SplitValuesInside
<1>2. v \in Int
  BY <1>1, CoordsType
<1>3. QED
  BY <1>1, <1>2, SidesOccupied

(* The pivot of a sorted chunk is one of them. *)
LEMMA SplitValueChosen ==
    ASSUME NEW b \in Bucket, NEW dim \in 0 .. K - 1,
           NEW k \in 0 .. BucketLen(b) - 1, Splittable(b, dim)
    PROVE  SplitValue(b, dim, k) \in SplitValues(b, dim, k)
<1> DEFINE values == SplitValues(b, dim, k)
<1>1. values # {} /\ values \subseteq Coords(b, dim)
  BY SplitValuesInside
<1>2. values \in SUBSET Int /\ IsFiniteSet(values)
  BY <1>1, CoordsType, FS_Subset
<1>3. \E v \in values : \A w \in values : v <= w
  <2> HIDE DEF values
  <2> QED
    BY <1>1, <1>2, LeastMember
<1>4. QED
  BY <1>3 DEF SplitValue
-----------------------------------------------------------------------------
(* Sequences of buckets: a tree's leaves, a construction's chunks.         *)

(* The slots entry e takes in the elements t of a sequence, and so how     *)
(* often those elements hold each entry.                                   *)
SlotsIn(s, t, e) == UNION {{k} \X (1 .. s[k][e]) : k \in t}

Held(s, t) == [e \in Entries |-> Cardinality(SlotsIn(s, t, e))]

(* Numbered slots of one thing are as many as the numbers. *)
LEMMA SlotCount ==
    ASSUME NEW k, NEW n \in Nat
    PROVE  IsFiniteSet({k} \X (1 .. n)) /\ Cardinality({k} \X (1 .. n)) = n
<1> DEFINE S == {k}
           T == 1 .. n
<1>1. IsFiniteSet(S) /\ Cardinality(S) = 1
  BY FS_Singleton
<1>2. IsFiniteSet(T) /\ Cardinality(T) = n
  BY FS_Interval
<1> HIDE DEF S, T
<1>3. IsFiniteSet(S \X T) /\ Cardinality(S \X T) = 1 * n
  BY <1>1, <1>2, FS_Product
<1>4. QED
  BY <1>3 DEF S, T

(* It is a bucket. *)
LEMMA HeldType ==
    ASSUME NEW s, NEW t, IsFiniteSet(t), \A k \in t : s[k] \in Bucket
    PROVE  /\ \A e \in Entries : IsFiniteSet(SlotsIn(s, t, e))
           /\ Held(s, t) \in Bucket
<1>1. ASSUME NEW e \in Entries PROVE IsFiniteSet(SlotsIn(s, t, e))
  <2> DEFINE copies(k) == {k} \X (1 .. s[k][e])
             all == {copies(k) : k \in t}
             f == [k \in t |-> copies(k)]
  <2>1. IsFiniteSet(all)
    <3>1. f \in [t -> all] /\ \A c \in all : \E k \in t : f[k] = c
      OBVIOUS
    <3> HIDE DEF f, all
    <3>2. QED
      BY <3>1, FiniteImage
  <2>2. \A c \in all : IsFiniteSet(c)
    <3>1. SUFFICES ASSUME NEW k \in t PROVE IsFiniteSet(copies(k))
      OBVIOUS
    <3>2. s[k][e] \in Nat
      BY DEF Bucket
    <3>3. QED
      BY <3>2, SlotCount
  <2>3. SlotsIn(s, t, e) = UNION all
    BY DEF SlotsIn
  <2> HIDE DEF all
  <2>4. QED
    BY <2>1, <2>2, <2>3, FS_UNION
<1>2. \A e \in Entries : Cardinality(SlotsIn(s, t, e)) \in Nat
  BY <1>1, FS_CardinalityType
<1>3. QED
  BY <1>1, <1>2 DEF Held, Bucket

(* Nothing is held by no elements, and one element holds what it is. *)
LEMMA HeldByFew ==
    /\ \A s : Held(s, {}) = EmptyBucket
    /\ \A s, k : s[k] \in Bucket => Held(s, {k}) = s[k]
<1>1. \A s : Held(s, {}) = EmptyBucket
  <2> TAKE s
  <2>1. \A e \in Entries : SlotsIn(s, {}, e) = {}
    BY DEF SlotsIn
  <2> QED
    BY <2>1, FS_EmptySet DEF Held, EmptyBucket
<1>2. ASSUME NEW s, NEW k, s[k] \in Bucket PROVE Held(s, {k}) = s[k]
  <2>1. ASSUME NEW e \in Entries PROVE Cardinality(SlotsIn(s, {k}, e)) = s[k][e]
    <3>1. s[k][e] \in Nat
      BY <1>2 DEF Bucket
    <3>2. SlotsIn(s, {k}, e) = {k} \X (1 .. s[k][e])
      BY DEF SlotsIn
    <3>3. QED
      BY <3>1, <3>2, SlotCount
  <2>2. QED
    BY <1>2, <2>1 DEF Held, Bucket
<1>3. QED
  BY <1>1, <1>2

(* Disjoint elements hold together what each of them does. *)
LEMMA HeldTogether ==
    ASSUME NEW s, NEW t, NEW u, IsFiniteSet(t), IsFiniteSet(u),
           \A k \in t \cup u : s[k] \in Bucket, t \cap u = {}
    PROVE  Held(s, t \cup u) = Plus(Held(s, t), Held(s, u))
<1>1. SUFFICES ASSUME NEW e \in Entries
               PROVE  Cardinality(SlotsIn(s, t \cup u, e))
                         = Cardinality(SlotsIn(s, t, e))
                           + Cardinality(SlotsIn(s, u, e))
  BY DEF Held, Plus
<1>2. SlotsIn(s, t \cup u, e) = SlotsIn(s, t, e) \cup SlotsIn(s, u, e)
  BY DEF SlotsIn
<1>3. SlotsIn(s, t, e) \cap SlotsIn(s, u, e) = {}
  <2>1. SUFFICES ASSUME NEW k \in t, NEW l \in u, NEW x,
                        x \in {k} \X (1 .. s[k][e]),
                        x \in {l} \X (1 .. s[l][e])
                 PROVE  FALSE
    BY DEF SlotsIn
  <2>2. x[1] = k /\ x[1] = l
    BY <2>1
  <2>3. QED
    BY <2>2
<1>4. IsFiniteSet(SlotsIn(s, t, e)) /\ IsFiniteSet(SlotsIn(s, u, e))
  BY HeldType
<1>5. QED
  <2> DEFINE S == SlotsIn(s, t, e)
             T == SlotsIn(s, u, e)
  <2>1. IsFiniteSet(S) /\ IsFiniteSet(T) /\ S \cap T = {}
    BY <1>3, <1>4
  <2>2. SlotsIn(s, t \cup u, e) = S \cup T
    BY <1>2
  <2> HIDE DEF S, T
  <2>3. Cardinality(S \cup T) = Cardinality(S) + Cardinality(T)
    BY <2>1, DisjointCount
  <2>4. QED
    BY <2>2, <2>3 DEF S, T

(* It does not matter where in a sequence they are. *)
LEMMA HeldElsewhere ==
    ASSUME NEW s, NEW t, NEW r, NEW u, IsFiniteSet(t),
           \A k \in t : s[k] \in Bucket,
           NEW g \in Bijection(t, u), \A k \in t : r[g[k]] = s[k]
    PROVE  Held(s, t) = Held(r, u)
<1>1. SUFFICES ASSUME NEW e \in Entries
               PROVE  Cardinality(SlotsIn(s, t, e)) = Cardinality(SlotsIn(r, u, e))
  BY DEF Held
<1>2. /\ g \in [t -> u]
      /\ \A x, y \in t : g[x] = g[y] => x = y
      /\ \A y \in u : \E x \in t : g[x] = y
  BY DEF Bijection, Injection, Surjection, IsInjective
<1> DEFINE S == SlotsIn(s, t, e)
           R == SlotsIn(r, u, e)
           f == [x \in S |-> <<g[x[1]], x[2]>>]
<1>3. S = {x \in t \X Nat : x[2] \in 1 .. s[x[1]][e]}
  <2>1. \A k \in t : s[k][e] \in Nat
    BY DEF Bucket
  <2>2. QED
    BY <2>1 DEF SlotsIn
<1>4. R = {x \in u \X Nat : x[2] \in 1 .. r[x[1]][e]}
  <2>1. \A k \in u : r[k][e] \in Nat
    BY <1>2 DEF Bucket
  <2>2. QED
    BY <2>1 DEF SlotsIn
<1> HIDE DEF S, R
<1>5. ASSUME NEW x \in S
      PROVE  x[1] \in t /\ x[2] \in 1 .. s[x[1]][e] /\ x = <<x[1], x[2]>>
  BY <1>3
<1>6. ASSUME NEW x \in S PROVE f[x] \in R
  <2>1. g[x[1]] \in u /\ r[g[x[1]]] = s[x[1]] /\ x[2] \in Nat
    BY <1>2, <1>5, <1>3
  <2>2. QED
    BY <2>1, <1>4, <1>5
<1>7. \A x, y \in S : f[x] = f[y] => x = y
  <2> SUFFICES ASSUME NEW x \in S, NEW y \in S, f[x] = f[y] PROVE x = y
    OBVIOUS
  <2>1. g[x[1]] = g[y[1]] /\ x[2] = y[2]
    OBVIOUS
  <2> QED
    BY <2>1, <1>2, <1>5
<1>8. ASSUME NEW y \in R PROVE \E x \in S : f[x] = y
  <2>1. y[1] \in u /\ y[2] \in Nat /\ y[2] \in 1 .. r[y[1]][e] /\ y = <<y[1], y[2]>>
    BY <1>4
  <2>2. PICK k \in t : g[k] = y[1]
    BY <2>1, <1>2
  <2>3. <<k, y[2]>> \in S
    BY <2>1, <2>2, <1>3
  <2>4. f[<<k, y[2]>>] = y
    BY <2>1, <2>2, <2>3
  <2>5. QED
    BY <2>3, <2>4
<1>9. f \in Bijection(S, R)
  <2>1. f \in [S -> R]
    BY <1>6
  <2> HIDE DEF f
  <2>2. QED
    BY <2>1, <1>7, <1>8 DEF Bijection, Injection, Surjection, IsInjective
<1> HIDE DEF f
<1>10. IsFiniteSet(S)
  BY HeldType DEF S
<1>11. QED
  BY <1>9, <1>10, FS_Bijection DEF ExistsBijection, S, R

(* Adding up the elements of a sequence of buckets from the left, as the   *)
(* properties do, counts the slots of all of them.                         *)
LEMMA FoldHeld ==
    ASSUME NEW s \in Seq(Bucket)
    PROVE  FoldLeft(Plus, EmptyBucket, s) = Held(s, DOMAIN s)
<1> DEFINE D == DOMAIN s
           fold == [t \in SUBSET D |-> Held(s, t)]
           Adds(f) == f = [t \in SUBSET D |->
                              IF t = {} THEN EmptyBucket
                              ELSE Plus(f[t \ {Max(t)}], s[Max(t)])]
           F == FiniteSubsetsOf(D)
           R == StrictSubsetOrdering(D)
<1>1. /\ D = 1 .. Len(s) /\ Len(s) \in Nat /\ IsFiniteSet(D)
      /\ \A k \in D : s[k] \in Bucket
  BY FS_Interval, LenProperties
<1>2. ASSUME NEW t \in SUBSET D
      PROVE  /\ IsFiniteSet(t)
             /\ t # {} => /\ Max(t) \in t
                          /\ Held(s, t) = Plus(Held(s, t \ {Max(t)}), s[Max(t)])
  <2>1. IsFiniteSet(t)
    BY <1>1, FS_Subset
  <2>2. ASSUME t # {} PROVE Max(t) \in t
    <3>1. t \in SUBSET Int
      BY <1>1
    <3>2. \E m \in t : \A n \in t : n <= m
      BY <3>1, <2>1, <2>2, GreatestMember
    <3>3. \E m \in t : \A n \in t : m >= n
      BY <3>1, <3>2
    <3>4. QED
      BY <3>3 DEF Max
  <2>3. ASSUME t # {}
        PROVE  Held(s, t) = Plus(Held(s, t \ {Max(t)}), s[Max(t)])
    <3> DEFINE x == Max(t)
               u == t \ {x}
    <3>1. x \in t
      BY <2>2, <2>3
    <3> HIDE DEF x
    <3>2. t = u \cup {x} /\ u \cap {x} = {}
      BY <3>1
    <3>3. IsFiniteSet(u) /\ IsFiniteSet({x})
      BY <2>1, FS_Subset, FS_Singleton
    <3>4. \A k \in u \cup {x} : s[k] \in Bucket
      BY <1>1, <3>1
    <3>5. Held(s, {x}) = s[x]
      BY <1>1, <3>1, HeldByFew
    <3>6. Held(s, u \cup {x}) = Plus(Held(s, u), Held(s, {x}))
      <4> HIDE DEF u
      <4> QED
        BY <3>2, <3>3, <3>4, HeldTogether
    <3>7. QED
      BY <3>2, <3>5, <3>6 DEF x
  <2>4. QED
    BY <2>1, <2>2, <2>3
<1>3. Adds(fold)
  <2>1. \A t \in SUBSET D :
           fold[t] = IF t = {} THEN EmptyBucket
                     ELSE Plus(fold[t \ {Max(t)}], s[Max(t)])
    <3> TAKE t \in SUBSET D
    <3>1. t \ {Max(t)} \in SUBSET D
      OBVIOUS
    <3>2. fold[t] = Held(s, t) /\ fold[t \ {Max(t)}] = Held(s, t \ {Max(t)})
      BY <3>1
    <3> HIDE DEF fold
    <3>3. QED
      BY <3>2, <1>2, HeldByFew
  <2>2. QED
    BY <2>1
<1>4. ASSUME NEW f, Adds(f) PROVE \A t \in SUBSET D : f[t] = Held(s, t)
  <2>1. SUFFICES ASSUME NEW a \in SUBSET D, f[a] # Held(s, a) PROVE FALSE
    OBVIOUS
  <2> DEFINE bad == {t \in SUBSET D : f[t] # Held(s, t)}
  <2>2. bad \subseteq F /\ bad # {}
    BY <2>1, <1>2 DEF FiniteSubsetsOf
  <2>3. IsWellFoundedOn(R, F)
    BY FS_StrictSubsetOrderingWellFounded
  <2>4. PICK t \in bad : \A y \in bad : ~(<<y, t>> \in R)
    <3> HIDE DEF bad, R, F
    <3> QED
      BY <2>2, <2>3, WFMin
  <2>5. t \in SUBSET D
    OBVIOUS
  <2>6. f[t] = IF t = {} THEN EmptyBucket
               ELSE Plus(f[t \ {Max(t)}], s[Max(t)])
    BY <1>4, <2>5
  <2>7. t # {}
    <3>1. ASSUME t = {} PROVE FALSE
      <4>1. f[t] = EmptyBucket
        BY <2>6, <3>1
      <4>2. Held(s, t) = EmptyBucket
        BY <3>1, HeldByFew
      <4>3. QED
        BY <4>1, <4>2
    <3>2. QED
      BY <3>1
  <2> DEFINE u == t \ {Max(t)}
  <2>8. Max(t) \in t /\ Held(s, t) = Plus(Held(s, u), s[Max(t)])
    BY <1>2, <2>5, <2>7
  <2>9. f[u] = Held(s, u)
    <3>1. u \in SUBSET D /\ u \subseteq t /\ u # t
      BY <2>5, <2>8
    <3>2. <<u, t>> \in R
      <4> HIDE DEF u
      <4> QED
        BY <3>1, <2>5 DEF StrictSubsetOrdering
    <3>3. u \notin bad
      BY <3>2, <2>4
    <3>4. QED
      BY <3>1, <3>3
  <2>10. f[t] = Held(s, t)
    BY <2>6, <2>7, <2>8, <2>9
  <2>11. QED
    BY <2>10
<1>5. FoldLeft(Plus, EmptyBucket, s) = (CHOOSE f : Adds(f))[D]
  BY DEF FoldLeft, MapThenFoldSet
<1>6. Adds(CHOOSE f : Adds(f))
  <2> HIDE DEF Adds, fold
  <2> QED
    BY <1>3
<1>7. QED
  <2> HIDE DEF Adds
  <2> QED
    BY <1>4, <1>5, <1>6

(* Adding buckets up. *)
LEMMA PlusLaws ==
    ASSUME NEW b \in Bucket, NEW c \in Bucket, NEW d \in Bucket
    PROVE  /\ Plus(b, c) \in Bucket
           /\ Plus(b, c) = Plus(c, b)
           /\ Plus(Plus(b, c), d) = Plus(b, Plus(c, d))
           /\ Plus(EmptyBucket, b) = b
<1>1. \A e \in Entries : b[e] \in Nat /\ c[e] \in Nat /\ d[e] \in Nat
  BY DEF Bucket
<1>2. Plus(b, c) \in Bucket
  BY <1>1 DEF Plus, Bucket
<1>3. \A e \in Entries : b[e] + c[e] = c[e] + b[e]
  BY <1>1
<1>4. \A e \in Entries : (b[e] + c[e]) + d[e] = b[e] + (c[e] + d[e])
  BY <1>1
<1>5. \A e \in Entries : 0 + b[e] = b[e]
  BY <1>1
<1>6. Plus(EmptyBucket, b) = b
  BY <1>5 DEF Plus, Bucket, EmptyBucket
<1>7. QED
  BY <1>2, <1>3, <1>4, <1>6 DEF Plus

(* The elements but one, and that one. *)
LEMMA FoldApart ==
    ASSUME NEW s \in Seq(Bucket), NEW m \in DOMAIN s
    PROVE  /\ IsFiniteSet(DOMAIN s \ {m})
           /\ Held(s, DOMAIN s \ {m}) \in Bucket
           /\ s[m] \in Bucket
           /\ FoldLeft(Plus, EmptyBucket, s) = Plus(Held(s, DOMAIN s \ {m}), s[m])
<1> DEFINE rest == DOMAIN s \ {m}
<1>1. IsFiniteSet(DOMAIN s) /\ \A k \in DOMAIN s : s[k] \in Bucket
  BY FS_Interval, LenProperties
<1>2. IsFiniteSet(rest) /\ IsFiniteSet({m})
  BY <1>1, FS_Subset, FS_Singleton
<1>3. DOMAIN s = rest \cup {m} /\ rest \cap {m} = {}
  OBVIOUS
<1> HIDE DEF rest
<1>4. \A k \in rest \cup {m} : s[k] \in Bucket
  BY <1>1, <1>3
<1>5. Held(s, rest \cup {m}) = Plus(Held(s, rest), Held(s, {m}))
  BY <1>2, <1>3, <1>4, HeldTogether
<1>6. Held(s, {m}) = s[m]
  BY <1>1, HeldByFew
<1>7. Held(s, rest) \in Bucket
  BY <1>2, <1>4, HeldType
<1>8. QED
  BY <1>1, <1>2, <1>3, <1>5, <1>6, <1>7, FoldHeld DEF rest

(* A sequence of one bucket adds up to it. *)
LEMMA FoldOne ==
    ASSUME NEW b \in Bucket
    PROVE  FoldLeft(Plus, EmptyBucket, <<b>>) = b
<1>1. <<b>> \in Seq(Bucket) /\ DOMAIN <<b>> = {1} /\ <<b>>[1] = b
  OBVIOUS
<1>2. Held(<<b>>, {1}) = b
  BY <1>1, HeldByFew
<1>3. QED
  BY <1>1, <1>2, FoldHeld

(* The places of a sequence of n elements but the m-th, when that one      *)
(* makes room for two: in its place, or for one there and one at the end.  *)
InPlace(n, m)  == [k \in (1 .. n) \ {m} |-> IF k < m THEN k ELSE k + 1]
AtTheEnd(n, m) == [k \in (1 .. n) \ {m} |-> k]

LEMMA Room ==
    ASSUME NEW n \in Nat, NEW m \in 1 .. n
    PROVE  /\ InPlace(n, m) \in Bijection((1 .. n) \ {m},
                                          (1 .. n + 1) \ {m, m + 1})
           /\ AtTheEnd(n, m) \in Bijection((1 .. n) \ {m},
                                           (1 .. n + 1) \ {m, n + 1})
<1> DEFINE t == (1 .. n) \ {m}
<1>1. InPlace(n, m) \in Bijection(t, (1 .. n + 1) \ {m, m + 1})
  <2> DEFINE g == [k \in t |-> IF k < m THEN k ELSE k + 1]
             u == (1 .. n + 1) \ {m, m + 1}
  <2>1. \A k \in t : g[k] \in u
    OBVIOUS
  <2>2. \A x, y \in t : g[x] = g[y] => x = y
    OBVIOUS
  <2>3. \A y \in u : \E x \in t : g[x] = y
    <3> TAKE y \in u
    <3> DEFINE x == IF y < m THEN y ELSE y - 1
    <3>1. x \in t /\ g[x] = y
      OBVIOUS
    <3> QED
      BY <3>1
  <2>4. g \in [t -> u]
    BY <2>1
  <2>5. g = InPlace(n, m)
    BY DEF InPlace
  <2> HIDE DEF g, t, u
  <2>6. g \in Bijection(t, u)
    BY <2>2, <2>3, <2>4 DEF Bijection, Injection, Surjection, IsInjective
  <2>7. QED
    BY <2>5, <2>6 DEF u
<1>2. AtTheEnd(n, m) \in Bijection(t, (1 .. n + 1) \ {m, n + 1})
  <2> DEFINE g == [k \in t |-> k]
             u == (1 .. n + 1) \ {m, n + 1}
  <2>1. t = u
    OBVIOUS
  <2>2. g = AtTheEnd(n, m)
    BY DEF AtTheEnd
  <2>3. \A x, y \in t : g[x] = g[y] => x = y
    OBVIOUS
  <2>4. \A y \in u : \E x \in t : g[x] = y
    BY <2>1
  <2>5. g \in [t -> u]
    BY <2>1
  <2> HIDE DEF g, t, u
  <2>6. g \in Bijection(t, u)
    BY <2>3, <2>4, <2>5 DEF Bijection, Injection, Surjection, IsInjective
  <2>7. QED
    BY <2>2, <2>6 DEF u
<1>3. QED
  BY <1>1, <1>2

(* Two elements of r, at a and b, stand in the place of the m-th of s; the *)
(* others are those of s, one to one by g.                                 *)
DividedAt(s, r, m, a, b, g) ==
    /\ m \in DOMAIN s /\ a \in DOMAIN r /\ b \in DOMAIN r /\ a # b
    /\ g \in Bijection(DOMAIN s \ {m}, DOMAIN r \ {a, b})
    /\ \A k \in DOMAIN s \ {m} : r[g[k]] = s[k]

(* When the two add up to that one, r adds up to what s does. *)
LEMMA FoldDivided ==
    ASSUME NEW s \in Seq(Bucket), NEW r \in Seq(Bucket),
           NEW m, NEW a, NEW b, NEW g, DividedAt(s, r, m, a, b, g),
           s[m] = Plus(r[a], r[b])
    PROVE  FoldLeft(Plus, EmptyBucket, r) = FoldLeft(Plus, EmptyBucket, s)
<1> DEFINE t == DOMAIN s \ {m}
           u == DOMAIN r \ {a, b}
           v == DOMAIN r \ {a}
<1>0. /\ m \in DOMAIN s /\ a \in DOMAIN r /\ b \in DOMAIN r /\ a # b
      /\ g \in Bijection(t, u)
      /\ \A k \in t : r[g[k]] = s[k]
  BY DEF DividedAt
<1>1. \A k \in DOMAIN s : s[k] \in Bucket
  BY LenProperties
<1>2. \A k \in DOMAIN r : r[k] \in Bucket
  BY LenProperties
<1>3. IsFiniteSet(DOMAIN r)
  <2>1. DOMAIN r = 1 .. Len(r) /\ Len(r) \in Int
    BY LenProperties
  <2>2. QED
    BY <2>1, FS_Interval
<1>4. Held(s, t) = Held(r, u)
  <2>1. IsFiniteSet(t) /\ \A k \in t : s[k] \in Bucket
    BY <1>0, <1>1, FoldApart
  <2> HIDE DEF t, u
  <2>2. QED
    BY <2>1, <1>0, HeldElsewhere
<1>5. Held(r, v) = Plus(Held(r, u), r[b])
  <2>1. v = u \cup {b} /\ u \cap {b} = {}
    BY <1>0
  <2>2. IsFiniteSet(u) /\ IsFiniteSet({b})
    BY <1>3, FS_Subset, FS_Singleton
  <2>3. \A k \in u \cup {b} : r[k] \in Bucket
    BY <1>0, <1>2
  <2>4. Held(r, {b}) = r[b]
    BY <1>0, <1>2, HeldByFew
  <2> HIDE DEF u, v
  <2>5. QED
    BY <2>1, <2>2, <2>3, <2>4, HeldTogether
<1>6. FoldLeft(Plus, EmptyBucket, r) = Plus(Held(r, v), r[a])
  BY <1>0, FoldApart
<1>7. FoldLeft(Plus, EmptyBucket, s) = Plus(Held(s, t), s[m])
  BY <1>0, FoldApart
<1>8. Held(s, t) \in Bucket /\ r[a] \in Bucket /\ r[b] \in Bucket
  BY <1>0, <1>2, FoldApart
<1> HIDE DEF t, u, v
<1> DEFINE h == Held(s, t)
<1>9. FoldLeft(Plus, EmptyBucket, r) = Plus(Plus(h, r[b]), r[a])
  BY <1>4, <1>5, <1>6
<1>10. FoldLeft(Plus, EmptyBucket, s) = Plus(h, Plus(r[a], r[b]))
  BY <1>7
<1>11. Plus(r[a], r[b]) = Plus(r[b], r[a])
  BY <1>8, PlusLaws
<1>12. Plus(Plus(h, r[b]), r[a]) = Plus(h, Plus(r[b], r[a]))
  <2> DEFINE x == r[a]
             y == r[b]
  <2>1. h \in Bucket /\ x \in Bucket /\ y \in Bucket
    BY <1>8
  <2> HIDE DEF h, x, y
  <2>2. Plus(Plus(h, y), x) = Plus(h, Plus(y, x))
    BY <2>1, PlusLaws
  <2>3. QED
    BY <2>2 DEF x, y
<1>13. QED
  BY <1>9, <1>10, <1>11, <1>12

(* The two sides of a value add up to the bucket. *)
LEMMA SidesAddUp ==
    ASSUME NEW b \in Bucket, NEW dim \in 0 .. K - 1, NEW v \in Int
    PROVE  b = Plus(Below(b, dim, v), AtLeast(b, dim, v))
<1> DEFINE l == Below(b, dim, v)
           r == AtLeast(b, dim, v)
<1>1. ASSUME NEW e \in Entries PROVE l[e] + r[e] = b[e]
  <2>1. e.point[dim] \in Int /\ b[e] \in Nat
    BY PointsAssumption DEF Entries, Bucket
  <2>2. l[e] = IF e.point[dim] < v THEN b[e] ELSE 0
    BY DEF Below
  <2>3. r[e] = IF e.point[dim] >= v THEN b[e] ELSE 0
    BY DEF AtLeast
  <2> HIDE DEF l, r
  <2>4. QED
    BY <2>1, <2>2, <2>3
<1> HIDE DEF l, r
<1>2. b = Plus(l, r)
  BY <1>1 DEF Plus, Bucket
<1>3. QED
  BY <1>2 DEF l, r
-----------------------------------------------------------------------------
(* What the calls of a tree do to a bucket.                                *)

(* Two buckets take together as many slots as each of them.                *)
LEMMA PlusLen ==
    ASSUME NEW b \in Bucket, NEW c \in Bucket
    PROVE  BucketLen(Plus(b, c)) = BucketLen(b) + BucketLen(c)
<1> DEFINE S == Slots(b)
           C == Slots(c)
           P == Slots(Plus(b, c))
           T == {x \in P : x[2] > b[x[1]]}
           f == [x \in C |-> <<x[1], b[x[1]] + x[2]>>]
<1>1. \A e \in Entries : b[e] \in Nat /\ c[e] \in Nat /\ Plus(b, c)[e] = b[e] + c[e]
  BY DEF Bucket, Plus
<1>2. S = {x \in Entries \X Nat : x[2] \in 1 .. b[x[1]]}
  BY <1>1 DEF Slots
<1>3. C = {x \in Entries \X Nat : x[2] \in 1 .. c[x[1]]}
  BY <1>1 DEF Slots
<1>4. P = {x \in Entries \X Nat : x[2] \in 1 .. b[x[1]] + c[x[1]]}
  BY <1>1 DEF Slots
<1> HIDE DEF S, C, P
<1>5. ASSUME NEW x \in Entries \X Nat
      PROVE  x[1] \in Entries /\ x[2] \in Nat /\ x = <<x[1], x[2]>>
  OBVIOUS
<1>6. P = S \cup T /\ S \cap T = {}
  <2>1. ASSUME NEW x \in P PROVE x \in S \/ x \in T
    <3>1. x \in Entries \X Nat /\ x[2] \in 1 .. b[x[1]] + c[x[1]]
      BY <1>4
    <3>2. x[2] \in Nat /\ b[x[1]] \in Nat
      BY <3>1, <1>1, <1>5
    <3>3. x[2] > b[x[1]] \/ x[2] \in 1 .. b[x[1]]
      BY <3>1, <3>2
    <3>4. QED
      BY <3>1, <3>3, <1>2
  <2>2. ASSUME NEW x \in S PROVE x \in P /\ x \notin T
    <3>1. x \in Entries \X Nat /\ x[2] \in 1 .. b[x[1]]
      BY <1>2
    <3>2. x[2] \in Nat /\ b[x[1]] \in Nat /\ c[x[1]] \in Nat
      BY <3>1, <1>1, <1>5
    <3>3. x[2] \in 1 .. b[x[1]] + c[x[1]] /\ ~(x[2] > b[x[1]])
      BY <3>1, <3>2
    <3>4. QED
      BY <3>1, <3>3, <1>4
  <2>3. QED
    BY <2>1, <2>2
<1>7. IsFiniteSet(S) /\ IsFiniteSet(C) /\ IsFiniteSet(P)
  BY BucketLenType, PlusLaws DEF S, C, P
<1>8. IsFiniteSet(T)
  BY <1>7, FS_Subset
<1>9. ASSUME NEW x \in C PROVE f[x] \in T
  <2>1. x \in Entries \X Nat /\ x[2] \in 1 .. c[x[1]]
    BY <1>3
  <2>2. x[1] \in Entries /\ x[2] \in Nat /\ b[x[1]] \in Nat /\ c[x[1]] \in Nat
    BY <2>1, <1>1, <1>5
  <2>3. b[x[1]] + x[2] \in 1 .. b[x[1]] + c[x[1]] /\ b[x[1]] + x[2] > b[x[1]]
        /\ b[x[1]] + x[2] \in Nat
    BY <2>1, <2>2
  <2>4. f[x] = <<x[1], b[x[1]] + x[2]>>
    OBVIOUS
  <2> DEFINE y == <<x[1], b[x[1]] + x[2]>>
  <2>5. y \in Entries \X Nat /\ y[1] = x[1] /\ y[2] = b[x[1]] + x[2]
    BY <2>2, <2>3
  <2> HIDE DEF y
  <2>6. y \in P
    BY <2>3, <2>5, <1>4
  <2>7. y \in T
    BY <2>3, <2>5, <2>6
  <2>8. QED
    BY <2>4, <2>7 DEF y
<1>10. \A x, y \in C : f[x] = f[y] => x = y
  <2> SUFFICES ASSUME NEW x \in C, NEW y \in C, f[x] = f[y] PROVE x = y
    OBVIOUS
  <2>1. x \in Entries \X Nat /\ y \in Entries \X Nat
    BY <1>3
  <2>2. x[1] = y[1] /\ b[x[1]] + x[2] = b[y[1]] + y[2]
    OBVIOUS
  <2>3. x[2] \in Nat /\ y[2] \in Nat /\ b[x[1]] \in Nat
    BY <2>1, <1>1, <1>5
  <2>4. x[2] = y[2]
    BY <2>2, <2>3
  <2> QED
    BY <2>1, <2>2, <2>4, <1>5
<1>11. ASSUME NEW y \in T PROVE \E x \in C : f[x] = y
  <2>1. y \in Entries \X Nat /\ y[2] \in 1 .. b[y[1]] + c[y[1]] /\ y[2] > b[y[1]]
    BY <1>4
  <2>2. y[1] \in Entries /\ y[2] \in Nat /\ b[y[1]] \in Nat /\ c[y[1]] \in Nat
        /\ y = <<y[1], y[2]>>
    BY <2>1, <1>1, <1>5
  <2> DEFINE i == y[2] - b[y[1]]
             x == <<y[1], i>>
  <2>3. i \in Nat /\ i \in 1 .. c[y[1]] /\ b[y[1]] + i = y[2]
    BY <2>1, <2>2
  <2> HIDE DEF i
  <2>4. x \in Entries \X Nat /\ x[1] = y[1] /\ x[2] = i
    BY <2>2, <2>3
  <2> HIDE DEF x
  <2>5. x \in C
    BY <2>3, <2>4, <1>3
  <2>6. f[x] = y
    BY <2>2, <2>3, <2>4, <2>5
  <2>7. QED
    BY <2>5, <2>6
<1>12. f \in Bijection(C, T)
  <2>1. f \in [C -> T]
    BY <1>9
  <2> HIDE DEF f, T
  <2>2. QED
    BY <2>1, <1>10, <1>11 DEF Bijection, Injection, Surjection, IsInjective
<1> HIDE DEF f, T
<1>13. Cardinality(C) = Cardinality(T)
  BY <1>7, <1>12, FS_Bijection DEF ExistsBijection
<1>14. Cardinality(P) = Cardinality(S) + Cardinality(T)
  BY <1>6, <1>7, <1>8, DisjointCount
<1>15. QED
  BY <1>13, <1>14 DEF BucketLen, S, C, P

(* n copies of one entry. *)
Copies(e, n) == [g \in Entries |-> IF g = e THEN n ELSE 0]

LEMMA CopiesLen ==
    ASSUME NEW e \in Entries, NEW n \in Nat
    PROVE  Copies(e, n) \in Bucket /\ BucketLen(Copies(e, n)) = n
<1>1. Copies(e, n) \in Bucket
  BY DEF Copies, Bucket
<1>2. Slots(Copies(e, n)) = {e} \X (1 .. n)
  <2>1. \A g \in Entries : Copies(e, n)[g] = IF g = e THEN n ELSE 0
    BY DEF Copies
  <2>2. ASSUME NEW x \in Slots(Copies(e, n)) PROVE x \in {e} \X (1 .. n)
    <3>1. PICK g \in Entries : x \in {g} \X (1 .. Copies(e, n)[g])
      BY DEF Slots
    <3>2. g = e
      <4>1. ASSUME g # e PROVE FALSE
        <5>1. x[2] \in 1 .. 0
          BY <3>1, <4>1, <2>1
        <5>2. QED
          BY <5>1
      <4>2. QED
        BY <4>1
    <3>3. QED
      BY <3>1, <3>2, <2>1
  <2>3. {e} \X (1 .. n) \subseteq Slots(Copies(e, n))
    BY <2>1 DEF Slots
  <2>4. QED
    BY <2>2, <2>3
<1>3. QED
  BY <1>1, <1>2, SlotCount DEF BucketLen

(* What a part of the construction's split is: a part of the chunk, no     *)
(* side of it empty, with nothing above the pivot on the left and nothing  *)
(* below it on the right; and an entry at the pivot is left only where it  *)
(* has an equal.                                                           *)
IsPart(b, part, dim, v) ==
    /\ part \in Bucket /\ Minus(b, part) \in Bucket
    /\ b = Plus(part, Minus(b, part))
    /\ BucketLen(part) \in 1 .. BucketLen(b) - 1
    /\ BucketLen(Minus(b, part)) \in 1 .. BucketLen(b) - 1
    /\ \A e \in Occupied(part) :
          /\ e \in Occupied(b)
          /\ e.point[dim] <= v
          /\ ~Tied(b, e) => e.point[dim] < v
    /\ \A e \in Occupied(Minus(b, part)) : e \in Occupied(b) /\ e.point[dim] >= v

LEMMA LeftPartsArePart ==
    ASSUME NEW b \in Bucket, NEW dim \in 0 .. K - 1,
           NEW k \in 1 .. BucketLen(b) - 1, Splittable(b, dim),
           NEW v, v = SplitValue(b, dim, k), NEW part \in LeftParts(b, dim, v, k)
    PROVE  IsPart(b, part, dim, v)
<1> DEFINE low == Below(b, dim, v)
           rest == Minus(b, part)
           w == ValueAtRank(b, dim, k)
           tied == {e \in Occupied(b) : e.point[dim] = v}
           at == Level(b, dim, v)
<1>1. BucketLen(b) \in Nat /\ k \in 0 .. BucketLen(b) - 1 /\ k \in Nat
  BY BucketLenType
<1>2. v \in SplitValues(b, dim, k)
  BY <1>1, SplitValueChosen
<1>3. v \in Int /\ BucketLen(low) \in 1 .. BucketLen(b) - 1
  BY <1>1, <1>2, SplitValuesDivide
<1>4. low \in Bucket /\ \A e \in Entries : e.point[dim] \in Int /\ b[e] \in Nat
  BY SidesType, PointsAssumption DEF Entries, Bucket
<1>5. w \in Int /\ w <= v /\ k < BucketLen(Below(b, dim, w + 1))
  <2>1. w \in Coords(b, dim) /\ k < BucketLen(Below(b, dim, w + 1))
    BY <1>1, ValueAtRankType
  <2>2. w \in Int
    BY <2>1, CoordsType
  <2>3. v = w \/ v > w
    BY <1>2 DEF SplitValues
  <2> HIDE DEF w
  <2>4. QED
    BY <2>1, <2>2, <2>3, <1>3
<1>6. /\ part \in Bucket
      /\ \A e \in Entries : /\ part[e] <= b[e]
                            /\ e.point[dim] < v => part[e] = b[e]
                            /\ e.point[dim] > v => part[e] = 0
      /\ part = low \/ BucketLen(part) <= k
  <2>1. CASE part = low
    <3> HIDE DEF low
    <3>1. \A e \in Entries : low[e] = IF e.point[dim] < v THEN b[e] ELSE 0
      BY DEF low, Below
    <3>2. QED
      BY <2>1, <3>1, <1>3, <1>4
  <2>2. CASE part # low
    <3> DEFINE below == BucketLen(Below(b, dim, v))
    <3>1. PICK n \in [tied -> 0 .. k - below] :
             /\ part = LeftPart(b, dim, v, n)
             /\ \A e \in tied : part[e] <= b[e]
             /\ BucketLen(part) <= k
      BY <2>2 DEF LeftParts
    <3>2. \A e \in tied : e \in Entries /\ e.point[dim] = v /\ n[e] \in Nat
      <4>1. \A e \in tied : n[e] \in 0 .. k - below
        BY <3>1
      <4>2. \A e \in tied : e \in Entries /\ e.point[dim] = v
        BY DEF Occupied
      <4> HIDE DEF tied
      <4>3. QED
        BY <4>1, <4>2
    <3>3. DOMAIN n = tied
      OBVIOUS
    <3> HIDE DEF tied, low
    <3>4. part = [e \in Entries |-> IF e \in tied THEN n[e] ELSE low[e]]
      BY <3>1, <3>3 DEF LeftPart, low
    <3>5. \A e \in Entries : low[e] = IF e.point[dim] < v THEN b[e] ELSE 0
      BY DEF low, Below
    <3>6. \A e \in Entries : part[e] \in Nat
      BY <3>2, <3>4, <3>5, <1>4
    <3>7. part \in Bucket
      BY <3>4, <3>6 DEF Bucket
    <3>8. ASSUME NEW e \in Entries
          PROVE  /\ part[e] <= b[e]
                 /\ e.point[dim] < v => part[e] = b[e]
                 /\ e.point[dim] > v => part[e] = 0
      <4>1. e.point[dim] \in Int /\ b[e] \in Nat
        BY <1>4
      <4>2. CASE e \in tied
        BY <4>1, <4>2, <3>1, <3>2, <1>3
      <4>3. CASE e \notin tied
        BY <4>1, <4>3, <3>4, <3>5, <1>3
      <4>4. QED
        BY <4>2, <4>3
    <3>9. QED
      BY <3>1, <3>7, <3>8
  <2>3. QED
    BY <2>1, <2>2
<1> HIDE DEF low, rest, w, tied, at
<1>7. \A e \in Entries : part[e] \in Nat /\ rest[e] = b[e] - part[e]
                         /\ rest[e] \in Nat
  <2>1. \A e \in Entries : part[e] \in Nat
    BY <1>6 DEF Bucket
  <2>2. \A e \in Entries : rest[e] = b[e] - part[e]
    BY DEF rest, Minus
  <2>3. QED
    BY <2>1, <2>2, <1>4, <1>6
<1>8. rest \in Bucket
  <2>1. rest = [e \in Entries |-> b[e] - part[e]]
    BY DEF rest, Minus
  <2>2. QED
    BY <2>1, <1>7 DEF Bucket
<1>9. b = Plus(part, rest)
  <2>1. \A e \in Entries : part[e] + rest[e] = b[e]
    BY <1>4, <1>7
  <2>2. QED
    BY <2>1 DEF Plus, Bucket
<1>10. /\ BucketLen(part) \in Nat /\ BucketLen(rest) \in Nat
       /\ BucketLen(b) = BucketLen(part) + BucketLen(rest)
  BY <1>6, <1>8, <1>9, BucketLenType, PlusLen
<1>11. BucketLen(low) <= BucketLen(part)
  <2>1. \A e \in Entries : low[e] <= part[e]
    <3>1. \A e \in Entries : low[e] = IF e.point[dim] < v THEN b[e] ELSE 0
      BY DEF low, Below
    <3>2. QED
      BY <3>1, <1>3, <1>4, <1>6, <1>7
  <2>2. QED
    BY <2>1, <1>4, <1>6, BucketLenMonotone
<1>12. BucketLen(part) \in 1 .. BucketLen(b) - 1
  BY <1>1, <1>3, <1>6, <1>10, <1>11
<1>13. BucketLen(rest) \in 1 .. BucketLen(b) - 1
  BY <1>10, <1>12, <1>1
<1>14. ASSUME NEW e \in Occupied(part), ~(e.point[dim] < v)
       PROVE  e.point[dim] = v /\ Tied(b, e)
  <2>1. e \in Entries /\ part[e] > 0 /\ part[e] \in Nat /\ e.point[dim] \in Int
    BY <1>4, <1>7 DEF Occupied
  <2>2. e.point[dim] = v
    BY <2>1, <1>3, <1>6, <1>14
  <2>3. part # low
    BY <2>1, <1>14 DEF low, Below
  <2>4. BucketLen(part) <= k
    BY <2>3, <1>6
  <2> DEFINE one == Copies(e, 1)
  <2>5. one \in Bucket /\ BucketLen(one) = 1
    BY <2>1, CopiesLen
  <2>6. Plus(low, one) \in Bucket /\ BucketLen(Plus(low, one)) = BucketLen(low) + 1
    BY <2>5, <1>4, PlusLaws, PlusLen
  <2>7. BucketLen(Plus(low, one)) <= BucketLen(part)
    <3>1. ASSUME NEW f \in Entries PROVE Plus(low, one)[f] <= part[f]
      <4>1. low[f] = IF f.point[dim] < v THEN b[f] ELSE 0
        BY DEF low, Below
      <4>2. one[f] = IF f = e THEN 1 ELSE 0
        BY DEF Copies
      <4>3. Plus(low, one)[f] = low[f] + one[f]
        BY DEF Plus
      <4> HIDE DEF one
      <4>4. QED
        BY <4>1, <4>2, <4>3, <2>1, <2>2, <1>3, <1>4, <1>6, <1>7
    <3> HIDE DEF one
    <3>2. QED
      BY <3>1, <2>6, <1>6, BucketLenMonotone
  <2>8. at \in Bucket
    <3>1. \A f \in Entries : (IF f.point[dim] = v THEN b[f] ELSE 0) \in Nat
      BY <1>4
    <3>2. QED
      BY <3>1 DEF at, Level, Bucket
  <2>9. Below(b, dim, v + 1) = Plus(low, at)
    <3>1. ASSUME NEW f \in Entries
          PROVE  Below(b, dim, v + 1)[f] = low[f] + at[f]
      <4>1. low[f] = IF f.point[dim] < v THEN b[f] ELSE 0
        BY DEF low, Below
      <4>2. at[f] = IF f.point[dim] = v THEN b[f] ELSE 0
        BY DEF at, Level
      <4>3. Below(b, dim, v + 1)[f] = IF f.point[dim] < v + 1 THEN b[f] ELSE 0
        BY DEF Below
      <4>4. QED
        BY <4>1, <4>2, <4>3, <1>3, <1>4
    <3>2. QED
      BY <3>1 DEF Plus, Below
  <2>10. BucketLen(Below(b, dim, v + 1)) = BucketLen(low) + BucketLen(at)
    BY <2>8, <2>9, <1>4, PlusLen
  <2>11. BucketLen(Below(b, dim, w + 1)) <= BucketLen(Below(b, dim, v + 1))
    <3>1. ASSUME NEW f \in Entries
          PROVE  Below(b, dim, w + 1)[f] <= Below(b, dim, v + 1)[f]
      <4>1. /\ Below(b, dim, w + 1)[f] = IF f.point[dim] < w + 1 THEN b[f] ELSE 0
            /\ Below(b, dim, v + 1)[f] = IF f.point[dim] < v + 1 THEN b[f] ELSE 0
        BY DEF Below
      <4>2. QED
        BY <4>1, <1>3, <1>4, <1>5
    <3>2. Below(b, dim, w + 1) \in Bucket /\ Below(b, dim, v + 1) \in Bucket
      BY SidesType
    <3>3. QED
      BY <3>1, <3>2, BucketLenMonotone
  <2>12. BucketLen(at) >= 2
    <3>1. /\ BucketLen(low) \in Nat /\ BucketLen(at) \in Nat
          /\ BucketLen(Below(b, dim, w + 1)) \in Nat
      BY <1>4, <2>8, SidesType, BucketLenType
    <3>2. QED
      BY <3>1, <2>4, <2>6, <2>7, <2>10, <2>11, <1>1, <1>5, <1>10
  <2>13. QED
    BY <2>2, <2>12 DEF Tied, at
<1>15. ASSUME NEW e \in Occupied(part)
       PROVE  e \in Occupied(b) /\ e.point[dim] <= v
  <2>1. e \in Entries /\ part[e] > 0 /\ part[e] \in Nat /\ e.point[dim] \in Int
    BY <1>4, <1>7 DEF Occupied
  <2>2. QED
    BY <2>1, <1>3, <1>4, <1>6 DEF Occupied
<1>16. ASSUME NEW e \in Occupied(rest)
       PROVE  e \in Occupied(b) /\ e.point[dim] >= v
  <2>1. e \in Entries /\ rest[e] > 0 /\ e.point[dim] \in Int
    BY <1>4 DEF Occupied
  <2>2. part[e] \in Nat /\ b[e] \in Nat /\ rest[e] = b[e] - part[e]
    BY <2>1, <1>4, <1>7
  <2>3. QED
    BY <2>1, <2>2, <1>3, <1>6 DEF Occupied
<1>17. QED
  BY <1>6, <1>8, <1>9, <1>12, <1>13, <1>14, <1>15, <1>16 DEF IsPart, rest

(* Entries that are tied in a part are tied in the whole. *)
LEMMA TiedInWhole ==
    ASSUME NEW b \in Bucket, NEW c \in Bucket, \A e \in Entries : b[e] <= c[e],
           NEW e \in Entries, Tied(b, e)
    PROVE  Tied(c, e)
<1>1. PICK dim \in 0 .. K - 1 : BucketLen(Level(b, dim, e.point[dim])) >= 2
  BY DEF Tied
<1> DEFINE v == e.point[dim]
           x == Level(b, dim, v)
           y == Level(c, dim, v)
<1> HIDE DEF v
<1>2. x \in Bucket /\ y \in Bucket /\ \A f \in Entries : x[f] <= y[f]
  <2>1. \A f \in Entries : /\ x[f] = IF f.point[dim] = v THEN b[f] ELSE 0
                           /\ y[f] = IF f.point[dim] = v THEN c[f] ELSE 0
    BY DEF Level
  <2>2. \A f \in Entries : b[f] \in Nat /\ c[f] \in Nat
    BY DEF Bucket
  <2>3. \A f \in Entries : x[f] \in Nat /\ y[f] \in Nat /\ x[f] <= y[f]
    BY <2>1, <2>2
  <2>4. x = [f \in Entries |-> x[f]] /\ y = [f \in Entries |-> y[f]]
    BY DEF Level
  <2> HIDE DEF x, y
  <2>5. QED
    BY <2>3, <2>4 DEF Bucket
<1> HIDE DEF x, y
<1>3. BucketLen(x) <= BucketLen(y) /\ BucketLen(x) \in Nat /\ BucketLen(y) \in Nat
  BY <1>2, BucketLenMonotone, BucketLenType
<1>4. BucketLen(y) >= 2
  BY <1>1, <1>3 DEF x, v
<1>5. QED
  BY <1>4 DEF Tied, y, v

(* Adding an entry, and removing every copy of one. *)
LEMMA MutatedLen ==
    ASSUME NEW b \in Bucket, NEW e \in Entries
    PROVE  /\ With(b, e) \in Bucket
           /\ BucketLen(With(b, e)) = BucketLen(b) + 1
           /\ Without(b, e) \in Bucket
           /\ BucketLen(Without(b, e)) = BucketLen(b) - b[e]
<1>1. \A g \in Entries : b[g] \in Nat
  BY DEF Bucket
<1>2. With(b, e) \in Bucket /\ Without(b, e) \in Bucket
  BY <1>1 DEF With, Without, Bucket
<1>3. With(b, e) = Plus(b, Copies(e, 1))
  <2>1. \A g \in Entries :
           (IF g = e THEN b[g] + 1 ELSE b[g]) = b[g] + (IF g = e THEN 1 ELSE 0)
    BY <1>1
  <2>2. QED
    BY <2>1 DEF With, Plus, Copies, Bucket
<1>4. b = Plus(Without(b, e), Copies(e, b[e]))
  <2>1. \A g \in Entries :
           b[g] = (IF g = e THEN 0 ELSE b[g]) + (IF g = e THEN b[e] ELSE 0)
    BY <1>1
  <2>2. QED
    BY <2>1 DEF Without, Plus, Copies, Bucket
<1>5. BucketLen(With(b, e)) = BucketLen(b) + 1
  BY <1>3, CopiesLen, PlusLen
<1>6. BucketLen(b) = BucketLen(Without(b, e)) + b[e]
  BY <1>1, <1>2, <1>4, CopiesLen, PlusLen
<1>7. BucketLen(b) \in Nat /\ BucketLen(Without(b, e)) \in Nat /\ b[e] \in Nat
  BY <1>1, <1>2, BucketLenType
<1>8. QED
  BY <1>2, <1>5, <1>6, <1>7

(* Replacing the item of an entry that is there.                           *)
LEMMA ReplacedLen ==
    ASSUME NEW b \in Bucket, NEW e \in Entries, NEW new \in Items, b[e] > 0
    PROVE  /\ Replaced(b, e, new) \in Bucket
           /\ BucketLen(Replaced(b, e, new)) = BucketLen(b)
           /\ \A g \in Occupied(Replaced(b, e, new)) :
                 \/ g \in Occupied(b)
                 \/ g \in Entries /\ g.point = e.point
<1> DEFINE f == [e EXCEPT !.item = new]
           rest == [g \in Entries |-> b[g] - (IF g = e THEN 1 ELSE 0)]
<1>1. \A g \in Entries : b[g] \in Nat
  BY DEF Bucket
<1>2. f \in Entries /\ f.point = e.point
  BY DEF Entries
<1> HIDE DEF f
<1>3. rest \in Bucket
  BY <1>1 DEF Bucket
<1>4. b = Plus(rest, Copies(e, 1))
  <2>1. \A g \in Entries :
           b[g] = (b[g] - (IF g = e THEN 1 ELSE 0)) + (IF g = e THEN 1 ELSE 0)
    BY <1>1
  <2>2. QED
    BY <2>1 DEF Plus, Copies, Bucket
<1>5. Replaced(b, e, new) = Plus(rest, Copies(f, 1))
  BY DEF Replaced, Plus, Copies, f
<1> HIDE DEF rest
<1>6. Replaced(b, e, new) \in Bucket
  BY <1>2, <1>3, <1>5, CopiesLen, PlusLaws
<1>7. /\ BucketLen(Replaced(b, e, new)) = BucketLen(rest) + 1
      /\ BucketLen(b) = BucketLen(rest) + 1
  BY <1>2, <1>3, <1>4, <1>5, CopiesLen, PlusLen
<1>8. ASSUME NEW g \in Occupied(Replaced(b, e, new)), g # f
      PROVE  g \in Occupied(b)
  <2>1. /\ g \in Entries /\ Replaced(b, e, new)[g] > 0
        /\ Replaced(b, e, new)[g] = b[g] - (IF g = e THEN 1 ELSE 0) + 0
    BY <1>8 DEF Occupied, Replaced, f
  <2>2. b[g] > 0
    BY <2>1, <1>1
  <2>3. QED
    BY <2>1, <2>2 DEF Occupied
<1>9. QED
  BY <1>2, <1>6, <1>7, <1>8 DEF Occupied

(* One element of a sequence of buckets changes: the others add up to what *)
(* they did.                                                               *)
OneChanged(s, r, m, b) ==
    LET h == Held(s, DOMAIN s \ {m})
    IN  /\ r \in Seq(Bucket) /\ DOMAIN r = DOMAIN s
        /\ h \in Bucket /\ s[m] \in Bucket
        /\ FoldLeft(Plus, EmptyBucket, s) = Plus(h, s[m])
        /\ FoldLeft(Plus, EmptyBucket, r) = Plus(h, b)

LEMMA FoldChanged ==
    ASSUME NEW s \in Seq(Bucket), NEW m \in DOMAIN s, NEW b \in Bucket
    PROVE  OneChanged(s, [s EXCEPT ![m] = b], m, b)
<1> DEFINE r == [s EXCEPT ![m] = b]
           t == DOMAIN s \ {m}
           g == [k \in t |-> k]
<1>1. r \in Seq(Bucket) /\ DOMAIN r = DOMAIN s
  BY LenProperties, ExceptSeq
<1>2. /\ IsFiniteSet(t) /\ Held(s, t) \in Bucket /\ s[m] \in Bucket
      /\ FoldLeft(Plus, EmptyBucket, s) = Plus(Held(s, t), s[m])
  BY FoldApart
<1>3. r[m] = b /\ \A k \in t : r[k] = s[k]
  OBVIOUS
<1>4. \A k \in t : s[k] \in Bucket
  BY LenProperties
<1> HIDE DEF r
<1>5. FoldLeft(Plus, EmptyBucket, r) = Plus(Held(r, t), r[m])
  BY <1>1, FoldApart
<1>6. Held(s, t) = Held(r, t)
  <2>1. g \in [t -> t] /\ (\A x, y \in t : g[x] = g[y] => x = y)
        /\ \A y \in t : \E x \in t : g[x] = y
    OBVIOUS
  <2>2. \A k \in t : r[g[k]] = s[k]
    BY <1>3
  <2> HIDE DEF g, t
  <2>3. g \in Bijection(t, t)
    BY <2>1 DEF Bijection, Injection, Surjection, IsInjective
  <2>4. QED
    BY <2>2, <2>3, <1>2, <1>4, HeldElsewhere
<1>7. QED
  BY <1>1, <1>2, <1>3, <1>5, <1>6 DEF OneChanged, r

(* What no element holds, they do not hold together. *)
LEMMA HeldNothing ==
    ASSUME NEW s, NEW t, NEW e \in Entries, \A k \in t : s[k][e] = 0
    PROVE  Held(s, t)[e] = 0
<1>1. SlotsIn(s, t, e) = {}
  <2>1. SUFFICES ASSUME NEW k \in t, NEW x \in {k} \X (1 .. s[k][e]) PROVE FALSE
    BY DEF SlotsIn
  <2>2. x[2] \in 1 .. 0
    BY <2>1
  <2>3. QED
    BY <2>2
<1>2. QED
  BY <1>1, FS_EmptySet DEF Held

(* An element holds no more than all of them. *)
LEMMA ElementBelow ==
    ASSUME NEW s \in Seq(Bucket), NEW k \in DOMAIN s, NEW e \in Entries
    PROVE  s[k][e] <= FoldLeft(Plus, EmptyBucket, s)[e]
<1> DEFINE h == Held(s, DOMAIN s \ {k})
<1>1. /\ h \in Bucket /\ s[k] \in Bucket
      /\ FoldLeft(Plus, EmptyBucket, s) = Plus(h, s[k])
  BY FoldApart
<1> HIDE DEF h
<1>2. h[e] \in Nat /\ s[k][e] \in Nat
  BY <1>1 DEF Bucket
<1>3. FoldLeft(Plus, EmptyBucket, s)[e] = h[e] + s[k][e]
  BY <1>1 DEF Plus
<1>4. QED
  BY <1>2, <1>3

(* The first n elements are the first n - 1, and the n-th. *)
LEMMA HeldFirst ==
    ASSUME NEW s \in Seq(Bucket), NEW n \in Nat, n + 1 \in DOMAIN s
    PROVE  Held(s, 1 .. n + 1) = Plus(Held(s, 1 .. n), s[n + 1])
<1> DEFINE t == 1 .. n
           m == n + 1
<1>1. /\ IsFiniteSet(t) /\ IsFiniteSet({m}) /\ t \cap {m} = {}
      /\ t \cup {m} = 1 .. n + 1
  <2>1. 1 \in Int /\ n \in Int
    OBVIOUS
  <2>2. IsFiniteSet(1 .. n)
    BY <2>1, FS_Interval
  <2>3. IsFiniteSet({m})
    BY FS_Singleton
  <2>4. (1 .. n) \cap {n + 1} = {} /\ (1 .. n) \cup {n + 1} = 1 .. n + 1
    OBVIOUS
  <2>5. QED
    BY <2>2, <2>3, <2>4
<1>2. \A k \in t \cup {m} : s[k] \in Bucket
  <2>1. DOMAIN s = 1 .. Len(s) /\ Len(s) \in Nat
    BY LenProperties
  <2>2. \A k \in t \cup {m} : k \in 1 .. Len(s)
    BY <2>1, <1>1
  <2>3. QED
    BY <2>1, <2>2, ElementOfSeq
<1>3. s[m] \in Bucket
  BY <1>2
<1> HIDE DEF t, m
<1>4. Held(s, t \cup {m}) = Plus(Held(s, t), Held(s, {m}))
  BY <1>1, <1>2, HeldTogether
<1>5. Held(s, {m}) = s[m]
  BY <1>3, HeldByFew
<1>6. QED
  BY <1>1, <1>4, <1>5 DEF t, m

-----------------------------------------------------------------------------
(* Trees of stems. *)

(* The interior stems: a pivot was written there. *)
Interior(trunk) == {i \in DOMAIN trunk : trunk[i] < MaxValue}

(* Stem n is level levels below the root. *)
AtLevel(n, depth) ==
    \E way \in [0 .. depth -> Nat] :
        /\ way[0] = RootIdx /\ way[depth] = n
        /\ \A j \in 0 .. depth - 1 :
              /\ way[j] >= 1
              /\ way[j + 1] \in {LeftChild(way[j]), RightChild(way[j])}

(* The descent for p, right when its coordinate is not below the pivot,    *)
(* passes interior stems only and comes to stem n at that level.           *)
Routed(p, n, depth, trunk) ==
    \E way \in [0 .. depth -> Nat] :
        /\ way[0] = RootIdx /\ way[depth] = n
        /\ \A j \in 0 .. depth - 1 :
              /\ way[j] \in Interior(trunk)
              /\ way[j + 1] = Child(way[j], p[j % K] >= trunk[way[j]])

(* Point p lies in the region of stem n, with its bounds: to either side   *)
(* of a pivot it may be at that pivot.                                     *)
Lies(p, n, depth, trunk) ==
    \E way \in [0 .. depth -> Nat] :
        /\ way[0] = RootIdx /\ way[depth] = n
        /\ \A j \in 0 .. depth - 1 :
              /\ way[j] \in Interior(trunk)
              /\ way[j + 1] \in Ways(way[j], p[j % K], trunk[way[j]])

(* The terminal stems and the interior ones are a tree: they are distinct, *)
(* the parents of both are interior, and so is every parent of two of      *)
(* them; the root is one of them.                                          *)
Shape(trunk, terminal) ==
    /\ terminal \subseteq Nat \ {0}
    /\ terminal \cap Interior(trunk) = {}
    /\ RootIdx \in terminal \cup Interior(trunk)
    /\ \A n \in terminal \cup Interior(trunk) :
          \/ n = RootIdx
          \/ \E i \in Interior(trunk) : n \in {LeftChild(i), RightChild(i)}
    /\ \A i \in Interior(trunk) :
          {LeftChild(i), RightChild(i)} \subseteq terminal \cup Interior(trunk)

(* No interior stem is below the greatest level. *)
Within(trunk, max_level) ==
    \A n \in Interior(trunk) : \A depth \in Nat :
        AtLevel(n, depth) => depth <= max_level

(* Every pivot cuts the region of its stem: a point with that coordinate   *)
(* on the axis of the stem lies there.                                     *)
Cut(trunk) ==
    \A i \in Interior(trunk) : \E p \in [0 .. K - 1 -> Int] : \E depth \in Nat :
        Lies(p, i, depth, trunk) /\ p[depth % K] = trunk[i]

-----------------------------------------------------------------------------
(* A sequence grown to some length keeps its elements.                     *)
LEMMA GrownType ==
    ASSUME NEW S, NEW s \in Seq(S), NEW len \in Nat, NEW fill \in S
    PROVE  /\ Grown(s, len, fill) \in Seq(S)
           /\ \A i \in DOMAIN s : /\ i \in DOMAIN Grown(s, len, fill)
                                 /\ Grown(s, len, fill)[i] = s[i]
           /\ \A i \in DOMAIN Grown(s, len, fill) :
                 i \notin DOMAIN s => Grown(s, len, fill)[i] = fill
           /\ 1 .. len \subseteq DOMAIN Grown(s, len, fill)
<1>1. CASE len <= Len(s)
  <2>1. DOMAIN s = 1 .. Len(s) /\ Len(s) \in Nat
    BY LenProperties
  <2>2. 1 .. len \subseteq DOMAIN s
    BY <1>1, <2>1
  <2>3. QED
    BY <1>1, <2>2 DEF Grown
<1>2. CASE ~(len <= Len(s))
  <2> DEFINE g == [i \in 1 .. len |-> IF i <= Len(s) THEN s[i] ELSE fill]
  <2>1. Len(s) \in Nat /\ Len(s) < len /\ DOMAIN s = 1 .. Len(s)
    BY <1>2, LenProperties
  <2>2. \A i \in 1 .. len : g[i] \in S
    BY <2>1, ElementOfSeq
  <2>3. g \in [1 .. len -> S]
    BY <2>2
  <2>4. g \in Seq(S) /\ DOMAIN g = 1 .. len
    <3> HIDE DEF g
    <3> QED
      BY <2>3
  <2>5. \A i \in DOMAIN s : i \in DOMAIN g /\ g[i] = s[i]
    BY <2>1
  <2>6. \A i \in DOMAIN g : i \notin DOMAIN s => g[i] = fill
    BY <2>1
  <2>7. Grown(s, len, fill) = g
    BY <1>2 DEF Grown
  <2> HIDE DEF g
  <2>8. QED
    BY <2>4, <2>5, <2>6, <2>7
<1>3. QED
  BY <1>1, <1>2

(* Writing an element keeps the others. *)
LEMMA WrittenType ==
    ASSUME NEW S, NEW s \in Seq(S), NEW i, NEW v \in S
    PROVE  [s EXCEPT ![i] = v] \in Seq(S)
<1>1. CASE i \in DOMAIN s
  BY <1>1, LenProperties, ExceptSeq
<1>2. CASE i \notin DOMAIN s
  <2>1. s \in [1 .. Len(s) -> S] /\ Len(s) \in Nat
    BY LenProperties
  <2>2. [s EXCEPT ![i] = v] = s
    BY <2>1, <1>2
  <2>3. QED
    BY <2>2
<1>3. QED
  BY <1>1, <1>2

(* Writing a pivot where there was none makes one stem more an interior    *)
(* one, and changes no other pivot.                                        *)
LEMMA InteriorAfter ==
    ASSUME NEW trunk \in Seq(Int), NEW n \in Nat \ {0}, n \notin Interior(trunk),
           NEW v \in Int, v < MaxValue
    PROVE  LET after == [Grown(trunk, n, MaxValue) EXCEPT ![n] = v] IN
           /\ after \in Seq(Int)
           /\ Interior(after) = Interior(trunk) \cup {n}
           /\ after[n] = v
           /\ \A i \in Interior(trunk) : after[i] = trunk[i]
<1> DEFINE grown == Grown(trunk, n, MaxValue)
           after == [grown EXCEPT ![n] = v]
<1>1. MaxValue \in Int
  BY PointsAssumption
<1>2. /\ grown \in Seq(Int)
      /\ \A i \in DOMAIN trunk : i \in DOMAIN grown /\ grown[i] = trunk[i]
      /\ \A i \in DOMAIN grown : i \notin DOMAIN trunk => grown[i] = MaxValue
      /\ 1 .. n \subseteq DOMAIN grown
  BY <1>1, GrownType
<1>3. n \in DOMAIN grown
  BY <1>2
<1> HIDE DEF grown
<1>4. /\ after \in Seq(Int) /\ DOMAIN after = DOMAIN grown /\ after[n] = v
      /\ \A i \in DOMAIN grown : i # n => after[i] = grown[i]
  BY <1>2, <1>3, WrittenType
<1> HIDE DEF after
<1>5. \A i \in Interior(trunk) : i # n
  OBVIOUS
<1>6. \A i \in Interior(trunk) : after[i] = trunk[i] /\ i \in DOMAIN after
  BY <1>2, <1>4, <1>5 DEF Interior
<1>7. ASSUME NEW i \in Interior(after) PROVE i \in Interior(trunk) \cup {n}
  <2>1. SUFFICES ASSUME i # n PROVE i \in Interior(trunk)
    OBVIOUS
  <2>2. i \in DOMAIN grown /\ grown[i] < MaxValue
    BY <2>1, <1>4 DEF Interior
  <2>3. ~(MaxValue < MaxValue)
    BY <1>1
  <2>4. i \in DOMAIN trunk
    BY <2>2, <2>3, <1>2
  <2>5. QED
    BY <2>2, <2>4, <1>2 DEF Interior
<1>8. n \in Interior(after)
  BY <1>3, <1>4 DEF Interior
<1>9. \A i \in Interior(trunk) : i \in Interior(after)
  BY <1>6 DEF Interior
<1>10. QED
  BY <1>4, <1>6, <1>7, <1>8, <1>9 DEF after, grown

-----------------------------------------------------------------------------
(* Levels.                                                                 *)

(* Interior stems are numbers, from one up. *)
LEMMA InteriorType ==
    ASSUME NEW trunk \in Seq(Int)
    PROVE  Interior(trunk) \subseteq Nat \ {0}
<1>1. DOMAIN trunk = 1 .. Len(trunk) /\ Len(trunk) \in Nat
  BY LenProperties
<1>2. QED
  BY <1>1 DEF Interior

(* The root is at level zero, and children one level below their parents.  *)
LEMMA LevelBelow ==
    /\ AtLevel(RootIdx, 0)
    /\ \A n \in Nat \ {0} : \A depth \in Nat :
          AtLevel(n, depth) =>
             \A c \in {LeftChild(n), RightChild(n)} : AtLevel(c, depth + 1)
<1>1. AtLevel(RootIdx, 0)
  <2> DEFINE way == [j \in 0 .. 0 |-> RootIdx]
  <2>1. way \in [0 .. 0 -> Nat] /\ way[0] = RootIdx
    BY DEF RootIdx
  <2>2. 0 .. 0 - 1 = {}
    OBVIOUS
  <2>3. QED
    BY <2>1, <2>2 DEF AtLevel
<1>2. ASSUME NEW n \in Nat \ {0}, NEW depth \in Nat, AtLevel(n, depth),
             NEW c \in {LeftChild(n), RightChild(n)}
      PROVE  AtLevel(c, depth + 1)
  <2>1. PICK way \in [0 .. depth -> Nat] :
           /\ way[0] = RootIdx /\ way[depth] = n
           /\ \A j \in 0 .. depth - 1 :
                 /\ way[j] >= 1
                 /\ way[j + 1] \in {LeftChild(way[j]), RightChild(way[j])}
    BY <1>2 DEF AtLevel
  <2> DEFINE on == [j \in 0 .. depth + 1 |-> IF j <= depth THEN way[j] ELSE c]
  <2>2. c \in Nat
    BY DEF LeftChild, RightChild
  <2>3. on \in [0 .. depth + 1 -> Nat]
    BY <2>2
  <2>4. on[0] = RootIdx /\ on[depth + 1] = c
    BY <2>1
  <2>5. ASSUME NEW j \in 0 .. (depth + 1) - 1
        PROVE  on[j] >= 1 /\ on[j + 1] \in {LeftChild(on[j]), RightChild(on[j])}
    <3>1. CASE j < depth
      <4>1. j \in 0 .. depth - 1 /\ on[j] = way[j] /\ on[j + 1] = way[j + 1]
        BY <3>1
      <4>2. QED
        BY <4>1, <2>1
    <3>2. CASE j = depth
      <4>1. on[j] = n /\ on[j + 1] = c
        BY <3>2, <2>1
      <4>2. QED
        BY <4>1
    <3>3. QED
      BY <3>1, <3>2
  <2> HIDE DEF on
  <2>6. QED
    BY <2>3, <2>4, <2>5 DEF AtLevel
<1>3. QED
  BY <1>1, <1>2

(* And parents one above their children: a stem at some level is the root, *)
(* or the child of one a level higher.                                     *)
LEMMA LevelAbove ==
    ASSUME NEW n, NEW depth \in Nat, AtLevel(n, depth)
    PROVE  \/ depth = 0 /\ n = RootIdx
           \/ /\ depth > 0
              /\ \E m \in Nat \ {0} : /\ AtLevel(m, depth - 1)
                                      /\ n \in {LeftChild(m), RightChild(m)}
<1>1. PICK way \in [0 .. depth -> Nat] :
         /\ way[0] = RootIdx /\ way[depth] = n
         /\ \A j \in 0 .. depth - 1 :
               /\ way[j] >= 1
               /\ way[j + 1] \in {LeftChild(way[j]), RightChild(way[j])}
  BY DEF AtLevel
<1>2. CASE depth = 0
  BY <1>1, <1>2
<1>3. CASE depth > 0
  <2> DEFINE up == [j \in 0 .. depth - 1 |-> way[j]]
             m == way[depth - 1]
  <2>1. depth - 1 \in 0 .. depth - 1 /\ (depth - 1) + 1 = depth
    BY <1>3
  <2>2. m \in Nat \ {0} /\ n \in {LeftChild(m), RightChild(m)}
    BY <1>1, <2>1
  <2>3. up \in [0 .. depth - 1 -> Nat] /\ up[0] = RootIdx /\ up[depth - 1] = m
    BY <1>1, <1>3
  <2>4. \A j \in 0 .. (depth - 1) - 1 :
           /\ up[j] >= 1
           /\ up[j + 1] \in {LeftChild(up[j]), RightChild(up[j])}
    BY <1>1, <1>3
  <2>5. AtLevel(m, depth - 1)
    <3> HIDE DEF up, m
    <3> QED
      BY <2>3, <2>4 DEF AtLevel
  <2>6. QED
    BY <1>3, <2>2, <2>5
<1>4. QED
  BY <1>2, <1>3

(* No stem is at two levels. *)
LEMMA LevelUnique ==
    ASSUME NEW n, NEW depth \in Nat, NEW other \in Nat,
           AtLevel(n, depth), AtLevel(n, other)
    PROVE  depth = other
<1> DEFINE bad == {l \in Nat : \E m \in Nat : \E k : /\ AtLevel(k, l)
                                                     /\ AtLevel(k, m)
                                                     /\ l # m}
<1>1. SUFFICES ASSUME depth # other PROVE FALSE
  OBVIOUS
<1>2. bad \in SUBSET Nat /\ bad # {}
  BY <1>1
<1>3. PICK l \in bad : \A k \in bad : l <= k
  <2> HIDE DEF bad
  <2> QED
    BY <1>2, LeastNatural
<1>4. PICK m \in Nat : \E k : AtLevel(k, l) /\ AtLevel(k, m) /\ l # m
  OBVIOUS
<1>k. PICK k : AtLevel(k, l) /\ AtLevel(k, m) /\ l # m
  BY <1>4
<1>5. l \in Nat
  OBVIOUS
<1>6. \/ l = 0 /\ k = RootIdx
      \/ /\ l > 0
         /\ \E a \in Nat \ {0} : /\ AtLevel(a, l - 1)
                                 /\ k \in {LeftChild(a), RightChild(a)}
  BY <1>k, <1>5, LevelAbove
<1>7. \/ m = 0 /\ k = RootIdx
      \/ /\ m > 0
         /\ \E b \in Nat \ {0} : /\ AtLevel(b, m - 1)
                                 /\ k \in {LeftChild(b), RightChild(b)}
  BY <1>k, LevelAbove
<1>8. \A a \in Nat \ {0} : RootIdx \notin {LeftChild(a), RightChild(a)}
  BY DEF RootIdx, LeftChild, RightChild
<1>9. l > 0 /\ m > 0
  BY <1>k, <1>6, <1>7, <1>8
<1>10. PICK a \in Nat \ {0} : /\ AtLevel(a, l - 1)
                              /\ k \in {LeftChild(a), RightChild(a)}
  BY <1>6, <1>9
<1>11. PICK b \in Nat \ {0} : /\ AtLevel(b, m - 1)
                              /\ k \in {LeftChild(b), RightChild(b)}
  BY <1>7, <1>9
<1>12. a = b
  BY <1>10, <1>11 DEF LeftChild, RightChild
<1>13. l - 1 \in Nat /\ m - 1 \in Nat /\ l - 1 # m - 1
  BY <1>k, <1>5, <1>9
<1>14. l - 1 \in bad
  BY <1>10, <1>11, <1>12, <1>13
<1>15. l <= l - 1
  BY <1>3, <1>14
<1>16. QED
  BY <1>15, <1>5

-----------------------------------------------------------------------------
(* Routes.                                                                 *)

(* A route leads down one level with every step. *)
LEMMA RoutedLevel ==
    ASSUME NEW trunk \in Seq(Int), NEW p, NEW n, NEW depth \in Nat,
           Routed(p, n, depth, trunk)
    PROVE  n \in Nat /\ AtLevel(n, depth)
<1>1. PICK way \in [0 .. depth -> Nat] :
         /\ way[0] = RootIdx /\ way[depth] = n
         /\ \A j \in 0 .. depth - 1 :
               /\ way[j] \in Interior(trunk)
               /\ way[j + 1] = Child(way[j], p[j % K] >= trunk[way[j]])
  BY DEF Routed
<1>2. \A j \in 0 .. depth - 1 : way[j] >= 1
  BY <1>1, InteriorType
<1>3. \A j \in 0 .. depth - 1 :
         way[j + 1] \in {LeftChild(way[j]), RightChild(way[j])}
  BY <1>1 DEF Child
<1>4. n \in Nat
  BY <1>1
<1>5. QED
  BY <1>1, <1>2, <1>3, <1>4 DEF AtLevel

(* Every point is routed to the root. *)
LEMMA RoutedToRoot ==
    ASSUME NEW trunk, NEW p
    PROVE  Routed(p, RootIdx, 0, trunk)
<1> DEFINE way == [j \in 0 .. 0 |-> RootIdx]
<1>1. way \in [0 .. 0 -> Nat] /\ way[0] = RootIdx
  BY DEF RootIdx
<1>2. 0 .. 0 - 1 = {}
  OBVIOUS
<1>3. QED
  BY <1>1, <1>2 DEF Routed

(* A route stays one while the pivots it passes do. *)
LEMMA RoutedKept ==
    ASSUME NEW trunk, NEW after, NEW p, NEW n, NEW depth \in Nat,
           Routed(p, n, depth, trunk),
           \A i \in Interior(trunk) : i \in Interior(after) /\ after[i] = trunk[i]
    PROVE  Routed(p, n, depth, after)
<1>1. PICK way \in [0 .. depth -> Nat] :
         /\ way[0] = RootIdx /\ way[depth] = n
         /\ \A j \in 0 .. depth - 1 :
               /\ way[j] \in Interior(trunk)
               /\ way[j + 1] = Child(way[j], p[j % K] >= trunk[way[j]])
  BY DEF Routed
<1>2. \A j \in 0 .. depth - 1 :
         /\ way[j] \in Interior(after)
         /\ way[j + 1] = Child(way[j], p[j % K] >= after[way[j]])
  BY <1>1
<1>3. QED
  BY <1>1, <1>2 DEF Routed

(* From an interior stem it goes on. *)
LEMMA RoutedOn ==
    ASSUME NEW trunk, NEW p, NEW n \in Nat, NEW depth \in Nat,
           Routed(p, n, depth, trunk), n \in Interior(trunk)
    PROVE  Routed(p, Child(n, p[depth % K] >= trunk[n]), depth + 1, trunk)
<1>1. PICK way \in [0 .. depth -> Nat] :
         /\ way[0] = RootIdx /\ way[depth] = n
         /\ \A j \in 0 .. depth - 1 :
               /\ way[j] \in Interior(trunk)
               /\ way[j + 1] = Child(way[j], p[j % K] >= trunk[way[j]])
  BY DEF Routed
<1> DEFINE c == Child(n, p[depth % K] >= trunk[n])
           on == [j \in 0 .. depth + 1 |-> IF j <= depth THEN way[j] ELSE c]
<1>2. c \in Nat
  BY DEF Child, LeftChild, RightChild
<1> HIDE DEF c
<1>3. on \in [0 .. depth + 1 -> Nat]
  BY <1>2
<1>4. on[0] = RootIdx /\ on[depth + 1] = c
  BY <1>1
<1>5. ASSUME NEW j \in 0 .. (depth + 1) - 1
      PROVE  /\ on[j] \in Interior(trunk)
             /\ on[j + 1] = Child(on[j], p[j % K] >= trunk[on[j]])
  <2>1. CASE j < depth
    <3>1. j \in 0 .. depth - 1 /\ on[j] = way[j] /\ on[j + 1] = way[j + 1]
      BY <2>1
    <3>2. QED
      BY <3>1, <1>1
  <2>2. CASE j = depth
    <3>1. on[j] = n /\ on[j + 1] = c
      BY <2>2, <1>1
    <3>2. QED
      BY <3>1, <2>2 DEF c
  <2>3. QED
    BY <2>1, <2>2
<1> HIDE DEF on
<1>6. QED
  BY <1>3, <1>4, <1>5 DEF Routed, c

(* A pivot written at the terminal stem a point is routed to sends it on,  *)
(* and leaves it where it was if it is routed to another.                  *)
LEMMA RoutedAfter ==
    ASSUME NEW trunk \in Seq(Int), NEW n \in Nat \ {0}, n \notin Interior(trunk),
           NEW v \in Int, v < MaxValue, NEW split_level \in Nat,
           AtLevel(n, split_level),
           NEW p, NEW m, NEW depth \in Nat, Routed(p, m, depth, trunk)
    PROVE  LET after == [Grown(trunk, n, MaxValue) EXCEPT ![n] = v] IN
           /\ Routed(p, m, depth, after)
           /\ m = n => Routed(p, Child(n, p[split_level % K] >= v),
                              split_level + 1, after)
<1> DEFINE after == [Grown(trunk, n, MaxValue) EXCEPT ![n] = v]
<1>1. /\ Interior(after) = Interior(trunk) \cup {n}
      /\ after[n] = v
      /\ \A i \in Interior(trunk) : after[i] = trunk[i]
  BY InteriorAfter
<1> HIDE DEF after
<1>2. Routed(p, m, depth, after)
  BY <1>1, RoutedKept
<1>3. ASSUME m = n
      PROVE  Routed(p, Child(n, p[split_level % K] >= v), split_level + 1, after)
  <2>1. depth = split_level
    BY <1>3, RoutedLevel, LevelUnique
  <2>2. Routed(p, Child(n, p[depth % K] >= after[n]), depth + 1, after)
    BY <1>1, <1>2, <1>3, RoutedOn
  <2>3. QED
    BY <2>1, <2>2, <1>1
<1>4. QED
  BY <1>2, <1>3 DEF after

(* The same of the stems whose regions a point lies in.                    *)
LEMMA LiesLevel ==
    ASSUME NEW trunk \in Seq(Int), NEW p, NEW n, NEW depth \in Nat,
           Lies(p, n, depth, trunk)
    PROVE  n \in Nat /\ AtLevel(n, depth)
<1>1. PICK way \in [0 .. depth -> Nat] :
         /\ way[0] = RootIdx /\ way[depth] = n
         /\ \A j \in 0 .. depth - 1 :
               /\ way[j] \in Interior(trunk)
               /\ way[j + 1] \in Ways(way[j], p[j % K], trunk[way[j]])
  BY DEF Lies
<1>2. \A j \in 0 .. depth - 1 : way[j] >= 1
  BY <1>1, InteriorType
<1>3. \A j \in 0 .. depth - 1 :
         way[j + 1] \in {LeftChild(way[j]), RightChild(way[j])}
  BY <1>1 DEF Ways
<1>4. n \in Nat
  BY <1>1
<1>5. QED
  BY <1>1, <1>2, <1>3, <1>4 DEF AtLevel

LEMMA LiesAtRoot ==
    ASSUME NEW trunk, NEW p
    PROVE  Lies(p, RootIdx, 0, trunk)
<1> DEFINE way == [j \in 0 .. 0 |-> RootIdx]
<1>1. way \in [0 .. 0 -> Nat] /\ way[0] = RootIdx
  BY DEF RootIdx
<1>2. 0 .. 0 - 1 = {}
  OBVIOUS
<1>3. QED
  BY <1>1, <1>2 DEF Lies

LEMMA LiesKept ==
    ASSUME NEW trunk, NEW after, NEW p, NEW n, NEW depth \in Nat,
           Lies(p, n, depth, trunk),
           \A i \in Interior(trunk) : i \in Interior(after) /\ after[i] = trunk[i]
    PROVE  Lies(p, n, depth, after)
<1>1. PICK way \in [0 .. depth -> Nat] :
         /\ way[0] = RootIdx /\ way[depth] = n
         /\ \A j \in 0 .. depth - 1 :
               /\ way[j] \in Interior(trunk)
               /\ way[j + 1] \in Ways(way[j], p[j % K], trunk[way[j]])
  BY DEF Lies
<1>2. \A j \in 0 .. depth - 1 :
         /\ way[j] \in Interior(after)
         /\ way[j + 1] \in Ways(way[j], p[j % K], after[way[j]])
  BY <1>1
<1>3. QED
  BY <1>1, <1>2 DEF Lies

LEMMA LiesOn ==
    ASSUME NEW trunk, NEW p, NEW n \in Nat, NEW depth \in Nat,
           Lies(p, n, depth, trunk), n \in Interior(trunk),
           NEW c \in Ways(n, p[depth % K], trunk[n])
    PROVE  Lies(p, c, depth + 1, trunk)
<1>1. PICK way \in [0 .. depth -> Nat] :
         /\ way[0] = RootIdx /\ way[depth] = n
         /\ \A j \in 0 .. depth - 1 :
               /\ way[j] \in Interior(trunk)
               /\ way[j + 1] \in Ways(way[j], p[j % K], trunk[way[j]])
  BY DEF Lies
<1> DEFINE on == [j \in 0 .. depth + 1 |-> IF j <= depth THEN way[j] ELSE c]
<1>2. c \in Nat
  BY DEF Ways, LeftChild, RightChild
<1>3. on \in [0 .. depth + 1 -> Nat]
  BY <1>2
<1>4. on[0] = RootIdx /\ on[depth + 1] = c
  BY <1>1
<1>5. ASSUME NEW j \in 0 .. (depth + 1) - 1
      PROVE  /\ on[j] \in Interior(trunk)
             /\ on[j + 1] \in Ways(on[j], p[j % K], trunk[on[j]])
  <2>1. CASE j < depth
    <3>1. j \in 0 .. depth - 1 /\ on[j] = way[j] /\ on[j + 1] = way[j + 1]
      BY <2>1
    <3>2. QED
      BY <3>1, <1>1
  <2>2. CASE j = depth
    <3>1. on[j] = n /\ on[j + 1] = c
      BY <2>2, <1>1
    <3>2. QED
      BY <3>1, <2>2
  <2>3. QED
    BY <2>1, <2>2
<1> HIDE DEF on
<1>6. QED
  BY <1>3, <1>4, <1>5 DEF Lies

(* A point lies where it is routed.                                        *)
LEMMA RoutedLies ==
    ASSUME NEW trunk \in Seq(Int), NEW p, \A d \in 0 .. K - 1 : p[d] \in Int,
           NEW n, NEW depth \in Nat, Routed(p, n, depth, trunk)
    PROVE  Lies(p, n, depth, trunk)
<1>1. PICK way \in [0 .. depth -> Nat] :
         /\ way[0] = RootIdx /\ way[depth] = n
         /\ \A j \in 0 .. depth - 1 :
               /\ way[j] \in Interior(trunk)
               /\ way[j + 1] = Child(way[j], p[j % K] >= trunk[way[j]])
  BY DEF Routed
<1>2. ASSUME NEW j \in 0 .. depth - 1
      PROVE  way[j + 1] \in Ways(way[j], p[j % K], trunk[way[j]])
  <2>1. j % K \in 0 .. K - 1
    BY PointsAssumption
  <2>2. p[j % K] \in Int
    BY <2>1
  <2>3. way[j] \in DOMAIN trunk /\ way[j] \in Nat
    BY <1>1 DEF Interior
  <2>4. trunk[way[j]] \in Int
    BY <2>3
  <2>5. LeftChild(way[j]) # RightChild(way[j])
    BY <2>3 DEF LeftChild, RightChild
  <2> DEFINE x == p[j % K]
             v == trunk[way[j]]
             i == way[j]
  <2>6. x \in Int /\ v \in Int /\ way[j + 1] = Child(i, x >= v)
        /\ LeftChild(i) # RightChild(i)
    BY <1>1, <2>2, <2>4, <2>5
  <2> HIDE DEF x, v, i
  <2>7. way[j + 1] \in Ways(i, x, v)
    <3>1. CASE x >= v
      <4>1. way[j + 1] = RightChild(i)
        BY <2>6, <3>1, Zenon DEF Child
      <4>2. QED
        BY <4>1, <3>1, <2>6 DEF Ways
    <3>2. CASE ~(x >= v)
      <4>1. way[j + 1] = LeftChild(i)
        BY <2>6, <3>2, Zenon DEF Child
      <4>2. x <= v
        BY <3>2, <2>6
      <4>3. QED
        BY <4>1, <4>2, <2>6 DEF Ways
    <3>3. QED
      BY <3>1, <3>2
  <2>8. QED
    BY <2>7 DEF x, v, i
<1>3. QED
  BY <1>1, <1>2 DEF Lies

LEMMA LiesAfter ==
    ASSUME NEW trunk \in Seq(Int), NEW n \in Nat \ {0}, n \notin Interior(trunk),
           NEW v \in Int, v < MaxValue, NEW split_level \in Nat,
           AtLevel(n, split_level),
           NEW p, NEW m, NEW depth \in Nat, Lies(p, m, depth, trunk)
    PROVE  LET after == [Grown(trunk, n, MaxValue) EXCEPT ![n] = v] IN
           /\ Lies(p, m, depth, after)
           /\ m = n => \A c \in Ways(n, p[split_level % K], v) :
                          Lies(p, c, split_level + 1, after)
<1> DEFINE after == [Grown(trunk, n, MaxValue) EXCEPT ![n] = v]
<1>1. /\ Interior(after) = Interior(trunk) \cup {n}
      /\ after[n] = v
      /\ \A i \in Interior(trunk) : after[i] = trunk[i]
  BY InteriorAfter
<1> HIDE DEF after
<1>2. Lies(p, m, depth, after)
  BY <1>1, LiesKept
<1>3. ASSUME m = n, NEW c \in Ways(n, p[split_level % K], v)
      PROVE  Lies(p, c, split_level + 1, after)
  <2>1. depth = split_level
    BY <1>3, LiesLevel, LevelUnique
  <2>2. c \in Ways(n, p[depth % K], after[n])
    BY <2>1, <1>1, <1>3
  <2>3. Lies(p, c, depth + 1, after)
    BY <2>2, <1>1, <1>2, <1>3, LiesOn
  <2>4. QED
    BY <2>1, <2>3
<1>4. QED
  BY <1>2, <1>3 DEF after

-----------------------------------------------------------------------------
(* Shapes.                                                                 *)

(* A tree that has no interior stem: its root is its only terminal one. *)
LEMMA ShapeOfRoot ==
    ASSUME NEW trunk, \A i \in DOMAIN trunk : trunk[i] = MaxValue,
           NEW max_level
    PROVE  /\ Interior(trunk) = {}
           /\ Shape(trunk, {RootIdx})
           /\ Within(trunk, max_level)
<1>1. Interior(trunk) = {}
  <2>1. ~(MaxValue < MaxValue)
    BY PointsAssumption
  <2>2. QED
    BY <2>1 DEF Interior
<1>2. QED
  BY <1>1 DEF Shape, Within, RootIdx

(* A split puts two terminal stems that are new in the place of one. *)
LEMMA ShapeAfter ==
    ASSUME NEW trunk \in Seq(Int), NEW terminal, Shape(trunk, terminal),
           NEW n \in terminal, NEW v \in Int, v < MaxValue
    PROVE  LET after == [Grown(trunk, n, MaxValue) EXCEPT ![n] = v]
               below == {LeftChild(n), RightChild(n)}
           IN  /\ n \in Nat \ {0} /\ n \notin Interior(trunk)
               /\ Shape(after, (terminal \ {n}) \cup below)
               /\ below \cap (terminal \cup Interior(trunk)) = {}
               /\ LeftChild(n) # RightChild(n)
<1> DEFINE after == [Grown(trunk, n, MaxValue) EXCEPT ![n] = v]
           below == {LeftChild(n), RightChild(n)}
           next  == (terminal \ {n}) \cup below
           all   == terminal \cup Interior(trunk)
<1>1. n \in Nat \ {0} /\ n \notin Interior(trunk)
  BY DEF Shape
<1>2. Interior(after) = Interior(trunk) \cup {n}
  BY <1>1, InteriorAfter
<1> HIDE DEF after
<1>3. /\ below \subseteq Nat \ {0} /\ LeftChild(n) # RightChild(n)
      /\ RootIdx \notin below /\ n \notin below
  BY <1>1 DEF LeftChild, RightChild, RootIdx
<1>4. \A i \in Nat \ {0} :
         {LeftChild(i), RightChild(i)} \cap below # {} => i = n
  BY <1>1 DEF LeftChild, RightChild
<1>5. below \cap all = {}
  <2>1. SUFFICES ASSUME NEW c \in below, c \in all PROVE FALSE
    OBVIOUS
  <2>2. c # RootIdx
    BY <1>3
  <2>3. PICK i \in Interior(trunk) : c \in {LeftChild(i), RightChild(i)}
    BY <2>1, <2>2 DEF Shape
  <2>4. i \in Nat \ {0}
    BY InteriorType
  <2>5. QED
    BY <2>3, <2>4, <1>1, <1>4
<1>6. next \cup Interior(after) = all \cup below
  BY <1>2
<1>7. Shape(after, next)
  <2>1. next \subseteq Nat \ {0}
    BY <1>3 DEF Shape
  <2>2. next \cap Interior(after) = {}
    <3>1. terminal \cap Interior(trunk) = {}
      BY DEF Shape
    <3>2. QED
      BY <3>1, <1>2, <1>3, <1>5
  <2>3. RootIdx \in next \cup Interior(after)
    BY <1>6 DEF Shape
  <2>4. ASSUME NEW c \in next \cup Interior(after)
        PROVE  \/ c = RootIdx
               \/ \E i \in Interior(after) : c \in {LeftChild(i), RightChild(i)}
    <3>1. CASE c \in below
      BY <3>1, <1>2
    <3>2. CASE c \in all
      BY <3>2, <1>2 DEF Shape
    <3>3. QED
      BY <3>1, <3>2, <1>6
  <2>5. ASSUME NEW i \in Interior(after)
        PROVE  {LeftChild(i), RightChild(i)} \subseteq next \cup Interior(after)
    <3>1. CASE i = n
      BY <3>1
    <3>2. CASE i \in Interior(trunk)
      <4>1. {LeftChild(i), RightChild(i)} \subseteq all
        BY <3>2 DEF Shape
      <4>2. QED
        BY <4>1, <1>6
    <3>3. QED
      BY <3>1, <3>2, <1>2
  <2> HIDE DEF next
  <2>6. QED
    BY <2>1, <2>2, <2>3, <2>4, <2>5 DEF Shape
<1>8. QED
  BY <1>1, <1>3, <1>5, <1>7 DEF after

(* And is within the greater of the old levels and its own. *)
LEMMA WithinAfter ==
    ASSUME NEW trunk \in Seq(Int), NEW n \in Nat \ {0}, n \notin Interior(trunk),
           NEW v \in Int, v < MaxValue,
           NEW max_level \in Int, Within(trunk, max_level),
           NEW split_level \in Nat, AtLevel(n, split_level)
    PROVE  LET after == [Grown(trunk, n, MaxValue) EXCEPT ![n] = v]
           IN  Within(after, AtLeastOf(max_level, split_level))
<1> DEFINE after == [Grown(trunk, n, MaxValue) EXCEPT ![n] = v]
           top   == AtLeastOf(max_level, split_level)
<1>1. Interior(after) = Interior(trunk) \cup {n}
  BY InteriorAfter
<1> HIDE DEF after
<1>2. top \in Int /\ top >= max_level /\ top >= split_level
  BY DEF AtLeastOf
<1> HIDE DEF top
<1>3. ASSUME NEW m \in Interior(after), NEW depth \in Nat, AtLevel(m, depth)
      PROVE  depth <= top
  <2>1. CASE m = n
    <3>1. depth = split_level
      BY <2>1, <1>3, LevelUnique
    <3>2. QED
      BY <3>1, <1>2
  <2>2. CASE m \in Interior(trunk)
    <3>1. depth <= max_level
      BY <2>2, <1>3 DEF Within
    <3>2. QED
      BY <3>1, <1>2
  <2>3. QED
    BY <2>1, <2>2, <1>1
<1>4. Within(after, top)
  BY <1>3 DEF Within
<1>5. QED
  BY <1>4 DEF after, top

(* The parents being within the greatest level, no stem is two below it. *)
LEMMA NearlyWithin ==
    ASSUME NEW trunk \in Seq(Int), NEW terminal, Shape(trunk, terminal),
           NEW max_level \in Int, max_level >= -1, Within(trunk, max_level),
           NEW n \in terminal, NEW depth \in Nat, AtLevel(n, depth)
    PROVE  depth <= max_level + 1
<1>1. CASE n = RootIdx
  <2>1. AtLevel(n, 0)
    BY <1>1, LevelBelow
  <2>2. depth = 0
    BY <2>1, LevelUnique
  <2>3. QED
    BY <2>2
<1>2. CASE n # RootIdx
  <2>1. PICK i \in Interior(trunk) : n \in {LeftChild(i), RightChild(i)}
    BY <1>2 DEF Shape
  <2>2. depth > 0 /\ \E m \in Nat \ {0} : /\ AtLevel(m, depth - 1)
                                          /\ n \in {LeftChild(m), RightChild(m)}
    BY <1>2, LevelAbove
  <2>3. PICK m \in Nat \ {0} : /\ AtLevel(m, depth - 1)
                               /\ n \in {LeftChild(m), RightChild(m)}
    BY <2>2
  <2>4. i \in Nat \ {0}
    BY InteriorType
  <2>5. i = m
    BY <2>1, <2>3, <2>4 DEF LeftChild, RightChild
  <2>6. depth - 1 \in Nat
    BY <2>2
  <2>7. depth - 1 <= max_level
    BY <2>3, <2>5, <2>6 DEF Within
  <2>8. QED
    BY <2>7
<1>3. QED
  BY <1>1, <1>2

-----------------------------------------------------------------------------
(* The loop of get_leaf_idx_mapped follows the route of its point to a     *)
(* mapped stem, as long as interior stems are not mapped, and stays there. *)
LEMMA LeafIdxRouted ==
    ASSUME NEW trunk \in Seq(Int), NEW map,
           NEW max_level \in Int, max_level >= -1,
           \A i \in Interior(trunk) : MappedLeaf(map, i) = 0,
           NEW p, NEW n, NEW depth \in Nat, depth <= max_level + 1,
           Routed(p, n, depth, trunk), MappedLeaf(map, n) # 0
    PROVE  LeafIdx(p, trunk, map, max_level) = MappedLeaf(map, n)
<1>1. PICK way \in [0 .. depth -> Nat] :
         /\ way[0] = RootIdx /\ way[depth] = n
         /\ \A j \in 0 .. depth - 1 :
               /\ way[j] \in Interior(trunk)
               /\ way[j + 1] = Child(way[j], p[j % K] >= trunk[way[j]])
  BY DEF Routed
<1> DEFINE Levels == 0 .. max_level + 1
           Next1(stem, l) ==
              IF MappedLeaf(map, stem) # 0 \/ stem \notin DOMAIN trunk
              THEN stem
              ELSE Child(stem, p[(l - 1) % K] >= trunk[stem])
           Visits(f) == f = [l \in Levels |-> IF l = 0 THEN RootIdx
                                             ELSE Next1(f[l - 1], l)]
           visit == [l \in Levels |-> IF l <= depth THEN way[l] ELSE n]
<1>2. max_level + 1 \in Nat /\ \A l \in Levels : l # 0 => l - 1 \in Levels /\ l \in Nat
  OBVIOUS
<1>3. \A l \in Levels : l # 0 => visit[l] = Next1(visit[l - 1], l)
  <2> SUFFICES ASSUME NEW l \in Levels, l # 0
               PROVE  visit[l] = Next1(visit[l - 1], l)
    OBVIOUS
  <2>1. CASE l <= depth
    <3>1. l - 1 \in 0 .. depth - 1 /\ visit[l - 1] = way[l - 1] /\ visit[l] = way[l]
      BY <2>1
    <3>2. way[l - 1] \in Interior(trunk) /\ (l - 1) + 1 = l
      BY <3>1, <1>1
    <3>3. way[l] = Child(way[l - 1], p[(l - 1) % K] >= trunk[way[l - 1]])
      BY <3>1, <3>2, <1>1
    <3>4. MappedLeaf(map, way[l - 1]) = 0 /\ way[l - 1] \in DOMAIN trunk
      BY <3>2 DEF Interior
    <3>5. QED
      BY <3>1, <3>3, <3>4
  <2>2. CASE l > depth
    <3>1. visit[l] = n
      BY <2>2
    <3>2. visit[l - 1] = n
      <4>1. CASE l - 1 = depth
        BY <4>1, <1>1, <1>2
      <4>2. CASE l - 1 > depth
        BY <4>2, <1>2
      <4>3. QED
        BY <4>1, <4>2, <2>2, <1>2
    <3>3. QED
      BY <3>1, <3>2
  <2>3. QED
    BY <2>1, <2>2
<1>4. visit[0] = RootIdx
  BY <1>1, <1>2
<1>5. Visits(visit)
  <2>1. \A l \in Levels : visit[l] = IF l = 0 THEN RootIdx
                                     ELSE Next1(visit[l - 1], l)
    <3> HIDE DEF Next1, visit, Levels
    <3> QED
      BY <1>3, <1>4
  <2>2. visit = [l \in Levels |-> visit[l]]
    OBVIOUS
  <2> HIDE DEF visit, Next1, Levels
  <2>3. QED
    BY <2>1, <2>2
<1>6. ASSUME NEW f, Visits(f) PROVE \A l \in Levels : f[l] = visit[l]
  <2>1. SUFFICES ASSUME NEW k \in Levels, f[k] # visit[k] PROVE FALSE
    OBVIOUS
  <2>2. \A l \in Levels : f[l] = IF l = 0 THEN RootIdx ELSE Next1(f[l - 1], l)
    <3> HIDE DEF Next1, Levels
    <3> QED
      BY <1>6
  <2> HIDE DEF visit, Next1, Visits
  <2> DEFINE bad == {l \in Levels : f[l] # visit[l]}
  <2>3. bad \in SUBSET Nat /\ bad # {}
    <3>1. \A l \in Levels : l \in Nat
      OBVIOUS
    <3> HIDE DEF Levels
    <3>2. QED
      BY <3>1, <2>1
  <2>4. PICK l \in bad : \A j \in bad : l <= j
    <3> HIDE DEF bad
    <3> QED
      BY <2>3, LeastNatural
  <2>5. l \in Levels /\ f[l] # visit[l] /\ l \in Nat
    BY <2>3
  <2>6. l # 0
    BY <2>2, <2>5, <1>4
  <2>7. l - 1 \in Levels /\ ~(l <= l - 1)
    BY <1>2, <2>5, <2>6
  <2>8. f[l - 1] = visit[l - 1]
    BY <2>4, <2>7
  <2>9. f[l] = visit[l]
    BY <2>2, <2>5, <2>6, <2>8, <1>3
  <2>10. QED
    BY <2>5, <2>9
<1>7. LeafIdx(p, trunk, map, max_level)
        = MappedLeaf(map, (CHOOSE f : Visits(f))[max_level + 1])
  BY DEF LeafIdx
<1>8. Visits(CHOOSE f : Visits(f))
  <2> HIDE DEF Visits, visit
  <2> QED
    BY <1>5
<1>9. visit[max_level + 1] = n
  <2>1. max_level + 1 \in Levels
    BY <1>2
  <2>2. CASE max_level + 1 = depth
    BY <2>1, <2>2, <1>1
  <2>3. CASE max_level + 1 > depth
    BY <2>1, <2>3
  <2>4. QED
    BY <2>2, <2>3
<1>10. QED
  <2>1. max_level + 1 \in Levels
    BY <1>2
  <2> HIDE DEF Visits, visit, Levels
  <2>2. QED
    BY <2>1, <1>6, <1>7, <1>8, <1>9

(* A search both ways comes to every mapped stem where its point lies: it  *)
(* visits what the ways down from the root lead to, level by level, and    *)
(* stays where a stem is mapped.                                           *)
LEMMA LeavesAroundLies ==
    ASSUME NEW trunk \in Seq(Int), NEW map,
           NEW max_level \in Int, max_level >= -1,
           \A i \in Interior(trunk) : MappedLeaf(map, i) = 0,
           NEW p, NEW n, NEW depth \in Nat, depth <= max_level + 1,
           Lies(p, n, depth, trunk), MappedLeaf(map, n) # 0
    PROVE  MappedLeaf(map, n) \in LeavesAround(p, trunk, map, max_level)
<1>1. PICK way \in [0 .. depth -> Nat] :
         /\ way[0] = RootIdx /\ way[depth] = n
         /\ \A j \in 0 .. depth - 1 :
               /\ way[j] \in Interior(trunk)
               /\ way[j + 1] \in Ways(way[j], p[j % K], trunk[way[j]])
  BY DEF Lies
<1> DEFINE Levels == 0 .. max_level + 1
           Step(stem, l) ==
              IF MappedLeaf(map, stem) # 0 \/ stem \notin DOMAIN trunk
              THEN {stem}
              ELSE Ways(stem, p[(l - 1) % K], trunk[stem])
           Visits(f) == f = [l \in Levels |->
                                IF l = 0 THEN {RootIdx}
                                ELSE UNION {Step(stem, l) : stem \in f[l - 1]}]
           Down(w, l) == /\ w \in [0 .. l -> Nat] /\ w[0] = RootIdx
                         /\ \A j \in 0 .. l - 1 : w[j + 1] \in Step(w[j], j + 1)
           visit == [l \in Levels |->
                        {s \in Nat : \E w \in [0 .. l -> Nat] :
                                        Down(w, l) /\ w[l] = s}]
<1>2. max_level + 1 \in Nat /\ \A l \in Levels : l # 0 => l - 1 \in Levels /\ l \in Nat
  OBVIOUS
<1>3. \A s \in Nat : \A l : Step(s, l) \subseteq Nat
  BY DEF Ways, LeftChild, RightChild
<1>4. visit[0] = {RootIdx}
  <2>1. 0 \in Levels
    BY <1>2
  <2>2. ASSUME NEW s \in visit[0] PROVE s = RootIdx
    BY <2>1, <2>2
  <2>3. RootIdx \in visit[0]
    <3>1. Down([j \in 0 .. 0 |-> RootIdx], 0)
      BY DEF RootIdx
    <3>2. [j \in 0 .. 0 |-> RootIdx] \in [0 .. 0 -> Nat] /\ RootIdx \in Nat
      BY DEF RootIdx
    <3> HIDE DEF Down
    <3>3. QED
      BY <3>1, <3>2, <2>1
  <2> HIDE DEF visit
  <2>4. QED
    BY <2>2, <2>3
<1>5. ASSUME NEW l \in Levels, l # 0
      PROVE  visit[l] = UNION {Step(stem, l) : stem \in visit[l - 1]}
  <2>0. l \in Nat /\ l - 1 \in Nat /\ l - 1 \in Levels /\ (l - 1) + 1 = l
        /\ l - 1 \in 0 .. l - 1
    BY <1>2, <1>5
  <2>1. ASSUME NEW s \in visit[l]
        PROVE  \E stem \in visit[l - 1] : s \in Step(stem, l)
    <3>1. PICK w \in [0 .. l -> Nat] : Down(w, l) /\ w[l] = s
      OBVIOUS
    <3> DEFINE w2 == [j \in 0 .. l - 1 |-> w[j]]
    <3>2. w2 \in [0 .. l - 1 -> Nat] /\ w2[l - 1] = w[l - 1]
      BY <2>0
    <3>3. Down(w2, l - 1)
      <4>1. w2[0] = RootIdx
        BY <2>0, <3>1
      <4>2. ASSUME NEW j \in 0 .. (l - 1) - 1
            PROVE  w2[j + 1] \in Step(w2[j], j + 1)
        <5>1. j \in 0 .. l - 1 /\ j + 1 \in 0 .. l - 1
          BY <2>0
        <5>2. w[j + 1] \in Step(w[j], j + 1)
          BY <3>1, <5>1
        <5> HIDE DEF Step
        <5>3. QED
          BY <5>1, <5>2
      <4> HIDE DEF w2, Step
      <4>3. QED
        BY <4>1, <4>2, <3>2
    <3>4. w[l - 1] \in visit[l - 1]
      <4>1. w[l - 1] \in Nat
        BY <2>0
      <4> HIDE DEF Down, w2, Levels
      <4>2. QED
        BY <4>1, <3>2, <3>3, <2>0
    <3>5. s \in Step(w[l - 1], l)
      <4>1. w[(l - 1) + 1] \in Step(w[l - 1], (l - 1) + 1)
        BY <3>1, <2>0
      <4> HIDE DEF Step
      <4>2. QED
        BY <4>1, <3>1, <2>0
    <3> HIDE DEF Step, visit
    <3>6. QED
      BY <3>4, <3>5
  <2>2. ASSUME NEW stem \in visit[l - 1], NEW s \in Step(stem, l)
        PROVE  s \in visit[l]
    <3>1. PICK w \in [0 .. l - 1 -> Nat] : Down(w, l - 1) /\ w[l - 1] = stem
      BY <2>0
    <3>2. stem \in Nat
      BY <2>0
    <3>3. s \in Nat
      <4> HIDE DEF Step, visit
      <4> QED
        BY <3>2, <1>3
    <3> DEFINE w2 == [j \in 0 .. l |-> IF j = l THEN s ELSE w[j]]
    <3>4. w2 \in [0 .. l -> Nat] /\ w2[l] = s
      <4>1. \A j \in 0 .. l : j # l => j \in 0 .. l - 1
        BY <2>0
      <4>2. QED
        BY <4>1, <3>3, <2>0
    <3>5. \A j \in 0 .. l - 1 : w2[j] = w[j]
      BY <2>0
    <3>6. Down(w2, l)
      <4>1. w2[0] = RootIdx
        <5>1. 0 \in 0 .. l - 1
          BY <2>0
        <5> HIDE DEF w2
        <5>2. QED
          BY <5>1, <3>1, <3>5
      <4>2. ASSUME NEW j \in 0 .. l - 1
            PROVE  w2[j + 1] \in Step(w2[j], j + 1)
        <5>1. CASE j = l - 1
          <6> HIDE DEF w2, Step
          <6> QED
            BY <5>1, <3>1, <3>4, <3>5, <2>0, <2>2
        <5>2. CASE j # l - 1
          <6>1. j \in 0 .. (l - 1) - 1 /\ j + 1 \in 0 .. l - 1
            BY <5>2, <2>0
          <6>2. w[j + 1] \in Step(w[j], j + 1)
            BY <6>1, <3>1
          <6> HIDE DEF w2, Step
          <6>3. QED
            BY <6>1, <6>2, <3>5
        <5>3. QED
          BY <5>1, <5>2
      <4> HIDE DEF w2, Step
      <4>3. QED
        BY <4>1, <4>2, <3>4
    <3> HIDE DEF Down, w2, Levels
    <3>7. QED
      BY <3>3, <3>4, <3>6
  <2> HIDE DEF Step, visit, Levels
  <2>3. QED
    BY <2>1, <2>2
<1>6. Visits(visit)
  <2>1. \A l \in Levels : visit[l] =
           IF l = 0 THEN {RootIdx}
           ELSE UNION {Step(stem, l) : stem \in visit[l - 1]}
    <3> HIDE DEF Step, visit, Levels
    <3> QED
      BY <1>4, <1>5
  <2>2. visit = [l \in Levels |-> visit[l]]
    OBVIOUS
  <2> HIDE DEF visit, Step, Levels
  <2>3. QED
    BY <2>1, <2>2
<1>7. ASSUME NEW f, Visits(f) PROVE \A l \in Levels : f[l] = visit[l]
  <2>1. SUFFICES ASSUME NEW k \in Levels, f[k] # visit[k] PROVE FALSE
    OBVIOUS
  <2>2. \A l \in Levels : f[l] = IF l = 0 THEN {RootIdx}
                                 ELSE UNION {Step(stem, l) : stem \in f[l - 1]}
    <3> HIDE DEF Step, Levels
    <3> QED
      BY <1>7
  <2> HIDE DEF visit, Step, Visits
  <2> DEFINE bad == {l \in Levels : f[l] # visit[l]}
  <2>3. bad \in SUBSET Nat /\ bad # {}
    <3>1. \A l \in Levels : l \in Nat
      OBVIOUS
    <3> HIDE DEF Levels
    <3>2. QED
      BY <3>1, <2>1
  <2>4. PICK l \in bad : \A j \in bad : l <= j
    <3> HIDE DEF bad
    <3> QED
      BY <2>3, LeastNatural
  <2>5. l \in Levels /\ f[l] # visit[l] /\ l \in Nat
    BY <2>3
  <2>6. l # 0
    BY <2>2, <2>5, <1>4
  <2>7. l - 1 \in Levels /\ ~(l <= l - 1)
    BY <1>2, <2>5, <2>6
  <2>8. f[l - 1] = visit[l - 1]
    BY <2>4, <2>7
  <2>9. f[l] = visit[l]
    <3> HIDE DEF Levels, bad
    <3> QED
      BY <2>2, <2>5, <2>6, <2>8, <1>5
  <2>10. QED
    BY <2>5, <2>9
<1>8. LeavesAround(p, trunk, map, max_level)
        = {MappedLeaf(map, stem) :
              stem \in (CHOOSE f : Visits(f))[max_level + 1]}
  BY DEF LeavesAround
<1>9. Visits(CHOOSE f : Visits(f))
  <2> HIDE DEF Visits, visit
  <2> QED
    BY <1>6
<1>10. n \in visit[max_level + 1]
  <2> DEFINE top == max_level + 1
             w == [j \in 0 .. top |-> IF j <= depth THEN way[j] ELSE n]
  <2>1. n \in Nat /\ top \in Nat /\ top \in Levels /\ depth <= top
    BY <1>1, <1>2
  <2>2. w \in [0 .. top -> Nat] /\ w[0] = RootIdx
    BY <1>1, <2>1
  <2>3. w[top] = n
    <3>1. CASE top = depth
      BY <3>1, <1>1, <2>1
    <3>2. CASE top # depth
      BY <3>2, <2>1
    <3>3. QED
      BY <3>1, <3>2
  <2>4. ASSUME NEW j \in 0 .. top - 1
        PROVE  w[j + 1] \in Step(w[j], j + 1)
    <3>0. j \in 0 .. top /\ j + 1 \in 0 .. top /\ (j + 1) - 1 = j /\ j \in Nat
      BY <2>1
    <3>1. CASE j < depth
      <4>1. j \in 0 .. depth - 1 /\ w[j] = way[j] /\ w[j + 1] = way[j + 1]
        BY <3>0, <3>1
      <4>2. way[j] \in Interior(trunk)
            /\ way[j + 1] \in Ways(way[j], p[j % K], trunk[way[j]])
        BY <4>1, <1>1
      <4>3. MappedLeaf(map, way[j]) = 0 /\ way[j] \in DOMAIN trunk
        BY <4>2 DEF Interior
      <4> HIDE DEF w
      <4>4. Step(way[j], j + 1) = Ways(way[j], p[j % K], trunk[way[j]])
        BY <4>3, <3>0
      <4> HIDE DEF Step
      <4>5. QED
        BY <4>1, <4>2, <4>4
    <3>2. CASE ~(j < depth)
      <4>1. w[j + 1] = n
        BY <3>0, <3>2
      <4>2. w[j] = n
        <5>1. CASE j = depth
          BY <5>1, <3>0, <1>1
        <5>2. CASE j # depth
          BY <5>2, <3>0, <3>2
        <5>3. QED
          BY <5>1, <5>2
      <4> HIDE DEF w
      <4>3. QED
        BY <4>1, <4>2
    <3>3. QED
      BY <3>1, <3>2
  <2>5. Down(w, top)
    <3> HIDE DEF w, Step
    <3> QED
      BY <2>2, <2>4
  <2> HIDE DEF Down, w, Levels
  <2>6. n \in visit[top]
    BY <2>1, <2>2, <2>3, <2>5
  <2>7. QED
    BY <2>6
<1>11. QED
  <2>1. max_level + 1 \in Levels
    BY <1>2
  <2> HIDE DEF Visits, visit, Levels
  <2>2. n \in (CHOOSE f : Visits(f))[max_level + 1]
    BY <2>1, <1>7, <1>9, <1>10
  <2>3. QED
    BY <2>2, <1>8

-----------------------------------------------------------------------------
(* Trees and their leaves.                                                 *)

(* The k-th leaf, or chunk to become leaves, is at the terminal stem       *)
(* nodes[k], no two at the same, and every entry it holds lies there; one  *)
(* of a set that is known to be on the right side of every stem is routed  *)
(* there too.                                                              *)
Sited(nodes, laid, trunk, max_level, known) ==
    /\ nodes \in Seq(Nat)
    /\ Len(nodes) = Len(laid)
    /\ Shape(trunk, {nodes[k] : k \in DOMAIN nodes})
    /\ Within(trunk, max_level)
    /\ \A i, j \in DOMAIN nodes : nodes[i] = nodes[j] => i = j
    /\ \A k \in DOMAIN nodes : \A e \in Occupied(laid[k]) :
          /\ \E depth \in Nat : Lies(e.point, nodes[k], depth, trunk)
          /\ e \in known =>
                \E depth \in Nat : Routed(e.point, nodes[k], depth, trunk)
    /\ Cut(trunk)

(* The axis of a level. *)
LEMMA DimType == ASSUME NEW depth \in Nat PROVE depth % K \in 0 .. K - 1
  BY PointsAssumption

(* What a side of a value holds, the bucket held, and its point belongs on *)
(* that side.                                                              *)
LEMMA SideOccupants ==
    ASSUME NEW b, NEW dim \in 0 .. K - 1, NEW v \in Int
    PROVE  /\ \A e \in Occupied(Below(b, dim, v)) :
                 /\ e \in Occupied(b)
                 /\ ~(e.point[dim] >= v)
           /\ \A e \in Occupied(AtLeast(b, dim, v)) :
                 /\ e \in Occupied(b)
                 /\ e.point[dim] >= v
<1>1. \A e \in Entries : e.point[dim] \in Int
  BY PointsAssumption DEF Entries
<1>2. ~(0 > 0)
  OBVIOUS
<1>3. ASSUME NEW e \in Occupied(Below(b, dim, v))
      PROVE  e \in Occupied(b) /\ ~(e.point[dim] >= v)
  <2>1. e \in Entries /\ Below(b, dim, v)[e] > 0
    BY DEF Occupied
  <2>2. e.point[dim] < v /\ b[e] > 0
    BY <2>1, <1>2 DEF Below
  <2>3. ~(e.point[dim] >= v)
    BY <2>1, <2>2, <1>1
  <2>4. QED
    BY <2>1, <2>2, <2>3 DEF Occupied
<1>4. ASSUME NEW e \in Occupied(AtLeast(b, dim, v))
      PROVE  e \in Occupied(b) /\ e.point[dim] >= v
  <2>1. e \in Entries /\ AtLeast(b, dim, v)[e] > 0
    BY DEF Occupied
  <2>2. e.point[dim] >= v /\ b[e] > 0
    BY <2>1, <1>2 DEF AtLeast
  <2>3. QED
    BY <2>1, <2>2 DEF Occupied
<1>5. QED
  BY <1>3, <1>4

(* A tree of one leaf. *)
LEMMA SitedAtRoot ==
    ASSUME NEW b \in Bucket, NEW trunk, NEW max_level, NEW known,
           \A i \in DOMAIN trunk : trunk[i] = MaxValue
    PROVE  Sited(<<RootIdx>>, <<b>>, trunk, max_level, known)
<1>1. /\ <<RootIdx>> \in Seq(Nat) /\ Len(<<RootIdx>>) = Len(<<b>>)
      /\ DOMAIN <<RootIdx>> = {1} /\ <<RootIdx>>[1] = RootIdx
  BY DEF RootIdx
<1>2. {<<RootIdx>>[k] : k \in DOMAIN <<RootIdx>>} = {RootIdx}
  BY <1>1
<1>3. Shape(trunk, {RootIdx}) /\ Within(trunk, max_level)
  BY ShapeOfRoot
<1>4. \A e : /\ Lies(e.point, RootIdx, 0, trunk)
             /\ Routed(e.point, RootIdx, 0, trunk)
  BY LiesAtRoot, RoutedToRoot
<1>5. Cut(trunk)
  BY ShapeOfRoot DEF Cut
<1>6. QED
  BY <1>1, <1>2, <1>3, <1>4, <1>5 DEF Sited

(* A split at value v puts nothing above it at the left child of the stem  *)
(* and nothing below it at the right one.                                  *)
SidesAt(nodes, nodes2, laid, laid2, m, a, b, split_level, v, known) ==
    /\ nodes2[a] = LeftChild(nodes[m])
    /\ nodes2[b] = RightChild(nodes[m])
    /\ \A e \in Occupied(laid2[a]) :
          /\ e \in Occupied(laid[m])
          /\ e.point[split_level % K] <= v
          /\ e \in known => e.point[split_level % K] < v
    /\ \A e \in Occupied(laid2[b]) :
          /\ e \in Occupied(laid[m])
          /\ e.point[split_level % K] >= v

LEMMA SitedSplit ==
    ASSUME NEW laid \in Seq(Bucket), NEW laid2 \in Seq(Bucket),
           NEW nodes \in Seq(Nat), NEW nodes2 \in Seq(Nat),
           NEW trunk \in Seq(Int), NEW max_level \in Int, NEW known,
           Sited(nodes, laid, trunk, max_level, known), Len(nodes2) = Len(laid2),
           NEW m, NEW a, NEW b, NEW g,
           DividedAt(nodes, nodes2, m, a, b, g), DividedAt(laid, laid2, m, a, b, g),
           NEW split_level \in Nat, AtLevel(nodes[m], split_level),
           NEW v \in Int, v < MaxValue, v \in Coords(laid[m], split_level % K),
           SidesAt(nodes, nodes2, laid, laid2, m, a, b, split_level, v, known)
    PROVE  Sited(nodes2, laid2,
                 [Grown(trunk, nodes[m], MaxValue) EXCEPT ![nodes[m]] = v],
                 AtLeastOf(max_level, split_level), known)
<1> DEFINE n == nodes[m]
           dim == split_level % K
           after == [Grown(trunk, n, MaxValue) EXCEPT ![n] = v]
           below == {LeftChild(n), RightChild(n)}
           terminal == {nodes[k] : k \in DOMAIN nodes}
           terminal2 == {nodes2[k] : k \in DOMAIN nodes2}
           t == DOMAIN nodes \ {m}
           u == DOMAIN nodes2 \ {a, b}
<1>0. /\ m \in DOMAIN nodes /\ a \in DOMAIN nodes2 /\ b \in DOMAIN nodes2
      /\ a # b /\ g \in Bijection(t, u)
      /\ \A k \in t : nodes2[g[k]] = nodes[k] /\ laid2[g[k]] = laid[k]
  <2>1. DOMAIN nodes = DOMAIN laid
    BY LenProperties DEF Sited
  <2>2. QED
    BY <2>1 DEF DividedAt
<1>sides. /\ nodes2[a] = LeftChild(n) /\ nodes2[b] = RightChild(n)
          /\ \A e \in Occupied(laid2[a]) :
                /\ e \in Occupied(laid[m])
                /\ e.point[dim] <= v
                /\ e \in known => e.point[dim] < v
          /\ \A e \in Occupied(laid2[b]) :
                e \in Occupied(laid[m]) /\ e.point[dim] >= v
  BY DEF SidesAt
<1>1. /\ g \in [t -> u]
      /\ \A x, y \in t : g[x] = g[y] => x = y
      /\ \A y \in u : \E x \in t : g[x] = y
  BY <1>0 DEF Bijection, Injection, Surjection, IsInjective
<1>2. /\ Shape(trunk, terminal) /\ Within(trunk, max_level)
      /\ \A i, j \in DOMAIN nodes : nodes[i] = nodes[j] => i = j
      /\ \A k \in DOMAIN nodes : \A e \in Occupied(laid[k]) :
            /\ \E depth \in Nat : Lies(e.point, nodes[k], depth, trunk)
            /\ e \in known =>
                  \E depth \in Nat : Routed(e.point, nodes[k], depth, trunk)
  BY DEF Sited
<1>3. n \in terminal
  BY <1>0
<1>4. /\ n \in Nat \ {0} /\ n \notin Interior(trunk)
      /\ Shape(after, (terminal \ {n}) \cup below)
      /\ below \cap terminal = {}
      /\ LeftChild(n) # RightChild(n)
  <2> HIDE DEF n, terminal
  <2> QED
    BY <1>2, <1>3, ShapeAfter
<1>5. \A y \in u : \E x \in t : nodes2[y] = nodes[x] /\ laid2[y] = laid[x]
  <2>1. \A x \in t : nodes2[g[x]] = nodes[x] /\ laid2[g[x]] = laid[x]
    BY <1>0
  <2> HIDE DEF t, u
  <2>2. ASSUME NEW y \in u
        PROVE  \E x \in t : nodes2[y] = nodes[x] /\ laid2[y] = laid[x]
    <3>1. PICK x \in t : g[x] = y
      BY <1>1
    <3>2. nodes2[y] = nodes[x] /\ laid2[y] = laid[x]
      BY <3>1, <2>1
    <3>3. QED
      BY <3>2
  <2>3. QED
    BY <2>2
<1>6. \A y \in u : nodes2[y] \in terminal \ {n}
  <2> TAKE y \in u
  <2>1. PICK x \in t : nodes2[y] = nodes[x]
    BY <1>5
  <2>2. nodes[x] # n
    BY <1>0, <1>2
  <2> QED
    BY <2>1, <2>2
<1>7. \A x \in t : g[x] \in u /\ nodes2[g[x]] = nodes[x]
  BY <1>0, <1>1
<1>8. terminal2 = (terminal \ {n}) \cup below
  <2>1. ASSUME NEW y \in DOMAIN nodes2
        PROVE  nodes2[y] \in (terminal \ {n}) \cup below
    <3>1. y \in u \/ y = a \/ y = b
      OBVIOUS
    <3>2. QED
      BY <3>1, <1>sides, <1>6
  <2>2. ASSUME NEW x \in DOMAIN nodes, nodes[x] # n
        PROVE  nodes[x] \in terminal2
    <3>1. x \in t
      BY <2>2
    <3>2. QED
      BY <3>1, <1>7
  <2>3. LeftChild(n) \in terminal2 /\ RightChild(n) \in terminal2
    BY <1>0, <1>sides
  <2>4. \A x \in terminal \ {n} : x \in terminal2
    BY <2>2
  <2>5. \A x \in terminal2 : x \in (terminal \ {n}) \cup below
    BY <2>1
  <2> HIDE DEF n, terminal, terminal2
  <2>6. QED
    BY <2>3, <2>4, <2>5
<1>9. Shape(after, terminal2)
  BY <1>4, <1>8
<1>10. Within(after, AtLeastOf(max_level, split_level))
  <2> HIDE DEF n, after
  <2>1. Within([Grown(trunk, n, MaxValue) EXCEPT ![n] = v],
               AtLeastOf(max_level, split_level))
    BY <1>2, <1>4, WithinAfter DEF n
  <2>2. QED
    BY <2>1 DEF after
<1>11. ASSUME NEW i \in DOMAIN nodes2, NEW j \in DOMAIN nodes2,
              nodes2[i] = nodes2[j]
       PROVE  i = j
  <2>1. /\ i \in u \/ i = a \/ i = b
        /\ j \in u \/ j = a \/ j = b
    OBVIOUS
  <2>2. CASE i \in u /\ j \in u
    <3>1. PICK x \in t : g[x] = i
      BY <2>2, <1>1
    <3>2. PICK y \in t : g[y] = j
      BY <2>2, <1>1
    <3>3. nodes[x] = nodes[y]
      BY <3>1, <3>2, <1>7, <1>11
    <3>4. x = y
      BY <3>3, <1>2
    <3>5. QED
      BY <3>1, <3>2, <3>4
  <2>3. nodes2[a] # nodes2[b] /\ nodes2[a] \in below /\ nodes2[b] \in below
    BY <1>sides, <1>4
  <2>4. \A y \in u : nodes2[y] \notin below
    BY <1>4, <1>6
  <2>5. ~(i \in u /\ j \in {a, b}) /\ ~(j \in u /\ i \in {a, b})
    BY <2>3, <2>4, <1>11
  <2>6. CASE i \in {a, b} /\ j \in {a, b}
    <3>1. CASE i = a
      <4>1. j # b
        BY <3>1, <2>3, <1>11
      <4>2. j = a \/ j = b
        BY <2>6
      <4>3. QED
        BY <4>1, <4>2, <3>1, Zenon
    <3>2. CASE i = b
      <4>1. j # a
        BY <3>2, <2>3, <1>11
      <4>2. j = a \/ j = b
        BY <2>6
      <4>3. QED
        BY <4>1, <4>2, <3>2, Zenon
    <3>3. i = a \/ i = b
      BY <2>6
    <3>4. QED
      BY <3>1, <3>2, <3>3, Zenon
  <2>7. QED
    BY <2>1, <2>2, <2>5, <2>6
<1>12. ASSUME NEW p, NEW k, NEW depth \in Nat, Lies(p, k, depth, trunk)
       PROVE  /\ Lies(p, k, depth, after)
              /\ k = n => \A c \in Ways(n, p[dim], v) :
                            Lies(p, c, split_level + 1, after)
  <2> HIDE DEF n, after
  <2>1. LET w == [Grown(trunk, n, MaxValue) EXCEPT ![n] = v] IN
        /\ Lies(p, k, depth, w)
        /\ k = n => \A c \in Ways(n, p[split_level % K], v) :
                      Lies(p, c, split_level + 1, w)
    BY <1>4, <1>12, LiesAfter DEF n
  <2>2. QED
    BY <2>1 DEF after
<1>13. ASSUME NEW p, NEW k, NEW depth \in Nat, Routed(p, k, depth, trunk)
       PROVE  /\ Routed(p, k, depth, after)
              /\ k = n => Routed(p, Child(n, p[dim] >= v), split_level + 1, after)
  <2> HIDE DEF n, after
  <2>1. LET w == [Grown(trunk, n, MaxValue) EXCEPT ![n] = v] IN
        /\ Routed(p, k, depth, w)
        /\ k = n => Routed(p, Child(n, p[split_level % K] >= v),
                           split_level + 1, w)
    BY <1>4, <1>13, RoutedAfter DEF n
  <2>2. QED
    BY <2>1 DEF after
<1>14. /\ \A k \in DOMAIN nodes2 : k \in u \/ k = a \/ k = b
       /\ nodes2[a] = LeftChild(n) /\ nodes2[b] = RightChild(n)
       /\ m \in DOMAIN nodes /\ split_level + 1 \in Nat
       /\ \A e \in Occupied(laid[m]) : e.point[dim] \in Int
  <2>1. \A e \in Entries : e.point[dim] \in Int
    BY DimType, PointsAssumption DEF Entries
  <2>2. \A e \in Occupied(laid[m]) : e.point[dim] \in Int
    BY <2>1 DEF Occupied
  <2>3. split_level + 1 \in Nat
    OBVIOUS
  <2> HIDE DEF n, dim
  <2>4. QED
    BY <2>2, <2>3, <1>0, <1>sides, Zenon
<1> HIDE DEF dim, u, t, n, after
<1>15. ASSUME NEW k \in DOMAIN nodes2, NEW e \in Occupied(laid2[k])
       PROVE  \E depth \in Nat : Lies(e.point, nodes2[k], depth, after)
  <2>1. CASE k \in u
    <3>1. PICK x \in t : nodes2[k] = nodes[x] /\ laid2[k] = laid[x]
      BY <2>1, <1>5
    <3>2. PICK depth \in Nat : Lies(e.point, nodes[x], depth, trunk)
      BY <3>1, <1>2, <1>15 DEF t
    <3>3. QED
      BY <3>1, <3>2, <1>12
  <2>2. CASE k = a
    <3>1. e \in Occupied(laid[m]) /\ e.point[dim] <= v
      BY <1>sides, <1>15, <2>2
    <3>2. PICK depth \in Nat : Lies(e.point, n, depth, trunk)
      BY <3>1, <1>2, <1>14 DEF n
    <3>3. LeftChild(n) \in Ways(n, e.point[dim], v)
      BY <3>1, <1>4 DEF Ways
    <3>4. Lies(e.point, LeftChild(n), split_level + 1, after)
      BY <3>2, <3>3, <1>12
    <3>5. QED
      BY <3>4, <2>2, <1>14
  <2>3. CASE k = b
    <3>1. e \in Occupied(laid[m]) /\ e.point[dim] >= v
      BY <1>sides, <1>15, <2>3
    <3>2. PICK depth \in Nat : Lies(e.point, n, depth, trunk)
      BY <3>1, <1>2, <1>14 DEF n
    <3>3. RightChild(n) \in Ways(n, e.point[dim], v)
      BY <3>1, <1>4 DEF Ways
    <3>4. Lies(e.point, RightChild(n), split_level + 1, after)
      BY <3>2, <3>3, <1>12
    <3>5. QED
      BY <3>4, <2>3, <1>14
  <2>4. QED
    BY <2>1, <2>2, <2>3, <1>14
<1>known. ASSUME NEW k \in DOMAIN nodes2, NEW e \in Occupied(laid2[k]), e \in known
          PROVE  \E depth \in Nat : Routed(e.point, nodes2[k], depth, after)
  <2>1. CASE k \in u
    <3>1. PICK x \in t : nodes2[k] = nodes[x] /\ laid2[k] = laid[x]
      BY <2>1, <1>5
    <3>2. PICK depth \in Nat : Routed(e.point, nodes[x], depth, trunk)
      BY <3>1, <1>2, <1>known DEF t
    <3>3. QED
      BY <3>1, <3>2, <1>13
  <2>2. ASSUME e \in Occupied(laid[m]),
               Child(n, e.point[dim] >= v) = nodes2[k]
        PROVE  \E depth \in Nat : Routed(e.point, nodes2[k], depth, after)
    <3>1. PICK depth \in Nat : Routed(e.point, n, depth, trunk)
      BY <2>2, <1>2, <1>14, <1>known DEF n
    <3>2. Routed(e.point, nodes2[k], split_level + 1, after)
      BY <3>1, <2>2, <1>13
    <3>3. QED
      BY <3>2, <1>14
  <2>3. CASE k = a
    <3>1. e \in Occupied(laid[m]) /\ e.point[dim] < v
      BY <1>sides, <1>known, <2>3
    <3>2. ~(e.point[dim] >= v)
      <4>1. e.point[dim] \in Int
        BY <3>1, <1>14
      <4>2. QED
        BY <4>1, <3>1
    <3>3. Child(n, e.point[dim] >= v) = nodes2[k]
      BY <3>2, <2>3, <1>14, Zenon DEF Child
    <3>4. QED
      BY <3>1, <3>3, <2>2
  <2>4. CASE k = b
    <3>1. e \in Occupied(laid[m]) /\ e.point[dim] >= v
      BY <1>sides, <1>known, <2>4
    <3>2. Child(n, e.point[dim] >= v) = nodes2[k]
      BY <3>1, <2>4, <1>14, Zenon DEF Child
    <3>3. QED
      BY <3>1, <3>2, <2>2
  <2>5. QED
    BY <2>1, <2>3, <2>4, <1>14
<1>16. /\ Interior(after) = Interior(trunk) \cup {n} /\ after[n] = v
       /\ \A i \in Interior(trunk) : after[i] = trunk[i]
  <2>1. LET w == [Grown(trunk, n, MaxValue) EXCEPT ![n] = v] IN
        /\ Interior(w) = Interior(trunk) \cup {n} /\ w[n] = v
        /\ \A i \in Interior(trunk) : w[i] = trunk[i]
    BY <1>4, InteriorAfter, SMTT(30)
  <2>2. QED
    BY <2>1 DEF after
<1>17. ASSUME NEW i \in Interior(after)
       PROVE  \E p \in [0 .. K - 1 -> Int] : \E depth \in Nat :
                 Lies(p, i, depth, after) /\ p[depth % K] = after[i]
  <2>1. CASE i \in Interior(trunk)
    <3>1. PICK p \in [0 .. K - 1 -> Int] : \E depth \in Nat :
             Lies(p, i, depth, trunk) /\ p[depth % K] = trunk[i]
      BY <2>1 DEF Sited, Cut
    <3>2. PICK depth \in Nat : Lies(p, i, depth, trunk) /\ p[depth % K] = trunk[i]
      BY <3>1
    <3>3. Lies(p, i, depth, after) /\ p[depth % K] = after[i]
      BY <2>1, <3>2, <1>12, <1>16
    <3>4. QED
      BY <3>3
  <2>2. CASE i = n
    <3>1. PICK e \in Occupied(laid[m]) : e.point[dim] = v
      BY DEF Coords, dim
    <3>2. PICK depth \in Nat : Lies(e.point, n, depth, trunk)
      BY <3>1, <1>2, <1>14 DEF n
    <3>3. depth = split_level
      BY <3>2, LiesLevel, LevelUnique DEF n
    <3>4. Lies(e.point, n, depth, after) /\ e.point[depth % K] = after[n]
      BY <3>1, <3>2, <3>3, <1>12, <1>16 DEF dim
    <3>5. e.point \in [0 .. K - 1 -> Int]
      BY <3>1, PointsAssumption DEF Occupied, Entries
    <3>6. QED
      BY <2>2, <3>4, <3>5
  <2>3. QED
    BY <2>1, <2>2, <1>16
<1>18. Sited(nodes2, laid2, after, AtLeastOf(max_level, split_level), known)
  BY <1>9, <1>10, <1>11, <1>15, <1>known, <1>17 DEF Sited, Cut
<1>19. QED
  BY <1>18 DEF after, n

-----------------------------------------------------------------------------
(* Maps.                                                                   *)

(* A map gives the stem of each leaf that leaf, and no other stem one. *)
Maps(leaf_numbers, nodes) ==
    /\ \A k \in DOMAIN nodes : MappedLeaf(leaf_numbers, nodes[k]) = k
    /\ \A n : (\A k \in DOMAIN nodes : nodes[k] # n)
                 => MappedLeaf(leaf_numbers, n) = 0

(* mapped_stem_leaf_resolution_from_terminals makes one of terminal stems  *)
(* that are distinct.                                                      *)
LEMMA TerminalsMap ==
    ASSUME NEW t \in Seq(Nat \ {0}), t # <<>>,
           \A i, j \in DOMAIN t : t[i] = t[j] => i = j
    PROVE  Maps(MappedFromTerminals(t), t) /\ MappedFromTerminals(t) \in Seq(Nat)
<1> DEFINE last(i) == CHOOSE k \in DOMAIN t :
                         t[k] = i /\ \A j \in DOMAIN t : t[j] = i => j <= k
           top == CHOOSE k \in DOMAIN t : \A j \in DOMAIN t : t[j] <= t[k]
           map == [i \in 1 .. t[top] |->
                      IF \E k \in DOMAIN t : t[k] = i THEN last(i) ELSE 0]
<1>1. /\ DOMAIN t = 1 .. Len(t) /\ Len(t) \in Nat /\ Len(t) > 0
      /\ \A k \in DOMAIN t : t[k] \in Nat \ {0}
  BY LenProperties, EmptySeq
<1>2. \A k \in DOMAIN t : k \in Nat \ {0}
  BY <1>1
<1>3. \A k \in DOMAIN t : last(t[k]) = k
  <2> TAKE k \in DOMAIN t
  <2>1. \A i \in DOMAIN t : t[i] = t[k] => i = k
    OBVIOUS
  <2>2. t[k] = t[k] /\ \A j \in DOMAIN t : t[j] = t[k] => j <= k
    BY <2>1, <1>2
  <2> QED
    BY <2>1, <2>2
<1>4. top \in DOMAIN t /\ \A j \in DOMAIN t : t[j] <= t[top]
  <2> DEFINE S == {t[k] : k \in DOMAIN t}
             f == [k \in DOMAIN t |-> t[k]]
  <2>1. S \in SUBSET Int /\ S # {}
    BY <1>1
  <2>2. IsFiniteSet(S)
    <3>1. IsFiniteSet(DOMAIN t)
      BY <1>1, FS_Interval
    <3>2. f \in [DOMAIN t -> S] /\ \A x \in S : \E k \in DOMAIN t : f[k] = x
      OBVIOUS
    <3> HIDE DEF f, S
    <3>3. QED
      BY <3>1, <3>2, FiniteImage
  <2>3. \E x \in S : \A y \in S : y <= x
    <3> HIDE DEF S
    <3> QED
      BY <2>1, <2>2, GreatestMember
  <2>4. \E k \in DOMAIN t : \A j \in DOMAIN t : t[j] <= t[k]
    BY <2>3
  <2>5. QED
    BY <2>4
<1>5. MappedFromTerminals(t) = map
  BY DEF MappedFromTerminals
<1> HIDE DEF last, top
<1>6. \A k \in DOMAIN t : t[k] \in DOMAIN map /\ map[t[k]] = k
  <2> TAKE k \in DOMAIN t
  <2>1. t[k] \in 1 .. t[top]
    BY <1>1, <1>4
  <2> QED
    BY <2>1, <1>3
<1>7. \A n \in DOMAIN map : (\A k \in DOMAIN t : t[k] # n) => map[n] = 0
  OBVIOUS
<1>8. map \in Seq(Nat)
  <2>1. t[top] \in Nat
    BY <1>1, <1>4
  <2>2. \A i \in 1 .. t[top] : map[i] \in Nat
    <3> TAKE i \in 1 .. t[top]
    <3>1. CASE \E k \in DOMAIN t : t[k] = i
      <4>1. PICK k \in DOMAIN t : t[k] = i
        BY <3>1
      <4>2. map[i] = k
        BY <4>1, <1>6
      <4>3. QED
        BY <4>2, <1>2
    <3>2. CASE ~\E k \in DOMAIN t : t[k] = i
      BY <3>2
    <3> QED
      BY <3>1, <3>2
  <2>3. map \in [1 .. t[top] -> Nat]
    BY <2>2
  <2> HIDE DEF map
  <2>4. QED
    BY <2>1, <2>3
<1> HIDE DEF map
<1>9. Maps(map, t)
  BY <1>6, <1>7 DEF Maps, MappedLeaf
<1>10. QED
  BY <1>5, <1>8, <1>9

(* So a search both ways for an entry comes to the leaf that holds it, and *)
(* so does the descent, where the entry is known to be routed there.       *)
LEMMA EntriesAreFound ==
    ASSUME NEW nodes, NEW laid \in Seq(Bucket), NEW trunk \in Seq(Int),
           NEW max_level \in Int, max_level >= -1, NEW known,
           Sited(nodes, laid, trunk, max_level, known),
           NEW map, Maps(map, nodes),
           NEW k \in DOMAIN laid, NEW e \in Occupied(laid[k])
    PROVE  /\ k \in LeavesAround(e.point, trunk, map, max_level)
           /\ e \in known => LeafIdx(e.point, trunk, map, max_level) = k
<1>1. /\ nodes \in Seq(Nat) /\ DOMAIN nodes = DOMAIN laid /\ k \in Nat \ {0}
  <2>1. nodes \in Seq(Nat) /\ Len(nodes) = Len(laid)
    BY DEF Sited
  <2>2. DOMAIN laid = 1 .. Len(laid) /\ DOMAIN nodes = 1 .. Len(nodes)
        /\ Len(laid) \in Nat
    BY <2>1, LenProperties
  <2>3. QED
    BY <2>1, <2>2
<1> DEFINE terminal == {nodes[j] : j \in DOMAIN nodes}
<1>2. Shape(trunk, terminal) /\ Within(trunk, max_level)
  BY DEF Sited
<1>3. PICK depth \in Nat : Lies(e.point, nodes[k], depth, trunk)
  BY <1>1 DEF Sited
<1>4. nodes[k] \in terminal
  BY <1>1
<1>5. \A l \in Nat : AtLevel(nodes[k], l) => l <= max_level + 1
  <2> HIDE DEF terminal
  <2> QED
    BY <1>2, <1>4, NearlyWithin
<1>6. \A i \in Interior(trunk) : MappedLeaf(map, i) = 0
  <2> TAKE i \in Interior(trunk)
  <2>1. \A j \in DOMAIN nodes : nodes[j] # i
    BY <1>2 DEF Shape
  <2> QED
    BY <2>1 DEF Maps
<1>7. MappedLeaf(map, nodes[k]) = k
  BY <1>1 DEF Maps
<1>8. k \in LeavesAround(e.point, trunk, map, max_level)
  <2>1. depth <= max_level + 1
    BY <1>3, <1>5, LiesLevel
  <2> HIDE DEF terminal
  <2>2. MappedLeaf(map, nodes[k]) \in LeavesAround(e.point, trunk, map, max_level)
    BY <1>1, <1>3, <1>6, <1>7, <2>1, LeavesAroundLies
  <2>3. QED
    BY <2>2, <1>7
<1>9. ASSUME e \in known
      PROVE  LeafIdx(e.point, trunk, map, max_level) = k
  <2>1. PICK l \in Nat : Routed(e.point, nodes[k], l, trunk)
    BY <1>1, <1>9 DEF Sited
  <2>2. l <= max_level + 1
    BY <2>1, <1>5, RoutedLevel
  <2>3. QED
    BY <2>1, <2>2, <1>1, <1>6, <1>7, LeafIdxRouted
<1>10. QED
  BY <1>8, <1>9
-----------------------------------------------------------------------------
(* Trees in use.                                                           *)

(* The leaves of a tree sit behind its terminal stems, and its map says    *)
(* where.                                                                  *)
Housed(trunk, map, chunks, max_level) ==
    \E nodes \in Seq(Nat) : /\ Sited(nodes, chunks, trunk, max_level, {})
                            /\ Maps(map, nodes)

(* What is known of some entries may be forgotten. *)
LEMMA SitedForgets ==
    ASSUME NEW nodes, NEW laid, NEW trunk, NEW max_level, NEW known,
           Sited(nodes, laid, trunk, max_level, known)
    PROVE  Sited(nodes, laid, trunk, max_level, {})
  BY DEF Sited

(* A tree with one leaf, behind its root, and no pivot. *)
LEMMA HousedAtRoot ==
    ASSUME NEW trunk, \A i \in DOMAIN trunk : trunk[i] = MaxValue,
           NEW max_level, NEW b \in Bucket
    PROVE  Housed(trunk, <<1>>, <<b>>, max_level)
<1> DEFINE nodes == <<RootIdx>>
<1>1. Sited(nodes, <<b>>, trunk, max_level, {})
  BY SitedAtRoot
<1>2. nodes \in Seq(Nat) /\ DOMAIN nodes = {1} /\ nodes[1] = 1
  BY DEF RootIdx
<1> HIDE DEF nodes
<1>3. DOMAIN <<1>> = {1} /\ <<1>>[1] = 1
  OBVIOUS
<1>4. Maps(<<1>>, nodes)
  BY <1>2, <1>3 DEF Maps, MappedLeaf
<1>5. QED
  BY <1>1, <1>2, <1>4 DEF Housed

(* A route ends at a terminal stem or at an interior one. *)
LEMMA RoutedInside ==
    ASSUME NEW trunk \in Seq(Int), NEW terminal, Shape(trunk, terminal),
           NEW p, NEW n, NEW depth \in Nat, Routed(p, n, depth, trunk)
    PROVE  n \in terminal \cup Interior(trunk)
<1>1. PICK way \in [0 .. depth -> Nat] :
         /\ way[0] = RootIdx /\ way[depth] = n
         /\ \A j \in 0 .. depth - 1 :
               /\ way[j] \in Interior(trunk)
               /\ way[j + 1] = Child(way[j], p[j % K] >= trunk[way[j]])
  BY DEF Routed
<1>2. CASE depth = 0
  BY <1>1, <1>2 DEF Shape
<1>3. CASE depth # 0
  <2>1. depth - 1 \in 0 .. depth - 1 /\ (depth - 1) + 1 = depth
    BY <1>3
  <2>2. PICK i \in Interior(trunk) : n \in {LeftChild(i), RightChild(i)}
    BY <2>1, <1>1 DEF Child
  <2>3. QED
    BY <2>2 DEF Shape
<1>4. QED
  BY <1>2, <1>3

(* Where the descent for a point is: at an interior stem, which has no     *)
(* leaf and is not below the greatest level, or at the end, at a stem that *)
(* has one.                                                                *)
Reaches(trunk, map, chunks, max_level, p, n, depth) ==
    \/ /\ n \in Interior(trunk)
       /\ MappedLeaf(map, n) = 0
       /\ depth <= max_level
    \/ /\ n \notin Interior(trunk)
       /\ n \in Nat \ {0}
       /\ MappedLeaf(map, n) \in DOMAIN chunks
       /\ MappedLeaf(map, n) # 0
       /\ LeafIdx(p, trunk, map, max_level) = MappedLeaf(map, n)

LEMMA HousedReach ==
    ASSUME NEW trunk \in Seq(Int), NEW map, NEW chunks \in Seq(Bucket),
           NEW max_level \in Int, max_level >= -1,
           Housed(trunk, map, chunks, max_level),
           NEW p, NEW n, NEW depth \in Nat, Routed(p, n, depth, trunk)
    PROVE  Reaches(trunk, map, chunks, max_level, p, n, depth)
<1>1. PICK nodes \in Seq(Nat) : /\ Sited(nodes, chunks, trunk, max_level, {})
                                /\ Maps(map, nodes)
  BY DEF Housed
<1> DEFINE terminal == {nodes[j] : j \in DOMAIN nodes}
<1>2. Shape(trunk, terminal) /\ Within(trunk, max_level)
      /\ DOMAIN nodes = DOMAIN chunks /\ DOMAIN chunks \subseteq Nat \ {0}
  <2>1. Len(nodes) = Len(chunks)
    BY <1>1 DEF Sited
  <2>2. DOMAIN chunks = 1 .. Len(chunks) /\ DOMAIN nodes = 1 .. Len(nodes)
        /\ Len(chunks) \in Nat
    BY LenProperties
  <2>3. QED
    BY <1>1, <2>1, <2>2 DEF Sited
<1>3. n \in Nat /\ AtLevel(n, depth)
  BY RoutedLevel
<1>4. n \in terminal \cup Interior(trunk)
  <2> HIDE DEF terminal
  <2> QED
    BY <1>2, RoutedInside
<1>5. \A i \in Interior(trunk) : MappedLeaf(map, i) = 0
  <2> TAKE i \in Interior(trunk)
  <2>1. \A j \in DOMAIN nodes : nodes[j] # i
    BY <1>2 DEF Shape
  <2> QED
    BY <2>1, <1>1 DEF Maps
<1>6. CASE n \in Interior(trunk)
  BY <1>6, <1>5, <1>3, <1>2 DEF Within, Reaches
<1>7. CASE n \notin Interior(trunk)
  <2>1. n \in terminal
    BY <1>4, <1>7
  <2>2. PICK j \in DOMAIN nodes : n = nodes[j]
    BY <2>1
  <2>3. MappedLeaf(map, n) = j
    BY <2>2, <1>1 DEF Maps
  <2>4. n \in Nat \ {0}
    BY <2>1, <1>2 DEF Shape
  <2>5. depth <= max_level + 1
    <3> HIDE DEF terminal
    <3> QED
      BY <1>2, <1>3, <2>1, NearlyWithin
  <2>6. LeafIdx(p, trunk, map, max_level) = j
    <3>1. MappedLeaf(map, n) # 0
      BY <2>2, <2>3, <1>2
    <3>2. QED
      BY <3>1, <2>3, <2>5, <1>5, LeafIdxRouted
  <2>7. QED
    BY <2>2, <2>3, <2>4, <2>6, <1>7, <1>2 DEF Reaches
<1>8. QED
  BY <1>6, <1>7

(* The descent for any point ends, at a stem that has a leaf. *)
Settles(trunk, map, chunks, max_level, p) ==
    \E n \in Nat \ {0} : \E depth \in Nat :
        /\ Routed(p, n, depth, trunk)
        /\ n \notin Interior(trunk)
        /\ MappedLeaf(map, n) \in DOMAIN chunks
        /\ LeafIdx(p, trunk, map, max_level) = MappedLeaf(map, n)

LEMMA HousedSettles ==
    ASSUME NEW trunk \in Seq(Int), NEW map, NEW chunks \in Seq(Bucket),
           NEW max_level \in Int, max_level >= -1,
           Housed(trunk, map, chunks, max_level), NEW p
    PROVE  Settles(trunk, map, chunks, max_level, p)
<1>1. PICK nodes \in Seq(Nat) : /\ Sited(nodes, chunks, trunk, max_level, {})
                                /\ Maps(map, nodes)
  BY DEF Housed
<1> DEFINE inner == {d \in Nat : \E i \in Interior(trunk) : Routed(p, i, d, trunk)}
<1>2. Within(trunk, max_level) /\ Routed(p, RootIdx, 0, trunk)
      /\ Interior(trunk) \subseteq Nat \ {0}
  BY <1>1, RoutedToRoot, InteriorType DEF Sited
<1>3. \E n \in Nat : \E depth \in Nat :
         Routed(p, n, depth, trunk) /\ n \notin Interior(trunk)
  <2>1. CASE RootIdx \notin Interior(trunk)
    BY <2>1, <1>2 DEF RootIdx
  <2>2. CASE RootIdx \in Interior(trunk)
    <3>1. inner \in SUBSET Int /\ inner # {}
      <4>1. 0 \in inner
        BY <2>2, <1>2
      <4>2. \A d \in inner : d \in Int
        OBVIOUS
      <4> HIDE DEF inner
      <4>3. QED
        BY <4>1, <4>2
    <3>2. \A d \in inner : d \in 0 .. max_level
      <4> TAKE d \in inner
      <4>1. PICK i \in Interior(trunk) : Routed(p, i, d, trunk)
        OBVIOUS
      <4>2. d \in Nat /\ AtLevel(i, d)
        BY <4>1, RoutedLevel
      <4>3. d <= max_level
        BY <4>2, <1>2 DEF Within
      <4> HIDE DEF inner
      <4> QED
        BY <4>2, <4>3
    <3>3. IsFiniteSet(inner)
      <4>1. IsFiniteSet(0 .. max_level)
        BY FS_Interval
      <4>2. inner \subseteq 0 .. max_level
        BY <3>2
      <4> HIDE DEF inner
      <4>3. QED
        BY <4>1, <4>2, FS_Subset
    <3>4. PICK d \in inner : \A y \in inner : y <= d
      <4> HIDE DEF inner
      <4> QED
        BY <3>1, <3>3, GreatestMember
    <3>5. d \in Nat /\ \E i \in Interior(trunk) : Routed(p, i, d, trunk)
      OBVIOUS
    <3>6. PICK i \in Interior(trunk) : Routed(p, i, d, trunk)
      BY <3>5
    <3> DEFINE c == Child(i, p[d % K] >= trunk[i])
    <3>7. i \in Nat
      BY <1>2
    <3>8. Routed(p, c, d + 1, trunk)
      BY <3>5, <3>6, <3>7, RoutedOn
    <3>9. c \in Nat
      BY <3>7 DEF Child, LeftChild, RightChild
    <3>10. d + 1 \in Nat /\ ~(d + 1 <= d)
      BY <3>5
    <3> HIDE DEF c
    <3>11. c \notin Interior(trunk)
      BY <3>4, <3>8, <3>10
    <3>12. QED
      BY <3>8, <3>9, <3>10, <3>11
  <2>3. QED
    BY <2>1, <2>2
<1>4. PICK n \in Nat : \E depth \in Nat :
         Routed(p, n, depth, trunk) /\ n \notin Interior(trunk)
  BY <1>3
<1>5. PICK depth \in Nat : Routed(p, n, depth, trunk) /\ n \notin Interior(trunk)
  BY <1>4
<1>6. Reaches(trunk, map, chunks, max_level, p, n, depth)
  BY <1>5, HousedReach
<1>7. QED
  BY <1>5, <1>6 DEF Reaches, Settles

(* A search both ways for a stored entry comes to the leaf that holds it. *)
LEMMA HousedFinds ==
    ASSUME NEW trunk \in Seq(Int), NEW map, NEW chunks \in Seq(Bucket),
           NEW max_level \in Int, max_level >= -1,
           Housed(trunk, map, chunks, max_level),
           NEW k \in DOMAIN chunks, NEW e \in Occupied(chunks[k])
    PROVE  k \in LeavesAround(e.point, trunk, map, max_level)
  BY EntriesAreFound DEF Housed

(* Leaves may change where they keep their places, and gain only what lies *)
(* there.                                                                  *)
LEMMA HousedKept ==
    ASSUME NEW trunk \in Seq(Int), NEW map, NEW chunks \in Seq(Bucket),
           NEW max_level, Housed(trunk, map, chunks, max_level),
           NEW leaves2 \in Seq(Bucket), Len(leaves2) = Len(chunks),
           \A k \in DOMAIN leaves2 : \A e \in Occupied(leaves2[k]) :
              \/ e \in Occupied(chunks[k])
              \/ \E n : /\ MappedLeaf(map, n) = k
                        /\ \E depth \in Nat : Lies(e.point, n, depth, trunk)
    PROVE  Housed(trunk, map, leaves2, max_level)
<1>1. PICK nodes \in Seq(Nat) : /\ Sited(nodes, chunks, trunk, max_level, {})
                                /\ Maps(map, nodes)
  BY DEF Housed
<1>2. /\ DOMAIN nodes = DOMAIN leaves2 /\ DOMAIN chunks = DOMAIN leaves2
      /\ DOMAIN leaves2 \subseteq Nat \ {0}
  <2>1. Len(nodes) = Len(chunks)
    BY <1>1 DEF Sited
  <2>2. DOMAIN chunks = 1 .. Len(chunks) /\ DOMAIN nodes = 1 .. Len(nodes)
        /\ Len(chunks) \in Nat /\ DOMAIN leaves2 = 1 .. Len(leaves2)
    BY LenProperties
  <2>3. QED
    BY <2>1, <2>2
<1>3. ASSUME NEW k \in DOMAIN nodes, NEW e \in Occupied(leaves2[k])
      PROVE  \E depth \in Nat : Lies(e.point, nodes[k], depth, trunk)
  <2>1. CASE e \in Occupied(chunks[k])
    BY <2>1, <1>1 DEF Sited
  <2>2. CASE e \notin Occupied(chunks[k])
    <3>1. PICK n : /\ MappedLeaf(map, n) = k
                   /\ \E depth \in Nat : Lies(e.point, n, depth, trunk)
      BY <2>2, <1>2
    <3>2. PICK j \in DOMAIN nodes : nodes[j] = n
      BY <3>1, <1>1, <1>2 DEF Maps
    <3>3. j = k
      BY <3>1, <3>2, <1>1 DEF Maps
    <3>4. QED
      BY <3>1, <3>2, <3>3
  <2>3. QED
    BY <2>1, <2>2
<1>4. Sited(nodes, leaves2, trunk, max_level, {})
  BY <1>1, <1>3 DEF Sited
<1>5. QED
  BY <1>1, <1>4 DEF Housed

(* What the map says when the stem of a leaf becomes an interior one over  *)
(* that leaf and another.                                                  *)
MapSplit(map, n, leaf, leaf2) ==
    [Grown(map, RightChild(n), 0)
        EXCEPT ![LeftChild(n)] = leaf, ![n] = 0, ![RightChild(n)] = leaf2]

MapsBoth(map, map2, n, leaf, leaf2) ==
    /\ map2 \in Seq(Nat)
    /\ MappedLeaf(map2, LeftChild(n)) = leaf
    /\ MappedLeaf(map2, RightChild(n)) = leaf2
    /\ MappedLeaf(map2, n) = 0
    /\ \A i : i \notin {n, LeftChild(n), RightChild(n)} =>
                 MappedLeaf(map2, i) = MappedLeaf(map, i)

LEMMA MapGrown ==
    ASSUME NEW map \in Seq(Nat), NEW n \in Nat \ {0},
           NEW leaf \in Nat, NEW leaf2 \in Nat
    PROVE  MapsBoth(map, MapSplit(map, n, leaf, leaf2), n, leaf, leaf2)
<1> DEFINE grown == Grown(map, RightChild(n), 0)
           one == [grown EXCEPT ![LeftChild(n)] = leaf]
           two == [one EXCEPT ![n] = 0]
           map2 == [two EXCEPT ![RightChild(n)] = leaf2]
<1>0. /\ RightChild(n) \in Nat /\ 0 \in Nat
      /\ {n, LeftChild(n), RightChild(n)} \subseteq 1 .. RightChild(n)
      /\ n # LeftChild(n) /\ n # RightChild(n) /\ LeftChild(n) # RightChild(n)
  BY DEF LeftChild, RightChild
<1>1. /\ grown \in Seq(Nat)
      /\ \A i \in DOMAIN map : i \in DOMAIN grown /\ grown[i] = map[i]
      /\ \A i \in DOMAIN grown : i \notin DOMAIN map => grown[i] = 0
      /\ 1 .. RightChild(n) \subseteq DOMAIN grown
  BY <1>0, GrownType
<1> HIDE DEF grown
<1>2. \A i : MappedLeaf(grown, i) = MappedLeaf(map, i)
  BY <1>1 DEF MappedLeaf
<1>3. {n, LeftChild(n), RightChild(n)} \subseteq DOMAIN grown
  BY <1>0, <1>1
<1>4. /\ one \in Seq(Nat) /\ DOMAIN one = DOMAIN grown
      /\ one[LeftChild(n)] = leaf
      /\ \A i \in DOMAIN grown : i # LeftChild(n) => one[i] = grown[i]
  BY <1>1, <1>3, WrittenType
<1> HIDE DEF one
<1>5. /\ two \in Seq(Nat) /\ DOMAIN two = DOMAIN one /\ two[n] = 0
      /\ \A i \in DOMAIN one : i # n => two[i] = one[i]
  BY <1>0, <1>3, <1>4, WrittenType
<1> HIDE DEF two
<1>6. /\ map2 \in Seq(Nat) /\ DOMAIN map2 = DOMAIN two
      /\ map2[RightChild(n)] = leaf2
      /\ \A i \in DOMAIN two : i # RightChild(n) => map2[i] = two[i]
  BY <1>3, <1>4, <1>5, WrittenType
<1>7. map2 = MapSplit(map, n, leaf, leaf2)
  BY DEF MapSplit, two, one, grown
<1> HIDE DEF map2
<1>8. /\ map2[LeftChild(n)] = leaf /\ map2[n] = 0
      /\ map2[RightChild(n)] = leaf2
      /\ {n, LeftChild(n), RightChild(n)} \subseteq DOMAIN map2
  BY <1>0, <1>3, <1>4, <1>5, <1>6
<1>9. \A i : i \notin {n, LeftChild(n), RightChild(n)} =>
                MappedLeaf(map2, i) = MappedLeaf(map, i)
  <2> TAKE i
  <2>1. SUFFICES ASSUME i \notin {n, LeftChild(n), RightChild(n)}
                 PROVE  MappedLeaf(map2, i) = MappedLeaf(grown, i)
    BY <1>2
  <2>2. DOMAIN map2 = DOMAIN grown
    BY <1>4, <1>5, <1>6
  <2>3. i \in DOMAIN grown => map2[i] = grown[i]
    BY <2>1, <1>4, <1>5, <1>6
  <2> QED
    BY <2>2, <2>3 DEF MappedLeaf
<1>10. /\ MappedLeaf(map2, LeftChild(n)) = leaf
       /\ MappedLeaf(map2, RightChild(n)) = leaf2
       /\ MappedLeaf(map2, n) = 0
  BY <1>8 DEF MappedLeaf
<1>11. QED
  BY <1>6, <1>7, <1>9, <1>10 DEF MapsBoth

(* One element of a sequence makes way for x there and y at the end. *)
Halved(s, m, x, y) == Append([s EXCEPT ![m] = x], y)

HalvedWell(S, s, m, x, y) ==
    LET r == Halved(s, m, x, y)
        g == AtTheEnd(Len(s), m)
    IN  /\ r \in Seq(S) /\ Len(r) = Len(s) + 1
        /\ Len(s) + 1 \in DOMAIN r /\ m \in DOMAIN r /\ m # Len(s) + 1
        /\ r[m] = x /\ r[Len(s) + 1] = y
        /\ \A k \in DOMAIN s : k # m => k \in DOMAIN r /\ r[k] = s[k]
        /\ DividedAt(s, r, m, m, Len(s) + 1, g)

LEMMA SplitTypes ==
    ASSUME NEW S, NEW s \in Seq(S), NEW m \in DOMAIN s, NEW x \in S, NEW y \in S
    PROVE  HalvedWell(S, s, m, x, y)
<1> DEFINE q == [s EXCEPT ![m] = x]
           n == Len(s)
           r == Append(q, y)
           g == AtTheEnd(n, m)
<1>1. n \in Nat /\ DOMAIN s = 1 .. n /\ m \in 1 .. n
  BY LenProperties
<1>2. /\ q \in Seq(S) /\ Len(q) = n /\ q[m] = x
      /\ \A k \in 1 .. n : k # m => q[k] = s[k]
  BY <1>1, ExceptSeq
<1> HIDE DEF q, n
<1>3. /\ r \in Seq(S) /\ Len(r) = n + 1 /\ r[n + 1] = y
      /\ \A k \in 1 .. n : r[k] = q[k]
  BY <1>2, AppendProperties
<1> HIDE DEF r
<1>4. DOMAIN r = 1 .. n + 1
  BY <1>3, LenProperties
<1>5. r[m] = x /\ \A k \in 1 .. n : k # m => r[k] = s[k]
  BY <1>1, <1>2, <1>3
<1>6. g \in Bijection((1 .. n) \ {m}, (1 .. n + 1) \ {m, n + 1})
  BY <1>1, Room
<1>7. \A k \in (1 .. n) \ {m} : r[g[k]] = s[k]
  BY <1>5 DEF AtTheEnd
<1>8. m \in 1 .. n + 1 /\ n + 1 \in 1 .. n + 1 /\ m # n + 1
  BY <1>1
<1> HIDE DEF g
<1>9. DividedAt(s, r, m, m, n + 1, g)
  BY <1>1, <1>4, <1>6, <1>7, <1>8 DEF DividedAt
<1>10. \A k \in DOMAIN s : k # m => k \in DOMAIN r /\ r[k] = s[k]
  BY <1>1, <1>4, <1>5
<1>11. QED
  BY <1>3, <1>4, <1>5, <1>8, <1>9, <1>10 DEF HalvedWell, Halved, r, q, n, g

(* A leaf is divided at the value v of an axis: what is not below it goes  *)
(* to a new leaf, and its stem n becomes an interior one over the two.     *)
LeavesSplit(chunks, leaf, dim, v) ==
    Halved(chunks, leaf, Below(chunks[leaf], dim, v),
           AtLeast(chunks[leaf], dim, v))

StemsSplit(trunk, n, v) == [Grown(trunk, n, MaxValue) EXCEPT ![n] = v]

LEMMA HousedSplit ==
    ASSUME NEW trunk \in Seq(Int), NEW map \in Seq(Nat),
           NEW chunks \in Seq(Bucket), NEW max_level \in Int,
           Housed(trunk, map, chunks, max_level),
           NEW n, NEW depth \in Nat, AtLevel(n, depth),
           NEW leaf, leaf = MappedLeaf(map, n), leaf # 0,
           NEW v \in Int, v < MaxValue, v \in Coords(chunks[leaf], depth % K)
    PROVE  /\ StemsSplit(trunk, n, v) \in Seq(Int)
           /\ MapsBoth(map, MapSplit(map, n, leaf, Len(chunks) + 1), n, leaf,
                       Len(chunks) + 1)
           /\ HalvedWell(Bucket, chunks, leaf,
                         Below(chunks[leaf], depth % K, v),
                         AtLeast(chunks[leaf], depth % K, v))
           /\ Housed(StemsSplit(trunk, n, v),
                     MapSplit(map, n, leaf, Len(chunks) + 1),
                     LeavesSplit(chunks, leaf, depth % K, v),
                     AtLeastOf(max_level, depth))
<1> DEFINE dim == depth % K
           new == Len(chunks) + 1
           map2 == MapSplit(map, n, leaf, new)
           leaves2 == LeavesSplit(chunks, leaf, dim, v)
           stems2 == StemsSplit(trunk, n, v)
           g == AtTheEnd(Len(chunks), leaf)
<1>1. PICK nodes \in Seq(Nat) : /\ Sited(nodes, chunks, trunk, max_level, {})
                                /\ Maps(map, nodes)
  BY DEF Housed
<1> DEFINE terminal == {nodes[j] : j \in DOMAIN nodes}
           below == {LeftChild(n), RightChild(n)}
           nodes2 == Halved(nodes, leaf, LeftChild(n), RightChild(n))
<1>2. /\ Shape(trunk, terminal) /\ Len(nodes) = Len(chunks)
      /\ DOMAIN nodes = DOMAIN chunks /\ DOMAIN chunks = 1 .. Len(chunks)
      /\ Len(chunks) \in Nat
      /\ \A i, j \in DOMAIN nodes : nodes[i] = nodes[j] => i = j
  BY <1>1, LenProperties DEF Sited
<1>3. leaf \in DOMAIN chunks /\ nodes[leaf] = n
  <2>1. PICK j \in DOMAIN nodes : nodes[j] = n
    BY <1>1 DEF Maps
  <2>2. MappedLeaf(map, n) = j
    BY <1>1, <2>1 DEF Maps
  <2>3. QED
    BY <2>1, <2>2, <1>2
<1>4. /\ n \in Nat \ {0} /\ n \notin Interior(trunk)
      /\ below \cap terminal = {} /\ LeftChild(n) # RightChild(n)
  <2>1. n \in terminal
    BY <1>2, <1>3
  <2> HIDE DEF terminal
  <2>2. QED
    BY <1>2, <2>1, ShapeAfter
<1>5. LeftChild(n) \in Nat /\ RightChild(n) \in Nat
  BY <1>4 DEF LeftChild, RightChild
<1>6. /\ chunks[leaf] \in Bucket
      /\ Below(chunks[leaf], dim, v) \in Bucket
      /\ AtLeast(chunks[leaf], dim, v) \in Bucket
  <2>1. chunks[leaf] \in Bucket
    BY <1>3, LenProperties, ElementOfSeq
  <2>2. QED
    BY <2>1, SidesType
<1>a. HalvedWell(Bucket, chunks, leaf, Below(chunks[leaf], dim, v),
                 AtLeast(chunks[leaf], dim, v))
  BY <1>3, <1>6, SplitTypes
<1>7. /\ leaves2 \in Seq(Bucket) /\ Len(leaves2) = Len(chunks) + 1
      /\ leaves2[leaf] = Below(chunks[leaf], dim, v)
      /\ leaves2[new] = AtLeast(chunks[leaf], dim, v)
      /\ DividedAt(chunks, leaves2, leaf, leaf, new, g)
  BY <1>a DEF HalvedWell, LeavesSplit
<1>8. /\ nodes2 \in Seq(Nat) /\ Len(nodes2) = Len(nodes) + 1
      /\ DOMAIN nodes2 = 1 .. Len(nodes) + 1
      /\ nodes2[leaf] = LeftChild(n) /\ nodes2[new] = RightChild(n)
      /\ leaf \in DOMAIN nodes2 /\ new \in DOMAIN nodes2 /\ leaf # new
      /\ \A k \in DOMAIN nodes : k # leaf => k \in DOMAIN nodes2 /\ nodes2[k] = nodes[k]
      /\ DividedAt(nodes, nodes2, leaf, leaf, new, g)
  <2>1. leaf \in DOMAIN nodes /\ new = Len(nodes) + 1 /\ g = AtTheEnd(Len(nodes), leaf)
    BY <1>2, <1>3
  <2> HIDE DEF new, g
  <2>2. nodes2 = Halved(nodes, leaf, LeftChild(n), RightChild(n))
    OBVIOUS
  <2> HIDE DEF nodes2
  <2>3. /\ nodes2 \in Seq(Nat) /\ Len(nodes2) = Len(nodes) + 1
        /\ nodes2[leaf] = LeftChild(n) /\ nodes2[new] = RightChild(n)
        /\ leaf \in DOMAIN nodes2 /\ new \in DOMAIN nodes2 /\ leaf # new
        /\ \A k \in DOMAIN nodes : k # leaf => k \in DOMAIN nodes2 /\ nodes2[k] = nodes[k]
        /\ DividedAt(nodes, nodes2, leaf, leaf, new, g)
    <3>1. HalvedWell(Nat, nodes, leaf, LeftChild(n), RightChild(n))
      BY <2>1, <1>5, SplitTypes
    <3>2. QED
      BY <3>1, <2>1, <2>2 DEF HalvedWell
  <2>4. QED
    BY <2>1, <2>3, LenProperties
<1> HIDE DEF g, leaves2, nodes2, new, map2, dim
<1>9. SidesAt(nodes, nodes2, chunks, leaves2, leaf, leaf, new, depth, v, {})
  <2>1. dim \in 0 .. K - 1
    BY DimType DEF dim
  <2>2. /\ \A e \in Occupied(leaves2[leaf]) :
              e \in Occupied(chunks[leaf]) /\ ~(e.point[dim] >= v)
        /\ \A e \in Occupied(leaves2[new]) :
              e \in Occupied(chunks[leaf]) /\ e.point[dim] >= v
    BY <2>1, <1>7, SideOccupants
  <2>3. \A e \in Occupied(chunks[leaf]) : e.point[dim] \in Int
    BY <2>1, PointsAssumption DEF Occupied, Entries
  <2>4. \A e \in Occupied(leaves2[leaf]) :
              e \in Occupied(chunks[leaf]) /\ e.point[dim] <= v
    <3> TAKE e \in Occupied(leaves2[leaf])
    <3>1. e.point[dim] \in Int /\ ~(e.point[dim] >= v)
      BY <2>2, <2>3
    <3>2. e.point[dim] <= v
      BY <3>1
    <3> QED
      BY <3>2, <2>2
  <2>5. QED
    BY <2>2, <2>4, <1>3, <1>8 DEF SidesAt, dim
<1>10. Sited(nodes2, leaves2, stems2, AtLeastOf(max_level, depth), {})
  <2>1. AtLevel(nodes[leaf], depth) /\ Len(nodes2) = Len(leaves2)
    BY <1>2, <1>3, <1>7, <1>8
  <2>2. Sited(nodes2, leaves2,
              [Grown(trunk, nodes[leaf], MaxValue) EXCEPT ![nodes[leaf]] = v],
              AtLeastOf(max_level, depth), {})
    BY <2>1, <1>1, <1>3, <1>7, <1>8, <1>9, SitedSplit
  <2>3. QED
    BY <2>2, <1>3 DEF StemsSplit
<1>b. MapsBoth(map, map2, n, leaf, new)
  <2>1. leaf \in Nat /\ new \in Nat /\ n \in Nat \ {0}
    BY <1>2, <1>3, <1>4 DEF new
  <2>2. QED
    BY <2>1, MapGrown DEF map2
<1>11. /\ MappedLeaf(map2, LeftChild(n)) = leaf
       /\ MappedLeaf(map2, RightChild(n)) = new
       /\ MappedLeaf(map2, n) = 0
       /\ \A i : i \notin {n, LeftChild(n), RightChild(n)} =>
                    MappedLeaf(map2, i) = MappedLeaf(map, i)
  BY <1>b DEF MapsBoth
<1>12. \A k \in DOMAIN nodes : k # leaf => nodes[k] \notin {n, LeftChild(n), RightChild(n)}
  BY <1>2, <1>3, <1>4
<1>13. \A k \in DOMAIN nodes2 : k = leaf \/ k = new \/ (k \in DOMAIN nodes /\ k # leaf)
  <2>1. \A k \in 1 .. Len(nodes) + 1 : k = Len(nodes) + 1 \/ k \in 1 .. Len(nodes)
    BY <1>2
  <2>2. QED
    BY <2>1, <1>2, <1>8 DEF new
<1>14. \A k \in DOMAIN nodes2 : MappedLeaf(map2, nodes2[k]) = k
  <2> TAKE k \in DOMAIN nodes2
  <2>1. CASE k = leaf \/ k = new
    BY <2>1, <1>8, <1>11
  <2>2. CASE k \in DOMAIN nodes /\ k # leaf
    <3>1. nodes2[k] = nodes[k] /\ MappedLeaf(map, nodes[k]) = k
      BY <2>2, <1>1, <1>8 DEF Maps
    <3>2. QED
      BY <2>2, <3>1, <1>11, <1>12
  <2> QED
    BY <2>1, <2>2, <1>13
<1>15. ASSUME NEW i, \A k \in DOMAIN nodes2 : nodes2[k] # i
       PROVE  MappedLeaf(map2, i) = 0
  <2>1. i # LeftChild(n) /\ i # RightChild(n)
    BY <1>15, <1>8
  <2>2. CASE i = n
    BY <2>2, <1>11
  <2>3. CASE i # n
    <3>1. MappedLeaf(map2, i) = MappedLeaf(map, i)
      BY <2>1, <2>3, <1>11
    <3>2. \A k \in DOMAIN nodes : nodes[k] # i
      BY <2>3, <1>3, <1>8, <1>15
    <3>3. QED
      BY <3>1, <3>2, <1>1 DEF Maps
  <2>4. QED
    BY <2>2, <2>3
<1>16. Maps(map2, nodes2)
  BY <1>14, <1>15 DEF Maps
<1>17. Housed(stems2, map2, leaves2, AtLeastOf(max_level, depth))
  BY <1>8, <1>10, <1>16 DEF Housed
<1>18. stems2 \in Seq(Int)
  BY <1>4, InteriorAfter DEF StemsSplit
<1>19. QED
  BY <1>a, <1>b, <1>17, <1>18 DEF leaves2, map2, dim, new

(* The leaf a point is routed to stays the same, but for the points of the *)
(* leaf that is split: they go to the half they belong to.                 *)
SplitMoves(was, now, leaf, new, right) ==
    now = IF was # leaf THEN was ELSE IF right THEN new ELSE leaf

LEMMA HousedSplitSettles ==
    ASSUME NEW trunk \in Seq(Int), NEW map \in Seq(Nat),
           NEW chunks \in Seq(Bucket), NEW max_level \in Int, max_level >= -1,
           Housed(trunk, map, chunks, max_level),
           NEW n, NEW depth \in Nat, AtLevel(n, depth),
           NEW leaf, leaf = MappedLeaf(map, n), leaf # 0,
           NEW v \in Int, v < MaxValue, v \in Coords(chunks[leaf], depth % K),
           NEW p
    PROVE  /\ LeafIdx(p, trunk, map, max_level) \in DOMAIN chunks
           /\ SplitMoves(LeafIdx(p, trunk, map, max_level),
                         LeafIdx(p, StemsSplit(trunk, n, v),
                                 MapSplit(map, n, leaf, Len(chunks) + 1),
                                 AtLeastOf(max_level, depth)),
                         leaf, Len(chunks) + 1, p[depth % K] >= v)
<1> DEFINE new == Len(chunks) + 1
           map2 == MapSplit(map, n, leaf, new)
           leaves2 == LeavesSplit(chunks, leaf, depth % K, v)
           stems2 == StemsSplit(trunk, n, v)
           level2 == AtLeastOf(max_level, depth)
           right == p[depth % K] >= v
           child == Child(n, right)
<1>1. PICK nodes \in Seq(Nat) : /\ Sited(nodes, chunks, trunk, max_level, {})
                                /\ Maps(map, nodes)
  BY DEF Housed
<1>2. DOMAIN nodes = DOMAIN chunks /\ DOMAIN chunks = 1 .. Len(chunks)
      /\ Len(chunks) \in Nat
  BY <1>1, LenProperties DEF Sited
<1>3. leaf \in DOMAIN nodes /\ nodes[leaf] = n
  <2>1. PICK j \in DOMAIN nodes : nodes[j] = n
    BY <1>1 DEF Maps
  <2>2. QED
    BY <2>1, <1>1 DEF Maps
<1>4. \A m : MappedLeaf(map, m) # 0 => m = nodes[MappedLeaf(map, m)]
  <2> TAKE m
  <2> HAVE MappedLeaf(map, m) # 0
  <2>1. PICK j \in DOMAIN nodes : nodes[j] = m
    BY <1>1 DEF Maps
  <2>2. QED
    BY <2>1, <1>1 DEF Maps
<1>5. /\ n \in Nat \ {0} /\ n \notin Interior(trunk)
      /\ MappedLeaf(map, LeftChild(n)) = 0 /\ MappedLeaf(map, RightChild(n)) = 0
  <2> DEFINE terminal == {nodes[j] : j \in DOMAIN nodes}
  <2>1. Shape(trunk, terminal)
    BY <1>1 DEF Sited
  <2>2. n \in terminal
    BY <1>3
  <2>3. \A i : i \notin terminal => MappedLeaf(map, i) = 0
    BY <1>1 DEF Maps
  <2> HIDE DEF terminal
  <2>4. /\ n \in Nat \ {0} /\ n \notin Interior(trunk)
        /\ {LeftChild(n), RightChild(n)} \cap terminal = {}
    BY <2>1, <2>2, ShapeAfter
  <2>5. LeftChild(n) \notin terminal /\ RightChild(n) \notin terminal
    BY <2>4
  <2>6. QED
    BY <2>3, <2>4, <2>5
<1>6. /\ stems2 \in Seq(Int) /\ MapsBoth(map, map2, n, leaf, new)
      /\ HalvedWell(Bucket, chunks, leaf,
                    Below(chunks[leaf], depth % K, v),
                    AtLeast(chunks[leaf], depth % K, v))
      /\ Housed(stems2, map2, leaves2, level2)
  BY HousedSplit
<1>7. leaves2 \in Seq(Bucket) /\ Len(leaves2) = new
  BY <1>6 DEF HalvedWell, LeavesSplit
<1>8. level2 \in Int /\ level2 >= -1
  BY DEF AtLeastOf
<1>settles. Settles(trunk, map, chunks, max_level, p)
  BY HousedSettles
<1>9. PICK m \in Nat \ {0} : \E d \in Nat :
         /\ Routed(p, m, d, trunk)
         /\ m \notin Interior(trunk)
         /\ MappedLeaf(map, m) \in DOMAIN chunks
         /\ LeafIdx(p, trunk, map, max_level) = MappedLeaf(map, m)
  BY <1>settles DEF Settles
<1>10. PICK d \in Nat :
         /\ Routed(p, m, d, trunk)
         /\ m \notin Interior(trunk)
         /\ MappedLeaf(map, m) \in DOMAIN chunks
         /\ LeafIdx(p, trunk, map, max_level) = MappedLeaf(map, m)
  BY <1>9
<1> HIDE DEF new, map2, leaves2, level2, right, stems2
<1>11. MappedLeaf(map, m) # 0 /\ new # 0 /\ m \in Nat
  BY <1>2, <1>10 DEF new
<1>12. CASE m # n
  <2>1. Routed(p, m, d, stems2)
    BY <1>5, <1>10, RoutedAfter DEF stems2, StemsSplit
  <2>2. m \notin {n, LeftChild(n), RightChild(n)}
    BY <1>5, <1>11, <1>12
  <2>3. MappedLeaf(map2, m) = MappedLeaf(map, m)
    BY <2>2, <1>6 DEF MapsBoth
  <2>4. Reaches(stems2, map2, leaves2, level2, p, m, d)
    BY <2>1, <1>6, <1>7, <1>8, HousedReach
  <2>5. LeafIdx(p, stems2, map2, level2) = MappedLeaf(map, m)
    BY <2>3, <2>4, <1>11 DEF Reaches
  <2>6. MappedLeaf(map, m) # leaf
    BY <1>3, <1>4, <1>11, <1>12
  <2>7. QED
    BY <2>5, <2>6, <1>10 DEF SplitMoves, stems2, map2, level2, new
<1>13. CASE m = n
  <2>1. Routed(p, child, depth + 1, stems2)
    BY <1>5, <1>10, <1>13, RoutedAfter DEF stems2, StemsSplit, right
  <2>2. MappedLeaf(map2, child) = IF right THEN new ELSE leaf
    BY <1>6 DEF MapsBoth, Child
  <2>3. depth + 1 \in Nat
    OBVIOUS
  <2> HIDE DEF child
  <2>4. Reaches(stems2, map2, leaves2, level2, p, child, depth + 1)
    BY <2>1, <2>3, <1>6, <1>7, <1>8, HousedReach
  <2>5. LeafIdx(p, stems2, map2, level2) = IF right THEN new ELSE leaf
    BY <2>2, <2>4, <1>11 DEF Reaches
  <2>6. LeafIdx(p, trunk, map, max_level) = leaf
    BY <1>10, <1>13
  <2>7. QED
    BY <2>5, <2>6, <1>10 DEF SplitMoves, stems2, map2, level2, new, right
<1>14. QED
  BY <1>12, <1>13

-----------------------------------------------------------------------------
(* The arithmetic of the layout.                                           *)

(* Powers of two are the numbers of subsets; that is all the provers know  *)
(* of them.                                                                *)
LEMMA PowerOfTwo ==
    ASSUME NEW n \in Nat
    PROVE  2 ^ n \in Nat /\ n <= 2 ^ n
<1> DEFINE S == 1 .. n
           f == [x \in S |-> {x}]
<1>1. IsFiniteSet(S) /\ Cardinality(S) = n
  BY FS_Interval
<1>2. IsFiniteSet(SUBSET S) /\ Cardinality(SUBSET S) = 2 ^ n
  BY <1>1, FS_SUBSET
<1>3. f \in Injection(S, SUBSET S)
  BY DEF Injection, IsInjective
<1>4. Cardinality(S) <= Cardinality(SUBSET S)
  <2> HIDE DEF S, f
  <2> QED
    BY <1>2, <1>3, FS_Injection
<1>5. QED
  BY <1>1, <1>2, <1>4, FS_CardinalityType

(* The next power of two is one, and not below the number.                *)
LEMMA NextPowerOfTwoType ==
    ASSUME NEW n \in Nat
    PROVE  /\ NextPowerOfTwo(n) \in {2 ^ e : e \in 0 .. n}
           /\ NextPowerOfTwo(n) \in Nat
           /\ NextPowerOfTwo(n) >= n
<1> DEFINE powers == {2 ^ e : e \in 0 .. n}
           enough == {p \in powers : p >= n}
           f == [e \in 0 .. n |-> 2 ^ e]
<1>1. powers \in SUBSET Nat
  BY PowerOfTwo
<1>2. IsFiniteSet(powers)
  <2>1. f \in [0 .. n -> powers] /\ \A p \in powers : \E e \in 0 .. n : f[e] = p
    OBVIOUS
  <2>2. IsFiniteSet(0 .. n)
    BY FS_Interval
  <2> HIDE DEF f, powers
  <2>3. QED
    BY <2>1, <2>2, FiniteImage
<1>3. 2 ^ n \in enough
  <2>1. 2 ^ n \in powers /\ 2 ^ n >= n
    BY PowerOfTwo
  <2>2. QED
    BY <2>1
<1>4. PICK p \in enough : \A q \in enough : p <= q
  <2>1. enough \in SUBSET Int /\ IsFiniteSet(enough)
    BY <1>1, <1>2, FS_Subset
  <2> HIDE DEF enough
  <2>2. QED
    BY <2>1, <1>3, LeastMember
<1>5. p \in powers /\ p >= n /\ \A q \in powers : q >= n => p <= q
  BY <1>4
<1>6. NextPowerOfTwo(n) \in powers /\ NextPowerOfTwo(n) >= n
  <2> HIDE DEF powers
  <2> QED
    BY <1>5 DEF NextPowerOfTwo, powers
<1>7. QED
  BY <1>1, <1>6

(* Rounding up to a multiple adds less than the multiple.                  *)
LEMMA NextMultipleOfBounds ==
    ASSUME NEW n \in Nat, NEW m \in Nat \ {0}
    PROVE  NextMultipleOf(n, m) \in n .. n + m - 1
<1> DEFINE q == (n + m - 1) \div m
<1>1. n + m - 1 \in Nat
  OBVIOUS
<1>2. q \in Int /\ q * m <= n + m - 1 /\ n + m - 1 < q * m + m
  OBVIOUS
<1>3. q * m \in Int
  BY <1>2
<1> HIDE DEF q
<1>4. q * m >= n
  BY <1>2, <1>3
<1>5. QED
  BY <1>2, <1>3, <1>4 DEF NextMultipleOf, q

(* The ideal pivot of a chunk that does not fit a leaf lies inside it,     *)
(* whatever the capacity on its right.                                     *)
LEMMA CalcPivotInside ==
    ASSUME NEW n \in Nat, NEW r \in Nat, n > B
    PROVE  CalcPivot(n, r) \in 1 .. n - 1
<1> DEFINE ideal(c) == AtMost(NextMultipleOf(MonusNat(n, c), B), n)
           result == AtLeastOf(ideal(r), AtMost(B, n))
<1>1. B \in Nat /\ B > 1
  BY BucketSizeAssumption
<1>2. \A c \in Nat : /\ MonusNat(n, c) \in Nat
                     /\ ideal(c) \in Nat
                     /\ ideal(c) >= MonusNat(n, c)
                     /\ ideal(c) <= MonusNat(n, c) + B - 1
                     /\ ideal(c) <= n
  <2> TAKE c \in Nat
  <2>1. MonusNat(n, c) \in Nat /\ MonusNat(n, c) <= n
    BY DEF MonusNat
  <2>2. NextMultipleOf(MonusNat(n, c), B)
            \in MonusNat(n, c) .. MonusNat(n, c) + B - 1
    BY <2>1, <1>1, NextMultipleOfBounds
  <2> QED
    BY <2>1, <2>2, <1>1 DEF AtMost
<1>3. result = IF ideal(r) >= B THEN ideal(r) ELSE B
  BY <1>1, <1>2 DEF AtLeastOf, AtMost
<1>4. CASE result >= n /\ result > B
  <2> DEFINE c == AtLeastOf(r, B)
  <2>1. c \in Nat /\ c >= B
    BY <1>1 DEF AtLeastOf
  <2>2. ideal(r) >= n
    BY <1>1, <1>2, <1>3, <1>4
  <2>3. r < n
    <3>1. SUFFICES ASSUME r >= n PROVE FALSE
      OBVIOUS
    <3>2. MonusNat(n, r) = 0
      BY <3>1 DEF MonusNat
    <3>3. QED
      BY <3>2, <2>2, <1>1, <1>2
  <2>4. r < B
    <3>1. MonusNat(n, r) = n - r
      BY <2>3 DEF MonusNat
    <3>2. ideal(r) <= n - r + B - 1 /\ ideal(r) \in Nat
      BY <3>1, <1>2
    <3>3. QED
      BY <3>2, <2>2, <1>1
  <2>5. c = B
    BY <2>4, <1>1 DEF AtLeastOf
  <2>6. MonusNat(n, B) = n - B
    BY <1>1 DEF MonusNat
  <2>7. ideal(B) \in Nat /\ ideal(B) >= n - B /\ ideal(B) <= n - B + B - 1
    BY <2>6, <1>1, <1>2
  <2>8. CalcPivot(n, r) = ideal(B)
    BY <1>4, <2>5 DEF CalcPivot
  <2> HIDE DEF ideal, result
  <2>9. QED
    BY <2>7, <2>8, <1>1
<1>5. CASE ~(result >= n /\ result > B)
  <2>1. CalcPivot(n, r) = result
    BY <1>5 DEF CalcPivot
  <2>2. result \in Nat /\ result >= B
    BY <1>1, <1>2, <1>3
  <2> HIDE DEF result
  <2>3. QED
    BY <2>1, <2>2, <1>1, <1>5
<1>6. QED
  BY <1>4, <1>5

(* Two leaves or more need a level of stems or more.                       *)
LEMMA StemsDepthType ==
    ASSUME NEW n \in Nat, n >= 2
    PROVE  StemsDepth(n) \in Nat \ {0}
<1>1. PICK d \in 0 .. n : NextPowerOfTwo(n) = 2 ^ d
  BY NextPowerOfTwoType
<1>2. StemsDepth(n) \in 0 .. n /\ 2 ^ StemsDepth(n) = NextPowerOfTwo(n)
  BY <1>1 DEF StemsDepth
<1>3. 2 ^ 0 = 1
  <2>1. IsFiniteSet({}) /\ Cardinality({}) = 0
    BY FS_EmptySet
  <2>2. Cardinality(SUBSET {}) = 2 ^ 0
    BY <2>1, FS_SUBSET
  <2>3. SUBSET {} = {{}}
    OBVIOUS
  <2>4. Cardinality({{}}) = 1
    BY FS_Singleton
  <2>5. QED
    BY <2>2, <2>3, <2>4
<1>4. NextPowerOfTwo(n) # 1
  BY NextPowerOfTwoType
<1>5. StemsDepth(n) # 0
  <2>1. SUFFICES ASSUME StemsDepth(n) = 0 PROVE FALSE
    OBVIOUS
  <2>2. 2 ^ 0 = NextPowerOfTwo(n)
    BY <2>1, <1>2
  <2>3. QED
    BY <2>2, <1>3, <1>4
<1>6. QED
  BY <1>2, <1>5

(* The stem array of two leaves or more has a length.                      *)
LEMMA InitialStemLenType ==
    ASSUME NEW n \in Nat, n >= 2
    PROVE  InitialStemLen(n) \in Nat
<1> DEFINE r == 2 ^ (StemsDepth(n) - 1) + (n - 1) \div 2
<1>1. StemsDepth(n) - 1 \in Nat
  BY StemsDepthType
<1>2. r \in Nat
  <2>1. 2 ^ (StemsDepth(n) - 1) \in Nat
    BY <1>1, PowerOfTwo
  <2>2. (n - 1) \div 2 \in Nat
    OBVIOUS
  <2>3. QED
    BY <2>1, <2>2
<1> HIDE DEF r
<1>3. NextMultipleOf(r + 1, 8) \in r + 1 .. r + 1 + 8 - 1
  BY <1>2, NextMultipleOfBounds
<1>4. QED
  BY <1>2, <1>3 DEF InitialStemLen, r

(* A source that needs no second leaf fits one.                            *)
LEMMA LeafNodeCountType ==
    ASSUME NEW n \in Nat
    PROVE  /\ LeafNodeCount(n) \in Nat
           /\ LeafNodeCount(n) < 2 => n <= B
<1>1. B \in Nat /\ B > 1
  BY BucketSizeAssumption
<1> DEFINE q == (n + B - 1) \div B
<1>2. q \in Int /\ q * B <= n + B - 1 /\ n + B - 1 < q * B + B
  BY <1>1
<1>3. q >= 0
  BY <1>1
<1>4. q < 2 => n <= B
  <2>1. q \in {0, 1} => q * B <= B
    BY <1>1
  <2>2. q * B \in Int
    BY <1>1, <1>2
  <2> HIDE DEF q
  <2>3. QED
    BY <2>1, <2>2, <1>1, <1>2, <1>3
<1>5. QED
  BY <1>2, <1>3, <1>4 DEF LeafNodeCount

(* A call divides its capacity between its two sides. *)
LEMMA CapacityTypes ==
    ASSUME TypeOK, NEW call \in Call
    PROVE  LeftCapacity(call) \in Nat /\ RightCapacity(call) \in Nat
<1> DEFINE below == IF top_level >= call.level THEN top_level - call.level ELSE 0
           full  == 2 ^ below * B
<1>1. below \in Nat /\ call.capacity \in Nat /\ B \in Nat
  BY BucketSizeAssumption DEF TypeOK, Call
<1>2. full \in Nat
  <2>1. 2 ^ below \in Nat
    <3> HIDE DEF below
    <3> QED
      BY <1>1, PowerOfTwo
  <2>2. QED
    BY <2>1, <1>1
<1>3. LeftCapacity(call) = IF full <= call.capacity THEN full ELSE call.capacity
  BY DEF LeftCapacity
<1> HIDE DEF full
<1>4. QED
  BY <1>1, <1>2, <1>3 DEF RightCapacity

-----------------------------------------------------------------------------
(* The builder.                                                            *)

(* What the next call of populate_recursive_hard is given, and what it     *)
(* asks of a chunk it has to split.                                        *)
LEMMA NextCall ==
    ASSUME TypeOK, calls # <<>>
    PROVE  LET call == Head(calls)
           IN  /\ call \in Call
               /\ Tail(calls) \in Seq(Call)
               /\ BucketLen(call.chunk) \in Nat
               /\ CallDim(call) \in 0 .. K - 1
<1> DEFINE call == Head(calls)
<1>1. calls \in Seq(Call)
  BY DEF TypeOK
<1>2. call \in Call /\ Tail(calls) \in Seq(Call)
  BY <1>1, HeadTailProperties
<1>3. BucketLen(call.chunk) \in Nat
  BY <1>2, BucketLenType DEF Call
<1>4. CallDim(call) \in 0 .. K - 1
  BY <1>2, PointsAssumption DEF CallDim, Call
<1> HIDE DEF call
<1>5. QED
  BY <1>2, <1>3, <1>4 DEF call

(* Its pivot leaves something on either side, whatever the selection put   *)
(* where: a step that splits a chunk in a part and the rest, at a value.   *)
SplitsInto(pivot, part) ==
    LET call == Head(calls) IN
    /\ phase = "populating" /\ calls # <<>>
    /\ BucketLen(call.chunk) > B
    /\ call \in Call /\ call.chunk \in Bucket /\ CallDim(call) \in 0 .. K - 1
    /\ pivot \in Int /\ pivot < MaxValue
    /\ pivot \in Coords(call.chunk, CallDim(call))
    /\ IsPart(call.chunk, part, CallDim(call), pivot)
    /\ new_stems' = [Grown(new_stems, call.stem, MaxValue)
                        EXCEPT ![call.stem] = pivot]
    /\ actual_max_stem_level' = AtLeastOf(actual_max_stem_level, call.level)
    /\ calls' = <<LeftCall(call, part), RightCall(call, part)>> \o Tail(calls)
    /\ UNCHANGED <<source, phase, new_leaves, terminals, new_max_leaf_len,
                   top_level>>

LEMMA CallDivides ==
    ASSUME TypeOK, PopulateSplit
    PROVE  \E pivot, part : SplitsInto(pivot, part)
<1> DEFINE call  == Head(calls)
           dim   == CallDim(call)
           n     == BucketLen(call.chunk)
           ideal == CallPivot(call)
           pivot == SplitValue(call.chunk, dim, ideal)
<1>1. /\ phase = "populating" /\ calls # <<>> /\ n > B
      /\ Splittable(call.chunk, dim)
      /\ actual_max_stem_level' = AtLeastOf(actual_max_stem_level, call.level)
      /\ UNCHANGED <<source, phase, new_leaves, terminals, new_max_leaf_len,
                     top_level>>
  BY DEF PopulateSplit
<1>2. PICK part \in LeftParts(call.chunk, dim, pivot, ideal) :
         /\ new_stems' = [Grown(new_stems, call.stem, MaxValue)
                             EXCEPT ![call.stem] = pivot]
         /\ calls' = <<LeftCall(call, part), RightCall(call, part)>>
                     \o Tail(calls)
  BY DEF PopulateSplit
<1>3. call \in Call /\ n \in Nat /\ dim \in 0 .. K - 1
  BY <1>1, NextCall
<1>4. call.chunk \in Bucket
  BY <1>3 DEF Call
<1> HIDE DEF call, dim, n, ideal, pivot
<1>5. ideal \in 1 .. n - 1
  <2>1. RightCapacity(call) \in Nat
    BY <1>3, CapacityTypes
  <2>2. CallPivot(call) \in 1 .. n - 1
    BY <2>1, <1>1, <1>3, CalcPivotInside DEF CallPivot, n
  <2>3. QED
    BY <2>2 DEF ideal
<1>6. ideal \in 0 .. BucketLen(call.chunk) - 1
      /\ ideal \in 1 .. BucketLen(call.chunk) - 1
  BY <1>3, <1>5 DEF n
<1>7. pivot \in Coords(call.chunk, dim)
  <2>1. pivot \in SplitValues(call.chunk, dim, ideal)
    BY <1>1, <1>3, <1>4, <1>6, SplitValueChosen DEF pivot
  <2>2. QED
    BY <2>1, <1>1, <1>3, <1>4, <1>6, SplitValuesInside
<1>8. pivot \in Int /\ pivot < MaxValue
  BY <1>3, <1>7, PointsAssumption DEF Coords, Occupied, Entries
<1>9. IsPart(call.chunk, part, dim, pivot)
  <2>1. pivot = SplitValue(call.chunk, dim, ideal)
    BY DEF pivot
  <2>2. QED
    BY <2>1, <1>1, <1>2, <1>3, <1>4, <1>6, LeftPartsArePart
<1>10. SplitsInto(pivot, part)
  BY <1>1, <1>2, <1>3, <1>4, <1>7, <1>8, <1>9 DEF SplitsInto, call, dim, n
<1>11. QED
  BY <1>10

(* What every state of a construction satisfies: the types, that no leaf   *)
(* or chunk is empty and no leaf too long, and that a construction begins  *)
(* with no calls to make.                                                  *)
BuildInv ==
    /\ TypeOK
    /\ LeavesFit
    /\ phase = "idle" => calls = <<>>

(* The builder starts in it. *)
LEMMA BuildInvInit == BuildInit => BuildInv
<1> SUFFICES ASSUME BuildInit PROVE BuildInv
  OBVIOUS
<1>1. TypeOK
  BY EmptyBucketLen, EmptySeq DEF BuildInit, TypeOK, Phases
<1>2. LeavesFit
  BY DEF BuildInit, LeavesFit
<1>3. QED
  BY <1>1, <1>2 DEF BuildInv, BuildInit

(* The construction of a small source, in one step. *)
LEMMA NoStemsKeepsInv ==
    ASSUME BuildInv, NEW src \in Bucket, ConstructNoStems(src)
    PROVE  BuildInv'
<1>1. src \in Bucket
  OBVIOUS
<1>2. BucketLen(src) \in Nat
  BY <1>1, BucketLenType
<1>3. B \in Nat
  BY BucketSizeAssumption
<1> USE DEF ConstructNoStems
<1>4. /\ source' = src /\ phase' = "built" /\ new_leaves' = <<src>>
      /\ terminals' = <<RootIdx>> /\ calls' = calls /\ top_level' = top_level
  OBVIOUS
<1>5. /\ new_stems' \in Seq(Int)
      /\ actual_max_stem_level' \in Nat \cup {-1}
      /\ new_max_leaf_len' \in Nat
  <2>1. <<MaxValue>> \in Seq(Int) /\ <<>> \in Seq(Int)
    BY PointsAssumption
  <2>2. QED
    BY <2>1, <1>2, <1>3
<1>6. <<src>> \in Seq(Bucket) /\ <<RootIdx>> \in Seq(Nat)
  BY <1>1 DEF RootIdx
<1>7. TypeOK'
  BY <1>1, <1>4, <1>5, <1>6 DEF BuildInv, TypeOK, Phases
<1>8. LeavesFit'
  <2>1. SUFFICES ASSUME src # EmptyBucket
                 PROVE  /\ BucketLen(src) \in 1 .. B
                        /\ \A k \in DOMAIN calls : BucketLen(calls[k].chunk) > 0
    BY <1>4 DEF LeavesFit
  <2>2. BucketLen(src) <= B
    BY <1>2, LeafNodeCountType
  <2>3. BucketLen(src) > 0
    BY <2>1, <1>1, OccupiedLen
  <2>4. calls = <<>>
    BY DEF BuildInv
  <2>5. QED
    BY <2>2, <2>3, <2>4, <1>2, <1>3
<1>9. QED
  BY <1>4, <1>7, <1>8 DEF BuildInv

(* The start of a construction with stems. *)
LEMMA WithStemsKeepsInv ==
    ASSUME BuildInv, NEW src \in Bucket, ConstructWithStems(src)
    PROVE  BuildInv'
<1> DEFINE n   == LeafNodeCount(BucketLen(src))
           top == [stem |-> RootIdx, level |-> 0, chunk |-> src,
                   capacity |-> n * B]
           blank == [i \in 1 .. InitialStemLen(n) |-> MaxValue]
<1>1. src \in Bucket /\ BucketLen(src) \in Nat /\ B \in Nat
  BY BucketLenType, BucketSizeAssumption
<1>2. n \in Nat /\ n >= 2
  BY <1>1, LeafNodeCountType DEF ConstructWithStems
<1>3. /\ source' = src /\ phase' = "populating" /\ calls' = <<top>>
      /\ new_stems' = blank /\ new_leaves' = <<>> /\ terminals' = <<>>
      /\ actual_max_stem_level' = -1 /\ new_max_leaf_len' = 0
      /\ top_level' = StemsDepth(n) - 1
  BY DEF ConstructWithStems
<1> HIDE DEF n
<1>4. n * B \in Nat
  BY <1>1, <1>2
<1>5. top \in Call
  BY <1>1, <1>4 DEF Call, RootIdx
<1>6. blank \in Seq(Int)
  <2>1. InitialStemLen(n) \in Nat /\ MaxValue \in Int
    BY <1>2, InitialStemLenType, PointsAssumption
  <2>2. QED
    BY <2>1
<1>7. StemsDepth(n) - 1 \in Nat
  BY <1>2, StemsDepthType
<1> HIDE DEF blank
<1>8. TypeOK'
  <2>1. <<top>> \in Seq(Call)
    <3> HIDE DEF top
    <3> QED
      BY <1>5
  <2> HIDE DEF top
  <2>2. QED
    BY <2>1, <1>1, <1>3, <1>6, <1>7, EmptySeq DEF TypeOK, Phases
<1>9. LeavesFit'
  <2>1. ASSUME src # EmptyBucket PROVE BucketLen(src) > 0
    BY <2>1, <1>1, OccupiedLen
  <2>2. top.chunk = src
    OBVIOUS
  <2> HIDE DEF top
  <2>3. QED
    BY <2>1, <2>2, <1>3 DEF LeavesFit
<1>10. QED
  BY <1>3, <1>8, <1>9 DEF BuildInv

(* A chunk that fits becomes a leaf. *)
LEMMA LeafKeepsInv ==
    ASSUME BuildInv, PopulateLeaf
    PROVE  BuildInv'
<1> DEFINE call == Head(calls)
           n    == BucketLen(call.chunk)
<1>1. /\ call \in Call /\ Tail(calls) \in Seq(Call) /\ n \in Nat
      /\ n <= B /\ phase = "populating" /\ calls # <<>>
  BY NextCall DEF BuildInv, PopulateLeaf
<1>2. /\ new_leaves' = Append(new_leaves, call.chunk)
      /\ terminals' = Append(terminals, call.stem)
      /\ new_max_leaf_len' = AtLeastOf(new_max_leaf_len, n)
      /\ calls' = Tail(calls)
      /\ UNCHANGED <<source, phase, new_stems, actual_max_stem_level, top_level>>
  BY DEF PopulateLeaf
<1>3. call.chunk \in Bucket /\ call.stem \in Nat
  BY <1>1 DEF Call
<1>4. new_leaves \in Seq(Bucket) /\ terminals \in Seq(Nat) /\ calls \in Seq(Call)
      /\ new_max_leaf_len \in Nat
  BY DEF BuildInv, TypeOK
<1> HIDE DEF n
<1>5. TypeOK'
  <2>1. Append(new_leaves, call.chunk) \in Seq(Bucket)
        /\ Append(terminals, call.stem) \in Seq(Nat)
    BY <1>3, <1>4
  <2>2. AtLeastOf(new_max_leaf_len, n) \in Nat
    BY <1>1, <1>4 DEF AtLeastOf
  <2>3. QED
    BY <2>1, <2>2, <1>1, <1>2 DEF BuildInv, TypeOK
<1>6. ASSUME source # EmptyBucket
      PROVE  /\ \A k \in DOMAIN new_leaves' : BucketLen(new_leaves'[k]) \in 1 .. B
             /\ \A k \in DOMAIN calls' : BucketLen(calls'[k].chunk) > 0
  <2>1. /\ \A k \in DOMAIN new_leaves : BucketLen(new_leaves[k]) \in 1 .. B
        /\ \A k \in DOMAIN calls : BucketLen(calls[k].chunk) > 0
    BY <1>1, <1>6 DEF BuildInv, LeavesFit
  <2>2. 1 \in DOMAIN calls /\ call = calls[1]
    BY <1>1, <1>4, LenProperties, EmptySeq
  <2>3. n \in 1 .. B
    BY <2>1, <2>2, <1>1 DEF n
  <2>4. ASSUME NEW k \in DOMAIN new_leaves'
        PROVE  BucketLen(new_leaves'[k]) \in 1 .. B
    <3>1. k \in 1 .. Len(new_leaves) + 1
      BY <1>2, <1>3, <1>4
    <3>2. CASE k = Len(new_leaves) + 1
      <4>1. new_leaves'[k] = call.chunk
        BY <3>2, <1>2, <1>3, <1>4
      <4>2. QED
        BY <4>1, <2>3 DEF n
    <3>3. CASE k \in 1 .. Len(new_leaves)
      <4>1. new_leaves'[k] = new_leaves[k] /\ k \in DOMAIN new_leaves
        BY <3>3, <1>2, <1>3, <1>4
      <4>2. QED
        BY <4>1, <2>1
    <3>4. Len(new_leaves) \in Nat
      BY <1>4, LenProperties
    <3>5. QED
      BY <3>1, <3>2, <3>3, <3>4
  <2>5. ASSUME NEW k \in DOMAIN calls'
        PROVE  BucketLen(calls'[k].chunk) > 0
    <3>1. /\ Len(calls) \in Nat /\ DOMAIN calls = 1 .. Len(calls)
          /\ k \in 1 .. Len(calls) - 1 /\ calls'[k] = calls[k + 1]
      BY <1>1, <1>2, <1>4, HeadTailProperties, LenProperties
    <3>2. k + 1 \in DOMAIN calls
      BY <3>1
    <3>3. QED
      BY <3>1, <3>2, <2>1
  <2>6. QED
    BY <2>4, <2>5
<1>7. LeavesFit'
  BY <1>2, <1>6 DEF LeavesFit
<1>8. QED
  BY <1>1, <1>2, <1>5, <1>7 DEF BuildInv

(* A longer chunk becomes two shorter ones. *)
LEMMA SplitKeepsInv ==
    ASSUME BuildInv, PopulateSplit
    PROVE  BuildInv'
<1> DEFINE call  == Head(calls)
           grown == Grown(new_stems, call.stem, MaxValue)
<1>1. TypeOK /\ phase = "populating" /\ calls # <<>>
  BY DEF BuildInv, PopulateSplit
<1>pivot. PICK pivot : \E part : SplitsInto(pivot, part)
  BY <1>1, CallDivides
<1>part. PICK part : SplitsInto(pivot, part)
  BY <1>pivot
<1> DEFINE left  == LeftCall(call, part)
           right == RightCall(call, part)
<1>2. /\ call \in Call /\ Tail(calls) \in Seq(Call)
      /\ BucketLen(call.chunk) \in Nat
  BY <1>1, NextCall
<1>3. /\ pivot \in Int /\ left.chunk \in Bucket /\ right.chunk \in Bucket
      /\ BucketLen(left.chunk) > 0 /\ BucketLen(right.chunk) > 0
  <2>1. pivot \in Int /\ IsPart(call.chunk, part, CallDim(call), pivot)
    BY <1>part DEF SplitsInto
  <2>2. left.chunk = part /\ right.chunk = Minus(call.chunk, part)
    BY DEF LeftCall, RightCall
  <2> HIDE DEF left, right, call
  <2>3. QED
    BY <2>1, <2>2, <1>2 DEF IsPart
<1>4. /\ new_stems' = [grown EXCEPT ![call.stem] = pivot]
      /\ actual_max_stem_level' = AtLeastOf(actual_max_stem_level, call.level)
      /\ calls' = <<left, right>> \o Tail(calls)
      /\ UNCHANGED <<source, phase, new_leaves, terminals, new_max_leaf_len,
                     top_level>>
  BY <1>part DEF SplitsInto
<1>5. call.stem \in Nat /\ call.level \in Nat
  BY <1>2 DEF Call
<1>6. LeftCapacity(call) \in Nat /\ RightCapacity(call) \in Nat
  BY <1>1, <1>2, CapacityTypes
<1> HIDE DEF call
<1>7. left \in Call /\ right \in Call
  BY <1>3, <1>5, <1>6 DEF Call, LeftChild, RightChild, LeftCall, RightCall
<1>8. [grown EXCEPT ![call.stem] = pivot] \in Seq(Int)
  <2>1. grown \in Seq(Int)
    BY <1>1, <1>5, PointsAssumption, GrownType DEF TypeOK
  <2> HIDE DEF grown
  <2>2. QED
    BY <2>1, <1>3, WrittenType
<1>9. AtLeastOf(actual_max_stem_level, call.level) \in Nat \cup {-1}
  BY <1>1, <1>5 DEF TypeOK, AtLeastOf
<1> DEFINE rest == Tail(calls)
<1>10. /\ <<left, right>> \o rest \in Seq(Call)
       /\ Len(<<left, right>> \o rest) = Len(rest) + 2
       /\ Len(rest) \in Nat
       /\ \A k \in 1 .. Len(rest) + 2 :
             (<<left, right>> \o rest)[k] = IF k <= 2 THEN <<left, right>>[k]
                                                      ELSE rest[k - 2]
  <2> HIDE DEF left, right, rest
  <2>1. <<left, right>> \in Seq(Call) /\ Len(<<left, right>>) = 2
    BY <1>7
  <2>2. rest \in Seq(Call) /\ Len(rest) \in Nat
    BY <1>2, LenProperties DEF rest
  <2>3. /\ <<left, right>> \o rest \in Seq(Call)
        /\ Len(<<left, right>> \o rest) = Len(<<left, right>>) + Len(rest)
        /\ \A k \in 1 .. Len(<<left, right>>) + Len(rest) :
              (<<left, right>> \o rest)[k] =
                 IF k <= Len(<<left, right>>) THEN <<left, right>>[k]
                 ELSE rest[k - Len(<<left, right>>)]
    BY <2>1, <2>2, ConcatProperties
  <2>4. QED
    BY <2>1, <2>2, <2>3
<1>11. TypeOK'
  <2> HIDE DEF left, right, grown
  <2>1. QED
    BY <1>1, <1>4, <1>8, <1>9, <1>10 DEF TypeOK
<1>12. ASSUME source # EmptyBucket, NEW k \in DOMAIN calls'
       PROVE  BucketLen(calls'[k].chunk) > 0
  <2>1. \A j \in DOMAIN calls : BucketLen(calls[j].chunk) > 0
    BY <1>1, <1>12 DEF BuildInv, LeavesFit
  <2>2. k \in 1 .. Len(rest) + 2
    BY <1>4, <1>10, LenProperties
  <2>3. CASE k \in {1, 2}
    <3>1. calls'[k] \in {left, right}
      <4> HIDE DEF left, right
      <4> QED
        BY <2>2, <2>3, <1>4, <1>10
    <3>2. QED
      BY <3>1, <1>3
  <2>4. CASE k > 2
    <3>1. calls'[k] = rest[k - 2] /\ k - 2 \in 1 .. Len(rest)
      <4> HIDE DEF left, right
      <4> QED
        BY <2>2, <2>4, <1>4, <1>10
    <3>2. calls \in Seq(Call)
      BY <1>1 DEF TypeOK
    <3>3. /\ Len(rest) = Len(calls) - 1 /\ DOMAIN calls = 1 .. Len(calls)
          /\ Len(calls) \in Nat
          /\ \A j \in 1 .. Len(rest) : rest[j] = calls[j + 1]
      BY <3>2, <1>1, HeadTailProperties, LenProperties
    <3> HIDE DEF rest
    <3>4. calls'[k] = calls[k - 1] /\ k - 1 \in DOMAIN calls
      BY <3>1, <3>3, <2>2
    <3>5. QED
      BY <3>4, <2>1
  <2>5. QED
    BY <2>2, <2>3, <2>4, <1>10
<1>13. LeavesFit'
  <2>1. \A k \in DOMAIN new_leaves :
           source # EmptyBucket => BucketLen(new_leaves[k]) \in 1 .. B
    BY <1>1 DEF BuildInv, LeavesFit
  <2> HIDE DEF left, right, rest
  <2>2. QED
    BY <2>1, <1>4, <1>12 DEF LeavesFit
<1>14. QED
  BY <1>1, <1>4, <1>11, <1>13 DEF BuildInv

(* Every step keeps the invariant. *)
LEMMA StepKeepsInv == BuildInv /\ [BuildNext]_build_vars => BuildInv'
<1> SUFFICES ASSUME BuildInv, [BuildNext]_build_vars PROVE BuildInv'
  OBVIOUS
<1>1. CASE \E src \in Sources : ConstructNoStems(src)
  BY <1>1, SourcesAssumption, NoStemsKeepsInv
<1>2. CASE \E src \in Sources : ConstructWithStems(src)
  BY <1>2, SourcesAssumption, WithStemsKeepsInv
<1>3. CASE PopulateLeaf
  BY <1>3, LeafKeepsInv
<1>4. CASE PopulateSplit
  BY <1>4, SplitKeepsInv
<1>5. CASE PopulateUnsplittable
  BY <1>5 DEF PopulateUnsplittable, BuildInv, TypeOK, LeavesFit, Phases
<1>6. CASE PopulateReturns
  BY <1>6 DEF PopulateReturns, BuildInv, TypeOK, LeavesFit, Phases
<1>7. CASE UNCHANGED build_vars
  BY <1>7 DEF build_vars, BuildInv, TypeOK, LeavesFit
<1>8. QED
  BY <1>1, <1>2, <1>3, <1>4, <1>5, <1>6, <1>7
     DEF BuildNext, ConstructAny, Construct, Populate

(* So every state of a construction satisfies it. *)
LEMMA BuildInvariant == BuildSpec => []BuildInv
<1>1. QED
  BY BuildInvInit, StepKeepsInv, PTL DEF BuildSpec

-----------------------------------------------------------------------------
(* The types of the builder's variables hold of every construction, for    *)
(* every number of dimensions, bucket size and source: capacities are      *)
(* never negative, and every element of the stem array is a number.        *)
THEOREM TypeCorrect == BuildSpec => []TypeOK
<1>1. BuildInv => TypeOK
  BY DEF BuildInv
<1>2. QED
  BY <1>1, BuildInvariant, PTL

(* populate_recursive_hard appends no empty leaf and none longer than the  *)
(* bucket size, and never calls itself on an empty chunk.                  *)
THEOREM LeavesAlwaysFit == BuildSpec => []LeavesFit
<1>1. BuildInv => LeavesFit
  BY DEF BuildInv
<1>2. QED
  BY <1>1, BuildInvariant, PTL

(* calc_pivot asks, in every call that has to split, for a slot strictly   *)
(* inside the chunk, however little capacity the calls above it left.      *)
THEOREM IdealPivotAlwaysInside == BuildSpec => []IdealPivotInside
<1>1. BuildInv => IdealPivotInside
  <2>1. SUFFICES ASSUME TypeOK, NEW k \in DOMAIN calls,
                        BucketLen(calls[k].chunk) > B
                 PROVE  CallPivot(calls[k])
                           \in 1 .. BucketLen(calls[k].chunk) - 1
    BY DEF BuildInv, IdealPivotInside
  <2>2. calls[k] \in Call
    <3>1. calls \in Seq(Call)
      BY <2>1 DEF TypeOK
    <3>2. QED
      BY <3>1, LenProperties, ElementOfSeq
  <2>3. BucketLen(calls[k].chunk) \in Nat
    BY <2>2, BucketLenType DEF Call
  <2>4. RightCapacity(calls[k]) \in Nat
    BY <2>1, <2>2, CapacityTypes
  <2>5. QED
    BY <2>1, <2>3, <2>4, CalcPivotInside DEF CallPivot
<1>2. QED
  BY <1>1, BuildInvariant, PTL

-----------------------------------------------------------------------------
(* What is written and what is to come.                                    *)

Chunks(cs) == [k \in DOMAIN cs |-> cs[k].chunk]
Stems(cs)  == [k \in DOMAIN cs |-> cs[k].stem]

(* The leaves written and the chunks to come, in the order of the leaves,  *)
(* and the stem of each of them.                                           *)
Laying(done, cs)    == done \o Chunks(cs)
Placing(at_leaves, cs) == at_leaves \o Stems(cs)

Laid  == Laying(new_leaves, calls)
Nodes == Placing(terminals, calls)

(* The elements of two sequences, one after the other. *)
IsJoin(r, s, c) ==
    /\ Len(r) = Len(s) + Len(c)
    /\ \A k \in 1 .. Len(s) : r[k] = s[k]
    /\ \A k \in 1 .. Len(c) : r[Len(s) + k] = c[k]

LEMMA Joined ==
    ASSUME NEW S, NEW s \in Seq(S), NEW c \in Seq(S)
    PROVE  s \o c \in Seq(S) /\ IsJoin(s \o c, s, c)
<1> DEFINE r == s \o c
           n == Len(s)
<1>1. n \in Nat /\ Len(c) \in Nat
  BY LenProperties
<1>2. /\ r \in Seq(S) /\ Len(r) = n + Len(c)
      /\ \A i \in 1 .. n + Len(c) : r[i] = IF i <= n THEN s[i] ELSE c[i - n]
  BY ConcatProperties
<1> HIDE DEF r, n
<1>3. \A k \in 1 .. n : r[k] = s[k]
  BY <1>1, <1>2
<1>4. ASSUME NEW k \in 1 .. Len(c) PROVE r[n + k] = c[k]
  <2>1. n + k \in 1 .. n + Len(c) /\ ~(n + k <= n) /\ n + k - n = k
    BY <1>1
  <2> DEFINE i == n + k
  <2>2. i \in 1 .. n + Len(c) /\ ~(i <= n) /\ i - n = k
    BY <2>1, <1>1
  <2> HIDE DEF i
  <2>3. r[i] = c[k]
    BY <2>2, <1>2
  <2>4. QED
    BY <2>3 DEF i
<1>5. QED
  BY <1>2, <1>3, <1>4 DEF r, n, IsJoin

(* The chunks and the stems of calls, and of all of them but the first.    *)
LEMMA CallsType ==
    ASSUME NEW cs \in Seq(Call)
    PROVE  /\ Chunks(cs) \in Seq(Bucket) /\ Len(Chunks(cs)) = Len(cs)
           /\ Stems(cs) \in Seq(Nat) /\ Len(Stems(cs)) = Len(cs)
           /\ \A k \in 1 .. Len(cs) :
                 Chunks(cs)[k] = cs[k].chunk /\ Stems(cs)[k] = cs[k].stem
<1>1. /\ DOMAIN cs = 1 .. Len(cs) /\ Len(cs) \in Nat
      /\ \A k \in 1 .. Len(cs) : cs[k].chunk \in Bucket /\ cs[k].stem \in Nat
  <2>1. \A k \in 1 .. Len(cs) : cs[k] \in Call
    BY ElementOfSeq
  <2>2. QED
    BY <2>1, LenProperties DEF Call
<1>2. Chunks(cs) \in Seq(Bucket) /\ Len(Chunks(cs)) = Len(cs)
  BY <1>1 DEF Chunks
<1>3. Stems(cs) \in Seq(Nat) /\ Len(Stems(cs)) = Len(cs)
  BY <1>1 DEF Stems
<1>4. QED
  BY <1>1, <1>2, <1>3 DEF Chunks, Stems

(* Moving the first element of a sequence to the end of another one leaves *)
(* the two as they were, one after the other.                              *)
FirstMoved(S, s, s2, c, c2) ==
    /\ s \in Seq(S) /\ s2 \in Seq(S) /\ c \in Seq(S) /\ c2 \in Seq(S)
    /\ Len(c) > 0 /\ Len(c2) = Len(c) - 1 /\ s2 = Append(s, c[1])
    /\ \A k \in 1 .. Len(c) - 1 : c2[k] = c[k + 1]

LEMMA MovedOver ==
    ASSUME NEW S, NEW s, NEW s2, NEW c, NEW c2, FirstMoved(S, s, s2, c, c2),
           NEW r \in Seq(S), NEW r2 \in Seq(S),
           IsJoin(r, s, c), IsJoin(r2, s2, c2)
    PROVE  r2 = r
<1> DEFINE n  == Len(s)
<1>0. /\ s \in Seq(S) /\ s2 \in Seq(S) /\ c \in Seq(S) /\ c2 \in Seq(S)
      /\ Len(c) > 0 /\ Len(c2) = Len(c) - 1 /\ s2 = Append(s, c[1])
      /\ \A k \in 1 .. Len(c) - 1 : c2[k] = c[k + 1]
  BY DEF FirstMoved
<1>1. n \in Nat /\ Len(c) \in Nat /\ 1 \in 1 .. Len(c)
  BY <1>0, LenProperties
<1>2. /\ Len(s2) = n + 1 /\ s2[n + 1] = c[1]
      /\ \A k \in 1 .. n : s2[k] = s[k]
  <2>1. c[1] \in S
    BY <1>0, <1>1, ElementOfSeq
  <2>2. QED
    BY <2>1, <1>0, <1>1, AppendProperties
<1>3. /\ r \in Seq(S) /\ Len(r) = n + Len(c)
      /\ \A k \in 1 .. n : r[k] = s[k]
      /\ \A k \in 1 .. Len(c) : r[n + k] = c[k]
  BY DEF IsJoin
<1>4. /\ r2 \in Seq(S) /\ Len(r2) = n + 1 + Len(c2)
      /\ \A k \in 1 .. n + 1 : r2[k] = s2[k]
      /\ \A k \in 1 .. Len(c2) : r2[n + 1 + k] = c2[k]
  BY <1>2 DEF IsJoin
<1> HIDE DEF n
<1>5. ASSUME NEW i \in 1 .. Len(r) PROVE r2[i] = r[i]
  <2>1. CASE i <= n
    <3>1. i \in 1 .. n /\ i \in 1 .. n + 1
      BY <2>1, <1>1, <1>3
    <3>2. QED
      BY <3>1, <1>2, <1>3, <1>4
  <2>2. CASE i = n + 1
    <3>1. i \in 1 .. n + 1
      BY <2>2, <1>1
    <3>2. QED
      BY <3>1, <2>2, <1>1, <1>2, <1>3, <1>4
  <2>3. CASE i > n + 1
    <3>1. /\ i - n - 1 \in 1 .. Len(c) - 1 /\ i - n \in 1 .. Len(c)
          /\ i = n + 1 + (i - n - 1) /\ i = n + (i - n)
          /\ (i - n - 1) + 1 = i - n
      BY <2>3, <1>0, <1>1, <1>3
    <3>2. r2[i] = c2[i - n - 1]
      BY <3>1, <1>0, <1>4
    <3>3. r[i] = c[i - n]
      BY <3>1, <1>3
    <3>4. QED
      BY <3>1, <3>2, <3>3, <1>0
  <2>4. QED
    BY <2>1, <2>2, <2>3, <1>1, <1>3
<1>6. Len(r2) = Len(r)
  BY <1>0, <1>1, <1>3, <1>4
<1>7. QED
  BY <1>3, <1>4, <1>5, <1>6, SeqEqual

(* Two elements in the place of the first of the second sequence.          *)
FirstDoubled(S, s, c, c2) ==
    /\ s \in Seq(S) /\ c \in Seq(S) /\ c2 \in Seq(S)
    /\ Len(c) > 0 /\ Len(c2) = Len(c) + 1
    /\ \A k \in 2 .. Len(c) : c2[k + 1] = c[k]

Doubling(S, s, c, c2, r, r2) ==
    /\ FirstDoubled(S, s, c, c2)
    /\ r \in Seq(S) /\ IsJoin(r, s, c)
    /\ r2 \in Seq(S) /\ IsJoin(r2, s, c2)

Doubles(r, r2, c, c2, m) ==
    /\ m \in 1 .. Len(r) /\ Len(r) \in Nat /\ Len(r2) = Len(r) + 1
    /\ r[m] = c[1] /\ r2[m] = c2[1] /\ r2[m + 1] = c2[2]
    /\ \A k \in (1 .. Len(r)) \ {m} : r2[InPlace(Len(r), m)[k]] = r[k]

LEMMA TwoForOne ==
    ASSUME NEW S, NEW s, NEW c, NEW c2, NEW r, NEW r2,
           Doubling(S, s, c, c2, r, r2)
    PROVE  Doubles(r, r2, c, c2, Len(s) + 1)
<1> DEFINE n == Len(s)
           m == n + 1
<1>0. /\ s \in Seq(S) /\ c \in Seq(S) /\ c2 \in Seq(S)
      /\ Len(c) > 0 /\ Len(c2) = Len(c) + 1
      /\ \A k \in 2 .. Len(c) : c2[k + 1] = c[k]
      /\ IsJoin(r, s, c) /\ IsJoin(r2, s, c2)
  BY DEF Doubling, FirstDoubled
<1>1. /\ n \in Nat /\ Len(c) \in Nat /\ m = n + 1
      /\ 1 \in 1 .. Len(c) /\ 1 \in 1 .. Len(c2) /\ 2 \in 1 .. Len(c2)
  BY <1>0, LenProperties
<1>2. /\ Len(r) = n + Len(c)
      /\ \A k \in 1 .. n : r[k] = s[k]
      /\ \A k \in 1 .. Len(c) : r[n + k] = c[k]
  BY <1>0 DEF IsJoin
<1>3. /\ Len(r2) = n + Len(c2)
      /\ \A k \in 1 .. n : r2[k] = s[k]
      /\ \A k \in 1 .. Len(c2) : r2[n + k] = c2[k]
  BY <1>0 DEF IsJoin
<1> HIDE DEF n, m
<1>4. Len(r2) = Len(r) + 1 /\ m \in 1 .. Len(r) /\ Len(r) \in Nat
  BY <1>0, <1>1, <1>2, <1>3
<1>5. r[m] = c[1] /\ r2[m] = c2[1]
  BY <1>0, <1>1, <1>2, <1>3
<1>6. r2[m + 1] = c2[2]
  <2>1. m + 1 = n + 2
    BY <1>1
  <2>2. r2[n + 2] = c2[2]
    BY <1>1, <1>3
  <2>3. QED
    BY <2>1, <2>2
<1>7. ASSUME NEW k \in (1 .. Len(r)) \ {m}
      PROVE  r2[InPlace(Len(r), m)[k]] = r[k]
  <2>1. CASE k < m
    <3>1. k \in 1 .. n
      BY <2>1, <1>1
    <3>2. InPlace(Len(r), m)[k] = k
      BY <2>1 DEF InPlace
    <3>3. QED
      BY <3>1, <3>2, <1>2, <1>3
  <2>2. CASE ~(k < m)
    <3>1. InPlace(Len(r), m)[k] = k + 1
      BY <2>2 DEF InPlace
    <3>2. /\ k - n \in 2 .. Len(c) /\ k - n \in 1 .. Len(c)
          /\ k - n + 1 \in 1 .. Len(c2)
          /\ k = n + (k - n) /\ k + 1 = n + (k - n + 1)
      BY <2>2, <1>0, <1>1, <1>2
    <3>3. r[k] = c[k - n]
      BY <3>2, <1>2
    <3>4. r2[k + 1] = c2[k - n + 1]
      BY <3>2, <1>3, SMTT(30)
    <3>5. QED
      BY <3>1, <3>2, <3>3, <3>4, <1>0
  <2>3. QED
    BY <2>1, <2>2
<1>8. QED
  BY <1>4, <1>5, <1>6, <1>7 DEF Doubles, m, n

(* Both are sequences of the same length as leaves and calls together.     *)
LEMMA LaidType ==
    ASSUME TypeOK
    PROVE  /\ Laid \in Seq(Bucket) /\ IsJoin(Laid, new_leaves, Chunks(calls))
           /\ Nodes \in Seq(Nat) /\ IsJoin(Nodes, terminals, Stems(calls))
           /\ Len(Laid) = Len(new_leaves) + Len(calls)
           /\ Len(Nodes) = Len(terminals) + Len(calls)
<1>1. /\ Chunks(calls) \in Seq(Bucket) /\ Len(Chunks(calls)) = Len(calls)
      /\ Stems(calls) \in Seq(Nat) /\ Len(Stems(calls)) = Len(calls)
      /\ new_leaves \in Seq(Bucket) /\ terminals \in Seq(Nat)
  BY CallsType DEF TypeOK
<1>2. /\ Laid \in Seq(Bucket) /\ IsJoin(Laid, new_leaves, Chunks(calls))
      /\ Nodes \in Seq(Nat) /\ IsJoin(Nodes, terminals, Stems(calls))
  BY <1>1, Joined DEF Laid, Laying, Nodes, Placing
<1>3. QED
  BY <1>1, <1>2 DEF IsJoin

(* A construction begins with all of its source in one place, at the root. *)
LEMMA BeginsWithAll ==
    ASSUME BuildInv, NEW src \in Bucket, Construct(src)
    PROVE  /\ Laid' = <<src>> /\ Nodes' = <<RootIdx>>
           /\ Len(terminals') = Len(new_leaves')
<1>1. CASE ConstructNoStems(src)
  <2>1. /\ new_leaves' = <<src>> /\ terminals' = <<RootIdx>> /\ calls' = <<>>
    BY <1>1 DEF ConstructNoStems, BuildInv
  <2>2. [k \in DOMAIN calls' |-> calls'[k].chunk] = <<>>
        /\ [k \in DOMAIN calls' |-> calls'[k].stem] = <<>>
    BY <2>1
  <2>3. QED
    BY <2>1, <2>2 DEF Laid, Laying, Chunks, Nodes, Placing, Stems
<1>2. CASE ConstructWithStems(src)
  <2> DEFINE top == [stem |-> RootIdx, level |-> 0, chunk |-> src,
                     capacity |-> LeafNodeCount(BucketLen(src)) * B]
  <2>1. new_leaves' = <<>> /\ terminals' = <<>> /\ calls' = <<top>>
    BY <1>2 DEF ConstructWithStems
  <2>2. top.chunk = src /\ top.stem = RootIdx
    OBVIOUS
  <2> HIDE DEF top
  <2>3. [k \in DOMAIN calls' |-> calls'[k].chunk] = <<src>>
        /\ [k \in DOMAIN calls' |-> calls'[k].stem] = <<RootIdx>>
    BY <2>1, <2>2
  <2>4. QED
    BY <2>1, <2>3 DEF Laid, Laying, Chunks, Nodes, Placing, Stems
<1>3. QED
  BY <1>1, <1>2 DEF Construct

(* Writing a leaf moves a chunk, and its stem, from one sequence to the    *)
(* other.                                                                  *)
LEMMA LeafKeepsAll ==
    ASSUME BuildInv, PopulateLeaf
    PROVE  Laid' = Laid /\ Nodes' = Nodes
<1>1. TypeOK /\ TypeOK'
  BY LeafKeepsInv DEF BuildInv
<1>2. /\ calls # <<>> /\ calls' = Tail(calls)
      /\ new_leaves' = Append(new_leaves, Head(calls).chunk)
      /\ terminals' = Append(terminals, Head(calls).stem)
  BY DEF PopulateLeaf
<1>3. /\ calls \in Seq(Call) /\ calls' \in Seq(Call)
      /\ new_leaves \in Seq(Bucket) /\ new_leaves' \in Seq(Bucket)
      /\ terminals \in Seq(Nat) /\ terminals' \in Seq(Nat)
  BY <1>1 DEF TypeOK
<1>4. /\ Len(calls') = Len(calls) - 1 /\ Len(calls) \in Nat \ {0}
      /\ \A i \in 1 .. Len(calls) - 1 : calls'[i] = calls[i + 1]
      /\ Head(calls) = calls[1]
  BY <1>2, <1>3, HeadTailProperties, EmptySeq
<1> DEFINE c == Chunks(calls)
           c2 == Chunks(calls')
           n == Stems(calls)
           n2 == Stems(calls')
<1>5. /\ c \in Seq(Bucket) /\ n \in Seq(Nat)
      /\ Len(c) = Len(calls) /\ Len(n) = Len(calls)
      /\ \A k \in 1 .. Len(calls) : c[k] = calls[k].chunk /\ n[k] = calls[k].stem
  BY <1>3, CallsType
<1>6. /\ c2 \in Seq(Bucket) /\ n2 \in Seq(Nat)
      /\ Len(c2) = Len(calls') /\ Len(n2) = Len(calls')
      /\ \A k \in 1 .. Len(calls') :
            c2[k] = calls'[k].chunk /\ n2[k] = calls'[k].stem
  BY <1>3, CallsType
<1> HIDE DEF c, c2, n, n2
<1>7. /\ \A k \in 1 .. Len(calls) - 1 : c2[k] = c[k + 1] /\ n2[k] = n[k + 1]
      /\ calls[1].chunk = c[1] /\ calls[1].stem = n[1]
  <2>1. 1 \in 1 .. Len(calls)
    BY <1>4
  <2>2. ASSUME NEW k \in 1 .. Len(calls) - 1
        PROVE  c2[k] = c[k + 1] /\ n2[k] = n[k + 1]
    <3>1. k \in 1 .. Len(calls') /\ k + 1 \in 1 .. Len(calls)
      BY <1>4
    <3>2. QED
      BY <3>1, <1>4, <1>5, <1>6
  <2>3. QED
    BY <2>1, <2>2, <1>5
<1>8. /\ Laid \in Seq(Bucket) /\ IsJoin(Laid, new_leaves, c)
      /\ Laid' \in Seq(Bucket) /\ IsJoin(Laid', new_leaves', c2)
      /\ Nodes \in Seq(Nat) /\ IsJoin(Nodes, terminals, n)
      /\ Nodes' \in Seq(Nat) /\ IsJoin(Nodes', terminals', n2)
  BY <1>3, <1>5, <1>6, Joined DEF Laid, Laying, Nodes, Placing, c, c2, n, n2
<1>9. /\ Len(c) > 0 /\ Len(c2) = Len(c) - 1
      /\ Len(n) > 0 /\ Len(n2) = Len(n) - 1
      /\ new_leaves' = Append(new_leaves, c[1])
      /\ terminals' = Append(terminals, n[1])
      /\ \A k \in 1 .. Len(c) - 1 : c2[k] = c[k + 1]
      /\ \A k \in 1 .. Len(n) - 1 : n2[k] = n[k + 1]
  BY <1>2, <1>4, <1>5, <1>6, <1>7, SMTT(30)
<1>10. Laid' = Laid
  <2>1. FirstMoved(Bucket, new_leaves, new_leaves', c, c2)
    BY <1>3, <1>5, <1>6, <1>9 DEF FirstMoved
  <2>2. QED
    BY <2>1, <1>8, MovedOver
<1>11. Nodes' = Nodes
  <2>1. FirstMoved(Nat, terminals, terminals', n, n2)
    BY <1>3, <1>5, <1>6, <1>9 DEF FirstMoved
  <2>2. QED
    BY <2>1, <1>8, MovedOver
<1>12. QED
  BY <1>10, <1>11

(* A split puts the two sides of a chunk in its place, at the children of  *)
(* its stem and a level further down.                                      *)
LEMMA SplitReplaces ==
    ASSUME BuildInv, PopulateSplit, NEW pivot, NEW part, SplitsInto(pivot, part)
    PROVE  LET call  == Head(calls)
               m     == Len(new_leaves) + 1
           IN  /\ m \in 1 .. Len(Laid) /\ Len(Laid) \in Nat
               /\ Laid \in Seq(Bucket) /\ Laid' \in Seq(Bucket)
               /\ Len(Laid') = Len(Laid) + 1
               /\ Laid[m] = call.chunk
               /\ Laid'[m] = part
               /\ Laid'[m + 1] = Minus(call.chunk, part)
               /\ \A k \in (1 .. Len(Laid)) \ {m} :
                     Laid'[InPlace(Len(Laid), m)[k]] = Laid[k]
               /\ Len(terminals) = Len(new_leaves) =>
                     /\ Nodes \in Seq(Nat) /\ Nodes' \in Seq(Nat)
                     /\ Len(Nodes) = Len(Laid) /\ Len(Nodes') = Len(Laid')
                     /\ Nodes[m] = call.stem
                     /\ Nodes'[m] = LeftChild(call.stem)
                     /\ Nodes'[m + 1] = RightChild(call.stem)
                     /\ \A k \in (1 .. Len(Laid)) \ {m} :
                           Nodes'[InPlace(Len(Laid), m)[k]] = Nodes[k]
               /\ Head(calls) = calls[1] /\ 1 \in DOMAIN calls
               /\ \A k \in DOMAIN calls' :
                     \/ /\ calls'[k].level = call.level + 1
                        /\ calls'[k].stem \in {LeftChild(call.stem),
                                               RightChild(call.stem)}
                     \/ \E j \in DOMAIN calls : calls'[k] = calls[j]
<1> DEFINE call  == Head(calls)
           left  == LeftCall(call, part)
           right == RightCall(call, part)
           rest  == Tail(calls)
           m     == Len(new_leaves) + 1
<1>1. TypeOK /\ TypeOK'
  BY SplitKeepsInv DEF BuildInv
<1>2. /\ calls # <<>> /\ calls' = <<left, right>> \o rest
      /\ new_leaves' = new_leaves /\ terminals' = terminals
  BY DEF SplitsInto
<1>3. /\ calls \in Seq(Call) /\ calls' \in Seq(Call)
      /\ new_leaves \in Seq(Bucket) /\ terminals \in Seq(Nat)
      /\ call \in Call /\ call = calls[1] /\ rest \in Seq(Call)
  <2>1. /\ calls \in Seq(Call) /\ calls' \in Seq(Call)
        /\ new_leaves \in Seq(Bucket) /\ terminals \in Seq(Nat)
    BY <1>1 DEF TypeOK
  <2> HIDE DEF rest
  <2>2. QED
    BY <2>1, <1>2, HeadTailProperties, LenProperties DEF rest
<1>6. /\ left.stem = LeftChild(call.stem) /\ left.level = call.level + 1
      /\ left.chunk = part
      /\ right.stem = RightChild(call.stem) /\ right.level = call.level + 1
      /\ right.chunk = Minus(call.chunk, part)
  BY DEF LeftCall, RightCall
<1> HIDE DEF left, right, call
<1>7. /\ Len(rest) = Len(calls) - 1 /\ Len(calls) \in Nat \ {0}
      /\ \A i \in 1 .. Len(calls) - 1 : rest[i] = calls[i + 1]
  BY <1>2, <1>3, HeadTailProperties, EmptySeq
<1> HIDE DEF rest
<1>8. /\ Len(calls') = Len(calls) + 1
      /\ calls'[1] = left /\ calls'[2] = right
      /\ \A i \in 2 .. Len(calls) : calls'[i + 1] = calls[i]
  <2>1. Len(calls') = Len(rest) + 2
    BY <1>2, <1>3
  <2>2. calls'[1] = left /\ calls'[2] = right
    BY <1>2, <1>3
  <2>3. ASSUME NEW i \in 2 .. Len(calls) PROVE calls'[i + 1] = calls[i]
    <3>1. calls'[i + 1] = rest[i - 1]
      BY <1>2, <1>3, <1>7
    <3>2. i - 1 \in 1 .. Len(calls) - 1 /\ (i - 1) + 1 = i
      BY <1>7
    <3>3. QED
      BY <3>1, <3>2, <1>7
  <2>4. QED
    BY <2>1, <2>2, <2>3, <1>7
<1> DEFINE c  == Chunks(calls)
           c2 == Chunks(calls')
           n  == Stems(calls)
           n2 == Stems(calls')
<1>9. /\ c \in Seq(Bucket) /\ n \in Seq(Nat)
      /\ Len(c) = Len(calls) /\ Len(n) = Len(calls)
      /\ \A k \in 1 .. Len(calls) : c[k] = calls[k].chunk /\ n[k] = calls[k].stem
  BY <1>3, CallsType
<1>10. /\ c2 \in Seq(Bucket) /\ n2 \in Seq(Nat)
       /\ Len(c2) = Len(calls') /\ Len(n2) = Len(calls')
       /\ \A k \in 1 .. Len(calls') :
             c2[k] = calls'[k].chunk /\ n2[k] = calls'[k].stem
  BY <1>3, CallsType
<1> HIDE DEF c, c2, n, n2
<1>11. /\ c[1] = call.chunk /\ c2[1] = left.chunk /\ c2[2] = right.chunk
       /\ n[1] = call.stem /\ n2[1] = left.stem /\ n2[2] = right.stem
       /\ \A k \in 2 .. Len(calls) : c2[k + 1] = c[k] /\ n2[k + 1] = n[k]
  <2>1. 1 \in 1 .. Len(calls) /\ 1 \in 1 .. Len(calls') /\ 2 \in 1 .. Len(calls')
    BY <1>7, <1>8
  <2>2. ASSUME NEW k \in 2 .. Len(calls)
        PROVE  c2[k + 1] = c[k] /\ n2[k + 1] = n[k]
    <3>1. k \in 1 .. Len(calls) /\ k + 1 \in 1 .. Len(calls')
      BY <1>7, <1>8
    <3>2. QED
      BY <3>1, <1>8, <1>9, <1>10
  <2>3. QED
    BY <2>1, <2>2, <1>3, <1>8, <1>9, <1>10
<1>12. Len(c) > 0 /\ Len(c2) = Len(c) + 1 /\ Len(n) > 0 /\ Len(n2) = Len(n) + 1
  BY <1>7, <1>8, <1>9, <1>10
<1>13. /\ Laid \in Seq(Bucket) /\ IsJoin(Laid, new_leaves, c)
       /\ Laid' \in Seq(Bucket) /\ IsJoin(Laid', new_leaves, c2)
       /\ Nodes \in Seq(Nat) /\ IsJoin(Nodes, terminals, n)
       /\ Nodes' \in Seq(Nat) /\ IsJoin(Nodes', terminals, n2)
  <2>1. Laid = new_leaves \o c /\ Laid' = new_leaves \o c2
        /\ Nodes = terminals \o n /\ Nodes' = terminals \o n2
    BY <1>2 DEF Laid, Laying, Nodes, Placing, c, c2, n, n2
  <2>2. QED
    BY <2>1, <1>3, <1>9, <1>10, Joined
<1>14. /\ m \in 1 .. Len(Laid) /\ Len(Laid) \in Nat
       /\ Len(Laid') = Len(Laid) + 1
       /\ Laid[m] = c[1] /\ Laid'[m] = c2[1] /\ Laid'[m + 1] = c2[2]
       /\ \A k \in (1 .. Len(Laid)) \ {m} :
             Laid'[InPlace(Len(Laid), m)[k]] = Laid[k]
  <2>1. FirstDoubled(Bucket, new_leaves, c, c2)
    BY <1>3, <1>9, <1>10, <1>11, <1>12 DEF FirstDoubled
  <2>2. m = Len(new_leaves) + 1
    OBVIOUS
  <2> HIDE DEF m
  <2>3. Doubling(Bucket, new_leaves, c, c2, Laid, Laid')
    BY <2>1, <1>13 DEF Doubling
  <2>4. Doubles(Laid, Laid', c, c2, m)
    BY <2>2, <2>3, TwoForOne
  <2>5. QED
    BY <2>4 DEF Doubles
<1>15. ASSUME Len(terminals) = Len(new_leaves)
       PROVE  /\ Len(Nodes) = Len(Laid) /\ Len(Nodes') = Len(Laid')
              /\ Nodes[m] = n[1] /\ Nodes'[m] = n2[1] /\ Nodes'[m + 1] = n2[2]
              /\ \A k \in (1 .. Len(Laid)) \ {m} :
                    Nodes'[InPlace(Len(Laid), m)[k]] = Nodes[k]
  <2>1. FirstDoubled(Nat, terminals, n, n2)
    BY <1>3, <1>9, <1>10, <1>11, <1>12 DEF FirstDoubled
  <2>2. m = Len(terminals) + 1
    BY <1>15
  <2>3. Len(Nodes) = Len(Laid)
    BY <1>1, <1>15, LaidType
  <2> HIDE DEF m
  <2>4. /\ Len(Nodes') = Len(Nodes) + 1
        /\ Nodes[m] = n[1] /\ Nodes'[m] = n2[1] /\ Nodes'[m + 1] = n2[2]
        /\ \A k \in (1 .. Len(Nodes)) \ {m} :
              Nodes'[InPlace(Len(Nodes), m)[k]] = Nodes[k]
    <3>1. /\ Nodes \in Seq(Nat) /\ IsJoin(Nodes, terminals, n)
          /\ Nodes' \in Seq(Nat) /\ IsJoin(Nodes', terminals, n2)
      BY <1>13
    <3>2. Doubling(Nat, terminals, n, n2, Nodes, Nodes')
      BY <3>1, <2>1 DEF Doubling
    <3>3. Doubles(Nodes, Nodes', n, n2, m)
      BY <2>2, <3>2, TwoForOne
    <3>4. QED
      BY <3>3 DEF Doubles
  <2>5. QED
    BY <2>3, <2>4, <1>14
<1>16. ASSUME NEW k \in DOMAIN calls'
       PROVE  \/ /\ calls'[k].level = call.level + 1
                 /\ calls'[k].stem \in {LeftChild(call.stem),
                                        RightChild(call.stem)}
              \/ \E j \in DOMAIN calls : calls'[k] = calls[j]
  <2>1. k \in 1 .. Len(calls) + 1 /\ DOMAIN calls = 1 .. Len(calls)
    BY <1>3, <1>8, LenProperties
  <2>2. CASE k \in {1, 2}
    BY <2>2, <1>6, <1>8
  <2>3. CASE k > 2
    <3>1. k - 1 \in 2 .. Len(calls) /\ k - 1 \in DOMAIN calls /\ (k - 1) + 1 = k
      BY <2>1, <2>3, <1>7
    <3>2. calls'[k] = calls[k - 1]
      BY <3>1, <1>8
    <3>3. QED
      BY <3>1, <3>2
  <2>4. QED
    BY <2>1, <2>2, <2>3, <1>7
<1>17. 1 \in DOMAIN calls
  BY <1>3, <1>7, LenProperties
<1>18. /\ Laid[m] = call.chunk
       /\ Laid'[m] = part
       /\ Laid'[m + 1] = Minus(call.chunk, part)
  BY <1>6, <1>11, <1>14
<1>19. Len(terminals) = Len(new_leaves) =>
          /\ Len(Nodes) = Len(Laid) /\ Len(Nodes') = Len(Laid')
          /\ Nodes[m] = call.stem
          /\ Nodes'[m] = LeftChild(call.stem)
          /\ Nodes'[m + 1] = RightChild(call.stem)
          /\ \A k \in (1 .. Len(Laid)) \ {m} :
                Nodes'[InPlace(Len(Laid), m)[k]] = Nodes[k]
  BY <1>6, <1>11, <1>15
<1> HIDE DEF m
<1>20. QED
  BY <1>3, <1>13, <1>14, <1>16, <1>17, <1>18, <1>19 DEF call, m

-----------------------------------------------------------------------------
(* Nothing is lost.                                                        *)

(* A split keeps every entry as often as it was. *)
LEMMA SplitKeepsAll ==
    ASSUME BuildInv, PopulateSplit
    PROVE  FoldLeft(Plus, EmptyBucket, Laid') = FoldLeft(Plus, EmptyBucket, Laid)
<1> DEFINE call  == Head(calls)
           n     == Len(Laid)
           m     == Len(new_leaves) + 1
<1>pivot. PICK pivot : \E part : SplitsInto(pivot, part)
  BY CallDivides DEF BuildInv
<1>part. PICK part : SplitsInto(pivot, part)
  BY <1>pivot
<1>1. /\ m \in 1 .. n /\ n \in Nat
      /\ Laid \in Seq(Bucket) /\ Laid' \in Seq(Bucket)
      /\ Len(Laid') = n + 1
      /\ Laid[m] = call.chunk
      /\ Laid'[m] = part
      /\ Laid'[m + 1] = Minus(call.chunk, part)
      /\ \A k \in (1 .. n) \ {m} : Laid'[InPlace(n, m)[k]] = Laid[k]
  BY <1>part, SplitReplaces
<1>2. call.chunk = Plus(part, Minus(call.chunk, part))
  BY <1>part DEF SplitsInto, IsPart
<1> HIDE DEF call, n, m
<1>3. DOMAIN Laid = 1 .. n /\ DOMAIN Laid' = 1 .. n + 1
  BY <1>1, LenProperties DEF n
<1>4. InPlace(n, m) \in Bijection(DOMAIN Laid \ {m}, DOMAIN Laid' \ {m, m + 1})
  BY <1>1, <1>3, Room
<1>5. Laid[m] = Plus(Laid'[m], Laid'[m + 1])
  BY <1>1, <1>2
<1>6. DividedAt(Laid, Laid', m, m, m + 1, InPlace(n, m))
  BY <1>1, <1>3, <1>4 DEF DividedAt
<1>7. QED
  BY <1>1, <1>5, <1>6, FoldDivided

(* Every step keeps it. *)
LEMMA StepKeepsAll ==
    BuildInv /\ NothingLostOrDuplicated /\ [BuildNext]_build_vars
        => NothingLostOrDuplicated'
<1> SUFFICES ASSUME BuildInv, NothingLostOrDuplicated, [BuildNext]_build_vars
             PROVE  NothingLostOrDuplicated'
  OBVIOUS
<1>1. ASSUME NEW src \in Sources, Construct(src)
      PROVE  NothingLostOrDuplicated'
  <2>1. Laid' = <<src>> /\ source' = src /\ src \in Bucket
    BY <1>1, SourcesAssumption, BeginsWithAll
       DEF Construct, ConstructNoStems, ConstructWithStems
  <2>2. FoldLeft(Plus, EmptyBucket, Laid') = source'
    BY <2>1, FoldOne
  <2>3. QED
    BY <2>2 DEF NothingLostOrDuplicated, Laid, Laying, Chunks, PendingChunks
<1>2. CASE PopulateLeaf
  <2>1. Laid' = Laid /\ source' = source /\ phase' = phase
    BY <1>2, LeafKeepsAll DEF PopulateLeaf
  <2>2. QED
    BY <2>1 DEF NothingLostOrDuplicated, Laid, Laying, Chunks, PendingChunks
<1>3. CASE PopulateSplit
  <2>1. /\ FoldLeft(Plus, EmptyBucket, Laid') = FoldLeft(Plus, EmptyBucket, Laid)
        /\ source' = source /\ phase' = phase
    BY <1>3, SplitKeepsAll DEF PopulateSplit
  <2>2. QED
    BY <2>1 DEF NothingLostOrDuplicated, Laid, Laying, Chunks, PendingChunks
<1>4. CASE PopulateUnsplittable
  BY <1>4 DEF PopulateUnsplittable, NothingLostOrDuplicated
<1>5. CASE PopulateReturns
  BY <1>5 DEF PopulateReturns, NothingLostOrDuplicated, PendingChunks
<1>6. CASE UNCHANGED build_vars
  BY <1>6 DEF build_vars, NothingLostOrDuplicated, PendingChunks
<1>7. QED
  BY <1>1, <1>2, <1>3, <1>4, <1>5, <1>6 DEF BuildNext, ConstructAny, Populate

(* The sort index is only ever cut in two: while the recursion of          *)
(* populate_recursive_hard runs and when it is over, the leaves written    *)
(* and the chunks still to come hold together every entry of the source    *)
(* exactly as often as the source does.                                    *)
THEOREM NothingIsLost == BuildSpec => []NothingLostOrDuplicated
<1>1. BuildInit => NothingLostOrDuplicated
  BY DEF BuildInit, NothingLostOrDuplicated
<1>2. QED
  BY <1>1, BuildInvariant, StepKeepsAll, PTL DEF BuildSpec

-----------------------------------------------------------------------------
(* Every entry lies where its leaf is, and most are routed there.          *)

(* The entries that share no coordinate with another one. *)
Untied == {e \in Entries : ~Tied(source, e)}

(* While the recursion runs, each leaf and each chunk to come is at a stem *)
(* of its own where no pivot is written yet, every entry of it lies there  *)
(* and is routed there where it is untied, and a call knows the level of   *)
(* its stem.                                                               *)
RouteInv ==
    phase \in {"populating", "built"} =>
        /\ Len(terminals) = Len(new_leaves)
        /\ Len(Laid) > 0
        /\ Sited(Nodes, Laid, new_stems, actual_max_stem_level, Untied)
        /\ \A k \in DOMAIN calls : AtLevel(calls[k].stem, calls[k].level)
        /\ phase = "built" => calls = <<>>

(* One leaf, or one call, at the root. *)
LEMMA ConstructRoutes ==
    ASSUME BuildInv, NEW src \in Bucket, Construct(src)
    PROVE  RouteInv'
<1>1. /\ Laid' = <<src>> /\ Nodes' = <<RootIdx>>
      /\ Len(terminals') = Len(new_leaves')
  BY BeginsWithAll
<1>2. \A i \in DOMAIN new_stems' : new_stems'[i] = MaxValue
  <2>1. CASE ConstructNoStems(src)
    BY <2>1 DEF ConstructNoStems
  <2>2. CASE ConstructWithStems(src)
    BY <2>2 DEF ConstructWithStems
  <2>3. QED
    BY <2>1, <2>2 DEF Construct
<1>3. Sited(Nodes', Laid', new_stems', actual_max_stem_level', Untied')
  BY <1>1, <1>2, SitedAtRoot
<1>4. /\ \A k \in DOMAIN calls' : AtLevel(calls'[k].stem, calls'[k].level)
      /\ phase' = "built" => calls' = <<>>
  <2>1. CASE ConstructNoStems(src)
    BY <2>1 DEF ConstructNoStems, BuildInv
  <2>2. CASE ConstructWithStems(src)
    <3> DEFINE top == [stem |-> RootIdx, level |-> 0, chunk |-> src,
                       capacity |-> LeafNodeCount(BucketLen(src)) * B]
    <3>1. calls' = <<top>> /\ phase' = "populating"
      BY <2>2 DEF ConstructWithStems
    <3>2. top.stem = RootIdx /\ top.level = 0
      OBVIOUS
    <3> HIDE DEF top
    <3>3. \A k \in DOMAIN calls' : calls'[k] = top
      BY <3>1
    <3>4. QED
      BY <3>1, <3>2, <3>3, LevelBelow
  <2>3. QED
    BY <2>1, <2>2 DEF Construct
<1>5. Len(Laid') > 0
  BY <1>1
<1>6. QED
  BY <1>1, <1>3, <1>4, <1>5 DEF RouteInv

(* Writing a leaf moves nothing. *)
LEMMA LeafRoutes ==
    ASSUME BuildInv, RouteInv, PopulateLeaf
    PROVE  RouteInv'
<1>1. Laid' = Laid /\ Nodes' = Nodes
  BY LeafKeepsAll
<1>2. /\ TypeOK /\ TypeOK' /\ phase = "populating" /\ phase' = phase
      /\ calls # <<>> /\ calls' = Tail(calls)
      /\ new_leaves' = Append(new_leaves, Head(calls).chunk)
      /\ terminals' = Append(terminals, Head(calls).stem)
      /\ new_stems' = new_stems
      /\ actual_max_stem_level' = actual_max_stem_level
      /\ Untied' = Untied
  BY LeafKeepsInv DEF BuildInv, PopulateLeaf, Untied
<1>3. calls \in Seq(Call) /\ new_leaves \in Seq(Bucket) /\ terminals \in Seq(Nat)
  BY <1>2 DEF TypeOK
<1>4. Head(calls).chunk \in Bucket /\ Head(calls).stem \in Nat
  <2>1. Head(calls) \in Call
    BY <1>2, <1>3, HeadTailProperties
  <2>2. QED
    BY <2>1 DEF Call
<1>5. Len(terminals') = Len(new_leaves')
  <2>1. /\ Len(terminals') = Len(terminals) + 1
        /\ Len(new_leaves') = Len(new_leaves) + 1
    BY <1>2, <1>3, <1>4, AppendProperties
  <2>2. QED
    BY <2>1, <1>2 DEF RouteInv
<1>6. ASSUME NEW k \in DOMAIN calls'
      PROVE  AtLevel(calls'[k].stem, calls'[k].level)
  <2>1. /\ Len(calls) \in Nat /\ DOMAIN calls = 1 .. Len(calls)
        /\ k \in 1 .. Len(calls) - 1 /\ calls'[k] = calls[k + 1]
    BY <1>2, <1>3, HeadTailProperties, LenProperties
  <2>2. k + 1 \in DOMAIN calls
    BY <2>1
  <2>3. QED
    BY <2>1, <2>2, <1>2 DEF RouteInv
<1>7. QED
  BY <1>1, <1>2, <1>5, <1>6 DEF RouteInv

(* The chunk of the next call is a part of the source. *)
LEMMA NextWithinSource ==
    ASSUME BuildInv, NothingLostOrDuplicated, phase = "populating", calls # <<>>
    PROVE  /\ Head(calls).chunk \in Bucket /\ source \in Bucket
           /\ \A e \in Entries : Head(calls).chunk[e] <= source[e]
<1> DEFINE call == Head(calls)
           chunk == call.chunk
<1>1. TypeOK /\ source \in Bucket
  BY DEF BuildInv, TypeOK
<1>2. call \in Call /\ chunk \in Bucket
  BY <1>1, NextCall DEF Call
<1>3. Laid \in Seq(Bucket) /\ IsJoin(Laid, new_leaves, Chunks(calls))
  BY <1>1, LaidType
<1>4. calls \in Seq(Call) /\ new_leaves \in Seq(Bucket)
  BY <1>1 DEF TypeOK
<1>5. call = calls[1] /\ 1 \in 1 .. Len(calls) /\ Len(calls) \in Nat
  BY <1>4, HeadTailProperties, LenProperties, EmptySeq
<1>6. Chunks(calls)[1] = chunk /\ Len(Chunks(calls)) = Len(calls)
  BY <1>4, <1>5, CallsType
<1>7. Laid[Len(new_leaves) + 1] = chunk /\ Len(new_leaves) \in Nat
      /\ Len(Laid) = Len(new_leaves) + Len(calls)
  BY <1>3, <1>4, <1>5, <1>6, LenProperties DEF IsJoin
<1>8. Len(new_leaves) + 1 \in DOMAIN Laid
  BY <1>3, <1>5, <1>7, LenProperties
<1>9. FoldLeft(Plus, EmptyBucket, Laid) = source
  BY DEF NothingLostOrDuplicated, Laid, Laying, Chunks, PendingChunks
<1>10. \A e \in Entries : chunk[e] <= source[e]
  <2> HIDE DEF chunk
  <2>1. QED
    BY <1>3, <1>7, <1>8, <1>9, ElementBelow
<1>11. QED
  BY <1>1, <1>2, <1>10

(* A split sends the entries of a chunk on to the two stems below it: one  *)
(* that is untied in the source is untied in the chunk, and is on the side *)
(* it will be looked for.                                                  *)
LEMMA SplitRoutes ==
    ASSUME BuildInv, NothingLostOrDuplicated, RouteInv, PopulateSplit
    PROVE  RouteInv'
<1>pivot. PICK pivot : \E part : SplitsInto(pivot, part)
  BY CallDivides DEF BuildInv
<1>part. PICK part : SplitsInto(pivot, part)
  BY <1>pivot
<1> DEFINE call  == Head(calls)
           dim   == CallDim(call)
           rest  == Minus(call.chunk, part)
           n     == Len(Laid)
           m     == Len(new_leaves) + 1
<1>1. /\ TypeOK /\ TypeOK' /\ phase = "populating" /\ phase' = phase
      /\ new_leaves' = new_leaves /\ terminals' = terminals
      /\ new_stems' = [Grown(new_stems, call.stem, MaxValue)
                          EXCEPT ![call.stem] = pivot]
      /\ actual_max_stem_level' = AtLeastOf(actual_max_stem_level, call.level)
      /\ Untied' = Untied
      /\ IsPart(call.chunk, part, dim, pivot)
      /\ calls # <<>>
  BY <1>part, SplitKeepsInv DEF BuildInv, SplitsInto, Untied
<1>2. /\ Len(terminals) = Len(new_leaves)
      /\ Sited(Nodes, Laid, new_stems, actual_max_stem_level, Untied)
      /\ \A k \in DOMAIN calls : AtLevel(calls[k].stem, calls[k].level)
  BY <1>1 DEF RouteInv
<1>3. /\ call \in Call /\ dim \in 0 .. K - 1 /\ call.chunk \in Bucket
      /\ pivot \in Int /\ pivot < MaxValue /\ pivot \in Coords(call.chunk, dim)
      /\ m \in 1 .. n /\ n \in Nat
      /\ Laid \in Seq(Bucket) /\ Laid' \in Seq(Bucket)
      /\ Len(Laid') = n + 1
      /\ Laid[m] = call.chunk
      /\ Laid'[m] = part
      /\ Laid'[m + 1] = rest
      /\ \A k \in (1 .. n) \ {m} : Laid'[InPlace(n, m)[k]] = Laid[k]
      /\ Nodes \in Seq(Nat) /\ Nodes' \in Seq(Nat)
      /\ Len(Nodes) = n /\ Len(Nodes') = n + 1
      /\ Nodes[m] = call.stem
      /\ Nodes'[m] = LeftChild(call.stem)
      /\ Nodes'[m + 1] = RightChild(call.stem)
      /\ \A k \in (1 .. n) \ {m} : Nodes'[InPlace(n, m)[k]] = Nodes[k]
      /\ call = calls[1] /\ 1 \in DOMAIN calls
      /\ \A k \in DOMAIN calls' :
            \/ /\ calls'[k].level = call.level + 1
               /\ calls'[k].stem \in {LeftChild(call.stem), RightChild(call.stem)}
            \/ \E j \in DOMAIN calls : calls'[k] = calls[j]
  <2>0. /\ call \in Call /\ dim \in 0 .. K - 1 /\ call.chunk \in Bucket
        /\ pivot \in Int /\ pivot < MaxValue /\ pivot \in Coords(call.chunk, dim)
    BY <1>part DEF SplitsInto
  <2>1. /\ m \in 1 .. n /\ n \in Nat
        /\ Laid \in Seq(Bucket) /\ Laid' \in Seq(Bucket)
        /\ Len(Laid') = n + 1
        /\ Laid[m] = call.chunk
        /\ Laid'[m] = part
        /\ Laid'[m + 1] = rest
        /\ \A k \in (1 .. n) \ {m} : Laid'[InPlace(n, m)[k]] = Laid[k]
    BY <1>part, SplitReplaces
  <2>2. /\ Nodes \in Seq(Nat) /\ Nodes' \in Seq(Nat)
        /\ Len(Nodes) = n /\ Len(Nodes') = Len(Laid')
        /\ Nodes[m] = call.stem
        /\ Nodes'[m] = LeftChild(call.stem)
        /\ Nodes'[m + 1] = RightChild(call.stem)
        /\ \A k \in (1 .. n) \ {m} : Nodes'[InPlace(n, m)[k]] = Nodes[k]
    BY <1>part, <1>2, SplitReplaces
  <2>3. /\ call = calls[1] /\ 1 \in DOMAIN calls
        /\ \A k \in DOMAIN calls' :
            \/ /\ calls'[k].level = call.level + 1
               /\ calls'[k].stem \in {LeftChild(call.stem), RightChild(call.stem)}
            \/ \E j \in DOMAIN calls : calls'[k] = calls[j]
    BY <1>part, SplitReplaces
  <2> HIDE DEF call, dim, rest, n, m
  <2>4. QED
    BY <2>0, <2>1, <2>2, <2>3
<1>4. dim = call.level % K
  BY DEF CallDim
<1>untied. \A e \in Untied : ~Tied(call.chunk, e)
  <2>1. /\ call.chunk \in Bucket /\ source \in Bucket
        /\ \A e \in Entries : call.chunk[e] <= source[e]
    BY <1>1, NextWithinSource
  <2> HIDE DEF call
  <2>2. QED
    BY <2>1, TiedInWhole DEF Untied
<1>in. /\ \A e \in Occupied(part) :
             /\ e \in Occupied(call.chunk)
             /\ e.point[dim] <= pivot
             /\ e \in Untied => e.point[dim] < pivot
       /\ \A e \in Occupied(rest) :
             e \in Occupied(call.chunk) /\ e.point[dim] >= pivot
  <2>1. IsPart(call.chunk, part, dim, pivot)
    BY <1>1
  <2>2. rest = Minus(call.chunk, part)
    OBVIOUS
  <2> HIDE DEF call, dim, rest
  <2>3. QED
    BY <2>1, <2>2, <1>untied DEF IsPart
<1> HIDE DEF call, dim, rest, n, m
<1>5. /\ DOMAIN Laid = 1 .. n /\ DOMAIN Laid' = 1 .. n + 1
      /\ DOMAIN Nodes = 1 .. n /\ DOMAIN Nodes' = 1 .. n + 1
  <2>1. DOMAIN Laid = 1 .. n
    BY <1>3, LenProperties DEF n
  <2>2. DOMAIN Laid' = 1 .. n + 1 /\ DOMAIN Nodes = 1 .. n
        /\ DOMAIN Nodes' = 1 .. n + 1
    BY <1>3, LenProperties
  <2>3. QED
    BY <2>1, <2>2
<1>6. InPlace(n, m) \in Bijection(DOMAIN Nodes \ {m}, DOMAIN Nodes' \ {m, m + 1})
  BY <1>3, <1>5, Room
<1>7. call.stem \in Nat /\ call.level \in Nat /\ AtLevel(call.stem, call.level)
  BY <1>2, <1>3 DEF Call
<1>8. Sited(Nodes', Laid',
            [Grown(new_stems, Nodes[m], MaxValue) EXCEPT ![Nodes[m]] = pivot],
            AtLeastOf(actual_max_stem_level, call.level), Untied)
  <2>1. /\ new_stems \in Seq(Int) /\ actual_max_stem_level \in Int
        /\ Len(Nodes') = Len(Laid')
    BY <1>1, <1>3, SMTT(30) DEF TypeOK
  <2>2. DividedAt(Nodes, Nodes', m, m, m + 1, InPlace(n, m))
    BY <1>3, <1>5, <1>6, SMTT(30) DEF DividedAt
  <2>3. DividedAt(Laid, Laid', m, m, m + 1, InPlace(n, m))
    BY <1>3, <1>5, <1>6, SMTT(30) DEF DividedAt
  <2>4. /\ AtLevel(Nodes[m], call.level)
        /\ Nodes'[m] = LeftChild(Nodes[m])
        /\ Nodes'[m + 1] = RightChild(Nodes[m])
        /\ pivot \in Coords(Laid[m], call.level % K)
    BY <1>3, <1>4, <1>7
  <2>sides. SidesAt(Nodes, Nodes', Laid, Laid', m, m, m + 1, call.level, pivot,
                    Untied)
    <3>1. /\ \A e \in Occupied(Laid'[m]) :
                /\ e \in Occupied(Laid[m])
                /\ e.point[call.level % K] <= pivot
                /\ e \in Untied => e.point[call.level % K] < pivot
          /\ \A e \in Occupied(Laid'[m + 1]) :
                e \in Occupied(Laid[m]) /\ e.point[call.level % K] >= pivot
      BY <1>3, <1>4, <1>in
    <3>2. QED
      BY <3>1, <2>4 DEF SidesAt
  <2>5. QED
    BY <2>1, <2>2, <2>3, <2>4, <2>sides, <1>2, <1>3, <1>7, SitedSplit
<1>9. ASSUME NEW k \in DOMAIN calls'
      PROVE  AtLevel(calls'[k].stem, calls'[k].level)
  <2>1. CASE /\ calls'[k].level = call.level + 1
             /\ calls'[k].stem \in {LeftChild(call.stem), RightChild(call.stem)}
    <3>1. call.stem \in Nat \ {0}
      <4>1. call.stem \in {Nodes[j] : j \in DOMAIN Nodes}
        BY <1>3, <1>5
      <4>2. QED
        BY <4>1, <1>2 DEF Sited, Shape
    <3>2. QED
      BY <3>1, <2>1, <1>7, LevelBelow
  <2>2. CASE \E j \in DOMAIN calls : calls'[k] = calls[j]
    BY <2>2, <1>2
  <2>3. QED
    BY <2>1, <2>2, <1>3
<1>10. Sited(Nodes', Laid', new_stems', actual_max_stem_level', Untied')
  BY <1>1, <1>3, <1>8
<1>11. Len(Laid') > 0
  BY <1>3
<1>12. QED
  BY <1>1, <1>2, <1>9, <1>10, <1>11 DEF RouteInv

(* Every step keeps every entry where it lies. *)
LEMMA StepRoutes ==
    BuildInv /\ NothingLostOrDuplicated /\ RouteInv /\ [BuildNext]_build_vars
        => RouteInv'
<1> SUFFICES ASSUME BuildInv, NothingLostOrDuplicated, RouteInv,
                    [BuildNext]_build_vars
             PROVE  RouteInv'
  OBVIOUS
<1>1. ASSUME NEW src \in Sources, Construct(src) PROVE RouteInv'
  BY <1>1, SourcesAssumption, ConstructRoutes
<1>2. CASE PopulateLeaf
  BY <1>2, LeafRoutes
<1>3. CASE PopulateSplit
  BY <1>3, SplitRoutes
<1>4. CASE PopulateUnsplittable
  BY <1>4 DEF PopulateUnsplittable, RouteInv
<1>5. CASE PopulateReturns
  <2>1. /\ phase = "populating" /\ calls = <<>> /\ calls' = calls
        /\ new_leaves' = new_leaves /\ terminals' = terminals
        /\ new_stems' = new_stems
        /\ actual_max_stem_level' = actual_max_stem_level
        /\ source' = source
    BY <1>5 DEF PopulateReturns
  <2>2. Laid' = Laid /\ Nodes' = Nodes /\ Untied' = Untied
    BY <2>1 DEF Laid, Nodes, Untied
  <2>3. QED
    BY <2>1, <2>2 DEF RouteInv
<1>6. CASE UNCHANGED build_vars
  <2>1. /\ phase' = phase /\ calls' = calls
        /\ new_leaves' = new_leaves /\ terminals' = terminals
        /\ new_stems' = new_stems
        /\ actual_max_stem_level' = actual_max_stem_level
        /\ source' = source
    BY <1>6 DEF build_vars
  <2>2. Laid' = Laid /\ Nodes' = Nodes /\ Untied' = Untied
    BY <2>1 DEF Laid, Nodes, Untied
  <2>3. QED
    BY <2>1, <2>2 DEF RouteInv
<1>7. QED
  BY <1>1, <1>2, <1>3, <1>4, <1>5, <1>6 DEF BuildNext, ConstructAny, Populate

LEMMA RouteInvariant == BuildSpec => []RouteInv
<1>1. BuildInit => RouteInv
  BY DEF BuildInit, RouteInv
<1>2. QED
  BY <1>1, BuildInvariant, NothingIsLost, StepRoutes, PTL DEF BuildSpec

(* What a finished construction leaves: the leaves sited at the terminals, *)
(* and a map of them.                                                      *)
LEMMA FinishedTree ==
    ASSUME BuildInv, RouteInv, phase = "built"
    PROVE  /\ Sited(terminals, new_leaves, new_stems, actual_max_stem_level,
                    Untied)
           /\ Maps(MappedFromTerminals(terminals), terminals)
           /\ MappedFromTerminals(terminals) \in Seq(Nat)
<1>1. /\ calls = <<>> /\ Len(terminals) = Len(new_leaves) /\ Len(Laid) > 0
      /\ Sited(Nodes, Laid, new_stems, actual_max_stem_level, Untied)
  BY DEF RouteInv
<1>2. new_leaves \in Seq(Bucket) /\ terminals \in Seq(Nat)
  BY DEF BuildInv, TypeOK
<1>3. Laid = new_leaves /\ Nodes = terminals
  <2>1. Chunks(calls) = <<>> /\ Stems(calls) = <<>>
    BY <1>1 DEF Chunks, Stems
  <2>2. QED
    BY <2>1, <1>2 DEF Laid, Laying, Nodes, Placing
<1>4. Sited(terminals, new_leaves, new_stems, actual_max_stem_level, Untied)
  BY <1>1, <1>3
<1>5. terminals \in Seq(Nat \ {0}) /\ terminals # <<>>
      /\ \A i, j \in DOMAIN terminals : terminals[i] = terminals[j] => i = j
  <2>1. \A k \in DOMAIN terminals : terminals[k] \in Nat \ {0}
    BY <1>4 DEF Sited, Shape
  <2>2. DOMAIN terminals = 1 .. Len(terminals) /\ Len(terminals) \in Nat
    BY <1>2, LenProperties
  <2>3. terminals \in [1 .. Len(terminals) -> Nat \ {0}]
    BY <1>2, <2>1, <2>2
  <2>4. terminals # <<>>
    BY <1>1, <1>3
  <2>5. QED
    BY <2>2, <2>3, <2>4, <1>4 DEF Sited
<1>6. QED
  BY <1>4, <1>5, TerminalsMap

(* The finished tree leads to every entry, whatever partition each         *)
(* selection left: a query that goes both ways at a stem equal to the      *)
(* coordinate, over the stems and the leaf map that new_from_source_with   *)
(* builds, comes to the leaf where populate_recursive_hard wrote the       *)
(* entry, and the descent that goes one way, which every mutation makes,   *)
(* ends there unless the entry shares a coordinate with another one, for   *)
(* every number of dimensions, bucket size and source.                     *)
THEOREM FinishedTreesRoute == BuildSpec => []FinishedTreeRoutes
<1>1. BuildInv /\ RouteInv => FinishedTreeRoutes
  <2> DEFINE map == MappedFromTerminals(terminals)
  <2>1. SUFFICES ASSUME BuildInv, RouteInv, phase = "built",
                        NEW k \in DOMAIN new_leaves,
                        NEW e \in Occupied(new_leaves[k])
                 PROVE  /\ k \in LeavesAround(e.point, new_stems, map,
                                              actual_max_stem_level)
                        /\ \/ LeafIdx(e.point, new_stems, map,
                                      actual_max_stem_level) = k
                           \/ Tied(source, e)
    BY DEF FinishedTreeRoutes
  <2>2. /\ new_leaves \in Seq(Bucket) /\ new_stems \in Seq(Int)
        /\ actual_max_stem_level \in Int /\ actual_max_stem_level >= -1
    BY <2>1 DEF BuildInv, TypeOK
  <2>3. /\ Sited(terminals, new_leaves, new_stems, actual_max_stem_level, Untied)
        /\ Maps(map, terminals)
    BY <2>1, FinishedTree
  <2> HIDE DEF map
  <2>4. /\ k \in LeavesAround(e.point, new_stems, map, actual_max_stem_level)
        /\ e \in Untied =>
              LeafIdx(e.point, new_stems, map, actual_max_stem_level) = k
    BY <2>1, <2>2, <2>3, EntriesAreFound
  <2>5. e \in Entries
    BY <2>1 DEF Occupied
  <2>6. QED
    BY <2>4, <2>5 DEF Untied
<1>2. QED
  BY <1>1, BuildInvariant, RouteInvariant, PTL

-----------------------------------------------------------------------------
(* What every state of a tree satisfies, in parts.                         *)

TreeTypeOK ==
    /\ stems \in Seq(Int)
    /\ leaf_idx_map \in Seq(Nat)
    /\ leaves \in Seq(Bucket)
    /\ max_stem_level \in Nat \cup {-1}
    /\ request \in Requests \cup {NoRequest}
    /\ pc \in {"idle", "descend", "collect", "build"}
    /\ level \in Nat

(* The leaves sit behind the terminal stems, where their entries are       *)
(* routed to, and the map leads there.                                     *)
TreeHoused == Housed(stems, leaf_idx_map, leaves, max_stem_level)

(* A call in progress, and where its descent is. *)
CallInv ==
    /\ pc = "idle" <=> request = NoRequest
    /\ pc = "idle" => stem_idx = RootIdx /\ level = 0
    /\ pc = "descend" =>
          /\ request.op # "construct"
          /\ Routed(request.entry.point, stem_idx, level, stems)
    /\ pc = "collect" => request.op = "add"
    /\ pc = "build" => request.op \in {"add", "construct"}

(* What a rebuild has copied. *)
CopyInv ==
    /\ pc \in {"idle", "descend"} => entries = EmptyBucket /\ next_leaf = 1
    /\ pc = "collect" => /\ next_leaf \in 1 .. Len(leaves) + 1
                         /\ entries = Held(leaves, 1 .. next_leaf - 1)

(* At least n entries of a bucket share a coordinate. *)
Crowded(b, n) ==
    \E dim \in 0 .. K - 1 : \E v \in Coords(b, dim) :
        BucketLen(Level(b, dim, v)) >= n

(* What a construction in progress is to store. *)
Intended ==
    IF request.op = "construct" THEN request.source
    ELSE With(TreeContents, request.entry)

UnderConstruction ==
    /\ pc = "build" <=> phase # "idle"
    /\ pc = "build" => source = Intended
    /\ phase = "unsplittable" => Crowded(source, B + 1)

TreeInv ==
    /\ TreeTypeOK
    /\ TreeHoused
    /\ SizesAgree
    /\ CallInv
    /\ CopyInv
    /\ UnderConstruction
    /\ BuildInv /\ RouteInv /\ NothingLostOrDuplicated

-----------------------------------------------------------------------------
(* What is asked.                                                          *)

LEMMA RequestTypes ==
    /\ \A r \in Requests :
          /\ r # NoRequest
          /\ r.op \in {"add", "remove", "replace", "construct"}
          /\ r.op = "construct" => r.source \in Bucket
          /\ r.op # "construct" => r.entry \in Entries
          /\ r.op = "replace" => r.new_item \in Items
    /\ NoRequest.op = "none"
<1>1. ASSUME NEW r \in [op : {"add", "remove"}, entry : Entries]
      PROVE  r.op \in {"add", "remove"} /\ r.entry \in Entries
  OBVIOUS
<1>2. ASSUME NEW r \in [op : {"replace"}, entry : Entries, new_item : Items]
      PROVE  r.op = "replace" /\ r.entry \in Entries /\ r.new_item \in Items
  OBVIOUS
<1>3. ASSUME NEW r \in [op : {"construct"}, source : Sources]
      PROVE  r.op = "construct" /\ r.source \in Bucket
  BY SourcesAssumption
<1>4. NoRequest.op = "none"
  BY DEF NoRequest
<1>5. ASSUME NEW r \in Requests
      PROVE  /\ r.op \in {"add", "remove", "replace", "construct"}
             /\ r.op = "construct" => r.source \in Bucket
             /\ r.op # "construct" => r.entry \in Entries
             /\ r.op = "replace" => r.new_item \in Items
  <2>1. CASE r \in [op : {"add", "remove"}, entry : Entries]
    BY <2>1, <1>1
  <2>2. CASE r \in [op : {"replace"}, entry : Entries, new_item : Items]
    BY <2>2, <1>2
  <2>3. CASE r \in [op : {"construct"}, source : Sources]
    BY <2>3, <1>3
  <2>4. QED
    BY <2>1, <2>2, <2>3 DEF Requests
<1>6. ASSUME NEW r \in Requests PROVE r # NoRequest
  BY <1>4, <1>5
<1>7. QED
  BY <1>4, <1>5, <1>6

(* Entries have coordinates, below MaxValue. *)
LEMMA EntryCoords ==
    ASSUME NEW e \in Entries, NEW dim \in 0 .. K - 1
    PROVE  e.point[dim] \in Int /\ e.point[dim] < MaxValue
<1>1. e.point \in Points
  BY DEF Entries
<1>2. QED
  BY <1>1, PointsAssumption

(* The tree KdTree::default makes is one. *)
LEMMA TreeInvInit == Init => TreeInv
<1> SUFFICES ASSUME Init PROVE TreeInv
  OBVIOUS
<1> USE DEF Init
<1>1. EmptyBucket \in Bucket /\ BucketLen(EmptyBucket) = 0
  BY EmptyBucketLen
<1>2. TreeTypeOK
  <2>1. MaxValue \in Int
    BY PointsAssumption
  <2>2. stems \in Seq(Int) /\ leaf_idx_map \in Seq(Nat) /\ leaves \in Seq(Bucket)
    BY <1>1, <2>1
  <2>3. QED
    BY <2>2 DEF TreeTypeOK
<1>3. TreeHoused
  <2>1. \A i \in DOMAIN stems : stems[i] = MaxValue
    OBVIOUS
  <2>2. QED
    BY <2>1, <1>1, HousedAtRoot DEF TreeHoused
<1>4. SizesAgree
  <2>1. TreeContents = EmptyBucket
    BY <1>1, FoldOne DEF TreeContents
  <2>2. \A k \in DOMAIN leaves : BucketLen(leaves[k]) = 0
    BY <1>1
  <2>3. QED
    BY <1>1, <2>1, <2>2, BucketSizeAssumption DEF SizesAgree
<1>5. CallInv /\ CopyInv
  BY DEF CallInv, CopyInv
<1>6. UnderConstruction
  BY DEF UnderConstruction, BuildInit
<1>7. BuildInv /\ RouteInv /\ NothingLostOrDuplicated
  BY BuildInvInit DEF BuildInit, RouteInv, NothingLostOrDuplicated
<1>8. QED
  BY <1>2, <1>3, <1>4, <1>5, <1>6, <1>7 DEF TreeInv

-----------------------------------------------------------------------------
(* The builder's part of a step of the tree.                               *)

(* A construction is begun, goes on or is left alone. *)
LEMMA BuilderSteps ==
    ASSUME BuildInv, RouteInv, NothingLostOrDuplicated,
           \/ \E src \in Bucket : Construct(src)
           \/ Populate
           \/ UNCHANGED build_vars
    PROVE  (BuildInv /\ RouteInv /\ NothingLostOrDuplicated)'
<1>1. CASE Populate \/ UNCHANGED build_vars
  BY <1>1, StepKeepsInv, StepRoutes, StepKeepsAll DEF BuildNext
<1>2. ASSUME NEW src \in Bucket, Construct(src)
      PROVE  (BuildInv /\ RouteInv /\ NothingLostOrDuplicated)'
  <2>1. BuildInv' /\ RouteInv'
    BY <1>2, NoStemsKeepsInv, WithStemsKeepsInv, ConstructRoutes DEF Construct
  <2>2. Laid' = <<src>> /\ source' = src
    BY <1>2, BeginsWithAll DEF Construct, ConstructNoStems, ConstructWithStems
  <2>3. FoldLeft(Plus, EmptyBucket, Laid') = source'
    BY <2>2, FoldOne
  <2>4. NothingLostOrDuplicated'
    BY <2>3 DEF NothingLostOrDuplicated, Laid, Laying, Chunks, PendingChunks
  <2>5. QED
    BY <2>1, <2>4
<1>3. QED
  BY <1>1, <1>2

(* One that is over leaves nothing. *)
LEMMA BuilderDropped ==
    ASSUME DropBuild
    PROVE  /\ (BuildInv /\ RouteInv /\ NothingLostOrDuplicated)'
           /\ phase' = "idle" /\ entries' = EmptyBucket /\ next_leaf' = 1
<1> USE DEF DropBuild
<1>1. TypeOK'
  BY EmptyBucketLen, EmptySeq DEF TypeOK, Phases
<1>2. LeavesFit'
  BY DEF LeavesFit
<1>3. BuildInv' /\ RouteInv' /\ NothingLostOrDuplicated'
  BY <1>1, <1>2 DEF BuildInv, RouteInv, NothingLostOrDuplicated
<1>4. QED
  BY <1>3

(* As many entries of a bucket share a coordinate as there are in a part   *)
(* of it that cannot be split.                                             *)
LEMMA CrowdedByPart ==
    ASSUME NEW chunk \in Bucket, NEW whole \in Bucket, NEW dim \in 0 .. K - 1,
           NEW n \in Nat, n > 0,
           \A e \in Entries : chunk[e] <= whole[e],
           BucketLen(chunk) >= n, ~Splittable(chunk, dim)
    PROVE  Crowded(whole, n)
<1> DEFINE like(v) == Level(whole, dim, v)
<1>1. PICK f \in Occupied(chunk) : TRUE
  <2>1. BucketLen(chunk) > 0
    BY BucketLenType
  <2>2. QED
    BY <2>1, OccupiedLen
<1> DEFINE v == f.point[dim]
<1>2. \A e \in Occupied(chunk) : e.point[dim] = v
  BY <1>1 DEF Splittable
<1>3. f \in Occupied(whole)
  BY <1>1 DEF Occupied, Bucket
<1>4. v \in Coords(whole, dim)
  BY <1>3 DEF Coords
<1>5. like(v) \in Bucket
  BY DEF Bucket, Level
<1>6. \A e \in Entries : chunk[e] <= like(v)[e]
  <2> TAKE e \in Entries
  <2>1. chunk[e] \in Nat /\ whole[e] \in Nat
    BY DEF Bucket
  <2>2. CASE e \in Occupied(chunk)
    BY <2>2, <1>2 DEF Level
  <2>3. CASE e \notin Occupied(chunk)
    <3>1. chunk[e] = 0
      BY <2>1, <2>3 DEF Occupied
    <3>2. QED
      BY <3>1, <2>1 DEF Level
  <2> QED
    BY <2>2, <2>3
<1> HIDE DEF v
<1>7. BucketLen(like(v)) >= n
  <2> HIDE DEF like
  <2>1. BucketLen(like(v)) >= BucketLen(chunk)
    BY <1>5, <1>6, BucketLenMonotone
  <2>2. BucketLen(like(v)) \in Nat /\ BucketLen(chunk) \in Nat
    BY <1>5, BucketLenType
  <2> QED
    BY <2>1, <2>2
<1>8. QED
  BY <1>4, <1>7 DEF Crowded

(* A chunk that cannot be split is part of the source, so as many entries  *)
(* of the source share its coordinate.                                     *)
LEMMA UnsplittableIsCrowded ==
    ASSUME BuildInv, NothingLostOrDuplicated, PopulateUnsplittable
    PROVE  Crowded(source, B + 1)
<1> DEFINE call == Head(calls)
           dim == CallDim(call)
           chunk == call.chunk
<1>1. /\ phase = "populating" /\ calls # <<>> /\ BucketLen(chunk) > B
      /\ ~Splittable(chunk, dim)
  BY DEF PopulateUnsplittable
<1>2. TypeOK /\ source \in Bucket /\ B \in Nat \ {0, 1}
  BY BucketSizeAssumption DEF BuildInv, TypeOK
<1>3. call \in Call /\ dim \in 0 .. K - 1 /\ chunk \in Bucket
  BY <1>1, <1>2, NextCall DEF Call
<1>4. \A e \in Entries : chunk[e] <= source[e]
  BY <1>1, NextWithinSource
<1>5. BucketLen(chunk) >= B + 1
  BY <1>1, <1>2, <1>3, BucketLenType
<1> HIDE DEF chunk, dim, call
<1>6. B + 1 \in Nat /\ B + 1 > 0
  BY <1>2
<1>7. QED
  BY <1>1, <1>2, <1>3, <1>4, <1>5, <1>6, CrowdedByPart

-----------------------------------------------------------------------------
(* A call at its leaf.                                                     *)

(* The leaf the descent ends at exists, and is the one the point is routed *)
(* to.                                                                     *)
LEMMA AtTheLeaf ==
    ASSUME TreeInv, pc = "descend", Leaf # 0
    PROVE  /\ request \in Requests /\ request.entry \in Entries
           /\ Leaf \in DOMAIN leaves /\ leaves \in Seq(Bucket)
           /\ leaves[Leaf] \in Bucket
           /\ stem_idx \in Nat \ {0} /\ stem_idx \notin Interior(stems)
           /\ AtLevel(stem_idx, level) /\ level \in Nat
           /\ Held(leaves, DOMAIN leaves \ {Leaf}) \in Bucket
           /\ TreeContents = Plus(Held(leaves, DOMAIN leaves \ {Leaf}), leaves[Leaf])
           /\ RoutedLeaf(request.entry) = Leaf
<1>1. /\ leaves \in Seq(Bucket) /\ stems \in Seq(Int) /\ level \in Nat
      /\ max_stem_level \in Int /\ max_stem_level >= -1
      /\ TreeHoused
  BY DEF TreeInv, TreeTypeOK
<1>2. /\ request \in Requests /\ request.op # "construct"
      /\ Routed(request.entry.point, stem_idx, level, stems)
  BY RequestTypes DEF TreeInv, TreeTypeOK, CallInv
<1>3. request.entry \in Entries
  BY <1>2, RequestTypes
<1>4. Reaches(stems, leaf_idx_map, leaves, max_stem_level,
              request.entry.point, stem_idx, level)
  BY <1>1, <1>2, HousedReach DEF TreeHoused
<1>5. /\ stem_idx \notin Interior(stems) /\ stem_idx \in Nat \ {0}
      /\ Leaf \in DOMAIN leaves
      /\ RoutedLeaf(request.entry) = Leaf
  BY <1>4 DEF Leaf, Reaches, RoutedLeaf
<1>6. AtLevel(stem_idx, level)
  BY <1>1, <1>2, RoutedLevel
<1>7. /\ Held(leaves, DOMAIN leaves \ {Leaf}) \in Bucket /\ leaves[Leaf] \in Bucket
      /\ TreeContents = Plus(Held(leaves, DOMAIN leaves \ {Leaf}), leaves[Leaf])
  <2>1. Leaf \in DOMAIN leaves
    BY <1>5
  <2>2. OneChanged(leaves, [leaves EXCEPT ![Leaf] = EmptyBucket], Leaf, EmptyBucket)
    BY <2>1, <1>1, EmptyBucketLen, FoldChanged
  <2>3. QED
    BY <2>2 DEF OneChanged, TreeContents
<1>8. QED
  BY <1>1, <1>2, <1>3, <1>5, <1>6, <1>7

(* The leaf gets other contents, which were there or are routed there.     *)
LEMMA LeafRewritten ==
    ASSUME TreeInv, pc = "descend", Leaf # 0, NEW b \in Bucket,
           \A e \in Occupied(b) : \/ e \in Occupied(leaves[Leaf])
                                  \/ e.point = request.entry.point,
           leaves' = [leaves EXCEPT ![Leaf] = b],
           UNCHANGED <<stems, leaf_idx_map, max_stem_level>>
    PROVE  /\ leaves' \in Seq(Bucket)
           /\ TreeHoused'
           /\ TreeContents' = Plus(Held(leaves, DOMAIN leaves \ {Leaf}), b)
           /\ BucketLen(TreeContents')
                 = BucketLen(TreeContents) - BucketLen(leaves[Leaf]) + BucketLen(b)
           /\ BucketLen(b) <= B =>
                 \A k \in DOMAIN leaves' : BucketLen(leaves'[k]) <= B
<1> DEFINE r == [leaves EXCEPT ![Leaf] = b]
           h == Held(leaves, DOMAIN leaves \ {Leaf})
<1>1. /\ leaves \in Seq(Bucket) /\ Leaf \in DOMAIN leaves
      /\ leaves[Leaf] \in Bucket /\ h \in Bucket
      /\ TreeContents = Plus(h, leaves[Leaf])
  BY AtTheLeaf
<1>2. /\ r \in Seq(Bucket) /\ DOMAIN r = DOMAIN leaves
      /\ FoldLeft(Plus, EmptyBucket, r) = Plus(h, b)
  <2>1. OneChanged(leaves, r, Leaf, b)
    BY <1>1, FoldChanged
  <2>2. QED
    BY <2>1 DEF OneChanged
<1>3. r[Leaf] = b /\ \A k \in DOMAIN leaves : k # Leaf => r[k] = leaves[k]
  BY <1>1
<1>4. leaves' = r
  OBVIOUS
<1> HIDE DEF r, h
<1>5. Len(r) = Len(leaves)
  BY <1>1, <1>2, LenProperties
<1>6. Housed(stems, leaf_idx_map, r, max_stem_level)
  <2>1. /\ stems \in Seq(Int) /\ level \in Nat
        /\ Housed(stems, leaf_idx_map, leaves, max_stem_level)
        /\ Lies(request.entry.point, stem_idx, level, stems)
    <3>1. /\ stems \in Seq(Int) /\ level \in Nat
          /\ Housed(stems, leaf_idx_map, leaves, max_stem_level)
          /\ Routed(request.entry.point, stem_idx, level, stems)
      BY DEF TreeInv, TreeTypeOK, TreeHoused, CallInv
    <3>2. request.entry \in Entries
      BY AtTheLeaf
    <3>3. \A d \in 0 .. K - 1 : request.entry.point[d] \in Int
      BY <3>2, EntryCoords
    <3>4. QED
      BY <3>1, <3>3, RoutedLies
  <2>2. ASSUME NEW k \in DOMAIN r, NEW e \in Occupied(r[k])
        PROVE  \/ e \in Occupied(leaves[k])
               \/ \E n : /\ MappedLeaf(leaf_idx_map, n) = k
                         /\ \E l \in Nat : Lies(e.point, n, l, stems)
    <3>1. CASE k # Leaf
      BY <3>1, <1>2, <1>3
    <3>2. CASE k = Leaf
      <4>1. e \in Occupied(leaves[Leaf]) \/ e.point = request.entry.point
        BY <3>2, <1>3
      <4>2. CASE e.point = request.entry.point
        BY <4>2, <3>2, <2>1 DEF Leaf
      <4>3. QED
        BY <4>1, <4>2, <3>2
    <3>3. QED
      BY <3>1, <3>2
  <2>3. QED
    BY <2>1, <2>2, <1>1, <1>2, <1>5, HousedKept
<1>7. TreeHoused'
  BY <1>4, <1>6 DEF TreeHoused
<1>8. TreeContents' = Plus(h, b)
  BY <1>2, <1>4 DEF TreeContents
<1>9. /\ BucketLen(Plus(h, b)) = BucketLen(h) + BucketLen(b)
      /\ BucketLen(TreeContents) = BucketLen(h) + BucketLen(leaves[Leaf])
      /\ BucketLen(h) \in Nat /\ BucketLen(leaves[Leaf]) \in Nat
      /\ BucketLen(b) \in Nat
  BY <1>1, PlusLen, BucketLenType
<1>10. BucketLen(b) <= B => \A k \in DOMAIN r : BucketLen(r[k]) <= B
  BY <1>2, <1>3 DEF TreeInv, SizesAgree
<1>11. BucketLen(TreeContents')
          = BucketLen(TreeContents) - BucketLen(leaves[Leaf]) + BucketLen(b)
  BY <1>8, <1>9
<1>12. QED
  BY <1>2, <1>4, <1>7, <1>8, <1>10, <1>11 DEF h

(* The end of a mutation that builds nothing. *)
LEMMA MutationReturns ==
    ASSUME TreeInv, pc = "descend", NEW result, Return(result),
           UNCHANGED <<rebuild_vars, build_vars>>
    PROVE  /\ CallInv' /\ CopyInv' /\ UnderConstruction'
           /\ (BuildInv /\ RouteInv /\ NothingLostOrDuplicated)'
           /\ request' = NoRequest /\ pc' = "idle" /\ level' = 0
<1>1. /\ request' = NoRequest /\ pc' = "idle" /\ level' = 0 /\ stem_idx' = RootIdx
      /\ entries' = EmptyBucket /\ next_leaf' = 1
      /\ phase = "idle" /\ phase' = "idle"
  BY DEF TreeInv, Return, CopyInv, UnderConstruction, rebuild_vars, build_vars
<1>2. (BuildInv /\ RouteInv /\ NothingLostOrDuplicated)'
  BY BuilderSteps DEF TreeInv
<1>3. CallInv' /\ CopyInv' /\ UnderConstruction'
  BY <1>1 DEF CallInv, CopyInv, UnderConstruction
<1>4. QED
  BY <1>1, <1>2, <1>3

(* What happens to one part of a bucket happens to the whole. *)
LEMMA PlusWith ==
    ASSUME NEW h \in Bucket, NEW b \in Bucket, NEW e \in Entries
    PROVE  Plus(h, With(b, e)) = With(Plus(h, b), e)
<1>1. \A g \in Entries : h[g] \in Nat /\ b[g] \in Nat
  BY DEF Bucket
<1>2. \A g \in Entries : h[g] + With(b, e)[g] = With(Plus(h, b), e)[g]
  BY <1>1 DEF Plus, With, Bucket
<1>3. With(Plus(h, b), e) = [g \in Entries |-> With(Plus(h, b), e)[g]]
  BY DEF Plus, With
<1>4. QED
  BY <1>2, <1>3 DEF Plus

LEMMA PlusWithout ==
    ASSUME NEW h \in Bucket, NEW b \in Bucket, NEW e \in Entries
    PROVE  Plus(h, Without(b, e)) = [Plus(h, b) EXCEPT ![e] = h[e]]
<1>1. \A g \in Entries : h[g] \in Nat /\ b[g] \in Nat
  BY DEF Bucket
<1>2. \A g \in Entries :
         h[g] + Without(b, e)[g] = [Plus(h, b) EXCEPT ![e] = h[e]][g]
  BY <1>1 DEF Plus, Without, Bucket
<1>3. [Plus(h, b) EXCEPT ![e] = h[e]]
         = [g \in Entries |-> [Plus(h, b) EXCEPT ![e] = h[e]][g]]
  BY DEF Plus
<1>4. QED
  BY <1>2, <1>3 DEF Plus

LEMMA PlusReplaced ==
    ASSUME NEW h \in Bucket, NEW b \in Bucket, NEW e \in Entries,
           NEW new
    PROVE  /\ Plus(h, Replaced(b, e, new)) = Replaced(Plus(h, b), e, new)
           /\ Plus(h, b)[e] = h[e] + b[e]
<1>1. \A g \in Entries : h[g] \in Nat /\ b[g] \in Nat
  BY DEF Bucket
<1>2. \A g \in Entries : \A m, n \in {0, 1} :
         h[g] + (b[g] - m + n) = (h[g] + b[g]) - m + n
  BY <1>1
<1> DEFINE f == [e EXCEPT !.item = new]
           minus(g) == IF g = e THEN 1 ELSE 0
           plus(g) == IF g = f THEN 1 ELSE 0
<1>3. \A g \in Entries : minus(g) \in {0, 1} /\ plus(g) \in {0, 1}
  OBVIOUS
<1>4. /\ Replaced(b, e, new) = [g \in Entries |-> b[g] - minus(g) + plus(g)]
      /\ Replaced(Plus(h, b), e, new)
            = [g \in Entries |-> Plus(h, b)[g] - minus(g) + plus(g)]
  BY DEF Replaced
<1> HIDE DEF minus, plus
<1>5. Plus(h, Replaced(b, e, new)) = Replaced(Plus(h, b), e, new)
  BY <1>2, <1>3, <1>4 DEF Plus
<1>6. QED
  BY <1>1, <1>5 DEF Plus

(* The sizes are numbers. *)
LEMMA SizesType ==
    ASSUME TreeInv
    PROVE  /\ size \in Nat /\ leaves_size \in Nat
           /\ TreeContents \in Bucket
<1>1. TreeContents \in Bucket
  <2>1. leaves \in Seq(Bucket)
    BY DEF TreeInv, TreeTypeOK
  <2>2. IsFiniteSet(DOMAIN leaves) /\ \A k \in DOMAIN leaves : leaves[k] \in Bucket
    <3>1. DOMAIN leaves = 1 .. Len(leaves) /\ Len(leaves) \in Nat
      BY <2>1, LenProperties
    <3>2. IsFiniteSet(1 .. Len(leaves))
      BY <3>1, FS_Interval
    <3>3. QED
      BY <2>1, <3>1, <3>2, ElementOfSeq
  <2>3. QED
    BY <2>1, <2>2, FoldHeld, HeldType DEF TreeContents
<1>2. BucketLen(TreeContents) \in Nat
  BY <1>1, BucketLenType
<1>3. QED
  BY <1>1, <1>2 DEF TreeInv, SizesAgree

(* A mutation that rewrites its leaf. *)
LEMMA LeafStepKeeps ==
    ASSUME TreeInv, pc = "descend", Leaf # 0, NEW b \in Bucket,
           \A e \in Occupied(b) : \/ e \in Occupied(leaves[Leaf])
                                  \/ e.point = request.entry.point,
           BucketLen(b) <= B,
           leaves' = [leaves EXCEPT ![Leaf] = b],
           size' = size - BucketLen(leaves[Leaf]) + BucketLen(b),
           leaves_size' = leaves_size - BucketLen(leaves[Leaf]) + BucketLen(b),
           UNCHANGED <<stems, leaf_idx_map, max_stem_level>>,
           NEW result, Return(result), UNCHANGED <<rebuild_vars, build_vars>>
    PROVE  /\ TreeInv'
           /\ TreeContents' = Plus(Held(leaves, DOMAIN leaves \ {Leaf}), b)
<1>1. /\ leaves' \in Seq(Bucket) /\ TreeHoused'
      /\ TreeContents' = Plus(Held(leaves, DOMAIN leaves \ {Leaf}), b)
      /\ BucketLen(TreeContents')
            = BucketLen(TreeContents) - BucketLen(leaves[Leaf]) + BucketLen(b)
      /\ \A k \in DOMAIN leaves' : BucketLen(leaves'[k]) <= B
  BY LeafRewritten
<1>2. /\ CallInv' /\ CopyInv' /\ UnderConstruction'
      /\ (BuildInv /\ RouteInv /\ NothingLostOrDuplicated)'
      /\ request' = NoRequest /\ pc' = "idle" /\ level' = 0
  BY MutationReturns
<1>3. TreeTypeOK'
  BY <1>1, <1>2 DEF TreeInv, TreeTypeOK
<1>4. SizesAgree'
  BY <1>1 DEF TreeInv, SizesAgree
<1>5. QED
  BY <1>1, <1>2, <1>3, <1>4 DEF TreeInv

(* add, where the leaf has room. *)
LEMMA AddToLeafStep ==
    ASSUME TreeInv, AddToLeaf
    PROVE  /\ TreeInv'
           /\ TreeContents' = With(TreeContents, request.entry)
<1> DEFINE b == With(leaves[Leaf], request.entry)
           h == Held(leaves, DOMAIN leaves \ {Leaf})
<1>1. /\ pc = "descend" /\ Leaf # 0 /\ ~(BucketLen(leaves[Leaf]) >= B)
      /\ leaves' = [leaves EXCEPT ![Leaf] = b]
      /\ leaves_size' = leaves_size + 1 /\ size' = size + 1
      /\ Return("ok")
      /\ UNCHANGED <<stems, leaf_idx_map, max_stem_level>>
      /\ UNCHANGED <<rebuild_vars, build_vars>>
  BY DEF AddToLeaf, At, Full
<1>2. /\ leaves[Leaf] \in Bucket /\ request.entry \in Entries
      /\ h \in Bucket /\ TreeContents = Plus(h, leaves[Leaf])
      /\ BucketLen(leaves[Leaf]) \in Nat /\ B \in Nat
  BY <1>1, AtTheLeaf, BucketLenType, BucketSizeAssumption
<1>3. b \in Bucket /\ BucketLen(b) = BucketLen(leaves[Leaf]) + 1
  BY <1>2, MutatedLen
<1>4. BucketLen(b) <= B
  <2> HIDE DEF b
  <2> QED
    BY <1>1, <1>2, <1>3
<1>5. \A e \in Occupied(b) : \/ e \in Occupied(leaves[Leaf])
                             \/ e.point = request.entry.point
  BY <1>2 DEF Occupied, With, Bucket
<1>6. Plus(h, b) = With(TreeContents, request.entry)
  BY <1>2, PlusWith
<1>7. /\ size' = size - BucketLen(leaves[Leaf]) + BucketLen(b)
      /\ leaves_size' = leaves_size - BucketLen(leaves[Leaf]) + BucketLen(b)
  <2>1. size \in Nat /\ leaves_size \in Nat
    BY SizesType
  <2> HIDE DEF b
  <2>2. QED
    BY <2>1, <1>1, <1>2, <1>3
<1> HIDE DEF b
<1>8. TreeInv' /\ TreeContents' = Plus(h, b)
  BY <1>1, <1>3, <1>4, <1>5, <1>7, LeafStepKeeps
<1>9. QED
  BY <1>6, <1>8

(* remove: the copies that other leaves hold stay. *)
LEMMA RemoveStep ==
    ASSUME TreeInv, RemoveFromLeaf
    PROVE  /\ TreeInv'
           /\ TreeContents' = [TreeContents EXCEPT ![request.entry] =
                                 Held(leaves, DOMAIN leaves \ {Leaf})[request.entry]]
<1> DEFINE b == Without(leaves[Leaf], request.entry)
           h == Held(leaves, DOMAIN leaves \ {Leaf})
<1>1. /\ pc = "descend" /\ Leaf # 0
      /\ leaves' = [leaves EXCEPT ![Leaf] = b]
      /\ leaves_size' = leaves_size - leaves[Leaf][request.entry]
      /\ size' = size - leaves[Leaf][request.entry]
      /\ Return("ok")
      /\ UNCHANGED <<stems, leaf_idx_map, max_stem_level>>
      /\ UNCHANGED <<rebuild_vars, build_vars>>
  BY DEF RemoveFromLeaf, At, Removed
<1>2. /\ leaves[Leaf] \in Bucket /\ request.entry \in Entries
      /\ h \in Bucket /\ TreeContents = Plus(h, leaves[Leaf])
      /\ BucketLen(leaves[Leaf]) \in Nat /\ B \in Nat
      /\ Leaf \in DOMAIN leaves
  BY <1>1, AtTheLeaf, BucketLenType, BucketSizeAssumption
<1>3. /\ b \in Bucket /\ leaves[Leaf][request.entry] \in Nat
      /\ BucketLen(b) = BucketLen(leaves[Leaf]) - leaves[Leaf][request.entry]
  BY <1>2, MutatedLen DEF Bucket
<1>4. BucketLen(b) <= B
  <2>1. BucketLen(leaves[Leaf]) <= B
    BY <1>2 DEF TreeInv, SizesAgree
  <2> HIDE DEF b
  <2>2. QED
    BY <2>1, <1>2, <1>3
<1>5. \A e \in Occupied(b) : \/ e \in Occupied(leaves[Leaf])
                             \/ e.point = request.entry.point
  BY <1>2 DEF Occupied, Without, Bucket
<1>6. Plus(h, b) = [TreeContents EXCEPT ![request.entry] = h[request.entry]]
  BY <1>2, PlusWithout
<1>7. /\ size' = size - BucketLen(leaves[Leaf]) + BucketLen(b)
      /\ leaves_size' = leaves_size - BucketLen(leaves[Leaf]) + BucketLen(b)
  <2>1. size \in Nat /\ leaves_size \in Nat
    BY SizesType
  <2> HIDE DEF b
  <2>2. QED
    BY <2>1, <1>1, <1>2, <1>3
<1> HIDE DEF b
<1>8. TreeInv' /\ TreeContents' = Plus(h, b)
  BY <1>1, <1>3, <1>4, <1>5, <1>7, LeafStepKeeps
<1>9. QED
  BY <1>6, <1>8 DEF h

(* replace_item: one copy in the leaf. *)
LEMMA ReplaceStep ==
    ASSUME TreeInv, ReplaceItem
    PROVE  /\ TreeInv'
           /\ TreeContents' = Replaced(TreeContents, request.entry, request.new_item)
<1> DEFINE b == Replaced(leaves[Leaf], request.entry, request.new_item)
           h == Held(leaves, DOMAIN leaves \ {Leaf})
<1>1. /\ pc = "descend" /\ Leaf # 0 /\ request.op = "replace"
      /\ leaves[Leaf][request.entry] > 0
      /\ leaves' = [leaves EXCEPT ![Leaf] = b]
      /\ leaves_size' = leaves_size
      /\ size' = size
      /\ Return("ok")
      /\ UNCHANGED <<stems, leaf_idx_map, max_stem_level>>
      /\ UNCHANGED <<rebuild_vars, build_vars>>
  BY DEF ReplaceItem, At
<1>2. /\ leaves[Leaf] \in Bucket /\ request.entry \in Entries
      /\ h \in Bucket /\ TreeContents = Plus(h, leaves[Leaf])
      /\ BucketLen(leaves[Leaf]) \in Nat
      /\ Leaf \in DOMAIN leaves
      /\ request \in Requests
  BY <1>1, AtTheLeaf, BucketLenType
<1>3. request.new_item \in Items
  BY <1>1, <1>2, RequestTypes
<1>4. /\ b \in Bucket /\ BucketLen(b) = BucketLen(leaves[Leaf])
      /\ \A e \in Occupied(b) : \/ e \in Occupied(leaves[Leaf])
                                \/ e.point = request.entry.point
  BY <1>1, <1>2, <1>3, ReplacedLen
<1>5. BucketLen(b) <= B
  <2>1. BucketLen(leaves[Leaf]) <= B
    BY <1>2 DEF TreeInv, SizesAgree
  <2> HIDE DEF b
  <2>2. QED
    BY <2>1, <1>4
<1>6. Plus(h, b) = Replaced(TreeContents, request.entry, request.new_item)
  BY <1>2, PlusReplaced
<1>7. /\ size' = size - BucketLen(leaves[Leaf]) + BucketLen(b)
      /\ leaves_size' = leaves_size - BucketLen(leaves[Leaf]) + BucketLen(b)
  <2>1. size \in Nat /\ leaves_size \in Nat
    BY SizesType
  <2> HIDE DEF b
  <2>2. QED
    BY <2>1, <1>1, <1>2, <1>4
<1> HIDE DEF b
<1>8. TreeInv' /\ TreeContents' = Plus(h, b)
  BY <1>1, <1>4, <1>5, <1>7, LeafStepKeeps
<1>9. QED
  BY <1>6, <1>8

(* A mutation that changes nothing. *)
LEMMA NoChangeKeeps ==
    ASSUME TreeInv, pc = "descend", NEW result, Return(result),
           UNCHANGED <<tree_vars, rebuild_vars, build_vars>>
    PROVE  TreeInv' /\ TreeContents' = TreeContents
<1>1. /\ CallInv' /\ CopyInv' /\ UnderConstruction'
      /\ (BuildInv /\ RouteInv /\ NothingLostOrDuplicated)'
      /\ request' = NoRequest /\ pc' = "idle" /\ level' = 0
  BY MutationReturns
<1>2. TreeTypeOK'
  BY <1>1 DEF TreeInv, TreeTypeOK, tree_vars
<1>3. TreeContents' = TreeContents
  BY DEF TreeContents, tree_vars
<1>4. TreeHoused' /\ SizesAgree'
  BY <1>3 DEF TreeInv, TreeHoused, SizesAgree, tree_vars
<1>5. QED
  BY <1>1, <1>2, <1>3, <1>4 DEF TreeInv

(* replace_item, where the leaf holds no copy. *)
LEMMA NotFoundStep ==
    ASSUME TreeInv, ReplaceItemNotFound
    PROVE  TreeInv' /\ TreeContents' = TreeContents
  BY NoChangeKeeps DEF ReplaceItemNotFound, At

-----------------------------------------------------------------------------
(* A split.                                                                *)

(* A pivot of a full leaf leaves something on either side of it.           *)
LEMMA PivotsDivide ==
    ASSUME TreeInv, CanSplit, NEW pivot \in SplitPivots
    PROVE  /\ pivot \in Int /\ pivot < MaxValue
           /\ Dim \in 0 .. K - 1 /\ pivot \in Coords(leaves[Leaf], Dim)
           /\ BucketLen(Below(leaves[Leaf], Dim, pivot)) <= B
           /\ BucketLen(AtLeast(leaves[Leaf], Dim, pivot)) <= B
<1> DEFINE c == leaves[Leaf]
<1>1. /\ pc = "descend" /\ Leaf # 0 /\ BucketLen(c) >= B /\ Splittable(c, Dim)
  BY DEF CanSplit, At, Full
<1>2. c \in Bucket /\ level \in Nat /\ Leaf \in DOMAIN leaves
  BY <1>1, AtTheLeaf
<1>3. Dim \in 0 .. K - 1
  BY <1>2, DimType DEF Dim
<1>4. BucketLen(c) = B /\ B \in Nat \ {0, 1}
  <2>1. BucketLen(c) <= B
    BY <1>2 DEF TreeInv, SizesAgree
  <2>2. BucketLen(c) \in Nat /\ B \in Nat \ {0, 1}
    BY <1>2, BucketLenType, BucketSizeAssumption
  <2> HIDE DEF c
  <2>3. QED
    BY <2>1, <2>2, <1>1
<1>5. B \div 2 \in 0 .. BucketLen(c) - 1
  <2> HIDE DEF c
  <2>1. B \div 2 \in 0 .. B - 1
    BY <1>4
  <2>2. QED
    BY <2>1, <1>4
<1>6. pivot \in SplitValues(c, Dim, B \div 2)
  BY DEF SplitPivots
<1> HIDE DEF c
<1>7. /\ pivot \in Int
      /\ BucketLen(Below(c, Dim, pivot)) \in 1 .. BucketLen(c) - 1
      /\ BucketLen(AtLeast(c, Dim, pivot)) \in 1 .. BucketLen(c) - 1
  BY <1>1, <1>2, <1>3, <1>5, <1>6, SplitValuesDivide
<1>8. pivot \in Coords(c, Dim)
  BY <1>1, <1>2, <1>3, <1>5, <1>6, SplitValuesInside
<1>9. pivot < MaxValue
  BY <1>3, <1>8, EntryCoords DEF Coords, Occupied
<1>10. QED
  BY <1>3, <1>4, <1>7, <1>8, <1>9 DEF c

(* split_leaf: the tree with its leaf split, before the entry is added.    *)
LEMMA SplitFacts ==
    ASSUME TreeInv, CanSplit, NEW pivot \in SplitPivots
    PROVE  LET ls == LeavesAfterSplit(pivot)
               st == StemsSplit(stems, stem_idx, pivot)
           IN  /\ ls \in Seq(Bucket) /\ Len(ls) = Len(leaves) + 1
               /\ st \in Seq(Int) /\ MapAfterSplit \in Seq(Nat)
               /\ LevelAfterSplit \in Nat
               /\ FoldLeft(Plus, EmptyBucket, ls) = TreeContents
               /\ \A k \in DOMAIN ls : BucketLen(ls[k]) <= B
               /\ SplitTarget(pivot) \in DOMAIN ls
               /\ Housed(st, MapAfterSplit, ls, LevelAfterSplit)
               /\ \E n : /\ MappedLeaf(MapAfterSplit, n) = SplitTarget(pivot)
                         /\ Lies(request.entry.point, n, level + 1, st)
<1> DEFINE new == Len(leaves) + 1
           ls == LeavesAfterSplit(pivot)
           st == StemsSplit(stems, stem_idx, pivot)
           below == Below(leaves[Leaf], Dim, pivot)
           above == AtLeast(leaves[Leaf], Dim, pivot)
           g == AtTheEnd(Len(leaves), Leaf)
<1>1. /\ pc = "descend" /\ Leaf # 0 /\ Leaf = MappedLeaf(leaf_idx_map, stem_idx)
  BY DEF CanSplit, At, Leaf
<1>2. /\ request.entry \in Entries /\ leaves \in Seq(Bucket)
      /\ Leaf \in DOMAIN leaves /\ leaves[Leaf] \in Bucket
      /\ stem_idx \in Nat \ {0} /\ stem_idx \notin Interior(stems)
      /\ AtLevel(stem_idx, level) /\ level \in Nat
  BY <1>1, AtTheLeaf
<1>3. /\ pivot \in Int /\ pivot < MaxValue /\ Dim \in 0 .. K - 1
      /\ pivot \in Coords(leaves[Leaf], Dim)
      /\ BucketLen(below) <= B /\ BucketLen(above) <= B
  BY PivotsDivide
<1>4. /\ stems \in Seq(Int) /\ leaf_idx_map \in Seq(Nat) /\ max_stem_level \in Int
      /\ max_stem_level >= -1
      /\ Housed(stems, leaf_idx_map, leaves, max_stem_level)
      /\ Routed(request.entry.point, stem_idx, level, stems)
  BY <1>1 DEF TreeInv, TreeTypeOK, TreeHoused, CallInv
<1>5. Dim = level % K
  BY DEF Dim
<1>6. /\ st \in Seq(Int)
      /\ MapsBoth(leaf_idx_map, MapSplit(leaf_idx_map, stem_idx, Leaf, new),
                  stem_idx, Leaf, new)
      /\ HalvedWell(Bucket, leaves, Leaf, below, above)
      /\ Housed(st, MapSplit(leaf_idx_map, stem_idx, Leaf, new),
                LeavesSplit(leaves, Leaf, Dim, pivot),
                AtLeastOf(max_stem_level, level))
  BY <1>1, <1>2, <1>3, <1>4, <1>5, HousedSplit
<1>7. /\ ls = LeavesSplit(leaves, Leaf, Dim, pivot)
      /\ ls = Halved(leaves, Leaf, below, above)
      /\ MapAfterSplit = MapSplit(leaf_idx_map, stem_idx, Leaf, new)
      /\ LevelAfterSplit = AtLeastOf(max_stem_level, level)
  BY <1>2 DEF LeavesAfterSplit, LeavesSplit, Halved, MapAfterSplit, MapSplit,
              LevelAfterSplit
<1>8. LevelAfterSplit \in Nat
  BY <1>2, <1>4, <1>7 DEF AtLeastOf
<1> HIDE DEF ls, st, new, g
<1>9. /\ ls \in Seq(Bucket) /\ Len(ls) = Len(leaves) + 1
      /\ new \in DOMAIN ls /\ Leaf \in DOMAIN ls /\ Leaf # new
      /\ ls[Leaf] = below /\ ls[new] = above
      /\ DividedAt(leaves, ls, Leaf, Leaf, new, g)
      /\ \A k \in DOMAIN leaves : k # Leaf => ls[k] = leaves[k]
  BY <1>6, <1>7 DEF HalvedWell, new, g
<1>10. FoldLeft(Plus, EmptyBucket, ls) = TreeContents
  <2>1. leaves[Leaf] = Plus(ls[Leaf], ls[new])
    BY <1>2, <1>3, <1>9, SidesAddUp
  <2>2. QED
    BY <2>1, <1>2, <1>9, FoldDivided DEF TreeContents
<1>11. \A k \in DOMAIN ls : BucketLen(ls[k]) <= B
  <2> TAKE k \in DOMAIN ls
  <2>1. DOMAIN ls = 1 .. Len(leaves) + 1 /\ DOMAIN leaves = 1 .. Len(leaves)
        /\ Len(leaves) \in Nat
    BY <1>2, <1>9, LenProperties
  <2>2. k = Leaf \/ k = new \/ (k \in DOMAIN leaves /\ k # Leaf)
    BY <2>1 DEF new
  <2>3. k \in DOMAIN leaves => BucketLen(leaves[k]) <= B
    BY DEF TreeInv, SizesAgree
  <2> QED
    BY <2>2, <2>3, <1>3, <1>9
<1>12. MapAfterSplit \in Seq(Nat)
  BY <1>6, <1>7 DEF MapsBoth
<1>13. Housed(st, MapAfterSplit, ls, LevelAfterSplit)
  BY <1>6, <1>7
<1>14. SplitTarget(pivot) \in DOMAIN ls
  BY <1>9 DEF SplitTarget, new
<1> DEFINE right == request.entry.point[level % K] >= pivot
           n == Child(stem_idx, right)
<1>15. Lies(request.entry.point, n, level + 1, st)
  <2>1. Routed(request.entry.point, n, level + 1, st)
    BY <1>2, <1>3, <1>4, RoutedAfter DEF st, StemsSplit
  <2>2. \A d \in 0 .. K - 1 : request.entry.point[d] \in Int
    BY <1>2, EntryCoords
  <2>3. level + 1 \in Nat
    BY <1>2
  <2>4. QED
    BY <2>1, <2>2, <2>3, <1>6, RoutedLies
<1>16. MappedLeaf(MapAfterSplit, n) = SplitTarget(pivot)
  BY <1>5, <1>6, <1>7 DEF MapsBoth, Child, SplitTarget, new
<1>17. QED
  BY <1>6, <1>8, <1>9, <1>10, <1>11, <1>12, <1>13, <1>14, <1>15, <1>16
     DEF ls, st, new

(* add, with a split. *)
LEMMA AddSplitStep ==
    ASSUME TreeInv, AddSplit
    PROVE  /\ TreeInv'
           /\ TreeContents' = With(TreeContents, request.entry)
<1>1. PICK pivot \in SplitPivots :
         /\ BucketLen(LeavesAfterSplit(pivot)[SplitTarget(pivot)]) < B
         /\ leaves' = [LeavesAfterSplit(pivot)
                          EXCEPT ![SplitTarget(pivot)] =
                              With(LeavesAfterSplit(pivot)[SplitTarget(pivot)],
                                   request.entry)]
         /\ stems' = StemsSplit(stems, stem_idx, pivot)
  BY DEF AddSplit, StemsSplit
<1>2. /\ CanSplit /\ pc = "descend" /\ Leaf # 0
      /\ leaf_idx_map' = MapAfterSplit /\ max_stem_level' = LevelAfterSplit
      /\ leaves_size' = leaves_size + 1 /\ size' = size + 1
      /\ Return("ok")
      /\ UNCHANGED <<rebuild_vars, build_vars>>
  BY DEF AddSplit, CanSplit, At
<1> DEFINE ls == LeavesAfterSplit(pivot)
           t == SplitTarget(pivot)
           b == With(ls[t], request.entry)
           h == Held(ls, DOMAIN ls \ {t})
<1>3. /\ ls \in Seq(Bucket)
      /\ stems' \in Seq(Int) /\ leaf_idx_map' \in Seq(Nat)
      /\ max_stem_level' \in Nat
      /\ FoldLeft(Plus, EmptyBucket, ls) = TreeContents
      /\ \A k \in DOMAIN ls : BucketLen(ls[k]) <= B
      /\ t \in DOMAIN ls
      /\ Housed(stems', leaf_idx_map', ls, max_stem_level')
      /\ \E n : /\ MappedLeaf(leaf_idx_map', n) = t
                /\ Lies(request.entry.point, n, level + 1, stems')
  BY <1>1, <1>2, SplitFacts
<1>4. request.entry \in Entries /\ level + 1 \in Nat
  BY <1>2, AtTheLeaf
<1>5. leaves' = [ls EXCEPT ![t] = b] /\ BucketLen(ls[t]) < B
  BY <1>1
<1> HIDE DEF ls, t
<1>6. ls[t] \in Bucket
  BY <1>3, LenProperties
<1>7. b \in Bucket /\ BucketLen(b) = BucketLen(ls[t]) + 1 /\ BucketLen(ls[t]) \in Nat
  BY <1>4, <1>6, MutatedLen, BucketLenType
<1>8. \A e \in Occupied(b) : e \in Occupied(ls[t]) \/ e.point = request.entry.point
  BY <1>4, <1>6 DEF Occupied, With, Bucket
<1>9. Plus(h, b) = With(Plus(h, ls[t]), request.entry)
  <2>1. h \in Bucket
    BY <1>3, FoldApart
  <2>2. QED
    BY <2>1, <1>4, <1>6, PlusWith
<1>10. BucketLen(b) <= B
  <2>1. B \in Nat
    BY BucketSizeAssumption
  <2> HIDE DEF b
  <2>2. QED
    BY <2>1, <1>5, <1>7
<1> HIDE DEF b, h
<1>11. OneChanged(ls, leaves', t, b)
  BY <1>3, <1>5, <1>7, FoldChanged
<1>12. /\ leaves' \in Seq(Bucket) /\ DOMAIN leaves' = DOMAIN ls
       /\ TreeContents' = Plus(h, b) /\ TreeContents = Plus(h, ls[t])
  BY <1>3, <1>11 DEF OneChanged, TreeContents, h
<1>13. TreeContents' = With(TreeContents, request.entry)
  BY <1>9, <1>12
<1>14. leaves'[t] = b /\ \A k \in DOMAIN leaves' : k # t => leaves'[k] = ls[k]
  BY <1>3, <1>5, <1>12
<1>15. \A k \in DOMAIN leaves' : BucketLen(leaves'[k]) <= B
  BY <1>3, <1>10, <1>12, <1>14
<1>16. TreeHoused'
  <2>1. Len(leaves') = Len(ls)
    BY <1>3, <1>12, LenProperties
  <2>2. ASSUME NEW k \in DOMAIN leaves', NEW e \in Occupied(leaves'[k])
        PROVE  \/ e \in Occupied(ls[k])
               \/ \E n : /\ MappedLeaf(leaf_idx_map', n) = k
                         /\ \E l \in Nat : Lies(e.point, n, l, stems')
    <3>1. CASE k # t
      BY <3>1, <1>14
    <3>2. CASE k = t
      <4>1. e \in Occupied(ls[t]) \/ e.point = request.entry.point
        BY <3>2, <1>8, <1>14
      <4>2. CASE e.point = request.entry.point
        BY <4>2, <3>2, <1>3, <1>4
      <4>3. QED
        BY <4>1, <4>2, <3>2
    <3>3. QED
      BY <3>1, <3>2
  <2>3. Housed(stems', leaf_idx_map', leaves', max_stem_level')
    BY <2>1, <2>2, <1>3, <1>12, HousedKept
  <2>4. QED
    BY <2>3 DEF TreeHoused
<1>17. /\ CallInv' /\ CopyInv' /\ UnderConstruction'
       /\ (BuildInv /\ RouteInv /\ NothingLostOrDuplicated)'
       /\ request' = NoRequest /\ pc' = "idle" /\ level' = 0
  BY <1>2, MutationReturns
<1>18. TreeTypeOK'
  BY <1>3, <1>12, <1>17 DEF TreeTypeOK
<1>19. SizesAgree'
  <2>1. TreeContents \in Bucket
    BY SizesType
  <2>2. BucketLen(TreeContents') = BucketLen(TreeContents) + 1
    BY <2>1, <1>4, <1>13, MutatedLen
  <2>3. QED
    BY <2>2, <1>2, <1>15 DEF TreeInv, SizesAgree
<1>20. QED
  BY <1>13, <1>16, <1>17, <1>18, <1>19 DEF TreeInv

-----------------------------------------------------------------------------
(* A call begins, and descends.                                            *)

LEMMA IssueStep ==
    ASSUME TreeInv, NEW r \in Requests, Issue(r),
           \/ r.op # "construct" /\ IssueMutation(r)
           \/ r.op = "construct" /\ IssueConstruct(r)
    PROVE  /\ TreeInv' /\ TreeContents' = TreeContents
           /\ r.op = "construct" => TreeContents = EmptyBucket
<1>1. /\ pc = "idle" /\ request' = r /\ stem_idx' = stem_idx /\ level' = level
      /\ UNCHANGED <<tree_vars, rebuild_vars>>
  BY DEF Issue, descent_vars
<1>2. /\ stem_idx = RootIdx /\ level = 0 /\ entries = EmptyBucket
      /\ next_leaf = 1 /\ phase = "idle"
  BY <1>1 DEF TreeInv, CallInv, CopyInv, UnderConstruction
<1>3. TreeContents' = TreeContents
  BY <1>1 DEF TreeContents, tree_vars
<1>4. TreeHoused' /\ SizesAgree'
  BY <1>1, <1>3 DEF TreeInv, TreeHoused, SizesAgree, tree_vars
<1>5. r # NoRequest
  BY RequestTypes
<1>6. CASE r.op # "construct" /\ IssueMutation(r)
  <2>1. pc' = "descend" /\ UNCHANGED build_vars
    BY <1>6 DEF IssueMutation
  <2>2. TreeTypeOK'
    BY <1>1, <2>1 DEF TreeInv, TreeTypeOK, tree_vars
  <2>3. CallInv'
    BY <1>1, <1>2, <1>5, <1>6, <2>1, RoutedToRoot DEF CallInv
  <2>4. CopyInv' /\ UnderConstruction'
    BY <1>1, <1>2, <2>1 DEF CopyInv, UnderConstruction, rebuild_vars, build_vars
  <2>5. (BuildInv /\ RouteInv /\ NothingLostOrDuplicated)'
    BY <2>1, BuilderSteps DEF TreeInv
  <2>6. QED
    BY <1>3, <1>4, <1>6, <2>2, <2>3, <2>4, <2>5 DEF TreeInv
<1>7. CASE r.op = "construct" /\ IssueConstruct(r)
  <2>1. pc' = "build" /\ Construct(r.source) /\ size = 0 /\ r.source \in Bucket
    BY <1>7, RequestTypes DEF IssueConstruct
  <2>2. /\ source' = r.source /\ phase' # "idle" /\ phase' # "unsplittable"
    BY <2>1 DEF Construct, ConstructNoStems, ConstructWithStems
  <2>3. TreeTypeOK'
    BY <1>1, <2>1 DEF TreeInv, TreeTypeOK, tree_vars
  <2>4. CallInv' /\ CopyInv'
    BY <1>1, <1>5, <1>7, <2>1 DEF CallInv, CopyInv
  <2>5. UnderConstruction'
    BY <1>1, <1>7, <2>1, <2>2 DEF UnderConstruction, Intended
  <2>6. (BuildInv /\ RouteInv /\ NothingLostOrDuplicated)'
    BY <2>1, BuilderSteps DEF TreeInv
  <2>7. TreeContents = EmptyBucket
    <3>1. TreeContents \in Bucket /\ BucketLen(TreeContents) = 0
      BY <2>1, SizesType DEF TreeInv, SizesAgree
    <3>2. QED
      BY <3>1, OccupiedLen
  <2>8. QED
    BY <1>3, <1>4, <2>3, <2>4, <2>5, <2>6, <2>7 DEF TreeInv
<1>8. QED
  BY <1>6, <1>7

(* The descent has not reached a leaf: it is at an interior stem. *)
LEMMA DescentReaches ==
    ASSUME TreeInv, pc = "descend"
    PROVE  /\ ~Arrived => stem_idx \in Interior(stems) /\ stem_idx \in DOMAIN stems
           /\ Arrived => Leaf \in DOMAIN leaves
<1>1. /\ leaves \in Seq(Bucket) /\ stems \in Seq(Int) /\ level \in Nat
      /\ max_stem_level \in Int /\ max_stem_level >= -1
      /\ Housed(stems, leaf_idx_map, leaves, max_stem_level)
      /\ Routed(request.entry.point, stem_idx, level, stems)
  BY DEF TreeInv, TreeTypeOK, TreeHoused, CallInv
<1>2. Reaches(stems, leaf_idx_map, leaves, max_stem_level,
              request.entry.point, stem_idx, level)
  BY <1>1, HousedReach
<1>3. 0 \notin DOMAIN leaves
  BY <1>1, LenProperties
<1>4. QED
  BY <1>1, <1>2, <1>3 DEF Reaches, Arrived, Leaf, Interior

LEMMA DescendStep ==
    ASSUME TreeInv, Descend
    PROVE  TreeInv' /\ TreeContents' = TreeContents
<1>1. /\ pc = "descend" /\ ~Arrived
      /\ stem_idx' = Child(stem_idx, request.entry.point[Dim] >= stems[stem_idx])
      /\ level' = level + 1
      /\ UNCHANGED <<tree_vars, call_vars, pc, rebuild_vars, build_vars>>
  BY DEF Descend
<1>2. /\ stems \in Seq(Int) /\ level \in Nat /\ Dim = level % K
      /\ Routed(request.entry.point, stem_idx, level, stems)
  BY <1>1 DEF TreeInv, TreeTypeOK, CallInv, Dim
<1>3. stem_idx \in Interior(stems) /\ stem_idx \in Nat
  BY <1>1, <1>2, DescentReaches, InteriorType
<1>4. Routed(request.entry.point, stem_idx', level + 1, stems)
  BY <1>1, <1>2, <1>3, RoutedOn
<1>5. TreeContents' = TreeContents
  BY <1>1 DEF TreeContents, tree_vars
<1>6. TreeHoused' /\ SizesAgree'
  BY <1>1, <1>5 DEF TreeInv, TreeHoused, SizesAgree, tree_vars
<1>7. TreeTypeOK'
  BY <1>1 DEF TreeInv, TreeTypeOK, tree_vars, call_vars
<1>8. CallInv' /\ CopyInv' /\ UnderConstruction'
  BY <1>1, <1>4
     DEF TreeInv, CallInv, CopyInv, UnderConstruction, tree_vars, call_vars,
         rebuild_vars, build_vars
<1>9. (BuildInv /\ RouteInv /\ NothingLostOrDuplicated)'
  BY <1>1, BuilderSteps DEF TreeInv
<1>10. QED
  BY <1>5, <1>6, <1>7, <1>8, <1>9 DEF TreeInv

-----------------------------------------------------------------------------
(* A rebuild.                                                              *)

LEMMA AddRebuildStep ==
    ASSUME TreeInv, AddRebuild
    PROVE  TreeInv' /\ TreeContents' = TreeContents
<1>1. /\ pc = "descend" /\ request.op = "add" /\ pc' = "collect"
      /\ UNCHANGED <<tree_vars, call_vars, descent_vars, rebuild_vars, build_vars>>
  BY DEF AddRebuild, At
<1>2. TreeContents' = TreeContents
  BY <1>1 DEF TreeContents, tree_vars
<1>3. TreeHoused' /\ SizesAgree'
  BY <1>1, <1>2 DEF TreeInv, TreeHoused, SizesAgree, tree_vars
<1>4. TreeTypeOK' /\ CallInv' /\ UnderConstruction'
  BY <1>1 DEF TreeInv, TreeTypeOK, CallInv, UnderConstruction, tree_vars,
              call_vars, descent_vars, build_vars
<1>5. CopyInv'
  <2>1. entries = EmptyBucket /\ next_leaf = 1 /\ leaves \in Seq(Bucket)
    BY <1>1 DEF TreeInv, CopyInv, TreeTypeOK
  <2>2. Len(leaves) \in Nat /\ 1 .. 1 - 1 = {}
    BY <2>1, LenProperties
  <2>3. Held(leaves, 1 .. 1 - 1) = EmptyBucket
    BY <2>2, HeldByFew
  <2>4. QED
    BY <1>1, <2>1, <2>2, <2>3 DEF CopyInv, rebuild_vars, tree_vars
<1>6. (BuildInv /\ RouteInv /\ NothingLostOrDuplicated)'
  BY <1>1, BuilderSteps DEF TreeInv
<1>7. QED
  BY <1>2, <1>3, <1>4, <1>5, <1>6 DEF TreeInv

LEMMA CollectStep ==
    ASSUME TreeInv, CollectLeaf
    PROVE  TreeInv' /\ TreeContents' = TreeContents
<1>1. /\ pc = "collect" /\ next_leaf <= Len(leaves)
      /\ entries' = Plus(entries, leaves[next_leaf])
      /\ next_leaf' = next_leaf + 1
      /\ UNCHANGED <<tree_vars, call_vars, pc, descent_vars, build_vars>>
  BY DEF CollectLeaf
<1>2. TreeContents' = TreeContents
  BY <1>1 DEF TreeContents, tree_vars
<1>3. TreeHoused' /\ SizesAgree'
  BY <1>1, <1>2 DEF TreeInv, TreeHoused, SizesAgree, tree_vars
<1>4. TreeTypeOK' /\ CallInv' /\ UnderConstruction'
  BY <1>1 DEF TreeInv, TreeTypeOK, CallInv, UnderConstruction, tree_vars,
              call_vars, descent_vars, build_vars
<1>5. CopyInv'
  <2> DEFINE n == next_leaf - 1
  <2>1. /\ next_leaf \in 1 .. Len(leaves) + 1 /\ leaves \in Seq(Bucket)
        /\ entries = Held(leaves, 1 .. n)
    BY <1>1 DEF TreeInv, CopyInv, TreeTypeOK
  <2>2. Len(leaves) \in Nat /\ DOMAIN leaves = 1 .. Len(leaves)
    BY <2>1, LenProperties
  <2>3. n \in Nat /\ n + 1 = next_leaf /\ n + 1 \in DOMAIN leaves
        /\ next_leaf + 1 \in 1 .. Len(leaves) + 1
        /\ (next_leaf + 1) - 1 = n + 1
    BY <1>1, <2>1, <2>2
  <2> HIDE DEF n
  <2>4. Held(leaves, 1 .. n + 1) = Plus(Held(leaves, 1 .. n), leaves[n + 1])
    BY <2>1, <2>3, HeldFirst
  <2>5. entries' = Held(leaves, 1 .. next_leaf' - 1)
    BY <1>1, <2>1, <2>3, <2>4
  <2>6. leaves' = leaves /\ pc' = "collect"
    BY <1>1 DEF tree_vars
  <2>7. next_leaf' \in 1 .. Len(leaves') + 1 /\ entries' = Held(leaves', 1 .. next_leaf' - 1)
    BY <1>1, <2>3, <2>5, <2>6
  <2>8. QED
    BY <2>6, <2>7 DEF CopyInv
<1>6. (BuildInv /\ RouteInv /\ NothingLostOrDuplicated)'
  BY <1>1, BuilderSteps DEF TreeInv
<1>7. QED
  BY <1>2, <1>3, <1>4, <1>5, <1>6 DEF TreeInv

(* Every leaf has been copied: the new tree is to store what the old one   *)
(* does and the entry.                                                     *)
LEMMA BeginRebuildStep ==
    ASSUME TreeInv, BeginRebuild
    PROVE  TreeInv' /\ TreeContents' = TreeContents
<1> DEFINE src == With(entries, request.entry)
<1>1. /\ pc = "collect" /\ next_leaf > Len(leaves) /\ request.op = "add"
      /\ Construct(src) /\ pc' = "build"
      /\ UNCHANGED <<tree_vars, call_vars, descent_vars, rebuild_vars>>
  BY DEF BeginRebuild, TreeInv, CallInv
<1>2. TreeContents' = TreeContents
  BY <1>1 DEF TreeContents, tree_vars
<1>3. entries = TreeContents
  <2>1. /\ next_leaf \in 1 .. Len(leaves) + 1 /\ leaves \in Seq(Bucket)
        /\ entries = Held(leaves, 1 .. next_leaf - 1)
    BY <1>1 DEF TreeInv, CopyInv, TreeTypeOK
  <2>2. Len(leaves) \in Nat /\ DOMAIN leaves = 1 .. Len(leaves)
    BY <2>1, LenProperties
  <2>3. next_leaf - 1 = Len(leaves)
    BY <1>1, <2>1, <2>2
  <2>4. QED
    BY <2>1, <2>2, <2>3, FoldHeld DEF TreeContents
<1>4. request.entry \in Entries
  <2>1. request \in Requests
    BY <1>1, RequestTypes DEF TreeInv, TreeTypeOK
  <2>2. QED
    BY <1>1, <2>1, RequestTypes
<1>5. src \in Bucket
  BY <1>3, <1>4, SizesType, MutatedLen
<1>6. source' = src /\ phase' # "idle" /\ phase' # "unsplittable"
  BY <1>1 DEF Construct, ConstructNoStems, ConstructWithStems
<1>7. Intended' = src
  BY <1>1, <1>2, <1>3 DEF Intended, call_vars
<1> HIDE DEF src
<1>8. TreeHoused' /\ SizesAgree'
  BY <1>1, <1>2 DEF TreeInv, TreeHoused, SizesAgree, tree_vars
<1>9. TreeTypeOK' /\ CallInv' /\ CopyInv'
  BY <1>1 DEF TreeInv, TreeTypeOK, CallInv, CopyInv, tree_vars, call_vars,
              descent_vars
<1>10. UnderConstruction'
  BY <1>1, <1>6, <1>7 DEF UnderConstruction
<1>11. (BuildInv /\ RouteInv /\ NothingLostOrDuplicated)'
  BY <1>1, <1>5, BuilderSteps DEF TreeInv
<1>12. QED
  BY <1>2, <1>8, <1>9, <1>10, <1>11 DEF TreeInv

LEMMA BuildStepStep ==
    ASSUME TreeInv, BuildStep
    PROVE  TreeInv' /\ TreeContents' = TreeContents
<1>1. /\ pc = "build" /\ Populate
      /\ UNCHANGED <<tree_vars, call_vars, pc, descent_vars, rebuild_vars>>
  BY DEF BuildStep
<1>2. TreeContents' = TreeContents
  BY <1>1 DEF TreeContents, tree_vars
<1>3. TreeHoused' /\ SizesAgree'
  BY <1>1, <1>2 DEF TreeInv, TreeHoused, SizesAgree, tree_vars
<1>4. TreeTypeOK' /\ CallInv' /\ CopyInv'
  BY <1>1 DEF TreeInv, TreeTypeOK, CallInv, CopyInv, tree_vars, call_vars,
              descent_vars, rebuild_vars
<1>5. source' = source /\ phase' # "idle"
  BY <1>1 DEF Populate, PopulateLeaf, PopulateSplit, PopulateUnsplittable,
              PopulateReturns
<1>6. phase' = "unsplittable" => Crowded(source, B + 1)
  <2>1. CASE PopulateUnsplittable
    BY <2>1, UnsplittableIsCrowded DEF TreeInv
  <2>2. CASE PopulateLeaf \/ PopulateSplit \/ PopulateReturns
    BY <2>2 DEF PopulateLeaf, PopulateSplit, PopulateReturns
  <2>3. QED
    BY <1>1, <2>1, <2>2 DEF Populate
<1>7. Intended' = Intended
  BY <1>1, <1>2 DEF Intended, call_vars
<1>8. UnderConstruction'
  <2>1. Crowded(source, B + 1) => Crowded(source', B + 1)
    BY <1>5
  <2>2. source = Intended /\ pc' = "build"
    BY <1>1 DEF TreeInv, UnderConstruction
  <2>3. QED
    BY <1>5, <1>6, <1>7, <2>1, <2>2 DEF UnderConstruction
<1>9. (BuildInv /\ RouteInv /\ NothingLostOrDuplicated)'
  BY <1>1, BuilderSteps DEF TreeInv
<1>10. QED
  BY <1>2, <1>3, <1>4, <1>8, <1>9 DEF TreeInv

(* The tree that was built takes the place of the old one. *)
LEMMA InstallStep ==
    ASSUME TreeInv, Install
    PROVE  TreeInv' /\ TreeContents' = Intended
<1>1. /\ pc = "build" /\ phase = "built"
      /\ stems' = new_stems /\ leaf_idx_map' = MappedFromTerminals(terminals)
      /\ leaves' = new_leaves
      /\ leaves_size' = BucketLen(source) /\ size' = BucketLen(source)
      /\ max_stem_level' = actual_max_stem_level
      /\ Return("ok") /\ DropBuild
  BY DEF Install
<1>2. BuildInv /\ RouteInv /\ NothingLostOrDuplicated
  BY DEF TreeInv
<1>3. /\ new_stems \in Seq(Int) /\ new_leaves \in Seq(Bucket) /\ source \in Bucket
      /\ terminals \in Seq(Nat)
      /\ actual_max_stem_level \in Nat \cup {-1}
  BY <1>2 DEF BuildInv, TypeOK
<1>4. /\ Sited(terminals, new_leaves, new_stems, actual_max_stem_level, {})
      /\ Maps(MappedFromTerminals(terminals), terminals)
      /\ MappedFromTerminals(terminals) \in Seq(Nat)
  BY <1>1, <1>2, FinishedTree, SitedForgets
<1>5. FoldLeft(Plus, EmptyBucket, new_leaves) = source
  <2>1. calls = <<>>
    BY <1>1, <1>2 DEF RouteInv
  <2>2. new_leaves \o PendingChunks = new_leaves
    BY <2>1, <1>3 DEF PendingChunks
  <2>3. QED
    BY <2>2, <1>1, <1>2 DEF NothingLostOrDuplicated
<1>6. \A k \in DOMAIN new_leaves : BucketLen(new_leaves[k]) <= B
  <2> TAKE k \in DOMAIN new_leaves
  <2>1. CASE source # EmptyBucket
    BY <2>1, <1>1, <1>2 DEF BuildInv, LeavesFit
  <2>2. CASE source = EmptyBucket
    <3>1. new_leaves[k] \in Bucket
      BY <1>3, LenProperties
    <3>2. \A e \in Entries : new_leaves[k][e] <= EmptyBucket[e]
      BY <2>2, <1>3, <1>5, ElementBelow
    <3>3. BucketLen(new_leaves[k]) <= 0
      BY <3>1, <3>2, EmptyBucketLen, BucketLenMonotone
    <3>4. BucketLen(new_leaves[k]) \in Nat /\ B \in Nat
      BY <3>1, BucketLenType, BucketSizeAssumption
    <3>5. QED
      BY <3>3, <3>4
  <2> QED
    BY <2>1, <2>2
<1>7. TreeContents' = source
  BY <1>1, <1>5 DEF TreeContents
<1>8. TreeHoused'
  <2>1. Housed(new_stems, MappedFromTerminals(terminals), new_leaves,
               actual_max_stem_level)
    BY <1>3, <1>4 DEF Housed
  <2>2. QED
    BY <2>1, <1>1 DEF TreeHoused
<1>9. SizesAgree'
  BY <1>1, <1>6, <1>7 DEF SizesAgree
<1>10. /\ (BuildInv /\ RouteInv /\ NothingLostOrDuplicated)'
       /\ phase' = "idle" /\ entries' = EmptyBucket /\ next_leaf' = 1
  BY <1>1, BuilderDropped
<1>11. request' = NoRequest /\ pc' = "idle" /\ stem_idx' = RootIdx /\ level' = 0
  BY <1>1 DEF Return
<1>12. TreeTypeOK' /\ CallInv' /\ CopyInv' /\ UnderConstruction'
  BY <1>1, <1>3, <1>4, <1>10, <1>11
     DEF TreeTypeOK, CallInv, CopyInv, UnderConstruction
<1>13. source = Intended
  BY <1>1 DEF TreeInv, UnderConstruction
<1>14. QED
  BY <1>7, <1>8, <1>9, <1>10, <1>12, <1>13 DEF TreeInv

(* Or nothing does. *)
LEMMA BuildFailsStep ==
    ASSUME TreeInv, BuildFails
    PROVE  TreeInv' /\ TreeContents' = TreeContents /\ Crowded(Intended, B + 1)
<1>1. /\ pc = "build" /\ phase = "unsplittable"
      /\ Return("unsplittable") /\ DropBuild /\ UNCHANGED tree_vars
  BY DEF BuildFails
<1>2. TreeContents' = TreeContents
  BY <1>1 DEF TreeContents, tree_vars
<1>3. TreeHoused' /\ SizesAgree'
  BY <1>1, <1>2 DEF TreeInv, TreeHoused, SizesAgree, tree_vars
<1>4. /\ (BuildInv /\ RouteInv /\ NothingLostOrDuplicated)'
      /\ phase' = "idle" /\ entries' = EmptyBucket /\ next_leaf' = 1
  BY <1>1, BuilderDropped
<1>5. request' = NoRequest /\ pc' = "idle" /\ stem_idx' = RootIdx /\ level' = 0
  BY <1>1 DEF Return
<1>6. TreeTypeOK'
  BY <1>1, <1>5 DEF TreeInv, TreeTypeOK, tree_vars
<1>7. CallInv' /\ CopyInv' /\ UnderConstruction'
  BY <1>4, <1>5 DEF CallInv, CopyInv, UnderConstruction
<1>8. Crowded(Intended, B + 1)
  BY <1>1 DEF TreeInv, UnderConstruction
<1>9. QED
  BY <1>2, <1>3, <1>4, <1>6, <1>7, <1>8 DEF TreeInv

-----------------------------------------------------------------------------
(* Every step.                                                             *)

(* add, where the leaf cannot be split. *)
LEMMA UnsplittableStep ==
    ASSUME TreeInv, AddUnsplittable
    PROVE  TreeInv' /\ TreeContents' = TreeContents
  BY NoChangeKeeps DEF AddUnsplittable, At

LEMMA TreeInvStep == TreeInv /\ [Next]_vars => TreeInv'
<1> SUFFICES ASSUME TreeInv, [Next]_vars PROVE TreeInv'
  OBVIOUS
<1>1. CASE Invoke
  <2>1. PICK r \in Requests : \/ r.op # "construct" /\ IssueMutation(r)
                              \/ r.op = "construct" /\ IssueConstruct(r)
    BY <1>1 DEF Invoke
  <2>2. Issue(r)
    BY <2>1 DEF IssueMutation, IssueConstruct
  <2>3. QED
    BY <2>1, <2>2, IssueStep
<1>2. CASE Descend \/ AddToLeaf \/ AddSplit \/ AddUnsplittable \/ AddRebuild
  BY <1>2, DescendStep, AddToLeafStep, AddSplitStep, UnsplittableStep,
     AddRebuildStep
<1>3. CASE CollectLeaf \/ BeginRebuild \/ BuildStep \/ Install \/ BuildFails
  BY <1>3, CollectStep, BeginRebuildStep, BuildStepStep, InstallStep,
     BuildFailsStep
<1>4. CASE RemoveFromLeaf \/ ReplaceItem \/ ReplaceItemNotFound
  BY <1>4, RemoveStep, ReplaceStep, NotFoundStep
<1>5. CASE UNCHANGED vars
  <2>1. UNCHANGED <<tree_vars, call_vars, pc, descent_vars, rebuild_vars,
                    build_vars>>
    BY <1>5 DEF vars
  <2>2. TreeContents' = TreeContents
    BY <2>1 DEF TreeContents, tree_vars
  <2>3. TreeHoused' /\ SizesAgree'
    BY <2>1, <2>2 DEF TreeInv, TreeHoused, SizesAgree, tree_vars
  <2>4. TreeTypeOK' /\ CallInv' /\ CopyInv'
    BY <2>1 DEF TreeInv, TreeTypeOK, CallInv, CopyInv, tree_vars, call_vars,
                descent_vars, rebuild_vars
  <2>5. Intended' = Intended
    BY <2>1, <2>2 DEF Intended, call_vars
  <2>6. source' = source /\ phase' = phase /\ pc' = pc
    BY <2>1 DEF build_vars
  <2>7. Crowded(source, B + 1) => Crowded(source', B + 1)
    BY <2>6
  <2>8. UnderConstruction'
    BY <2>5, <2>6, <2>7 DEF TreeInv, UnderConstruction
  <2>9. (BuildInv /\ RouteInv /\ NothingLostOrDuplicated)'
    BY <2>1, BuilderSteps DEF TreeInv
  <2>10. QED
    BY <2>3, <2>4, <2>8, <2>9 DEF TreeInv
<1>6. QED
  BY <1>1, <1>2, <1>3, <1>4, <1>5 DEF Next, Work

LEMMA TreeInvariant == Spec => []TreeInv
  BY TreeInvInit, TreeInvStep, PTL DEF Spec

-----------------------------------------------------------------------------
(* Every entry a tree stores is found again: a query that goes both ways   *)
(* at a stem equal to the coordinate comes to the leaf that holds it,      *)
(* after any number of adds, splits, rebuilds and removals, whatever       *)
(* partition the selections of the rebuilds left, for every bucket size up *)
(* to six, where a split is known to divide a leaf by value.               *)
THEOREM StoredEntriesAreAlwaysFound == Spec => []StoredEntriesAreFound
<1>1. TreeInv => StoredEntriesAreFound
  <2>1. SUFFICES ASSUME TreeInv, NEW k \in DOMAIN leaves,
                        NEW e \in Occupied(leaves[k])
                 PROVE  k \in LeavesAround(e.point, stems, leaf_idx_map,
                                           max_stem_level)
    BY DEF StoredEntriesAreFound
  <2>2. /\ leaves \in Seq(Bucket) /\ stems \in Seq(Int)
        /\ max_stem_level \in Int /\ max_stem_level >= -1
        /\ Housed(stems, leaf_idx_map, leaves, max_stem_level)
    BY <2>1 DEF TreeInv, TreeTypeOK, TreeHoused
  <2>3. QED
    BY <2>1, <2>2, HousedFinds
<1>2. QED
  BY <1>1, TreeInvariant, PTL

(* find_leaf_with_context never reads beyond the stems and always ends at  *)
(* a stem that has a leaf: get_unchecked is safe there, and the panic      *)
(* "mapped leaf resolution miss" and the unwrap in add are never reached.  *)
THEOREM EveryDescentReachesALeaf == Spec => []DescentReachesALeaf
<1>1. TreeInv => DescentReachesALeaf
  BY DescentReaches DEF DescentReachesALeaf
<1>2. QED
  BY <1>1, TreeInvariant, PTL

(* KdTree::size, VecOfArrays::size and the lengths of the leaves always    *)
(* agree, and no leaf is longer than the arrays it is stored in.           *)
THEOREM SizesAlwaysAgree == Spec => []SizesAgree
<1>1. TreeInv => SizesAgree
  BY DEF TreeInv
<1>2. QED
  BY <1>1, TreeInvariant, PTL

(* A call that returns an error leaves every part of the tree as it was.   *)
THEOREM NoErrorChangesTheTree == Spec => ErrorsChangeNothing
<1>1. [Next]_vars =>
         [reply' \in {"unsplittable", "not_found"} => UNCHANGED tree_vars]_vars
  <2> SUFFICES ASSUME Next, reply' \in {"unsplittable", "not_found"}
               PROVE  UNCHANGED tree_vars
    OBVIOUS
  <2>1. CASE Invoke
    BY <2>1 DEF Invoke, IssueMutation, IssueConstruct, Issue
  <2>2. CASE Descend \/ AddRebuild \/ CollectLeaf \/ BeginRebuild \/ BuildStep
    BY <2>2 DEF Descend, AddRebuild, CollectLeaf, BeginRebuild, BuildStep
  <2>3. CASE AddToLeaf \/ AddSplit \/ Install \/ RemoveFromLeaf \/ ReplaceItem
    BY <2>3 DEF AddToLeaf, AddSplit, Install, RemoveFromLeaf, ReplaceItem, Return
  <2>4. CASE AddUnsplittable \/ BuildFails \/ ReplaceItemNotFound
    BY <2>4 DEF AddUnsplittable, BuildFails, ReplaceItemNotFound
  <2>5. QED
    BY <2>1, <2>2, <2>3, <2>4 DEF Next, Work
<1>2. QED
  BY <1>1, PTL DEF Spec, ErrorsChangeNothing

-----------------------------------------------------------------------------
(* What the descent does not see.                                          *)

(* Each entry has a leaf it is looked for in; what is stored is what is    *)
(* seen there and what is hidden elsewhere.                                *)
HiddenFacts ==
    \A e \in Entries :
        /\ RoutedLeaf(e) \in DOMAIN leaves
        /\ Hidden[e] = Held(leaves, DOMAIN leaves \ {RoutedLeaf(e)})[e]
        /\ Hidden[e] \in Nat /\ leaves[RoutedLeaf(e)][e] \in Nat
        /\ TreeContents[e] = Hidden[e] + leaves[RoutedLeaf(e)][e]

LEMMA HiddenCounts == TreeInv => HiddenFacts
<1> SUFFICES ASSUME TreeInv, NEW e \in Entries
             PROVE  /\ RoutedLeaf(e) \in DOMAIN leaves
                    /\ Hidden[e] = Held(leaves, DOMAIN leaves \ {RoutedLeaf(e)})[e]
                    /\ Hidden[e] \in Nat /\ leaves[RoutedLeaf(e)][e] \in Nat
                    /\ TreeContents[e] = Hidden[e] + leaves[RoutedLeaf(e)][e]
  BY DEF HiddenFacts
<1> DEFINE r == RoutedLeaf(e)
           h == Held(leaves, DOMAIN leaves \ {r})
<1>1. /\ leaves \in Seq(Bucket) /\ stems \in Seq(Int)
      /\ max_stem_level \in Int /\ max_stem_level >= -1
      /\ Housed(stems, leaf_idx_map, leaves, max_stem_level)
  BY DEF TreeInv, TreeTypeOK, TreeHoused
<1>2. r \in DOMAIN leaves
  <2>1. Settles(stems, leaf_idx_map, leaves, max_stem_level, e.point)
    BY <1>1, HousedSettles
  <2>2. QED
    BY <2>1 DEF Settles, RoutedLeaf
<1>3. Hidden[e] = h[e]
  BY DEF Hidden, SlotsBesides, Held, SlotsIn
<1> HIDE DEF r
<1>4. /\ h \in Bucket /\ leaves[r] \in Bucket
      /\ TreeContents = Plus(h, leaves[r])
  BY <1>1, <1>2, FoldApart DEF TreeContents
<1> HIDE DEF h
<1>5. h[e] \in Nat /\ leaves[r][e] \in Nat /\ TreeContents[e] = h[e] + leaves[r][e]
  BY <1>4 DEF Bucket, Plus
<1>6. QED
  BY <1>2, <1>3, <1>5 DEF r, h

(* One that holds as much of an entry in every leaf but the one it is      *)
(* looked for in hides as much of it.                                      *)
LEMMA HiddenSame ==
    ASSUME UNCHANGED <<stems, leaf_idx_map, max_stem_level>>,
           DOMAIN leaves' = DOMAIN leaves,
           \A e \in Entries : \A k \in DOMAIN leaves \ {RoutedLeaf(e)} :
              leaves'[k][e] = leaves[k][e]
    PROVE  Hidden' = Hidden
<1>1. ASSUME NEW e \in Entries
      PROVE  SlotsIn(leaves', DOMAIN leaves' \ {RoutedLeaf(e)}, e)
                = SlotsIn(leaves, DOMAIN leaves \ {RoutedLeaf(e)}, e)
  BY DEF SlotsIn
<1>2. \A e \in Entries : RoutedLeaf(e)' = RoutedLeaf(e)
  BY DEF RoutedLeaf
<1>3. Hidden = [e \in Entries |->
                  Cardinality(SlotsIn(leaves, DOMAIN leaves \ {RoutedLeaf(e)}, e))]
  BY DEF Hidden, SlotsBesides, SlotsIn
<1>4. Hidden' = [e \in Entries |->
                   Cardinality(SlotsIn(leaves', DOMAIN leaves' \ {RoutedLeaf(e)'}, e))]
  BY DEF Hidden, SlotsBesides, SlotsIn
<1>5. QED
  BY <1>1, <1>2, <1>3, <1>4

(* A mutation of the leaf its entry is looked for in hides nothing, and    *)
(* brings nothing hidden to light.                                         *)
LEMMA LeafHidesNothing ==
    ASSUME TreeInv, pc = "descend", Leaf # 0, NEW b,
           leaves' = [leaves EXCEPT ![Leaf] = b],
           \A e \in Entries :
              e.point # request.entry.point => b[e] = leaves[Leaf][e],
           UNCHANGED <<stems, leaf_idx_map, max_stem_level>>
    PROVE  Hidden' = Hidden
<1>1. /\ request.entry \in Entries /\ leaves \in Seq(Bucket)
      /\ Leaf \in DOMAIN leaves /\ RoutedLeaf(request.entry) = Leaf
  BY AtTheLeaf
<1>2. DOMAIN leaves' = DOMAIN leaves
  OBVIOUS
<1>3. ASSUME NEW e \in Entries, NEW k \in DOMAIN leaves \ {RoutedLeaf(e)}
      PROVE  leaves'[k][e] = leaves[k][e]
  <2>1. CASE k # Leaf
    BY <2>1
  <2>2. CASE k = Leaf
    <3>1. e.point # request.entry.point
      BY <2>2, <1>1 DEF RoutedLeaf
    <3>2. leaves'[k] = b
      BY <2>2, <1>1
    <3>3. QED
      BY <2>2, <3>1, <3>2
  <2>3. QED
    BY <2>1, <2>2
<1>4. QED
  BY <1>2, <1>3, HiddenSame

(* Nor does a split of a leaf: of each entry, what was seen is seen.       *)
LEMMA SplitHidesNothing ==
    ASSUME TreeInv, AddSplit
    PROVE  Hidden' = Hidden
<1>1. PICK pivot \in SplitPivots :
         /\ leaves' = [LeavesAfterSplit(pivot)
                          EXCEPT ![SplitTarget(pivot)] =
                              With(LeavesAfterSplit(pivot)[SplitTarget(pivot)],
                                   request.entry)]
         /\ stems' = StemsSplit(stems, stem_idx, pivot)
  BY DEF AddSplit, StemsSplit
<1>2. /\ CanSplit /\ pc = "descend" /\ Leaf # 0
      /\ Leaf = MappedLeaf(leaf_idx_map, stem_idx)
      /\ leaf_idx_map' = MapAfterSplit /\ max_stem_level' = LevelAfterSplit
  BY DEF AddSplit, CanSplit, At, Leaf
<1> DEFINE new == Len(leaves) + 1
           ls == LeavesAfterSplit(pivot)
           t == SplitTarget(pivot)
<1>3. /\ request.entry \in Entries /\ leaves \in Seq(Bucket)
      /\ Leaf \in DOMAIN leaves /\ leaves[Leaf] \in Bucket
      /\ stem_idx \in Nat \ {0} /\ AtLevel(stem_idx, level) /\ level \in Nat
      /\ RoutedLeaf(request.entry) = Leaf
  BY <1>2, AtTheLeaf
<1>4. /\ pivot \in Int /\ pivot < MaxValue /\ Dim \in 0 .. K - 1
      /\ pivot \in Coords(leaves[Leaf], Dim)
  BY <1>2, PivotsDivide
<1>5. /\ stems \in Seq(Int) /\ leaf_idx_map \in Seq(Nat) /\ max_stem_level \in Int
      /\ max_stem_level >= -1
      /\ Housed(stems, leaf_idx_map, leaves, max_stem_level)
  BY DEF TreeInv, TreeTypeOK, TreeHoused
<1>6. Dim = level % K
  BY DEF Dim
<1>7. /\ ls = Halved(leaves, Leaf, Below(leaves[Leaf], Dim, pivot),
                     AtLeast(leaves[Leaf], Dim, pivot))
      /\ MapAfterSplit = MapSplit(leaf_idx_map, stem_idx, Leaf, new)
      /\ LevelAfterSplit = AtLeastOf(max_stem_level, level)
  BY <1>3 DEF LeavesAfterSplit, Halved, MapAfterSplit, MapSplit, LevelAfterSplit
<1>8. HalvedWell(Bucket, leaves, Leaf, Below(leaves[Leaf], Dim, pivot),
                 AtLeast(leaves[Leaf], Dim, pivot))
  BY <1>2, <1>3, <1>4, <1>5, <1>6, HousedSplit
<1> HIDE DEF ls
<1>9. /\ ls \in Seq(Bucket) /\ DOMAIN ls = 1 .. Len(leaves) + 1
      /\ Len(leaves) \in Nat /\ DOMAIN leaves = 1 .. Len(leaves)
      /\ Leaf # new
      /\ ls[Leaf] = Below(leaves[Leaf], Dim, pivot)
      /\ ls[new] = AtLeast(leaves[Leaf], Dim, pivot)
      /\ \A k \in DOMAIN leaves : k # Leaf => ls[k] = leaves[k]
  <2>1. /\ ls \in Seq(Bucket) /\ Len(ls) = Len(leaves) + 1
        /\ Leaf # new
        /\ ls[Leaf] = Below(leaves[Leaf], Dim, pivot)
        /\ ls[new] = AtLeast(leaves[Leaf], Dim, pivot)
        /\ \A k \in DOMAIN leaves : k # Leaf => ls[k] = leaves[k]
    BY <1>7, <1>8 DEF HalvedWell
  <2>2. QED
    BY <2>1, <1>3, LenProperties
<1>10. ASSUME NEW e \in Entries
       PROVE  /\ RoutedLeaf(e) \in DOMAIN leaves
              /\ SplitMoves(RoutedLeaf(e), RoutedLeaf(e)', Leaf, new,
                            e.point[Dim] >= pivot)
  <2>1. /\ LeafIdx(e.point, stems, leaf_idx_map, max_stem_level) \in DOMAIN leaves
        /\ SplitMoves(LeafIdx(e.point, stems, leaf_idx_map, max_stem_level),
                      LeafIdx(e.point, StemsSplit(stems, stem_idx, pivot),
                              MapSplit(leaf_idx_map, stem_idx, Leaf,
                                       Len(leaves) + 1),
                              AtLeastOf(max_stem_level, level)),
                      Leaf, Len(leaves) + 1, e.point[level % K] >= pivot)
    BY <1>2, <1>3, <1>4, <1>5, <1>6, HousedSplitSettles
  <2>2. RoutedLeaf(e)' = LeafIdx(e.point, stems', leaf_idx_map', max_stem_level')
    BY DEF RoutedLeaf
  <2>3. QED
    BY <2>1, <2>2, <1>1, <1>2, <1>6, <1>7 DEF RoutedLeaf
<1>11. ASSUME NEW e \in Entries
       PROVE  /\ RoutedLeaf(e)' \in DOMAIN ls
              /\ ls[RoutedLeaf(e)'][e] = leaves[RoutedLeaf(e)][e]
              /\ e = request.entry => RoutedLeaf(e)' = t
  <2>1. CASE RoutedLeaf(e) # Leaf
    <3>1. RoutedLeaf(e)' = RoutedLeaf(e)
      BY <2>1, <1>10 DEF SplitMoves
    <3>2. RoutedLeaf(e) \in DOMAIN ls /\ ls[RoutedLeaf(e)] = leaves[RoutedLeaf(e)]
      BY <2>1, <1>9, <1>10
    <3>3. QED
      BY <2>1, <3>1, <3>2, <1>3
  <2>2. CASE RoutedLeaf(e) = Leaf /\ e.point[Dim] >= pivot
    <3>1. RoutedLeaf(e)' = new
      BY <2>2, <1>10 DEF SplitMoves
    <3>2. ls[new][e] = leaves[Leaf][e]
      BY <2>2, <1>9 DEF AtLeast
    <3>3. e = request.entry => t = new
      BY <2>2 DEF SplitTarget
    <3>4. QED
      BY <2>2, <3>1, <3>2, <3>3, <1>9
  <2>3. CASE RoutedLeaf(e) = Leaf /\ ~(e.point[Dim] >= pivot)
    <3>1. RoutedLeaf(e)' = Leaf
      BY <2>3, <1>10 DEF SplitMoves
    <3>2. e.point[Dim] \in Int
      BY <1>4, EntryCoords
    <3>3. e.point[Dim] < pivot
      BY <3>2, <2>3, <1>4
    <3>4. ls[Leaf][e] = leaves[Leaf][e]
      BY <3>3, <1>9 DEF Below
    <3>5. e = request.entry => t = Leaf
      BY <2>3 DEF SplitTarget
    <3>6. QED
      BY <2>3, <3>1, <3>4, <3>5, <1>3, <1>9
  <2>4. QED
    BY <2>1, <2>2, <2>3
<1>12. ASSUME NEW e \in Entries PROVE Hidden'[e] = Hidden[e]
  <2> DEFINE r == RoutedLeaf(e)
             more == IF e = request.entry THEN 1 ELSE 0
  <2>1. /\ TreeContents[e] = Hidden[e] + leaves[r][e]
        /\ Hidden[e] \in Nat /\ leaves[r][e] \in Nat
    BY HiddenCounts DEF HiddenFacts
  <2>2. TreeInv' /\ TreeContents' = With(TreeContents, request.entry)
    BY AddSplitStep
  <2>3. HiddenFacts'
    BY <2>2, HiddenCounts, PTL
  <2>4. /\ TreeContents'[e] = Hidden'[e] + leaves'[r'][e]
        /\ Hidden'[e] \in Nat
    BY <2>3 DEF HiddenFacts
  <2>5. TreeContents'[e] = TreeContents[e] + more
    <3>1. TreeContents \in Bucket
      BY SizesType
    <3>2. QED
      BY <2>2, <3>1, <1>3 DEF With, Bucket
  <2>6. leaves'[r'][e] = leaves[r][e] + more
    <3>1. r' \in DOMAIN ls /\ ls[r'][e] = leaves[r][e]
          /\ (e = request.entry => r' = t)
      BY <1>11
    <3>2. leaves' = [ls EXCEPT ![t] = With(ls[t], request.entry)]
      BY <1>1 DEF ls
    <3>3. ls[r'] \in Bucket
      BY <3>1, <1>9, ElementOfSeq, LenProperties
    <3> HIDE DEF t, r
    <3>4. CASE r' = t
      <4>1. leaves'[r'] = With(ls[r'], request.entry)
        BY <3>1, <3>2, <3>4
      <4>2. With(ls[r'], request.entry)[e] = ls[r'][e] + more
        BY <3>3, <2>1, <3>1 DEF With, Bucket
      <4>3. QED
        BY <4>1, <4>2, <3>1
    <3>5. CASE r' # t
      BY <3>1, <3>2, <3>5, <2>1
    <3>6. QED
      BY <3>4, <3>5
  <2> HIDE DEF r
  <2>7. more \in Nat
    OBVIOUS
  <2> HIDE DEF more
  <2>8. QED
    BY <2>1, <2>4, <2>5, <2>6, <2>7
<1>13. /\ Hidden = [e \in Entries |-> Hidden[e]]
       /\ Hidden' = [e \in Entries |-> Hidden'[e]]
  BY DEF Hidden
<1>14. QED
  BY <1>12, <1>13

(* A construction hides copies only of entries that are tied. *)
HidesTied(h, b) ==
    \A e \in Entries : h[e] \in 0 .. b[e] /\ (h[e] > 0 => Tied(b, e))

LEMMA InstallHides ==
    ASSUME TreeInv, Install
    PROVE  HidesTied(Hidden', TreeContents')
<1>1. /\ phase = "built" /\ leaves' = new_leaves /\ stems' = new_stems
      /\ leaf_idx_map' = MappedFromTerminals(terminals)
      /\ max_stem_level' = actual_max_stem_level
  BY DEF Install
<1>2. TreeInv' /\ TreeContents' = Intended /\ source = Intended
  BY InstallStep DEF TreeInv, UnderConstruction, Install
<1>3. HiddenFacts'
  BY <1>2, HiddenCounts, PTL
<1>4. /\ BuildInv /\ RouteInv /\ new_leaves \in Seq(Bucket)
      /\ new_stems \in Seq(Int)
      /\ actual_max_stem_level \in Int /\ actual_max_stem_level >= -1
  BY DEF TreeInv, BuildInv, TypeOK
<1> DEFINE map == MappedFromTerminals(terminals)
<1>5. /\ Sited(terminals, new_leaves, new_stems, actual_max_stem_level, Untied)
      /\ Maps(map, terminals)
  BY <1>1, <1>4, FinishedTree
<1> SUFFICES ASSUME NEW e \in Entries
             PROVE  /\ Hidden'[e] \in 0 .. TreeContents'[e]
                    /\ Hidden'[e] > 0 => Tied(TreeContents', e)
  BY DEF HidesTied
<1> DEFINE r == LeafIdx(e.point, new_stems, map, actual_max_stem_level)
<1>6. RoutedLeaf(e)' = r
  BY <1>1 DEF RoutedLeaf
<1>7. /\ Hidden'[e] = Held(new_leaves, DOMAIN new_leaves \ {r})[e]
      /\ Hidden'[e] \in Nat /\ new_leaves[r][e] \in Nat
      /\ TreeContents'[e] = Hidden'[e] + new_leaves[r][e]
  BY <1>1, <1>3, <1>6 DEF HiddenFacts
<1> HIDE DEF map
<1>8. ASSUME ~Tied(source, e) PROVE Hidden'[e] = 0
  <2>1. e \in Untied
    BY <1>8 DEF Untied
  <2>2. ASSUME NEW k \in DOMAIN new_leaves \ {r} PROVE new_leaves[k][e] = 0
    <3>1. e \notin Occupied(new_leaves[k])
      BY <2>1, <1>4, <1>5, EntriesAreFound
    <3>2. new_leaves[k] \in Bucket
      BY <1>4, ElementOfSeq, LenProperties
    <3>3. new_leaves[k][e] \in Nat
      BY <3>2 DEF Bucket
    <3>4. QED
      BY <3>1, <3>3 DEF Occupied
  <2>3. Held(new_leaves, DOMAIN new_leaves \ {r})[e] = 0
    <3> HIDE DEF r
    <3> QED
      BY <2>2, HeldNothing
  <2>4. QED
    BY <2>3, <1>7
<1> HIDE DEF r
<1>9. QED
  BY <1>2, <1>7, <1>8

-----------------------------------------------------------------------------
(* The tree as a store.                                                    *)

(* The store's buckets are the tree's. *)
LEMMA StoreOperators ==
    /\ Store!EmptyBucket = EmptyBucket
    /\ Store!NoRequest = NoRequest
    /\ Store!Requests = Requests
    /\ \A b, e : Store!With(b, e) = With(b, e)
    /\ \A b, e, new : Store!Replaced(b, e, new) = Replaced(b, e, new)
    /\ \A b, n : Store!ShareCoordinate(b, n) <=> Crowded(b, n)
    /\ \A h, b : Store!MayBeHidden(h, b) <=> HidesTied(h, b)
<1>1. Store!Entries = Entries
  BY DEF Store!Entries, Entries
<1>2. Store!EmptyBucket = EmptyBucket /\ Store!NoRequest = NoRequest
  BY <1>1 DEF Store!EmptyBucket, EmptyBucket, Store!NoRequest, NoRequest
<1>3. Store!Requests = Requests
  BY <1>1 DEF Store!Requests, Requests
<1>4. \A b, e : Store!With(b, e) = With(b, e)
  BY DEF Store!With, With
<1>5. \A b, e, new : Store!Replaced(b, e, new) = Replaced(b, e, new)
  BY <1>1 DEF Store!Replaced, Replaced
<1>6. \A b : Store!BucketLen(b) = BucketLen(b)
  BY <1>1 DEF Store!BucketLen, BucketLen, Store!Slots, Slots, Store!Cardinality,
              Cardinality
<1>7. \A b, dim : Store!Coords(b, dim) = Coords(b, dim)
  BY <1>1 DEF Store!Coords, Coords, Store!Occupied, Occupied
<1>8. \A b, dim, v : Store!Level(b, dim, v) = Level(b, dim, v)
  BY <1>1 DEF Store!Level, Level
<1>9. \A b, n : Store!ShareCoordinate(b, n) <=> Crowded(b, n)
  BY <1>1, <1>6, <1>7, <1>8 DEF Store!ShareCoordinate, Crowded
<1>10. \A b, e : Store!Tied(b, e) <=> Tied(b, e)
  BY <1>6, <1>8 DEF Store!Tied, Tied
<1>11. \A h, b : Store!MayBeHidden(h, b) <=> HidesTied(h, b)
  BY <1>1, <1>10 DEF Store!MayBeHidden, HidesTied
<1>12. QED
  BY <1>2, <1>3, <1>4, <1>5, <1>9, <1>11

(* Without one entry, one fewer share a coordinate. *)
LEMMA CrowdedByOne ==
    ASSUME NEW b \in Bucket, NEW e \in Entries, Crowded(With(b, e), B + 1)
    PROVE  Crowded(b, B)
<1>1. PICK dim \in 0 .. K - 1 : \E v \in Coords(With(b, e), dim) :
         BucketLen(Level(With(b, e), dim, v)) >= B + 1
  BY DEF Crowded
<1>2. PICK v \in Coords(With(b, e), dim) :
         BucketLen(Level(With(b, e), dim, v)) >= B + 1
  BY <1>1
<1> DEFINE more == Level(With(b, e), dim, v)
           less == Level(b, dim, v)
<1>3. With(b, e) \in Bucket /\ \A g \in Entries : b[g] \in Nat
  BY MutatedLen DEF Bucket
<1>4. more \in Bucket /\ less \in Bucket
  BY <1>3 DEF Bucket, Level
<1>5. With(less, e) \in Bucket /\ BucketLen(With(less, e)) = BucketLen(less) + 1
      /\ BucketLen(less) \in Nat
  <2> HIDE DEF less
  <2> QED
    BY <1>4, MutatedLen, BucketLenType
<1>6. \A g \in Entries : more[g] <= With(less, e)[g]
  <2> TAKE g \in Entries
  <2>1. With(b, e)[g] = b[g] + (IF g = e THEN 1 ELSE 0)
    BY <1>3 DEF With, Bucket
  <2>2. /\ more[g] = IF g.point[dim] = v THEN With(b, e)[g] ELSE 0
        /\ less[g] = IF g.point[dim] = v THEN b[g] ELSE 0
    BY DEF Level
  <2> HIDE DEF more
  <2>3. With(less, e)[g] = less[g] + (IF g = e THEN 1 ELSE 0)
    <3> HIDE DEF less
    <3> QED
      BY <1>4 DEF With, Bucket
  <2> HIDE DEF less
  <2>4. QED
    BY <1>3, <2>1, <2>2, <2>3
<1>7. BucketLen(more) <= BucketLen(With(less, e)) /\ BucketLen(more) \in Nat
  <2> HIDE DEF more, less
  <2> QED
    BY <1>4, <1>5, <1>6, BucketLenMonotone, BucketLenType
<1>8. BucketLen(less) >= B /\ BucketLen(less) > 0
  <2> HIDE DEF less
  <2>1. BucketLen(more) >= B + 1
    BY <1>2
  <2>2. B \in Nat \ {0, 1}
    BY BucketSizeAssumption
  <2> HIDE DEF more
  <2> QED
    BY <1>5, <1>7, <2>1, <2>2
<1>9. PICK f \in Occupied(less) : TRUE
  <2> HIDE DEF less
  <2> QED
    BY <1>4, <1>8, OccupiedLen
<1>10. f \in Occupied(b) /\ f.point[dim] = v
  BY <1>9 DEF Occupied, Level
<1>11. v \in Coords(b, dim)
  BY <1>10 DEF Coords
<1>12. QED
  BY <1>8, <1>11 DEF Crowded

(* What leaves the tree alone leaves alone what it hides. *)
LEMMA SameTreeHidesSame ==
    ASSUME UNCHANGED tree_vars
    PROVE  Hidden' = Hidden
<1>1. /\ leaves' = leaves /\ stems' = stems /\ leaf_idx_map' = leaf_idx_map
      /\ max_stem_level' = max_stem_level
  BY DEF tree_vars
<1>2. QED
  BY <1>1, HiddenSame

(* add refuses where a leafful of entries share the coordinate of the      *)
(* dimension to split: split_leaf.                                         *)
LEMMA UnsplittableImplements ==
    ASSUME TreeInv, AddUnsplittable
    PROVE  Store!RefuseAdd
<1>1. /\ pc = "descend" /\ Leaf # 0 /\ request.op = "add"
      /\ BucketLen(leaves[Leaf]) >= B /\ ~Splittable(leaves[Leaf], Dim)
      /\ Return("unsplittable")
  BY DEF AddUnsplittable, At, Full
<1>2. /\ leaves \in Seq(Bucket) /\ Leaf \in DOMAIN leaves
      /\ leaves[Leaf] \in Bucket /\ level \in Nat
  BY <1>1, AtTheLeaf
<1>3. Dim \in 0 .. K - 1
  BY <1>2, PointsAssumption DEF Dim
<1>4. \A e \in Entries : leaves[Leaf][e] <= TreeContents[e]
  BY <1>2, ElementBelow DEF TreeContents
<1>5. TreeContents \in Bucket /\ B \in Nat /\ B > 0
  BY SizesType, BucketSizeAssumption
<1>6. Crowded(TreeContents, B)
  BY <1>1, <1>2, <1>3, <1>4, <1>5, CrowdedByPart
<1>7. TreeContents' = TreeContents /\ Hidden' = Hidden
  BY UnsplittableStep, SameTreeHidesSame DEF AddUnsplittable
<1>8. QED
  BY <1>1, <1>6, <1>7, StoreOperators DEF Store!RefuseAdd, Store!Return, Return

(* So does the rebuild, or a construction of a tree. *)
LEMMA BuildFailsImplements ==
    ASSUME TreeInv, BuildFails
    PROVE  Store!RefuseAdd \/ Store!RefuseLoad
<1>1. /\ pc = "build" /\ Return("unsplittable")
      /\ request.op \in {"add", "construct"}
  BY DEF BuildFails, TreeInv, CallInv
<1>2. /\ TreeContents' = TreeContents /\ Crowded(Intended, B + 1)
      /\ Hidden' = Hidden
  BY BuildFailsStep, SameTreeHidesSame DEF BuildFails
<1>3. CASE request.op = "construct"
  <2>1. Crowded(request.source, B + 1)
    BY <1>2, <1>3 DEF Intended
  <2>2. QED
    BY <1>1, <1>2, <1>3, <2>1, StoreOperators
       DEF Store!RefuseLoad, Store!Return, Return
<1>4. CASE request.op = "add"
  <2>1. Crowded(With(TreeContents, request.entry), B + 1)
    BY <1>2, <1>4 DEF Intended
  <2>2. request \in Requests
    BY <1>4, RequestTypes DEF TreeInv, TreeTypeOK
  <2>3. request.entry \in Entries /\ TreeContents \in Bucket
    BY <1>4, <2>2, RequestTypes, SizesType
  <2>4. Crowded(TreeContents, B)
    BY <2>1, <2>3, CrowdedByOne
  <2>5. QED
    BY <1>1, <1>2, <1>4, <2>4, StoreOperators
       DEF Store!RefuseAdd, Store!Return, Return
<1>5. QED
  BY <1>1, <1>3, <1>4

(* The tree that was built is the old one with the entry, or the source.   *)
LEMMA InstallImplements ==
    ASSUME TreeInv, Install
    PROVE  Store!Add \/ Store!Load
<1>1. /\ Return("ok") /\ request.op \in {"add", "construct"}
  BY DEF Install, TreeInv, CallInv
<1>2. TreeContents' = Intended /\ HidesTied(Hidden', TreeContents')
  BY InstallStep, InstallHides
<1>3. CASE request.op = "construct"
  BY <1>1, <1>2, <1>3, StoreOperators
     DEF Intended, Store!Load, Store!Return, Return
<1>4. CASE request.op = "add"
  BY <1>1, <1>2, <1>4, StoreOperators
     DEF Intended, Store!Add, Store!Return, Return
<1>5. QED
  BY <1>1, <1>3, <1>4

(* A call is issued where the store takes one. *)
LEMMA IssueImplements ==
    ASSUME TreeInv, Invoke
    PROVE  \E r \in Store!Requests : Store!Issue(r)
<1>1. PICK r \in Requests : \/ r.op # "construct" /\ IssueMutation(r)
                            \/ r.op = "construct" /\ IssueConstruct(r)
  BY DEF Invoke
<1>2. Issue(r)
  BY <1>1 DEF IssueMutation, IssueConstruct
<1>3. /\ TreeContents' = TreeContents /\ Hidden' = Hidden
      /\ r.op = "construct" => TreeContents = EmptyBucket
  BY <1>1, <1>2, IssueStep, SameTreeHidesSame DEF Issue
<1>4. request = NoRequest /\ request' = r /\ reply' = "none"
  BY <1>2 DEF Issue, TreeInv, CallInv
<1>5. Store!Issue(r)
  BY <1>3, <1>4, StoreOperators DEF Store!Issue
<1>6. QED
  BY <1>1, <1>5, StoreOperators

(* add puts its entry where it is looked for. *)
LEMMA AddImplements ==
    ASSUME TreeInv, AddToLeaf \/ AddSplit
    PROVE  Store!Add
<1>1. /\ request.op = "add" /\ Return("ok")
      /\ TreeContents' = With(TreeContents, request.entry)
  BY AddToLeafStep, AddSplitStep DEF AddToLeaf, AddSplit, CanSplit, At
<1>2. Hidden' = Hidden
  <2>1. CASE AddToLeaf
    <3> DEFINE b == With(leaves[Leaf], request.entry)
    <3>1. /\ pc = "descend" /\ Leaf # 0
          /\ leaves' = [leaves EXCEPT ![Leaf] = b]
          /\ UNCHANGED <<stems, leaf_idx_map, max_stem_level>>
      BY <2>1 DEF AddToLeaf, At
    <3>2. leaves[Leaf] \in Bucket
      BY <3>1, AtTheLeaf
    <3>3. \A e \in Entries :
             e.point # request.entry.point => b[e] = leaves[Leaf][e]
      BY <3>2 DEF With, Bucket
    <3> HIDE DEF b
    <3>4. QED
      BY <3>1, <3>3, LeafHidesNothing
  <2>2. CASE AddSplit
    BY <2>2, SplitHidesNothing
  <2>3. QED
    BY <2>1, <2>2
<1>3. QED
  BY <1>1, <1>2, StoreOperators DEF Store!Add, Store!Return, Return

(* remove leaves the copies that are hidden from it. *)
LEMMA RemoveImplements ==
    ASSUME TreeInv, RemoveFromLeaf
    PROVE  Store!Remove
<1> DEFINE b == Without(leaves[Leaf], request.entry)
           h == Held(leaves, DOMAIN leaves \ {Leaf})
<1>1. /\ pc = "descend" /\ Leaf # 0 /\ request.op = "remove" /\ Return("ok")
      /\ leaves' = [leaves EXCEPT ![Leaf] = b]
      /\ UNCHANGED <<stems, leaf_idx_map, max_stem_level>>
  BY DEF RemoveFromLeaf, At
<1>2. /\ request.entry \in Entries /\ leaves[Leaf] \in Bucket
      /\ RoutedLeaf(request.entry) = Leaf
  BY <1>1, AtTheLeaf
<1>3. \A e \in Entries : e.point # request.entry.point => b[e] = leaves[Leaf][e]
  BY <1>2 DEF Without, Bucket
<1>4. Hidden[request.entry] = h[request.entry]
  BY <1>2, HiddenCounts DEF HiddenFacts
<1>5. TreeContents' = [TreeContents EXCEPT ![request.entry] = h[request.entry]]
  BY RemoveStep
<1> HIDE DEF b, h
<1>6. Hidden' = Hidden
  BY <1>1, <1>3, LeafHidesNothing
<1>7. QED
  BY <1>1, <1>4, <1>5, <1>6, StoreOperators
     DEF Store!Remove, Store!Return, Return

(* replace_item replaces a copy it sees, and sees one if there is one that *)
(* is not hidden.                                                          *)
LEMMA ReplaceImplements ==
    ASSUME TreeInv, ReplaceItem
    PROVE  Store!Replace
<1> DEFINE b == Replaced(leaves[Leaf], request.entry, request.new_item)
<1>1. /\ pc = "descend" /\ Leaf # 0 /\ request.op = "replace" /\ Return("ok")
      /\ leaves[Leaf][request.entry] > 0
      /\ leaves' = [leaves EXCEPT ![Leaf] = b]
      /\ UNCHANGED <<stems, leaf_idx_map, max_stem_level>>
  BY DEF ReplaceItem, At
<1>2. /\ request.entry \in Entries /\ leaves[Leaf] \in Bucket
      /\ RoutedLeaf(request.entry) = Leaf
  BY <1>1, AtTheLeaf
<1>3. ASSUME NEW e \in Entries, e.point # request.entry.point
      PROVE  b[e] = leaves[Leaf][e]
  <2> DEFINE f == [request.entry EXCEPT !.item = request.new_item]
  <2>1. f.point = request.entry.point
    BY <1>2 DEF Entries
  <2>2. leaves[Leaf][e] \in Nat
    BY <1>2 DEF Bucket
  <2>3. e # request.entry /\ e # f
    BY <2>1, <1>3
  <2>4. b[e] = leaves[Leaf][e] - 0 + 0
    BY <2>3 DEF Replaced
  <2> HIDE DEF b
  <2>5. QED
    BY <2>2, <2>4
<1>4. Store!Seen(request.entry)
  <2>1. /\ TreeContents[request.entry]
              = Hidden[request.entry] + leaves[Leaf][request.entry]
        /\ Hidden[request.entry] \in Nat /\ leaves[Leaf][request.entry] \in Nat
    BY <1>2, HiddenCounts DEF HiddenFacts
  <2>2. TreeContents[request.entry] > Hidden[request.entry]
    BY <2>1, <1>1
  <2>3. QED
    BY <2>2 DEF Store!Seen
<1>5. TreeContents' = Replaced(TreeContents, request.entry, request.new_item)
  BY ReplaceStep
<1> HIDE DEF b
<1>6. Hidden' = Hidden
  BY <1>1, <1>3, LeafHidesNothing
<1>7. QED
  BY <1>1, <1>4, <1>5, <1>6, StoreOperators
     DEF Store!Replace, Store!Return, Return

LEMMA ReplaceMissingImplements ==
    ASSUME TreeInv, ReplaceItemNotFound
    PROVE  Store!ReplaceMissing
<1>1. /\ pc = "descend" /\ Leaf # 0 /\ request.op = "replace"
      /\ Return("not_found") /\ leaves[Leaf][request.entry] = 0
      /\ UNCHANGED tree_vars
  BY DEF ReplaceItemNotFound, At
<1>2. request.entry \in Entries /\ RoutedLeaf(request.entry) = Leaf
  BY <1>1, AtTheLeaf
<1>3. ~Store!Seen(request.entry)
  <2>1. /\ TreeContents[request.entry]
              = Hidden[request.entry] + leaves[Leaf][request.entry]
        /\ Hidden[request.entry] \in Nat
    BY <1>2, HiddenCounts DEF HiddenFacts
  <2>2. ~(TreeContents[request.entry] > Hidden[request.entry])
    BY <2>1, <1>1
  <2>3. QED
    BY <2>2 DEF Store!Seen
<1>4. TreeContents' = TreeContents /\ Hidden' = Hidden
  BY <1>1, NotFoundStep, SameTreeHidesSame
<1>5. QED
  BY <1>1, <1>3, <1>4, StoreOperators
     DEF Store!ReplaceMissing, Store!Return, Return

(* Every step of the tree is a step of the store or none. *)
LEMMA TreeStepImplements ==
    TreeInv /\ [Next]_vars => [Store!Next]_(Store!store_vars)
<1> SUFFICES ASSUME TreeInv, [Next]_vars
             PROVE  Store!Next \/ UNCHANGED Store!store_vars
  OBVIOUS
<1>1. CASE Invoke
  BY <1>1, IssueImplements DEF Store!Next
<1>2. CASE AddToLeaf \/ AddSplit
  BY <1>2, AddImplements DEF Store!Next
<1>3. CASE AddUnsplittable
  BY <1>3, UnsplittableImplements DEF Store!Next
<1>4. CASE Install \/ BuildFails
  BY <1>4, InstallImplements, BuildFailsImplements DEF Store!Next
<1>5. CASE RemoveFromLeaf
  BY <1>5, RemoveImplements DEF Store!Next
<1>6. CASE ReplaceItem
  BY <1>6, ReplaceImplements DEF Store!Next
<1>7. CASE ReplaceItemNotFound
  BY <1>7, ReplaceMissingImplements DEF Store!Next
<1>8. CASE Descend \/ AddRebuild \/ CollectLeaf \/ BeginRebuild \/ BuildStep
           \/ UNCHANGED vars
  <2>1. UNCHANGED <<tree_vars, request, reply>>
    BY <1>8 DEF Descend, AddRebuild, CollectLeaf, BeginRebuild, BuildStep,
                vars, call_vars
  <2>2. TreeContents' = TreeContents /\ Hidden' = Hidden
    BY <2>1, SameTreeHidesSame DEF TreeContents, tree_vars
  <2>3. QED
    BY <2>1, <2>2 DEF Store!store_vars
<1>9. QED
  BY <1>1, <1>2, <1>3, <1>4, <1>5, <1>6, <1>7, <1>8 DEF Next, Work

(* A mutable tree is the store of PointStore, for every bucket size up to  *)
(* six and every sequence of calls: an add changes what all leaves         *)
(* together store by exactly its entry, and where it can be seen, however  *)
(* many splits it takes; remove takes every copy but those a construction  *)
(* put where the descent does not end, all of entries that share a         *)
(* coordinate with another; replace_item fails only where it sees no copy; *)
(* and an add is refused only where a bucketful of stored entries share a  *)
(* coordinate.                                                             *)
THEOREM TreeImplementsStore == Spec => ImplementsPointStore
<1>1. Init => Store!Init
  <2> SUFFICES ASSUME Init PROVE Store!Init
    OBVIOUS
  <2>1. leaves = <<EmptyBucket>> /\ request = NoRequest /\ reply = "none"
    BY DEF Init
  <2>2. TreeContents = EmptyBucket
    BY <2>1, FoldOne, EmptyBucketLen DEF TreeContents
  <2>3. Hidden = EmptyBucket
    <3>1. HiddenFacts
      BY TreeInvInit, HiddenCounts
    <3>2. ASSUME NEW e \in Entries PROVE Hidden[e] = 0
      <4>1. /\ TreeContents[e] = Hidden[e] + leaves[RoutedLeaf(e)][e]
            /\ Hidden[e] \in Nat /\ leaves[RoutedLeaf(e)][e] \in Nat
        BY <3>1 DEF HiddenFacts
      <4>2. TreeContents[e] = 0
        BY <2>2 DEF EmptyBucket
      <4>3. QED
        BY <4>1, <4>2
    <3>3. Hidden = [e \in Entries |-> Hidden[e]]
      BY DEF Hidden
    <3>4. QED
      BY <3>2, <3>3 DEF EmptyBucket
  <2>4. QED
    BY <2>1, <2>2, <2>3, StoreOperators DEF Store!Init
<1>2. QED
  BY <1>1, TreeInvariant, TreeStepImplements, PTL
     DEF Spec, ImplementsPointStore, Store!Spec
=============================================================================
