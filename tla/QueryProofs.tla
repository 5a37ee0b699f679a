----------------------------- MODULE QueryProofs -----------------------------
(***************************************************************************)
(* Exact queries on a mutable KdTree: a traversal always ends at a leaf,   *)
(* its stack is one path, and, under a metric that adds up over the axes,  *)
(* nothing it prunes was part of the answer.                               *)
(*                                                                         *)
(* First what holds of the operators of exact queries: the stems above a   *)
(* stem, the distances of points and of regions, and the n nearest of what *)
(* was looked at.                                                          *)
(***************************************************************************)
EXTENDS MappedQuery, TreeProofs

-----------------------------------------------------------------------------
(* Stems above a stem.                                                     *)

(* Halving n times leads from stem i to s. *)
Leads(i, s, n) ==
    \E way \in [0 .. n -> Nat] :
        /\ way[0] = i /\ way[n] = s
        /\ \A j \in 0 .. n - 1 : way[j] >= 1 /\ way[j + 1] = way[j] \div 2

(* A stem is among those up from it, with the ones up from its parent. *)
LEMMA UpFrom ==
    /\ StemsUpFrom[0] = {}
    /\ \A i \in Nat \ {0} : /\ i \div 2 \in Nat /\ i \div 2 < i
                            /\ StemsUpFrom[i] = {i} \cup StemsUpFrom[i \div 2]
<1> DEFINE Goes(f) == f = [i \in Nat |-> IF i = 0 THEN {}
                                         ELSE {i} \cup f[i \div 2]]
           up == [i \in Nat |-> {s \in Nat \ {0} : \E n \in Nat : Leads(i, s, n)}]
<1>1. \A i \in Nat \ {0} : i \div 2 \in Nat /\ i \div 2 < i
  OBVIOUS
<1>2. up[0] = {}
  <2>1. SUFFICES ASSUME NEW s \in Nat \ {0}, NEW n \in Nat, Leads(0, s, n)
                 PROVE  FALSE
    OBVIOUS
  <2>2. PICK way \in [0 .. n -> Nat] :
           /\ way[0] = 0 /\ way[n] = s
           /\ \A j \in 0 .. n - 1 : way[j] >= 1 /\ way[j + 1] = way[j] \div 2
    BY <2>1 DEF Leads
  <2>3. CASE n = 0
    BY <2>2, <2>3
  <2>4. CASE n > 0
    <3>1. 0 \in 0 .. n - 1
      BY <2>4
    <3>2. QED
      BY <3>1, <2>2
  <2>5. QED
    BY <2>3, <2>4
<1>3. ASSUME NEW i \in Nat \ {0} PROVE up[i] = {i} \cup up[i \div 2]
  <2>1. i \in up[i]
    <3> DEFINE way == [j \in 0 .. 0 |-> i]
    <3>1. way \in [0 .. 0 -> Nat] /\ way[0] = i /\ 0 .. 0 - 1 = {}
      OBVIOUS
    <3>2. Leads(i, i, 0)
      BY <3>1 DEF Leads
    <3>3. QED
      BY <3>2
  <2>2. ASSUME NEW s \in up[i \div 2] PROVE s \in up[i]
    <3>1. PICK n \in Nat : Leads(i \div 2, s, n)
      BY <2>2, <1>1
    <3>2. PICK way \in [0 .. n -> Nat] :
             /\ way[0] = i \div 2 /\ way[n] = s
             /\ \A j \in 0 .. n - 1 : way[j] >= 1 /\ way[j + 1] = way[j] \div 2
      BY <3>1 DEF Leads
    <3> DEFINE on == [j \in 0 .. n + 1 |-> IF j = 0 THEN i ELSE way[j - 1]]
    <3>3. on \in [0 .. n + 1 -> Nat] /\ on[0] = i /\ on[n + 1] = s
      BY <3>2
    <3>4. ASSUME NEW j \in 0 .. (n + 1) - 1
          PROVE  on[j] >= 1 /\ on[j + 1] = on[j] \div 2
      <4>1. CASE j = 0
        BY <4>1, <3>2
      <4>2. CASE j # 0
        <5>1. j - 1 \in 0 .. n - 1 /\ (j - 1) + 1 = j
          BY <4>2
        <5>2. on[j] = way[j - 1] /\ on[j + 1] = way[j]
          BY <4>2
        <5>3. QED
          BY <5>1, <5>2, <3>2
      <4>3. QED
        BY <4>1, <4>2
    <3> HIDE DEF on
    <3>5. Leads(i, s, n + 1)
      BY <3>3, <3>4 DEF Leads
    <3>6. QED
      BY <3>5, <2>2, <1>1
  <2>3. ASSUME NEW s \in up[i], s # i PROVE s \in up[i \div 2]
    <3>1. PICK n \in Nat : Leads(i, s, n)
      BY <2>3
    <3>2. PICK way \in [0 .. n -> Nat] :
             /\ way[0] = i /\ way[n] = s
             /\ \A j \in 0 .. n - 1 : way[j] >= 1 /\ way[j + 1] = way[j] \div 2
      BY <3>1 DEF Leads
    <3>3. n > 0
      BY <3>2, <2>3
    <3> DEFINE on == [j \in 0 .. n - 1 |-> way[j + 1]]
    <3>4. on \in [0 .. n - 1 -> Nat] /\ on[n - 1] = s /\ on[0] = i \div 2
      <4>1. 0 \in 0 .. n - 1
        BY <3>3
      <4>2. on[0] = way[1] /\ way[1] = way[0] \div 2
        BY <4>1, <3>2
      <4>3. QED
        BY <4>1, <4>2, <3>2
    <3>5. ASSUME NEW j \in 0 .. (n - 1) - 1
          PROVE  on[j] >= 1 /\ on[j + 1] = on[j] \div 2
      BY <3>2
    <3> HIDE DEF on
    <3>6. Leads(i \div 2, s, n - 1)
      BY <3>4, <3>5 DEF Leads
    <3>7. n - 1 \in Nat
      BY <3>3
    <3>8. QED
      BY <3>6, <3>7, <2>3, <1>1
  <2>4. QED
    BY <2>1, <2>2, <2>3
<1>4. Goes(up)
  <2>1. \A i \in Nat : up[i] = IF i = 0 THEN {} ELSE {i} \cup up[i \div 2]
    BY <1>2, <1>3
  <2>2. QED
    BY <2>1
<1>5. StemsUpFrom = CHOOSE f : Goes(f)
  BY DEF StemsUpFrom
<1>6. Goes(StemsUpFrom)
  <2> HIDE DEF Goes, up
  <2> QED
    BY <1>4, <1>5
<1>7. \A i \in Nat : StemsUpFrom[i] = IF i = 0 THEN {}
                                      ELSE {i} \cup StemsUpFrom[i \div 2]
  BY <1>6
<1>8. QED
  BY <1>1, <1>7

(* They are numbered from one to the stem's number, the root is the first, *)
(* and above a stem there is just one of the children of any other stem    *)
(* above it.                                                               *)
Ascent(i) ==
    /\ StemsUpFrom[i] \subseteq 1 .. i
    /\ i > 0 => RootIdx \in StemsUpFrom[i]
    /\ \A s \in Nat \ {0} :
          /\ s \in StemsUpFrom[i] <=> \/ s = i /\ i > 0
                                     \/ LeftChild(s) \in StemsUpFrom[i]
                                     \/ RightChild(s) \in StemsUpFrom[i]
          /\ ~(/\ LeftChild(s) \in StemsUpFrom[i]
               /\ RightChild(s) \in StemsUpFrom[i])

LEMMA UpFromAscends == \A i \in Nat : Ascent(i)
<1> DEFINE bad == {i \in Nat : ~Ascent(i)}
<1>1. SUFFICES ASSUME bad # {} PROVE FALSE
  OBVIOUS
<1>2. PICK i \in bad : \A j \in bad : i <= j
  <2> HIDE DEF bad
  <2>1. bad \in SUBSET Nat
    BY DEF bad
  <2> QED
    BY <1>1, <2>1, LeastNatural
<1>3. i \in Nat /\ ~Ascent(i)
  OBVIOUS
<1>4. i # 0
  <2>1. StemsUpFrom[0] = {}
    BY UpFrom
  <2>2. Ascent(0)
    BY <2>1 DEF Ascent
  <2>3. QED
    BY <2>2, <1>3
<1> DEFINE h == i \div 2
<1>5. h \in Nat /\ h < i /\ StemsUpFrom[i] = {i} \cup StemsUpFrom[h]
  BY <1>3, <1>4, UpFrom
<1>6. i = 2 * h \/ i = 2 * h + 1
  BY <1>3
<1> HIDE DEF h
<1>7. Ascent(h)
  BY <1>5, <1>2
<1>8. StemsUpFrom[h] \subseteq 1 .. h
  BY <1>7 DEF Ascent
<1>9. StemsUpFrom[i] \subseteq 1 .. i
  <2>1. \A s \in StemsUpFrom[h] : s \in 1 .. i
    BY <1>5, <1>8
  <2>2. QED
    BY <2>1, <1>3, <1>4, <1>5
<1>10. RootIdx \in StemsUpFrom[i]
  <2>1. CASE h = 0
    BY <2>1, <1>4, <1>5, <1>6 DEF RootIdx
  <2>2. CASE h > 0
    BY <2>2, <1>5, <1>7 DEF Ascent
  <2>3. QED
    BY <2>1, <2>2, <1>5
<1>11. ASSUME NEW s \in Nat \ {0}
       PROVE  /\ s \in StemsUpFrom[i] <=> \/ s = i /\ i > 0
                                         \/ LeftChild(s) \in StemsUpFrom[i]
                                         \/ RightChild(s) \in StemsUpFrom[i]
              /\ ~(/\ LeftChild(s) \in StemsUpFrom[i]
                   /\ RightChild(s) \in StemsUpFrom[i])
  <2> DEFINE l == 2 * s
             r == 2 * s + 1
  <2>1. l = LeftChild(s) /\ r = RightChild(s)
    BY DEF LeftChild, RightChild
  <2>2. /\ s \in StemsUpFrom[h] <=> \/ s = h /\ h > 0
                                   \/ l \in StemsUpFrom[h]
                                   \/ r \in StemsUpFrom[h]
        /\ ~(l \in StemsUpFrom[h] /\ r \in StemsUpFrom[h])
    BY <1>7, <2>1 DEF Ascent
  <2>3. l \in Nat /\ r \in Nat /\ l > s /\ r > s /\ l # r
    OBVIOUS
  <2>4. i = l \/ i = r <=> h = s
    BY <1>5, <1>6
  <2>5. ~(s \in StemsUpFrom[h] /\ h < s)
    BY <1>8, <1>5
  <2>6. ~(h < l /\ l \in StemsUpFrom[h]) /\ ~(h < r /\ r \in StemsUpFrom[h])
    BY <1>8, <1>5
  <2> HIDE DEF l, r
  <2>7. s \in StemsUpFrom[i] <=> \/ s = i /\ i > 0
                                 \/ l \in StemsUpFrom[i]
                                 \/ r \in StemsUpFrom[i]
    <3>1. i > 0
      BY <1>3, <1>4
    <3>2. s \in StemsUpFrom[i] <=> s = i \/ s \in StemsUpFrom[h]
      BY <1>5
    <3>3. /\ l \in StemsUpFrom[i] <=> l = i \/ l \in StemsUpFrom[h]
          /\ r \in StemsUpFrom[i] <=> r = i \/ r \in StemsUpFrom[h]
      BY <1>5
    <3>4. h = s => h > 0
      BY <1>5
    <3>5. QED
      BY <3>1, <3>2, <3>3, <3>4, <2>2, <2>4
  <2>8. ~(l \in StemsUpFrom[i] /\ r \in StemsUpFrom[i])
    <3>1. ASSUME i = l \/ i = r PROVE h < l /\ h < r
      BY <3>1, <2>3, <2>4
    <3>2. /\ l \in StemsUpFrom[i] <=> l = i \/ l \in StemsUpFrom[h]
          /\ r \in StemsUpFrom[i] <=> r = i \/ r \in StemsUpFrom[h]
      BY <1>5
    <3>3. QED
      BY <3>1, <3>2, <2>2, <2>3, <2>6
  <2>9. QED
    BY <2>1, <2>7, <2>8
<1>12. Ascent(i)
  BY <1>9, <1>10, <1>11 DEF Ascent
<1>13. QED
  BY <1>3, <1>12

-----------------------------------------------------------------------------
(* The regions of stems.                                                   *)

(* A point in the region of a stem is in that of its parent. *)
LEMMA LiesFrom ==
    ASSUME NEW pivots, NEW p, NEW n, NEW depth \in Nat, depth > 0,
           Lies(p, n, depth, pivots)
    PROVE  \E i \in Interior(pivots) :
              /\ Lies(p, i, depth - 1, pivots)
              /\ n \in Ways(i, p[(depth - 1) % K], pivots[i])
<1>1. PICK way \in [0 .. depth -> Nat] :
         /\ way[0] = RootIdx /\ way[depth] = n
         /\ \A j \in 0 .. depth - 1 :
               /\ way[j] \in Interior(pivots)
               /\ way[j + 1] \in Ways(way[j], p[j % K], pivots[way[j]])
  BY DEF Lies
<1> DEFINE last == depth - 1
           up == [j \in 0 .. last |-> way[j]]
<1>2. last \in Nat /\ last \in 0 .. depth - 1 /\ last + 1 = depth
  OBVIOUS
<1>3. up \in [0 .. last -> Nat] /\ up[0] = RootIdx /\ up[last] = way[last]
  BY <1>1, <1>2
<1>4. \A j \in 0 .. last - 1 :
         /\ up[j] \in Interior(pivots)
         /\ up[j + 1] \in Ways(up[j], p[j % K], pivots[up[j]])
  <2> TAKE j \in 0 .. last - 1
  <2>1. j \in 0 .. depth - 1 /\ up[j] = way[j] /\ up[j + 1] = way[j + 1]
    BY <1>2
  <2> QED
    BY <2>1, <1>1
<1> HIDE DEF up
<1>5. Lies(p, way[last], last, pivots)
  BY <1>3, <1>4 DEF Lies
<1>6. way[last] \in Interior(pivots)
      /\ n \in Ways(way[last], p[last % K], pivots[way[last]])
  BY <1>1, <1>2
<1>7. QED
  BY <1>5, <1>6

(* Half of a child is its parent. *)
LEMMA HalfOfAChild ==
    ASSUME NEW h \in Nat \ {0}, NEW i \in {LeftChild(h), RightChild(h)}
    PROVE  i \div 2 = h /\ h < i /\ i # 0
<1>1. (2 * h) \div 2 = h /\ (2 * h + 1) \div 2 = h
  OBVIOUS
<1>2. i = 2 * h \/ i = 2 * h + 1
  BY DEF LeftChild, RightChild
<1>3. i \div 2 = h
  BY <1>1, <1>2
<1>4. h < i /\ i # 0
  BY <1>2
<1>5. QED
  BY <1>3, <1>4

(* What lies in the region of a stem lies in those above it. *)
LEMMA LiesUp ==
    ASSUME NEW pivots \in Seq(Int), NEW p, NEW n, NEW depth \in Nat,
           Lies(p, n, depth, pivots), NEW s \in StemsUpFrom[n]
    PROVE  \E l \in Nat : Lies(p, s, l, pivots)
<1> DEFINE Up(i) == \A a \in StemsUpFrom[i] : \E l \in Nat : Lies(p, a, l, pivots)
           bad == {i \in Nat : ~Up(i) /\ \E l \in Nat : Lies(p, i, l, pivots)}
<1>1. SUFFICES ASSUME bad # {} PROVE FALSE
  <2>1. n \in Nat
    BY LiesLevel
  <2>2. QED
    BY <2>1
<1>2. PICK i \in bad : \A j \in bad : i <= j
  <2> HIDE DEF bad
  <2>1. bad \in SUBSET Nat
    BY DEF bad
  <2> QED
    BY <1>1, <2>1, LeastNatural
<1>3. i \in Nat /\ ~Up(i)
  OBVIOUS
<1>4. PICK l \in Nat : Lies(p, i, l, pivots)
  OBVIOUS
<1>5. CASE l = 0
  <2>1. i = RootIdx
    BY <1>4, <1>5 DEF Lies
  <2>2. \A a \in StemsUpFrom[i] : a = i
    BY <2>1, UpFromAscends DEF Ascent, RootIdx
  <2>3. QED
    BY <2>2, <1>3, <1>4
<1>6. CASE l > 0
  <2>1. PICK h \in Interior(pivots) :
           /\ Lies(p, h, l - 1, pivots)
           /\ i \in Ways(h, p[(l - 1) % K], pivots[h])
    BY <1>4, <1>6, LiesFrom
  <2>2. h \in Nat \ {0} /\ i \in {LeftChild(h), RightChild(h)}
    BY <2>1, InteriorType DEF Ways
  <2>3. i \div 2 = h /\ h < i /\ i # 0
    BY <2>2, HalfOfAChild
  <2>4. StemsUpFrom[i] = {i} \cup StemsUpFrom[h]
    BY <1>3, <2>3, UpFrom
  <2>5. l - 1 \in Nat
    BY <1>6
  <2>6. h \notin bad
    BY <1>2, <2>2, <2>3
  <2>7. Up(h)
    BY <2>1, <2>2, <2>5, <2>6
  <2>8. QED
    BY <2>4, <2>7, <1>3, <1>4
<1>7. QED
  BY <1>5, <1>6

(* Above a stem of a tree all others are interior. *)
LEMMA UpFromInterior ==
    ASSUME NEW pivots \in Seq(Int), NEW terminal, Shape(pivots, terminal),
           NEW n \in terminal \cup Interior(pivots), NEW s \in StemsUpFrom[n]
    PROVE  s = n \/ s \in Interior(pivots)
<1> DEFINE Up(i) == \A a \in StemsUpFrom[i] : a = i \/ a \in Interior(pivots)
           bad == {i \in Nat : ~Up(i) /\ i \in terminal \cup Interior(pivots)}
<1>1. SUFFICES ASSUME bad # {} PROVE FALSE
  <2>1. n \in Nat
    BY InteriorType DEF Shape
  <2>2. QED
    BY <2>1
<1>2. PICK i \in bad : \A j \in bad : i <= j
  <2> HIDE DEF bad
  <2>1. bad \in SUBSET Nat
    BY DEF bad
  <2> QED
    BY <1>1, <2>1, LeastNatural
<1>3. i \in Nat /\ ~Up(i) /\ i \in terminal \cup Interior(pivots)
  OBVIOUS
<1>4. CASE i = RootIdx
  <2>1. \A a \in StemsUpFrom[i] : a = i
    BY <1>4, UpFromAscends DEF Ascent, RootIdx
  <2>2. QED
    BY <2>1, <1>3
<1>5. CASE i # RootIdx
  <2>1. PICK h \in Interior(pivots) : i \in {LeftChild(h), RightChild(h)}
    BY <1>3, <1>5 DEF Shape
  <2>2. h \in Nat \ {0}
    BY InteriorType
  <2>3. i \div 2 = h /\ h < i /\ i # 0
    BY <2>1, <2>2, HalfOfAChild
  <2>4. StemsUpFrom[i] = {i} \cup StemsUpFrom[h]
    BY <1>3, <2>3, UpFrom
  <2>5. Up(h)
    BY <1>2, <2>2, <2>3
  <2>6. QED
    BY <2>4, <2>5, <1>3
<1>6. QED
  BY <1>4, <1>5

-----------------------------------------------------------------------------
(* Distances.                                                              *)

(* Under a metric that adds up, what is combined of the components t.      *)
Area(f, t) == UNION {{d} \X (1 .. f[d]) : d \in t}

LEMMA AreaOfOne ==
    ASSUME NEW f, NEW t, IsFiniteSet(t), \A d \in t : f[d] \in Nat
    PROVE  /\ IsFiniteSet(Area(f, t)) /\ Cardinality(Area(f, t)) \in Nat
           /\ \A d \in t : Cardinality(Area(f, t))
                              = f[d] + Cardinality(Area(f, t \ {d}))
<1>1. ASSUME NEW u \in SUBSET t PROVE IsFiniteSet(Area(f, u))
  <2> DEFINE part(d) == {d} \X (1 .. f[d])
             all == {part(d) : d \in u}
             g == [d \in u |-> part(d)]
  <2>1. IsFiniteSet(all)
    <3>1. g \in [u -> all] /\ \A c \in all : \E d \in u : g[d] = c
      OBVIOUS
    <3>2. IsFiniteSet(u)
      BY FS_Subset
    <3> HIDE DEF g, all
    <3>3. QED
      BY <3>1, <3>2, FiniteImage
  <2>2. \A c \in all : IsFiniteSet(c)
    <3>1. SUFFICES ASSUME NEW d \in u PROVE IsFiniteSet(part(d))
      OBVIOUS
    <3>2. f[d] \in Nat
      OBVIOUS
    <3>3. QED
      BY <3>2, SlotCount
  <2>3. Area(f, u) = UNION all
    BY DEF Area
  <2> HIDE DEF all
  <2>4. QED
    BY <2>1, <2>2, <2>3, FS_UNION
<1>2. IsFiniteSet(Area(f, t)) /\ Cardinality(Area(f, t)) \in Nat
  BY <1>1, FS_CardinalityType
<1>3. ASSUME NEW d \in t
      PROVE  Cardinality(Area(f, t)) = f[d] + Cardinality(Area(f, t \ {d}))
  <2> DEFINE P == {d} \X (1 .. f[d])
             R == Area(f, t \ {d})
  <2>1. Area(f, t) = P \cup R
    BY DEF Area
  <2>2. P \cap R = {}
    <3>1. SUFFICES ASSUME NEW x, x \in P, NEW c \in t \ {d},
                          x \in {c} \X (1 .. f[c])
                   PROVE  FALSE
      BY DEF Area
    <3>2. x[1] = d /\ x[1] = c
      BY <3>1
    <3>3. QED
      BY <3>2
  <2>3. IsFiniteSet(P) /\ Cardinality(P) = f[d]
    BY SlotCount
  <2>4. IsFiniteSet(R)
    BY <1>1
  <2> HIDE DEF P, R
  <2>5. Cardinality(P \cup R) = Cardinality(P) + Cardinality(R)
    BY <2>2, <2>3, <2>4, DisjointCount
  <2>6. QED
    BY <2>1, <2>3, <2>5 DEF R
<1>4. QED
  BY <1>2, <1>3

LEMMA CombinedArea ==
    ASSUME Metric # "Chebyshev", NEW D, IsFiniteSet(D), NEW f \in [D -> Nat]
    PROVE  Combined(f) = Cardinality(Area(f, D))
<1> DEFINE One(t) == CHOOSE d \in t : TRUE
           Gathered(x, acc) == IF Metric # "Chebyshev" THEN acc + x
                             ELSE IF x > acc THEN x ELSE acc
           fold == [t \in SUBSET D |-> Cardinality(Area(f, t))]
           Adds(it) == it = [t \in SUBSET D |->
                               IF t = {} THEN 0
                               ELSE Gathered(f[One(t)], it[t \ {One(t)}])]
           F == FiniteSubsetsOf(D)
           R == StrictSubsetOrdering(D)
<1>1. ASSUME NEW t \in SUBSET D, t # {}
      PROVE  /\ One(t) \in t /\ t \ {One(t)} \in SUBSET D
             /\ Cardinality(Area(f, t))
                   = Cardinality(Area(f, t \ {One(t)})) + f[One(t)]
  <2>1. One(t) \in t
    BY <1>1
  <2> DEFINE x == One(t)
  <2> HIDE DEF One
  <2>2. IsFiniteSet(t) /\ \A d \in t : f[d] \in Nat
    BY FS_Subset
  <2>3. Cardinality(Area(f, t)) = f[x] + Cardinality(Area(f, t \ {x}))
    BY <2>1, <2>2, AreaOfOne
  <2>4. f[x] \in Nat /\ Cardinality(Area(f, t \ {x})) \in Nat
    <3>1. IsFiniteSet(t \ {x}) /\ \A d \in t \ {x} : f[d] \in Nat
      BY <2>2, FS_Subset
    <3>2. QED
      BY <3>1, <2>1, <2>2, AreaOfOne
  <2>5. QED
    BY <2>1, <2>3, <2>4
<1>2. Cardinality(Area(f, {})) = 0
  <2>1. Area(f, {}) = {}
    BY DEF Area
  <2>2. QED
    BY <2>1, FS_EmptySet
<1> HIDE DEF One
<1>3. Adds(fold)
  <2>1. \A t \in SUBSET D : fold[t] = IF t = {} THEN 0
                                      ELSE Gathered(f[One(t)], fold[t \ {One(t)}])
    BY <1>1, <1>2
  <2>2. QED
    BY <2>1
<1>4. ASSUME NEW it, Adds(it) PROVE it[D] = Cardinality(Area(f, D))
  <2> DEFINE bad == {t \in SUBSET D : it[t] # Cardinality(Area(f, t))}
  <2>1. SUFFICES ASSUME bad # {} PROVE FALSE
    OBVIOUS
  <2>2. bad \subseteq F
    BY FS_Subset DEF FiniteSubsetsOf
  <2>3. IsWellFoundedOn(R, F)
    BY FS_StrictSubsetOrderingWellFounded
  <2>4. PICK t \in bad : \A y \in bad : ~(<<y, t>> \in R)
    <3> HIDE DEF bad, R, F
    <3> QED
      BY <2>1, <2>2, <2>3, WFMin
  <2>5. t \in SUBSET D
    OBVIOUS
  <2>6. it[t] = IF t = {} THEN 0 ELSE Gathered(f[One(t)], it[t \ {One(t)}])
    BY <1>4, <2>5
  <2>7. t # {}
    BY <2>6, <1>2
  <2> DEFINE u == t \ {One(t)}
  <2>8. One(t) \in t /\ u \in SUBSET D
        /\ Cardinality(Area(f, t)) = Cardinality(Area(f, u)) + f[One(t)]
    BY <1>1, <2>5, <2>7
  <2>9. it[u] = Cardinality(Area(f, u))
    <3>1. u \subseteq t /\ u # t
      BY <2>8
    <3>2. <<u, t>> \in R
      <4> HIDE DEF u
      <4> QED
        BY <3>1, <2>5, <2>8 DEF StrictSubsetOrdering
    <3>3. u \notin bad
      BY <3>2, <2>4
    <3>4. QED
      BY <2>8, <3>3
  <2>10. it[t] = Cardinality(Area(f, t))
    BY <2>6, <2>7, <2>8, <2>9
  <2>11. QED
    BY <2>10
<1>5. DOMAIN f = D
  OBVIOUS
<1>6. Combined(f) = (CHOOSE it : Adds(it))[DOMAIN f]
  BY DEF Combined, FoldFunction, FoldFunctionOnSet, MapThenFoldSet, One
<1>7. Adds(CHOOSE it : Adds(it))
  <2> HIDE DEF Adds
  <2> QED
    BY <1>3
<1>8. QED
  <2> HIDE DEF Adds
  <2> QED
    BY <1>4, <1>5, <1>6, <1>7

(* It grows with every component. *)
LEMMA CombinedGrows ==
    ASSUME Metric # "Chebyshev", NEW D, IsFiniteSet(D),
           NEW f \in [D -> Nat], NEW g \in [D -> Nat],
           \A d \in D : f[d] <= g[d]
    PROVE  /\ Combined(f) \in Nat /\ Combined(g) \in Nat
           /\ Combined(f) <= Combined(g)
<1>1. Combined(f) = Cardinality(Area(f, D)) /\ Combined(g) = Cardinality(Area(g, D))
  BY CombinedArea
<1>2. /\ IsFiniteSet(Area(f, D)) /\ Cardinality(Area(f, D)) \in Nat
      /\ IsFiniteSet(Area(g, D)) /\ Cardinality(Area(g, D)) \in Nat
  BY AreaOfOne
<1>3. Area(f, D) \subseteq Area(g, D)
  <2>1. ASSUME NEW d \in D PROVE 1 .. f[d] \subseteq 1 .. g[d]
    <3>1. f[d] \in Nat /\ g[d] \in Nat /\ f[d] <= g[d]
      OBVIOUS
    <3>2. QED
      BY <3>1
  <2>2. QED
    BY <2>1 DEF Area
<1>4. Cardinality(Area(f, D)) <= Cardinality(Area(g, D))
  BY <1>2, <1>3, FS_Subset
<1>5. QED
  BY <1>1, <1>2, <1>4

(* And when one is replaced it changes by the difference. *)
LEMMA CombinedMoves ==
    ASSUME Metric # "Chebyshev", NEW D, IsFiniteSet(D), NEW f \in [D -> Nat],
           NEW d \in D, NEW v \in Nat
    PROVE  Combined([f EXCEPT ![d] = v]) = (Combined(f) - f[d]) + v
<1> DEFINE g == [f EXCEPT ![d] = v]
           rest == Cardinality(Area(f, D \ {d}))
<1>1. g \in [D -> Nat] /\ g[d] = v /\ f[d] \in Nat
  OBVIOUS
<1>2. Area(g, D \ {d}) = Area(f, D \ {d})
  <2>1. \A c \in D \ {d} : g[c] = f[c]
    OBVIOUS
  <2> HIDE DEF g
  <2>2. QED
    BY <2>1 DEF Area
<1> HIDE DEF g
<1>3. Cardinality(Area(f, D)) = f[d] + rest
  BY AreaOfOne
<1>4. Cardinality(Area(g, D)) = v + Cardinality(Area(g, D \ {d}))
  BY <1>1, AreaOfOne
<1>5. rest \in Nat
  <2>1. IsFiniteSet(D \ {d})
    BY FS_Subset
  <2>2. QED
    BY <2>1, AreaOfOne
<1>6. Combined(f) = f[d] + rest /\ Combined(g) = v + rest
  BY <1>1, <1>2, <1>3, <1>4, CombinedArea
<1> HIDE DEF rest
<1>7. QED
  BY <1>1, <1>5, <1>6 DEF g

-----------------------------------------------------------------------------
(* Offsets.                                                                *)

(* The distance of a region that is so far away on each axis. *)
Far(t) == Combined([d \in 0 .. K - 1 |-> Dist1(t[d])])

LEMMA AxesFinite == IsFiniteSet(0 .. K - 1)
  BY PointsAssumption, FS_Interval

LEMMA Dist1Grows ==
    ASSUME NEW m \in Nat, NEW n \in Nat
    PROVE  Dist1(m) \in Nat /\ (m <= n => Dist1(m) <= Dist1(n))
<1>1. m * m \in Nat /\ n * n \in Nat
  OBVIOUS
<1>2. m <= n => m * m <= n * n
  <2>1. SUFFICES ASSUME m <= n PROVE m * m <= n * n
    OBVIOUS
  <2>2. m * m <= m * n
    BY <2>1
  <2>3. m * n <= n * n
    BY <2>1
  <2>4. m * n \in Nat
    OBVIOUS
  <2>5. QED
    BY <2>2, <2>3, <2>4, <1>1
<1>3. QED
  BY <1>1, <1>2 DEF Dist1

(* A region farther away on every axis is farther away. *)
LEMMA FarGrows ==
    ASSUME Metric # "Chebyshev", NEW t \in [0 .. K - 1 -> Nat],
           NEW u \in [0 .. K - 1 -> Nat], \A d \in 0 .. K - 1 : t[d] <= u[d]
    PROVE  Far(t) \in Nat /\ Far(u) \in Nat /\ Far(t) <= Far(u)
<1> DEFINE D == 0 .. K - 1
           f == [d \in D |-> Dist1(t[d])]
           g == [d \in D |-> Dist1(u[d])]
<1>1. \A d \in D : /\ Dist1(t[d]) \in Nat /\ Dist1(u[d]) \in Nat
                   /\ Dist1(t[d]) <= Dist1(u[d])
  <2> TAKE d \in D
  <2>1. t[d] \in Nat /\ u[d] \in Nat /\ t[d] <= u[d]
    OBVIOUS
  <2> HIDE DEF D
  <2> QED
    BY <2>1, Dist1Grows
<1>2. f \in [D -> Nat] /\ g \in [D -> Nat] /\ \A d \in D : f[d] <= g[d]
  BY <1>1
<1>3. IsFiniteSet(D)
  BY AxesFinite
<1>4. Far(t) = Combined(f) /\ Far(u) = Combined(g)
  BY DEF Far
<1> HIDE DEF D, f, g
<1>5. QED
  BY <1>2, <1>3, <1>4, CombinedGrows

(* When it moves on one axis its distance changes as the code has it. *)
LEMMA FarMoves ==
    ASSUME Metric # "Chebyshev", NEW t \in [0 .. K - 1 -> Nat],
           NEW d \in 0 .. K - 1, NEW v \in Nat
    PROVE  Far([t EXCEPT ![d] = v]) = (Far(t) - Dist1(t[d])) + Dist1(v)
<1> DEFINE D == 0 .. K - 1
           f == [c \in D |-> Dist1(t[c])]
           moved == [t EXCEPT ![d] = v]
<1>1. \A c \in D : Dist1(t[c]) \in Nat
  <2> TAKE c \in D
  <2>1. t[c] \in Nat
    OBVIOUS
  <2> QED
    BY <2>1, Dist1Grows
<1>2. f \in [D -> Nat] /\ f[d] = Dist1(t[d]) /\ Dist1(v) \in Nat
  BY <1>1, Dist1Grows
<1>3. [c \in D |-> Dist1(moved[c])] = [f EXCEPT ![d] = Dist1(v)]
  OBVIOUS
<1>4. Far(t) = Combined(f) /\ Far(moved) = Combined([f EXCEPT ![d] = Dist1(v)])
  BY <1>3 DEF Far
<1>5. IsFiniteSet(D) /\ d \in D
  BY AxesFinite
<1> HIDE DEF D, f
<1>6. Combined([f EXCEPT ![d] = Dist1(v)]) = (Combined(f) - f[d]) + Dist1(v)
  BY <1>2, <1>5, CombinedMoves
<1>7. QED
  BY <1>2, <1>4, <1>6

(* A point that is no nearer to another on any axis than a region is is no *)
(* nearer than the region.                                                 *)
LEMMA FarIsBelow ==
    ASSUME Metric # "Chebyshev", NEW t \in [0 .. K - 1 -> Nat],
           NEW p \in [0 .. K - 1 -> Int], NEW q \in [0 .. K - 1 -> Int],
           \A d \in 0 .. K - 1 : AbsDiff(p[d], q[d]) >= t[d]
    PROVE  Dist(p, q) \in Nat /\ Far(t) <= Dist(p, q)
<1> DEFINE u == [d \in 0 .. K - 1 |-> AbsDiff(p[d], q[d])]
<1>1. u \in [0 .. K - 1 -> Nat] /\ \A d \in 0 .. K - 1 : t[d] <= u[d]
  <2> SUFFICES ASSUME NEW d \in 0 .. K - 1
               PROVE  AbsDiff(p[d], q[d]) \in Nat /\ t[d] <= AbsDiff(p[d], q[d])
    OBVIOUS
  <2>1. p[d] \in Int /\ q[d] \in Int /\ t[d] \in Nat
    OBVIOUS
  <2>2. AbsDiff(p[d], q[d]) \in Nat
    BY <2>1 DEF AbsDiff
  <2> QED
    BY <2>1, <2>2
<1>2. Dist(p, q) = Far(u)
  <2>1. \A d \in 0 .. K - 1 : u[d] = AbsDiff(p[d], q[d])
    OBVIOUS
  <2> HIDE DEF u
  <2>2. [d \in 0 .. K - 1 |-> Dist1(AbsDiff(p[d], q[d]))]
           = [d \in 0 .. K - 1 |-> Dist1(u[d])]
    BY <2>1
  <2>3. QED
    BY <2>2 DEF Dist, Far
<1> HIDE DEF u
<1>3. QED
  BY <1>1, <1>2, FarGrows

-----------------------------------------------------------------------------
(* Leaves below a stem.                                                    *)

LeavesUnder(stem, map) ==
    {map[t] : t \in {i \in DOMAIN map : map[i] # 0 /\ stem \in StemsUpFrom[i]}}

(* They are those behind the stems from which that stem is reached.        *)
LEMMA LeavesUnderNodes ==
    ASSUME NEW map, NEW nodes \in Seq(Nat), Maps(map, nodes), NEW stem
    PROVE  LeavesUnder(stem, map) = {k \in DOMAIN nodes : stem \in StemsUpFrom[nodes[k]]}
<1>1. \A k \in DOMAIN nodes : k # 0
  BY LenProperties
<1>2. ASSUME NEW k \in LeavesUnder(stem, map)
      PROVE  k \in DOMAIN nodes /\ stem \in StemsUpFrom[nodes[k]]
  <2>1. PICK i \in DOMAIN map : map[i] # 0 /\ stem \in StemsUpFrom[i] /\ k = map[i]
    BY <1>2 DEF LeavesUnder
  <2>2. MappedLeaf(map, i) = k /\ k # 0
    BY <2>1 DEF MappedLeaf
  <2>3. PICK j \in DOMAIN nodes : nodes[j] = i
    BY <2>2 DEF Maps
  <2>4. j = k
    BY <2>2, <2>3 DEF Maps
  <2>5. QED
    BY <2>1, <2>3, <2>4
<1>3. ASSUME NEW k \in DOMAIN nodes, stem \in StemsUpFrom[nodes[k]]
      PROVE  k \in LeavesUnder(stem, map)
  <2>1. MappedLeaf(map, nodes[k]) = k
    BY DEF Maps
  <2>2. nodes[k] \in DOMAIN map /\ map[nodes[k]] = k /\ k # 0
    BY <2>1, <1>1 DEF MappedLeaf
  <2>3. QED
    BY <2>2, <1>3 DEF LeavesUnder
<1>4. QED
  BY <1>2, <1>3

(* Where the leaves of a tree are: all below the root, those below an      *)
(* interior stem below one of its children each, the one behind a          *)
(* terminal stem below that; and what a leaf holds lies in the regions of  *)
(* the stems it is below.                                                  *)
Spread(pivots, map, laid) ==
    /\ LeavesUnder(RootIdx, map) = DOMAIN laid
    /\ \A s \in Interior(pivots) :
          /\ LeavesUnder(s, map) = LeavesUnder(LeftChild(s), map) \cup LeavesUnder(RightChild(s), map)
          /\ LeavesUnder(LeftChild(s), map) \cap LeavesUnder(RightChild(s), map) = {}
    /\ \A s \in Nat \ {0} :
          MappedLeaf(map, s) # 0 => LeavesUnder(s, map) = {MappedLeaf(map, s)}
    /\ \A s : /\ LeavesUnder(s, map) \subseteq DOMAIN laid
              /\ \A k \in LeavesUnder(s, map) : \A e \in Occupied(laid[k]) :
                    \A l \in Nat : AtLevel(s, l) => Lies(e.point, s, l, pivots)

LEMMA HousedSpreads ==
    ASSUME NEW pivots \in Seq(Int), NEW map, NEW laid \in Seq(Bucket), NEW deepest,
           Housed(pivots, map, laid, deepest)
    PROVE  Spread(pivots, map, laid)
<1>1. PICK nodes \in Seq(Nat) : /\ Sited(nodes, laid, pivots, deepest, {})
                                /\ Maps(map, nodes)
  BY DEF Housed
<1> DEFINE terminal == {nodes[k] : k \in DOMAIN nodes}
<1>2. Shape(pivots, terminal) /\ DOMAIN nodes = DOMAIN laid
  <2>1. Len(nodes) = Len(laid) /\ Shape(pivots, terminal)
    BY <1>1 DEF Sited
  <2>2. DOMAIN nodes = 1 .. Len(nodes) /\ DOMAIN laid = 1 .. Len(laid)
    BY LenProperties
  <2>3. QED
    BY <2>1, <2>2
<1>3. \A k \in DOMAIN nodes : nodes[k] \in terminal
  OBVIOUS
<1> HIDE DEF terminal
<1>4. \A k \in DOMAIN nodes :
         /\ nodes[k] \in Nat \ {0} /\ nodes[k] \notin Interior(pivots)
         /\ Ascent(nodes[k])
  <2> TAKE k \in DOMAIN nodes
  <2>1. nodes[k] \in Nat \ {0} /\ nodes[k] \notin Interior(pivots)
    BY <1>2, <1>3 DEF Shape
  <2> QED
    BY <2>1, UpFromAscends
<1>5. \A s : LeavesUnder(s, map) = {k \in DOMAIN nodes : s \in StemsUpFrom[nodes[k]]}
  BY <1>1, LeavesUnderNodes
<1>6. LeavesUnder(RootIdx, map) = DOMAIN laid
  <2>1. \A k \in DOMAIN nodes : RootIdx \in StemsUpFrom[nodes[k]]
    BY <1>4 DEF Ascent
  <2>2. QED
    BY <2>1, <1>2, <1>5
<1>7. ASSUME NEW s \in Interior(pivots)
      PROVE  /\ LeavesUnder(s, map) = LeavesUnder(LeftChild(s), map) \cup LeavesUnder(RightChild(s), map)
             /\ LeavesUnder(LeftChild(s), map) \cap LeavesUnder(RightChild(s), map) = {}
  <2>1. s \in Nat \ {0}
    BY InteriorType
  <2>2. \A k \in DOMAIN nodes :
           /\ s \in StemsUpFrom[nodes[k]]
                 <=> \/ LeftChild(s) \in StemsUpFrom[nodes[k]]
                     \/ RightChild(s) \in StemsUpFrom[nodes[k]]
           /\ ~(/\ LeftChild(s) \in StemsUpFrom[nodes[k]]
                /\ RightChild(s) \in StemsUpFrom[nodes[k]])
    <3> TAKE k \in DOMAIN nodes
    <3>1. s # nodes[k] /\ Ascent(nodes[k])
      BY <1>4
    <3> QED
      BY <3>1, <2>1 DEF Ascent
  <2>3. QED
    BY <2>2, <1>5
<1>8. ASSUME NEW s \in Nat \ {0}, MappedLeaf(map, s) # 0
      PROVE  LeavesUnder(s, map) = {MappedLeaf(map, s)}
  <2>1. PICK j \in DOMAIN nodes : nodes[j] = s
    BY <1>1, <1>8 DEF Maps
  <2>2. MappedLeaf(map, s) = j
    BY <2>1, <1>1 DEF Maps
  <2>3. s \in StemsUpFrom[nodes[j]]
    BY <2>1, <1>4 DEF Ascent
  <2>4. ASSUME NEW k \in DOMAIN nodes, s \in StemsUpFrom[nodes[k]] PROVE k = j
    <3>1. nodes[k] \in terminal \cup Interior(pivots)
      BY <1>3
    <3>2. s = nodes[k] \/ s \in Interior(pivots)
      BY <3>1, <1>2, <2>4, UpFromInterior
    <3>3. s = nodes[k]
      BY <3>2, <2>1, <1>4
    <3>4. QED
      BY <3>3, <2>2, <1>1 DEF Maps
  <2>5. QED
    BY <2>2, <2>3, <2>4, <1>5
<1>9. ASSUME NEW s
      PROVE  /\ LeavesUnder(s, map) \subseteq DOMAIN laid
             /\ \A k \in LeavesUnder(s, map) : \A e \in Occupied(laid[k]) :
                   \A l \in Nat : AtLevel(s, l) => Lies(e.point, s, l, pivots)
  <2>1. LeavesUnder(s, map) \subseteq DOMAIN laid
    BY <1>2, <1>5
  <2>2. ASSUME NEW k \in LeavesUnder(s, map), NEW e \in Occupied(laid[k]), NEW l \in Nat,
               AtLevel(s, l)
        PROVE  Lies(e.point, s, l, pivots)
    <3>1. k \in DOMAIN nodes /\ s \in StemsUpFrom[nodes[k]]
      BY <1>5
    <3>2. PICK depth \in Nat : Lies(e.point, nodes[k], depth, pivots)
      BY <3>1, <1>1 DEF Sited
    <3>3. PICK l2 \in Nat : Lies(e.point, s, l2, pivots)
      BY <3>1, <3>2, LiesUp
    <3>4. AtLevel(s, l2)
      BY <3>3, LiesLevel
    <3>5. l2 = l
      BY <3>4, <2>2, LevelUnique
    <3>6. QED
      BY <3>3, <3>5
  <2>3. QED
    BY <2>1, <2>2
<1>10. QED
  BY <1>6, <1>7, <1>8, <1>9 DEF Spread

-----------------------------------------------------------------------------
(* Where a traversal goes.                                                 *)

(* A stem of the tree, at its level: an interior one or one with a leaf. *)
OnTree(s, l, pivots, map) ==
    /\ s \in Nat \ {0} /\ l \in Nat
    /\ AtLevel(s, l)
    /\ s \in Interior(pivots) \/ MappedLeaf(map, s) # 0

(* The root is on the tree, an interior stem is within the levels of a     *)
(* descent, has no leaf, and its children are on the tree.                 *)
Ground(pivots, map, laid, deepest) ==
    /\ OnTree(RootIdx, 0, pivots, map)
    /\ \A s \in Interior(pivots) : \A l \in Nat :
          OnTree(s, l, pivots, map) =>
             /\ MappedLeaf(map, s) = 0
             /\ l <= deepest
             /\ OnTree(LeftChild(s), l + 1, pivots, map)
             /\ OnTree(RightChild(s), l + 1, pivots, map)
    /\ \A n : MappedLeaf(map, n) # 0 => MappedLeaf(map, n) \in DOMAIN laid

LEMMA HousedGround ==
    ASSUME NEW pivots \in Seq(Int), NEW map, NEW laid \in Seq(Bucket), NEW deepest,
           Housed(pivots, map, laid, deepest)
    PROVE  Ground(pivots, map, laid, deepest) /\ Cut(pivots)
<1>1. PICK nodes \in Seq(Nat) : /\ Sited(nodes, laid, pivots, deepest, {})
                                /\ Maps(map, nodes)
  BY DEF Housed
<1> DEFINE terminal == {nodes[k] : k \in DOMAIN nodes}
<1>2. /\ Shape(pivots, terminal) /\ Within(pivots, deepest) /\ Cut(pivots)
      /\ DOMAIN nodes = DOMAIN laid /\ 0 \notin DOMAIN laid
  <2>1. Len(nodes) = Len(laid)
    BY <1>1 DEF Sited
  <2>2. DOMAIN nodes = 1 .. Len(nodes) /\ DOMAIN laid = 1 .. Len(laid)
        /\ Len(laid) \in Nat
    BY LenProperties
  <2>3. QED
    BY <1>1, <2>1, <2>2 DEF Sited
<1>3. \A n \in terminal : MappedLeaf(map, n) # 0
  <2> TAKE n \in terminal
  <2>1. PICK k \in DOMAIN nodes : n = nodes[k]
    OBVIOUS
  <2> QED
    BY <2>1, <1>1, <1>2 DEF Maps
<1>4. \A i \in Interior(pivots) : MappedLeaf(map, i) = 0
  <2> TAKE i \in Interior(pivots)
  <2>1. \A j \in DOMAIN nodes : nodes[j] # i
    BY <1>2 DEF Shape
  <2> QED
    BY <2>1, <1>1 DEF Maps
<1>5. \A n : MappedLeaf(map, n) # 0 => MappedLeaf(map, n) \in DOMAIN laid
  <2> SUFFICES ASSUME NEW n, MappedLeaf(map, n) # 0
               PROVE  MappedLeaf(map, n) \in DOMAIN laid
    OBVIOUS
  <2>1. PICK k \in DOMAIN nodes : nodes[k] = n
    BY <1>1 DEF Maps
  <2> QED
    BY <2>1, <1>1, <1>2 DEF Maps
<1> HIDE DEF terminal
<1>6. \A n \in terminal \cup Interior(pivots) :
         n \in Nat \ {0} /\ (n \in Interior(pivots) \/ MappedLeaf(map, n) # 0)
  BY <1>2, <1>3, InteriorType DEF Shape
<1>7. OnTree(RootIdx, 0, pivots, map)
  <2>1. RootIdx \in terminal \cup Interior(pivots)
    BY <1>2 DEF Shape
  <2>2. QED
    BY <2>1, <1>6, LevelBelow DEF OnTree
<1>8. ASSUME NEW s \in Interior(pivots), NEW l \in Nat, OnTree(s, l, pivots, map)
      PROVE  /\ MappedLeaf(map, s) = 0
             /\ l <= deepest
             /\ OnTree(LeftChild(s), l + 1, pivots, map)
             /\ OnTree(RightChild(s), l + 1, pivots, map)
  <2>1. s \in Nat \ {0} /\ AtLevel(s, l)
    BY <1>8 DEF OnTree
  <2>2. {LeftChild(s), RightChild(s)} \subseteq terminal \cup Interior(pivots)
    BY <1>2 DEF Shape
  <2>3. \A c \in {LeftChild(s), RightChild(s)} : AtLevel(c, l + 1)
    BY <2>1, LevelBelow
  <2>4. l <= deepest
    BY <2>1, <1>2 DEF Within
  <2>5. \A c \in {LeftChild(s), RightChild(s)} : OnTree(c, l + 1, pivots, map)
    BY <2>2, <2>3, <1>6 DEF OnTree
  <2>6. QED
    BY <2>4, <2>5, <1>4
<1>9. QED
  BY <1>2, <1>5, <1>7, <1>8 DEF Ground

-----------------------------------------------------------------------------
(* Distances of regions.                                                   *)

(* What is combined is a number under each metric. *)
LEMMA CombinedType ==
    ASSUME NEW D, IsFiniteSet(D), NEW f \in [D -> Nat]
    PROVE  Combined(f) \in Nat
<1>1. CASE Metric # "Chebyshev"
  BY <1>1, CombinedGrows
<1>2. CASE Metric = "Chebyshev"
  <2> DEFINE One(t) == CHOOSE d \in t : TRUE
             Gathered(x, acc) == IF Metric # "Chebyshev" THEN acc + x
                               ELSE IF x > acc THEN x ELSE acc
             Highest(t) == CHOOSE m \in {0} \cup {f[d] : d \in t} :
                              \A n \in {0} \cup {f[d] : d \in t} : n <= m
             fold == [t \in SUBSET D |-> Highest(t)]
             Adds(it) == it = [t \in SUBSET D |->
                                 IF t = {} THEN 0
                                 ELSE Gathered(f[One(t)], it[t \ {One(t)}])]
  <2>1. ASSUME NEW t \in SUBSET D
        PROVE  /\ Highest(t) \in Nat
               /\ Highest(t) \in {0} \cup {f[d] : d \in t}
               /\ \A n \in {0} \cup {f[d] : d \in t} : n <= Highest(t)
    <3> DEFINE S == {0} \cup {f[d] : d \in t}
               T == {f[d] : d \in t}
               g == [d \in t |-> f[d]]
    <3>1. S \in SUBSET Nat /\ S # {}
      OBVIOUS
    <3>2. IsFiniteSet(S)
      <4>1. IsFiniteSet(t)
        BY FS_Subset
      <4>2. g \in [t -> T] /\ \A c \in T : \E d \in t : g[d] = c
        OBVIOUS
      <4>3. IsFiniteSet({0})
        BY FS_Singleton
      <4> HIDE DEF T, g
      <4>4. IsFiniteSet(T)
        BY <4>1, <4>2, FiniteImage
      <4>5. IsFiniteSet({0} \cup T)
        BY <4>3, <4>4, FS_Union
      <4>6. QED
        BY <4>5 DEF T
    <3>3. \E m \in S : \A n \in S : n <= m
      <4> HIDE DEF S
      <4> QED
        BY <3>1, <3>2, GreatestMember
    <3>4. Highest(t) \in S /\ \A n \in S : n <= Highest(t)
      BY <3>3
    <3>5. QED
      BY <3>1, <3>4
  <2> HIDE DEF Highest
  <2>2. ASSUME NEW t \in SUBSET D
        PROVE  Highest(t) = IF t = {} THEN 0
                            ELSE Gathered(f[One(t)], Highest(t \ {One(t)}))
    <3>1. CASE t = {}
      BY <3>1, <2>1
    <3>2. CASE t # {}
      <4> DEFINE x == One(t)
                 u == t \ {x}
      <4>1. x \in t
        BY <3>2
      <4> HIDE DEF x
      <4>2. /\ Highest(t) \in Nat /\ Highest(u) \in Nat /\ f[x] \in Nat
            /\ Highest(t) = 0 \/ \E d \in t : Highest(t) = f[d]
            /\ Highest(u) = 0 \/ \E d \in u : Highest(u) = f[d]
            /\ \A d \in t : f[d] <= Highest(t)
            /\ \A d \in u : f[d] <= Highest(u)
        BY <2>1, <4>1
      <4>3. \A d \in t : d = x \/ d \in u
        OBVIOUS
      <4>4. Highest(t) = IF f[x] > Highest(u) THEN f[x] ELSE Highest(u)
        <5>1. f[x] <= Highest(t)
          BY <4>1, <4>2
        <5>2. Highest(u) <= Highest(t)
          BY <4>2
        <5>3. Highest(t) <= f[x] \/ Highest(t) <= Highest(u)
          BY <4>2, <4>3
        <5>4. QED
          BY <4>2, <5>1, <5>2, <5>3
      <4>5. QED
        BY <4>4, <3>2, <1>2 DEF x
    <3>3. QED
      BY <3>1, <3>2
  <2>3. Adds(fold)
    <3> HIDE DEF One
    <3>1. \A t \in SUBSET D : t \ {One(t)} \in SUBSET D
      OBVIOUS
    <3>2. \A t \in SUBSET D : fold[t] = IF t = {} THEN 0
                                        ELSE Gathered(f[One(t)], fold[t \ {One(t)}])
      BY <2>2, <3>1
    <3>3. QED
      BY <3>2
  <2>4. ASSUME NEW it, Adds(it) PROVE it[D] \in Nat
    <3> DEFINE bad == {t \in SUBSET D : it[t] \notin Nat}
               F == FiniteSubsetsOf(D)
               R == StrictSubsetOrdering(D)
    <3>1. SUFFICES ASSUME bad # {} PROVE FALSE
      OBVIOUS
    <3>2. bad \subseteq F
      BY FS_Subset DEF FiniteSubsetsOf
    <3>3. IsWellFoundedOn(R, F)
      BY FS_StrictSubsetOrderingWellFounded
    <3>4. PICK t \in bad : \A y \in bad : ~(<<y, t>> \in R)
      <4> HIDE DEF bad, R, F
      <4> QED
        BY <3>1, <3>2, <3>3, WFMin
    <3>5. t \in SUBSET D /\ it[t] \notin Nat
      OBVIOUS
    <3>6. it[t] = IF t = {} THEN 0 ELSE Gathered(f[One(t)], it[t \ {One(t)}])
      BY <2>4, <3>5
    <3>7. t # {} /\ One(t) \in t
      BY <3>5, <3>6
    <3> DEFINE u == t \ {One(t)}
    <3> HIDE DEF One
    <3>8. u \in SUBSET D /\ u \subseteq t /\ u # t
      BY <3>5, <3>7
    <3>9. it[u] \in Nat
      <4>1. <<u, t>> \in R
        <5> HIDE DEF u
        <5> QED
          BY <3>5, <3>8 DEF StrictSubsetOrdering
      <4>2. QED
        BY <4>1, <3>4, <3>8
    <3>10. f[One(t)] \in Nat
      BY <3>5, <3>7
    <3>11. QED
      BY <3>5, <3>6, <3>7, <3>9, <3>10
  <2>5. Combined(f) = (CHOOSE it : Adds(it))[DOMAIN f]
    BY DEF Combined, FoldFunction, FoldFunctionOnSet, MapThenFoldSet, One
  <2>6. Adds(CHOOSE it : Adds(it))
    <3> HIDE DEF Adds
    <3> QED
      BY <2>3
  <2>7. DOMAIN f = D
    OBVIOUS
  <2>8. QED
    <3> HIDE DEF Adds
    <3> QED
      BY <2>4, <2>5, <2>6, <2>7
<1>3. QED
  BY <1>1, <1>2

Offsets == [0 .. K - 1 -> Nat]

LEMMA FarType ==
    ASSUME Metric # "Chebyshev", NEW t \in [0 .. K - 1 -> Nat]
    PROVE  Far(t) \in Nat
<1>1. \A d \in 0 .. K - 1 : t[d] <= t[d]
  <2> TAKE d \in 0 .. K - 1
  <2>1. t[d] \in Nat
    OBVIOUS
  <2> QED
    BY <2>1
<1>2. QED
  BY <1>1, FarGrows

LEMMA DistType ==
    ASSUME NEW p \in [0 .. K - 1 -> Int], NEW q \in [0 .. K - 1 -> Int]
    PROVE  Dist(p, q) \in Nat
<1> DEFINE u == [d \in 0 .. K - 1 |-> Dist1(AbsDiff(p[d], q[d]))]
<1>1. \A d \in 0 .. K - 1 : Dist1(AbsDiff(p[d], q[d])) \in Nat
  <2> TAKE d \in 0 .. K - 1
  <2>1. p[d] \in Int /\ q[d] \in Int
    OBVIOUS
  <2>2. AbsDiff(p[d], q[d]) \in Nat
    BY <2>1 DEF AbsDiff
  <2> QED
    BY <2>2, Dist1Grows
<1>2. u \in [0 .. K - 1 -> Nat]
  BY <1>1
<1> HIDE DEF u
<1>3. Combined(u) \in Nat
  BY <1>2, AxesFinite, CombinedType
<1>4. QED
  BY <1>3 DEF Dist, u

LEMMA RectDistType ==
    ASSUME NEW r \in Int, NEW o \in Offsets, NEW dim \in 0 .. K - 1, NEW v \in Nat
    PROVE  RectDistAfterUpdate(r, o, dim, v) \in Int
<1>1. [o EXCEPT ![dim] = v] \in [0 .. K - 1 -> Nat]
  BY DEF Offsets
<1>2. Combined([o EXCEPT ![dim] = v]) \in Nat
  BY <1>1, AxesFinite, CombinedType
<1>3. Dist1(o[dim]) \in Nat /\ Dist1(v) \in Nat
  <2>1. o[dim] \in Nat
    BY DEF Offsets
  <2>2. QED
    BY <2>1, Dist1Grows
<1>4. QED
  BY <1>2, <1>3 DEF RectDistAfterUpdate

(* The points in the region of stem s are, on each axis, at least as far   *)
(* from q as t says, and so no nearer than r.                              *)
Region(t, s, l, r, pivots, q) ==
    /\ t \in Offsets
    /\ r \in Int /\ r <= Far(t)
    /\ \A p \in [0 .. K - 1 -> Int] :
          Lies(p, s, l, pivots) =>
             \A d \in 0 .. K - 1 : t[d] <= AbsDiff(p[d], q[d])

LEMMA RegionIsFar ==
    ASSUME Metric # "Chebyshev", NEW q \in [0 .. K - 1 -> Int],
           NEW t, NEW s, NEW l, NEW r, NEW pivots, Region(t, s, l, r, pivots, q),
           NEW p \in [0 .. K - 1 -> Int], Lies(p, s, l, pivots)
    PROVE  r <= Dist(p, q)
<1>1. /\ t \in [0 .. K - 1 -> Nat] /\ r \in Int /\ r <= Far(t)
      /\ \A d \in 0 .. K - 1 : AbsDiff(p[d], q[d]) >= t[d]
  <2>1. \A d \in 0 .. K - 1 : t[d] <= AbsDiff(p[d], q[d])
    BY DEF Region
  <2>2. \A d \in 0 .. K - 1 : AbsDiff(p[d], q[d]) \in Int
    <3> TAKE d \in 0 .. K - 1
    <3>1. p[d] \in Int /\ q[d] \in Int
      OBVIOUS
    <3> QED
      BY <3>1 DEF AbsDiff
  <2>3. t \in [0 .. K - 1 -> Nat] /\ r \in Int /\ r <= Far(t)
    BY DEF Region, Offsets
  <2>4. QED
    BY <2>1, <2>2, <2>3
<1>2. Dist(p, q) \in Nat /\ Far(t) <= Dist(p, q)
  BY <1>1, FarIsBelow
<1>3. Far(t) \in Nat
  BY <1>1, FarType
<1>4. QED
  BY <1>1, <1>2, <1>3

(* The root's region is everywhere. *)
LEMMA RootRegion ==
    ASSUME Metric # "Chebyshev", NEW q \in [0 .. K - 1 -> Int], NEW pivots
    PROVE  NoOff \in Offsets /\ Region(NoOff, RootIdx, 0, 0, pivots, q)
<1>1. NoOff \in [0 .. K - 1 -> Nat] /\ \A d \in 0 .. K - 1 : NoOff[d] = 0
  BY DEF NoOff
<1>2. Far(NoOff) \in Nat /\ 0 <= Far(NoOff)
  BY <1>1, FarType
<1>3. ASSUME NEW p \in [0 .. K - 1 -> Int], NEW d \in 0 .. K - 1
      PROVE  NoOff[d] <= AbsDiff(p[d], q[d])
  <2>1. p[d] \in Int /\ q[d] \in Int
    OBVIOUS
  <2>2. AbsDiff(p[d], q[d]) >= 0
    BY <2>1 DEF AbsDiff
  <2>3. QED
    BY <2>2, <1>1
<1>4. 0 \in Int /\ NoOff \in Offsets
  BY <1>1 DEF Offsets
<1>5. QED
  BY <1>2, <1>3, <1>4 DEF Region

(* What lies in the region of a child lies in its parent's, on that side.  *)
TurnedAt(p, s, c, l, pivots) ==
    Lies(p, s, l, pivots) /\ c \in Ways(s, p[l % K], pivots[s])

LEMMA LiesInChild ==
    ASSUME NEW pivots \in Seq(Int), NEW p, NEW s \in Nat \ {0}, NEW l \in Nat,
           NEW c, c = LeftChild(s) \/ c = RightChild(s), Lies(p, c, l + 1, pivots)
    PROVE  TurnedAt(p, s, c, l, pivots)
<1>1. PICK depth \in Nat : depth = l + 1
  OBVIOUS
<1>2. depth > 0 /\ depth - 1 = l /\ Lies(p, c, depth, pivots)
  BY <1>1
<1>3. \E i \in Interior(pivots) :
         /\ Lies(p, i, depth - 1, pivots)
         /\ c \in Ways(i, p[(depth - 1) % K], pivots[i])
  BY <1>2, LiesFrom
<1>4. PICK i \in Interior(pivots) :
         /\ Lies(p, i, l, pivots)
         /\ c \in Ways(i, p[l % K], pivots[i])
  BY <1>2, <1>3
<1>5. i = s
  <2>1. i \in Nat
    BY <1>4, InteriorType
  <2>2. c = 2 * i \/ c = 2 * i + 1
    BY <1>4 DEF Ways, LeftChild, RightChild
  <2>3. c = 2 * s \/ c = 2 * s + 1
    BY DEF LeftChild, RightChild
  <2>4. QED
    BY <2>1, <2>2, <2>3
<1>6. QED
  BY <1>4, <1>5 DEF TurnedAt

(* The near child keeps what is known of its parent's region; the far one  *)
(* is moved on the axis of the level, and never toward the query, whatever *)
(* larger offset is taken out of the distance.                             *)
Halves(t, s, l, r, pivots, q, offs) ==
    LET dim      == l % K
        is_right == q[dim] >= pivots[s]
        new_off  == AbsDiff(q[dim], pivots[s])
    IN  /\ Region(t, Child(s, is_right), l + 1, r, pivots, q)
        /\ Region([t EXCEPT ![dim] = new_off], Child(s, ~is_right), l + 1,
                  RectDistAfterUpdate(r, offs, dim, new_off), pivots, q)
        /\ t[dim] <= new_off
        /\ new_off \in Nat

LEMMA RegionHalves ==
    ASSUME Metric # "Chebyshev", NEW q \in [0 .. K - 1 -> Int],
           NEW pivots \in Seq(Int), Cut(pivots),
           NEW s \in Interior(pivots), NEW l \in Nat, AtLevel(s, l),
           NEW t, NEW r, Region(t, s, l, r, pivots, q),
           NEW offs \in Offsets, \A d \in 0 .. K - 1 : t[d] <= offs[d]
    PROVE  Halves(t, s, l, r, pivots, q, offs)
<1> DEFINE dim      == l % K
           pivot    == pivots[s]
           is_right == q[dim] >= pivot
           new_off  == AbsDiff(q[dim], pivot)
           moved    == [t EXCEPT ![dim] = new_off]
           rfar     == RectDistAfterUpdate(r, offs, dim, new_off)
<1>1. /\ dim \in 0 .. K - 1 /\ pivot \in Int /\ q[dim] \in Int /\ s \in Nat \ {0}
  BY DimType, InteriorType DEF Interior
<1>2. /\ t \in Offsets /\ t \in [0 .. K - 1 -> Nat] /\ t[dim] \in Nat
      /\ offs[dim] \in Nat /\ t[dim] <= offs[dim]
      /\ r \in Int /\ r <= Far(t)
  BY <1>1 DEF Region, Offsets
<1>3. new_off \in Nat /\ moved \in Offsets
  <2>1. new_off \in Nat
    BY <1>1 DEF AbsDiff
  <2>2. QED
    BY <2>1, <1>2 DEF Offsets
<1>4. ASSUME NEW p \in [0 .. K - 1 -> Int], NEW c \in {LeftChild(s), RightChild(s)},
             Lies(p, c, l + 1, pivots)
      PROVE  /\ Lies(p, s, l, pivots)
             /\ c \in Ways(s, p[dim], pivot)
  <2>1. /\ s \in Nat \ {0} /\ Lies(p, c, l + 1, pivots)
        /\ c = LeftChild(s) \/ c = RightChild(s)
    BY <1>1, <1>4
  <2>2. TurnedAt(p, s, c, l, pivots)
    <3> HIDE DEF dim, pivot, is_right, new_off, moved, rfar
    <3> QED
      BY <2>1, LiesInChild
  <2>3. QED
    BY <2>2 DEF TurnedAt
<1>5. Child(s, is_right) \in {LeftChild(s), RightChild(s)}
      /\ Child(s, ~is_right) \in {LeftChild(s), RightChild(s)}
  BY DEF Child
<1>6. Region(t, Child(s, is_right), l + 1, r, pivots, q)
  <2>1. ASSUME NEW p \in [0 .. K - 1 -> Int],
               Lies(p, Child(s, is_right), l + 1, pivots)
        PROVE  Lies(p, s, l, pivots)
    BY <2>1, <1>4, <1>5
  <2> HIDE DEF is_right
  <2>2. QED
    BY <2>1 DEF Region
<1>7. t[dim] <= new_off
  <2>1. PICK p \in [0 .. K - 1 -> Int] : \E level2 \in Nat :
           Lies(p, s, level2, pivots) /\ p[level2 % K] = pivots[s]
    BY DEF Cut
  <2>2. PICK level2 \in Nat : Lies(p, s, level2, pivots) /\ p[level2 % K] = pivots[s]
    BY <2>1
  <2>3. level2 = l
    BY <2>2, LiesLevel, LevelUnique
  <2>4. t[dim] <= AbsDiff(p[dim], q[dim]) /\ p[dim] = pivot
    BY <2>2, <2>3, <1>1 DEF Region
  <2>5. AbsDiff(pivot, q[dim]) = new_off
    BY <1>1 DEF AbsDiff
  <2>6. QED
    BY <2>4, <2>5
<1>8. ASSUME NEW p \in [0 .. K - 1 -> Int],
             Lies(p, Child(s, ~is_right), l + 1, pivots)
      PROVE  \A d \in 0 .. K - 1 : moved[d] <= AbsDiff(p[d], q[d])
  <2>1. /\ Lies(p, s, l, pivots)
        /\ Child(s, ~is_right) \in Ways(s, p[dim], pivot)
    BY <1>8, <1>4, <1>5
  <2>2. \A d \in 0 .. K - 1 : t[d] <= AbsDiff(p[d], q[d])
    BY <2>1 DEF Region
  <2>3. IF is_right THEN p[dim] <= pivot ELSE p[dim] >= pivot
    <3> DEFINE x == p[dim]
    <3> HIDE DEF x, pivot, is_right
    <3>1. CASE is_right
      BY <2>1, <3>1 DEF Ways, Child
    <3>2. CASE ~is_right
      BY <2>1, <3>2 DEF Ways, Child
    <3>3. QED
      BY <3>1, <3>2 DEF x
  <2>4. new_off <= AbsDiff(p[dim], q[dim])
    <3>1. p[dim] \in Int
      BY <1>1
    <3>2. QED
      BY <3>1, <2>3, <1>1 DEF AbsDiff
  <2>5. TAKE d \in 0 .. K - 1
  <2>6. CASE d = dim
    <3>1. moved[dim] = new_off
      BY <1>1, <1>2
    <3>2. QED
      BY <3>1, <2>4, <2>6
  <2>7. CASE d # dim
    <3>1. moved[d] = t[d]
      BY <2>7, <1>2
    <3>2. QED
      BY <3>1, <2>2
  <2>8. QED
    BY <2>6, <2>7
<1>9. rfar \in Int /\ rfar <= Far(moved)
  <2>1. rfar = (r - Dist1(offs[dim])) + Dist1(new_off)
    BY DEF RectDistAfterUpdate
  <2>2. Far(moved) = (Far(t) - Dist1(t[dim])) + Dist1(new_off)
    BY <1>1, <1>2, <1>3, FarMoves
  <2>3. /\ Dist1(offs[dim]) \in Nat /\ Dist1(t[dim]) \in Nat
        /\ Dist1(new_off) \in Nat
        /\ Dist1(t[dim]) <= Dist1(offs[dim])
    BY <1>2, <1>3, Dist1Grows
  <2>4. Far(t) \in Nat
    BY <1>2, FarType
  <2> HIDE DEF rfar, moved, new_off
  <2>5. QED
    BY <2>1, <2>2, <2>3, <2>4, <1>2
<1>10. Region(moved, Child(s, ~is_right), l + 1, rfar, pivots, q)
  <2> HIDE DEF moved, rfar, is_right
  <2> QED
    BY <1>3, <1>8, <1>9 DEF Region
<1>11. QED
  BY <1>3, <1>6, <1>7, <1>10 DEF Halves

-----------------------------------------------------------------------------
(* Frames.                                                                 *)

LEMMA FrontType ==
    ASSUME NEW S, NEW s \in Seq(S), s # <<>>
    PROVE  /\ Len(s) \in Nat \ {0} /\ DOMAIN s = 1 .. Len(s)
           /\ Front(s) \in Seq(S)
           /\ DOMAIN Front(s) = 1 .. Len(s) - 1
           /\ \A i \in DOMAIN Front(s) : Front(s)[i] = s[i]
           /\ Last(s) = s[Len(s)] /\ Last(s) \in S
<1>1. Len(s) \in Nat \ {0} /\ DOMAIN s = 1 .. Len(s) /\ \A i \in 1 .. Len(s) : s[i] \in S
  BY EmptySeq, LenProperties
<1> DEFINE n == Len(s) - 1
<1>2. n \in Nat /\ 1 .. n \subseteq 1 .. Len(s)
  BY <1>1
<1>3. Front(s) = SubSeq(s, 1, n)
  BY DEF Front
<1> HIDE DEF n
<1>4. /\ SubSeq(s, 1, n) \in Seq(S)
      /\ Len(SubSeq(s, 1, n)) = n
      /\ \A i \in 1 .. n : SubSeq(s, 1, n)[i] = s[i]
  <2>1. \A i \in 1 .. n : s[i] \in S
    BY <1>1, <1>2
  <2>2. /\ SubSeq(s, 1, n) \in Seq(S)
        /\ Len(SubSeq(s, 1, n)) = IF 1 <= n THEN n - 1 + 1 ELSE 0
        /\ \A i \in 1 .. n - 1 + 1 : SubSeq(s, 1, n)[i] = s[1 + i - 1]
    BY <1>2, <2>1, SubSeqProperties
  <2>3. \A i \in 1 .. n : i \in 1 .. n - 1 + 1 /\ 1 + i - 1 = i
    BY <1>2
  <2>4. QED
    BY <2>2, <2>3, <1>2
<1>5. DOMAIN Front(s) = 1 .. n
  BY <1>3, <1>4, LenProperties
<1>6. Last(s) = s[Len(s)] /\ Last(s) \in S
  BY <1>1 DEF Last
<1>7. QED
  BY <1>1, <1>3, <1>4, <1>5, <1>6 DEF n

(* Each frame n has a region ts[n]: the frame's distance is one of that,   *)
(* the frame's own offset is the region's, and on the other axes what the  *)
(* offsets say now, or what the frames above will restore, is no less than *)
(* the region's.                                                           *)
Framed(ts, frames, offs, pivots, q) ==
    /\ ts \in [DOMAIN frames -> Offsets]
    /\ \A n \in DOMAIN frames :
          /\ Region(ts[n], frames[n].stem, frames[n].level, frames[n].rd, pivots, q)
          /\ ts[n][frames[n].restore_dim] = frames[n].old_off
          /\ \A d \in 0 .. K - 1 : d # frames[n].restore_dim => ts[n][d] <= offs[d]
    /\ \A m, n \in DOMAIN frames : m < n =>
          \A d \in 0 .. K - 1 : d # frames[m].restore_dim => ts[m][d] <= ts[n][d]

(* The traversal under way is in a region t, within those of the frames.   *)
Ahead(ts, t, frames, offs, at, r, pivots, q) ==
    /\ Region(t, at.stem, at.level, r, pivots, q)
    /\ \A d \in 0 .. K - 1 : t[d] <= offs[d]
    /\ \A n \in DOMAIN frames :
          \A d \in 0 .. K - 1 : d # frames[n].restore_dim => ts[n][d] <= t[d]

RootFrame == [stem |-> RootIdx, level |-> 0, restore_dim |-> 0, old_off |-> 0,
              rd |-> 0]

(* A query begins with a frame for the root. *)
LEMMA FramedFirst ==
    ASSUME Metric # "Chebyshev", NEW q \in [0 .. K - 1 -> Int], NEW pivots
    PROVE  Framed(<<NoOff>>, <<RootFrame>>, NoOff, pivots, q)
<1>1. NoOff \in Offsets /\ Region(NoOff, RootIdx, 0, 0, pivots, q)
  BY RootRegion
<1>2. \A d \in 0 .. K - 1 : NoOff[d] = 0
  BY DEF NoOff
<1>3. DOMAIN <<RootFrame>> = {1} /\ <<RootFrame>>[1] = RootFrame
      /\ DOMAIN <<NoOff>> = {1} /\ <<NoOff>>[1] = NoOff
      /\ <<NoOff>> = [n \in {1} |-> NoOff]
  OBVIOUS
<1>4. /\ RootFrame.stem = RootIdx /\ RootFrame.level = 0 /\ RootFrame.rd = 0
      /\ RootFrame.restore_dim = 0 /\ RootFrame.old_off = 0
  BY DEF RootFrame
<1>5. 0 \in 0 .. K - 1
  BY PointsAssumption
<1>6. <<NoOff>> \in [DOMAIN <<RootFrame>> -> Offsets]
  BY <1>1, <1>3
<1>7. QED
  BY <1>1, <1>2, <1>3, <1>4, <1>5, <1>6 DEF Framed

(* The frames below the last are as good without it. *)
Lower(ts, frames) == [n \in DOMAIN Front(frames) |-> ts[n]]

LEMMA FramedBelow ==
    ASSUME NEW frames \in Seq(Frame), frames # <<>>, NEW ts, NEW offs,
           NEW pivots, NEW q, Framed(ts, frames, offs, pivots, q)
    PROVE  Framed(Lower(ts, frames), Front(frames), offs, pivots, q)
<1>1. /\ Len(frames) \in Nat /\ DOMAIN frames = 1 .. Len(frames)
      /\ DOMAIN Front(frames) = 1 .. Len(frames) - 1
      /\ \A i \in DOMAIN Front(frames) : Front(frames)[i] = frames[i]
  BY FrontType
<1>2. DOMAIN Front(frames) \subseteq DOMAIN frames
      /\ DOMAIN Front(frames) \subseteq Nat
  BY <1>1
<1>3. \A n \in DOMAIN Front(frames) : Lower(ts, frames)[n] = ts[n]
  BY DEF Lower
<1>4. Lower(ts, frames) \in [DOMAIN Front(frames) -> Offsets]
  BY <1>2 DEF Lower, Framed
<1>5. QED
  BY <1>1, <1>2, <1>3, <1>4 DEF Framed

(* When the last frame is gone on from, its own offset is put back, and    *)
(* then all of them are no less than its region's.                         *)
LEMMA FramedGoesOn ==
    ASSUME NEW frames \in Seq(Frame), frames # <<>>, NEW ts, NEW offs \in Offsets,
           NEW pivots, NEW q, Framed(ts, frames, offs, pivots, q),
           NEW offs2,
           offs2 = [offs EXCEPT ![Last(frames).restore_dim] = Last(frames).old_off]
    PROVE  /\ Framed(Lower(ts, frames), Front(frames), offs2, pivots, q)
           /\ Ahead(Lower(ts, frames), ts[Len(frames)], Front(frames), offs2,
                    [stem |-> Last(frames).stem, level |-> Last(frames).level],
                    Last(frames).rd, pivots, q)
<1> DEFINE k == Len(frames)
           f == frames[k]
           t == ts[k]
<1>1. /\ k \in Nat \ {0} /\ DOMAIN frames = 1 .. k
      /\ DOMAIN Front(frames) = 1 .. k - 1
      /\ \A i \in DOMAIN Front(frames) : Front(frames)[i] = frames[i]
      /\ Last(frames) = f /\ f \in Frame
  BY FrontType
<1>2. /\ DOMAIN Front(frames) \subseteq DOMAIN frames
      /\ \A n \in DOMAIN Front(frames) : n < k
      /\ k \in DOMAIN frames
  BY <1>1
<1>3. /\ f.restore_dim \in 0 .. K - 1 /\ f.old_off \in Nat
  BY <1>1 DEF Frame
<1> HIDE DEF k, f, t
<1>4. \A d \in 0 .. K - 1 :
         offs2[d] = IF d = f.restore_dim THEN f.old_off ELSE offs[d]
  BY <1>1, <1>3 DEF Offsets
<1>5. /\ Region(t, f.stem, f.level, f.rd, pivots, q)
      /\ t[f.restore_dim] = f.old_off /\ t \in Offsets
      /\ \A d \in 0 .. K - 1 : d # f.restore_dim => t[d] <= offs[d]
  BY <1>2 DEF Framed, f, t
<1>6. \A d \in 0 .. K - 1 : t[d] <= offs2[d]
  <2> TAKE d \in 0 .. K - 1
  <2>1. CASE d = f.restore_dim
    BY <2>1, <1>3, <1>4, <1>5
  <2>2. CASE d # f.restore_dim
    BY <2>2, <1>4, <1>5
  <2>3. QED
    BY <2>1, <2>2
<1>7. ASSUME NEW n \in DOMAIN Front(frames), NEW d \in 0 .. K - 1,
             d # frames[n].restore_dim
      PROVE  ts[n][d] <= t[d] /\ ts[n][d] <= offs2[d]
  <2>1. ts[n][d] <= t[d] /\ ts[n][d] <= offs[d]
    BY <1>2, <1>7 DEF Framed, t
  <2>2. CASE d = f.restore_dim
    BY <2>1, <2>2, <1>4, <1>5
  <2>3. CASE d # f.restore_dim
    BY <2>1, <2>3, <1>4
  <2>4. QED
    BY <2>1, <2>2, <2>3
<1>8. Framed(Lower(ts, frames), Front(frames), offs, pivots, q)
  BY FramedBelow
<1>9. \A n \in DOMAIN Front(frames) :
         Lower(ts, frames)[n] = ts[n] /\ Front(frames)[n] = frames[n]
  BY <1>1 DEF Lower
<1>10. Framed(Lower(ts, frames), Front(frames), offs2, pivots, q)
  BY <1>7, <1>8, <1>9 DEF Framed
<1> DEFINE at == [stem |-> f.stem, level |-> f.level]
<1>11. at.stem = f.stem /\ at.level = f.level
  OBVIOUS
<1>12. Ahead(Lower(ts, frames), t, Front(frames), offs2, at, f.rd, pivots, q)
  <2> HIDE DEF at
  <2> QED
    BY <1>5, <1>6, <1>7, <1>9, <1>11 DEF Ahead
<1>13. QED
  BY <1>1, <1>10, <1>12 DEF t, k

(* One level down: what is ahead stays within its region, and a frame for  *)
(* the far child has one too.                                              *)
Upper(ts, frames, moved) ==
    [n \in 1 .. Len(frames) + 1 |-> IF n = Len(frames) + 1 THEN moved ELSE ts[n]]

Descends(ts, t, frames, offs, at, r, pivots, q) ==
    LET dim      == at.level % K
        is_right == q[dim] >= pivots[at.stem]
        new_off  == AbsDiff(q[dim], pivots[at.stem])
        near     == [stem |-> Child(at.stem, is_right), level |-> at.level + 1]
        far      == [stem |-> Child(at.stem, ~is_right), level |-> at.level + 1,
                     restore_dim |-> dim, old_off |-> new_off,
                     rd |-> RectDistAfterUpdate(r, offs, dim, new_off)]
        moved    == [t EXCEPT ![dim] = new_off]
        ts2      == Upper(ts, frames, moved)
    IN  /\ Ahead(ts, t, frames, offs, near, r, pivots, q)
        /\ Framed(ts2, Append(frames, far), offs, pivots, q)
        /\ Ahead(ts2, t, Append(frames, far), offs, near, r, pivots, q)
        /\ Region(moved, far.stem, far.level, far.rd, pivots, q)

LEMMA FramedDescends ==
    ASSUME Metric # "Chebyshev", NEW q \in [0 .. K - 1 -> Int],
           NEW pivots \in Seq(Int), Cut(pivots),
           NEW at, at.stem \in Interior(pivots), at.level \in Nat,
           AtLevel(at.stem, at.level),
           NEW frames \in Seq(Frame), NEW offs \in Offsets, NEW ts, NEW t, NEW r,
           Framed(ts, frames, offs, pivots, q),
           Ahead(ts, t, frames, offs, at, r, pivots, q)
    PROVE  Descends(ts, t, frames, offs, at, r, pivots, q)
<1> DEFINE s        == at.stem
           l        == at.level
           dim      == l % K
           is_right == q[dim] >= pivots[s]
           new_off  == AbsDiff(q[dim], pivots[s])
           near     == [stem |-> Child(s, is_right), level |-> l + 1]
           rfar     == RectDistAfterUpdate(r, offs, dim, new_off)
           far      == [stem |-> Child(s, ~is_right), level |-> l + 1,
                        restore_dim |-> dim, old_off |-> new_off, rd |-> rfar]
           moved    == [t EXCEPT ![dim] = new_off]
           ts2      == Upper(ts, frames, moved)
           frames2  == Append(frames, far)
           k        == Len(frames)
<1>1. /\ near.stem = Child(s, is_right) /\ near.level = l + 1
      /\ far.stem = Child(s, ~is_right) /\ far.level = l + 1
      /\ far.restore_dim = dim /\ far.old_off = new_off /\ far.rd = rfar
  OBVIOUS
<1>2. /\ Region(t, s, l, r, pivots, q) /\ t \in Offsets
      /\ \A d \in 0 .. K - 1 : t[d] <= offs[d]
      /\ \A n \in DOMAIN frames :
            \A d \in 0 .. K - 1 : d # frames[n].restore_dim => ts[n][d] <= t[d]
  BY DEF Ahead, Region
<1>3. Halves(t, s, l, r, pivots, q, offs)
  BY <1>2, RegionHalves
<1>4. dim \in 0 .. K - 1
  BY DimType
<1>5. /\ Region(t, near.stem, near.level, r, pivots, q)
      /\ Region(moved, far.stem, far.level, far.rd, pivots, q)
      /\ t[dim] <= new_off /\ new_off \in Nat
  BY <1>1, <1>3 DEF Halves
<1>6. /\ k \in Nat /\ DOMAIN frames = 1 .. k
      /\ DOMAIN frames2 = 1 .. k + 1
      /\ \A n \in 1 .. k : frames2[n] = frames[n]
      /\ frames2[k + 1] = far
      /\ \A n \in 1 .. k + 1 : n \in 1 .. k \/ n = k + 1
      /\ \A n \in 1 .. k : n # k + 1 /\ n < k + 1 /\ n \in 1 .. k + 1
      /\ k + 1 \in 1 .. k + 1
  <2>1. k \in Nat /\ DOMAIN frames = 1 .. k
    BY LenProperties
  <2> HIDE DEF far
  <2>2. /\ DOMAIN frames2 = 1 .. k + 1
        /\ \A n \in 1 .. k : frames2[n] = frames[n]
        /\ frames2[k + 1] = far
    BY <2>1
  <2>3. QED
    BY <2>1, <2>2
<1>7. moved \in Offsets
  BY <1>2, <1>4, <1>5 DEF Offsets
<1>8. \A d \in 0 .. K - 1 :
         /\ moved[d] = IF d = dim THEN new_off ELSE t[d]
         /\ t[d] <= moved[d] /\ t[d] \in Nat
  <2>1. \A d \in 0 .. K - 1 : moved[d] = IF d = dim THEN new_off ELSE t[d]
    BY <1>2, <1>4 DEF Offsets
  <2>2. \A d \in 0 .. K - 1 : t[d] \in Nat
    BY <1>2 DEF Offsets
  <2> HIDE DEF moved, dim, new_off
  <2>3. QED
    BY <2>1, <2>2, <1>5
<1> HIDE DEF moved, near, far, rfar, new_off, is_right, dim, k
<1>9. /\ \A n \in 1 .. k : ts2[n] = ts[n]
      /\ ts2[k + 1] = moved
      /\ ts \in [1 .. k -> Offsets]
      /\ ts2 \in [1 .. k + 1 -> Offsets]
  <2>1. ts \in [1 .. k -> Offsets]
    BY <1>6 DEF Framed
  <2>2. \A n \in 1 .. k + 1 : ts2[n] = IF n = k + 1 THEN moved ELSE ts[n]
    BY DEF Upper, k
  <2>3. \A n \in 1 .. k + 1 : ts2[n] \in Offsets
    BY <2>1, <2>2, <1>6, <1>7
  <2>4. ts2 = [n \in 1 .. k + 1 |-> ts2[n]]
    BY DEF Upper, k
  <2> HIDE DEF ts2
  <2>5. ts2 \in [1 .. k + 1 -> Offsets]
    BY <2>3, <2>4
  <2>6. QED
    BY <2>1, <2>2, <2>5, <1>6
<1> HIDE DEF ts2, frames2
<1>10. /\ \A n \in 1 .. k :
             /\ Region(ts[n], frames[n].stem, frames[n].level, frames[n].rd, pivots, q)
             /\ ts[n][frames[n].restore_dim] = frames[n].old_off
             /\ \A d \in 0 .. K - 1 : d # frames[n].restore_dim => ts[n][d] <= offs[d]
       /\ \A m, n \in 1 .. k : m < n =>
             \A d \in 0 .. K - 1 : d # frames[m].restore_dim => ts[m][d] <= ts[n][d]
  BY <1>6 DEF Framed
<1>11. ASSUME NEW n \in 1 .. k, NEW d \in 0 .. K - 1, d # frames[n].restore_dim
       PROVE  ts[n][d] <= moved[d]
  <2>1. ts[n][d] <= t[d]
    BY <1>2, <1>6, <1>11
  <2>2. t[d] <= moved[d] /\ t[d] \in Int
    BY <1>8
  <2>3. ts[n] \in Offsets
    BY <1>9
  <2>4. ts[n][d] \in Nat /\ moved[d] \in Nat
    BY <2>3, <1>7 DEF Offsets
  <2>5. QED
    BY <2>1, <2>2, <2>4
<1>12. \A n \in 1 .. k + 1 :
          /\ Region(ts2[n], frames2[n].stem, frames2[n].level, frames2[n].rd, pivots, q)
          /\ ts2[n][frames2[n].restore_dim] = frames2[n].old_off
          /\ \A d \in 0 .. K - 1 :
                d # frames2[n].restore_dim => ts2[n][d] <= offs[d]
  <2> TAKE n \in 1 .. k + 1
  <2>1. CASE n \in 1 .. k
    BY <2>1, <1>6, <1>9, <1>10
  <2>2. CASE n = k + 1
    <3>1. ts2[n] = moved /\ frames2[n] = far
      BY <2>2, <1>6, <1>9
    <3>2. moved[dim] = new_off
      BY <1>4, <1>8
    <3>3. \A d \in 0 .. K - 1 : d # dim => moved[d] <= offs[d]
      BY <1>2, <1>8
    <3>4. QED
      BY <3>1, <3>2, <3>3, <1>1, <1>5
  <2>3. QED
    BY <2>1, <2>2, <1>6
<1>13. ASSUME NEW m \in 1 .. k + 1, NEW n \in 1 .. k + 1, m < n,
              NEW d \in 0 .. K - 1, d # frames2[m].restore_dim
       PROVE  ts2[m][d] <= ts2[n][d]
  <2>1. m \in 1 .. k /\ frames2[m] = frames[m] /\ ts2[m] = ts[m]
    BY <1>6, <1>9, <1>13
  <2>2. CASE n \in 1 .. k
    <3>1. ts2[n] = ts[n]
      BY <2>2, <1>9
    <3>2. QED
      BY <3>1, <2>1, <2>2, <1>10, <1>13
  <2>3. CASE n = k + 1
    <3>1. ts2[n] = moved
      BY <2>3, <1>9
    <3>2. QED
      BY <3>1, <2>1, <1>11, <1>13
  <2>4. QED
    BY <2>2, <2>3, <1>6
<1>14. Framed(ts2, frames2, offs, pivots, q)
  BY <1>6, <1>9, <1>12, <1>13 DEF Framed
<1>15. Ahead(ts, t, frames, offs, near, r, pivots, q)
  BY <1>2, <1>5 DEF Ahead
<1>16. ASSUME NEW n \in 1 .. k + 1, NEW d \in 0 .. K - 1,
              d # frames2[n].restore_dim
       PROVE  ts2[n][d] <= t[d]
  <2>1. CASE n \in 1 .. k
    BY <2>1, <1>2, <1>6, <1>9, <1>16
  <2>2. CASE n = k + 1
    <3>1. ts2[n] = moved /\ d # dim
      BY <2>2, <1>1, <1>6, <1>9, <1>16
    <3>2. moved[d] = t[d] /\ t[d] \in Nat
      BY <3>1, <1>8
    <3>3. QED
      BY <3>1, <3>2
  <2>3. QED
    BY <2>1, <2>2, <1>6
<1>17. Ahead(ts2, t, frames2, offs, near, r, pivots, q)
  BY <1>2, <1>5, <1>6, <1>16 DEF Ahead
<1>18. QED
  BY <1>5, <1>14, <1>15, <1>17
     DEF Descends, ts2, frames2, near, far, rfar, moved, new_off, is_right, dim

(* The frames wait at stems of the tree, each deeper than the one before   *)
(* it, with no leaf below two of them; the traversal is at another, no     *)
(* higher than any.                                                        *)
Waiting(frames, pivots, map) ==
    /\ \A n \in DOMAIN frames :
          OnTree(frames[n].stem, frames[n].level, pivots, map)
    /\ \A m, n \in DOMAIN frames : m < n =>
          /\ frames[m].level < frames[n].level
          /\ LeavesUnder(frames[m].stem, map) \cap LeavesUnder(frames[n].stem, map) = {}

Walking(frames, at, pivots, map) ==
    /\ OnTree(at.stem, at.level, pivots, map)
    /\ \A n \in DOMAIN frames :
          /\ frames[n].level <= at.level
          /\ LeavesUnder(frames[n].stem, map) \cap LeavesUnder(at.stem, map) = {}

(* The leaves below the frames' stems. *)
Owed(frames, map) == UNION {LeavesUnder(frames[n].stem, map) : n \in DOMAIN frames}

LEMMA WaitingBelow ==
    ASSUME NEW frames \in Seq(Frame), frames # <<>>, NEW pivots, NEW map,
           Waiting(frames, pivots, map)
    PROVE  /\ Waiting(Front(frames), pivots, map)
           /\ Walking(Front(frames),
                      [stem |-> Last(frames).stem, level |-> Last(frames).level],
                      pivots, map)
           /\ Owed(frames, map) = Owed(Front(frames), map)
                                     \cup LeavesUnder(Last(frames).stem, map)
<1> DEFINE k == Len(frames)
           f == frames[k]
           at == [stem |-> f.stem, level |-> f.level]
<1>1. /\ k \in Nat \ {0} /\ DOMAIN frames = 1 .. k
      /\ DOMAIN Front(frames) = 1 .. k - 1
      /\ \A i \in DOMAIN Front(frames) : Front(frames)[i] = frames[i]
      /\ Last(frames) = f
  BY FrontType
<1>2. /\ DOMAIN Front(frames) \subseteq DOMAIN frames
      /\ \A n \in DOMAIN Front(frames) : n < k
      /\ k \in DOMAIN frames
      /\ \A n \in DOMAIN frames : n = k \/ n \in DOMAIN Front(frames)
  BY <1>1
<1>3. \A n \in DOMAIN frames : frames[n] \in Frame
  BY LenProperties
<1>4. Waiting(Front(frames), pivots, map)
  BY <1>1, <1>2 DEF Waiting
<1>5. at.stem = f.stem /\ at.level = f.level
  OBVIOUS
<1>6. \A n \in DOMAIN Front(frames) :
         /\ frames[n].level < f.level
         /\ LeavesUnder(frames[n].stem, map) \cap LeavesUnder(f.stem, map) = {}
  BY <1>2 DEF Waiting
<1>7. OnTree(f.stem, f.level, pivots, map)
  BY <1>2 DEF Waiting
<1>8. \A n \in DOMAIN Front(frames) : frames[n].level <= f.level
  <2> TAKE n \in DOMAIN Front(frames)
  <2>1. frames[n].level \in Nat /\ f.level \in Nat
    BY <1>2, <1>3 DEF Frame
  <2>2. frames[n].level < f.level
    BY <1>6
  <2> QED
    BY <2>1, <2>2
<1> HIDE DEF f, at, k
<1>9. Walking(Front(frames), at, pivots, map)
  BY <1>1, <1>5, <1>6, <1>7, <1>8 DEF Walking
<1>10. Owed(frames, map) = Owed(Front(frames), map) \cup LeavesUnder(f.stem, map)
  <2>1. f = frames[k]
    BY DEF f
  <2>2. QED
    BY <2>1, <1>1, <1>2 DEF Owed
<1>11. QED
  BY <1>1, <1>4, <1>9, <1>10 DEF at

(* One level down, with a frame for the other child or without. *)
LEMMA WalkingDown ==
    ASSUME NEW frames \in Seq(Frame), NEW at, NEW pivots, NEW map, NEW laid,
           NEW deepest, Waiting(frames, pivots, map), Walking(frames, at, pivots, map),
           Ground(pivots, map, laid, deepest), Spread(pivots, map, laid),
           at.stem \in Interior(pivots), NEW right \in BOOLEAN,
           NEW f \in Frame, f.stem = Child(at.stem, ~right), f.level = at.level + 1,
           NEW near, near.stem = Child(at.stem, right), near.level = at.level + 1
    PROVE  /\ Walking(frames, near, pivots, map)
           /\ Waiting(Append(frames, f), pivots, map)
           /\ Walking(Append(frames, f), near, pivots, map)
           /\ Owed(Append(frames, f), map) = Owed(frames, map) \cup LeavesUnder(f.stem, map)
           /\ LeavesUnder(at.stem, map)
                 = LeavesUnder(near.stem, map) \cup LeavesUnder(f.stem, map)
<1> DEFINE k == Len(frames)
           more == Append(frames, f)
           L(s) == LeavesUnder(s, map)
<1>1. /\ k \in Nat /\ DOMAIN frames = 1 .. k
      /\ DOMAIN more = 1 .. k + 1
      /\ \A n \in 1 .. k : more[n] = frames[n]
      /\ more[k + 1] = f
      /\ \A n \in 1 .. k + 1 : n \in 1 .. k \/ n = k + 1
      /\ \A n \in 1 .. k : n # k + 1 /\ n < k + 1 /\ n \in 1 .. k + 1
      /\ k + 1 \in 1 .. k + 1
  <2>1. k \in Nat /\ DOMAIN frames = 1 .. k
    BY LenProperties
  <2>2. /\ DOMAIN more = 1 .. k + 1
        /\ \A n \in 1 .. k : more[n] = frames[n]
        /\ more[k + 1] = f
    BY <2>1
  <2>3. QED
    BY <2>1, <2>2
<1>2. /\ OnTree(at.stem, at.level, pivots, map) /\ at.level \in Nat
      /\ \A n \in 1 .. k : frames[n].level <= at.level
                           /\ L(frames[n].stem) \cap L(at.stem) = {}
  BY <1>1 DEF Walking, OnTree
<1>3. /\ OnTree(LeftChild(at.stem), at.level + 1, pivots, map)
      /\ OnTree(RightChild(at.stem), at.level + 1, pivots, map)
  BY <1>2 DEF Ground
<1>4. /\ L(at.stem) = L(LeftChild(at.stem)) \cup L(RightChild(at.stem))
      /\ L(LeftChild(at.stem)) \cap L(RightChild(at.stem)) = {}
  BY DEF Spread
<1> HIDE DEF L
<1>5. \/ near.stem = LeftChild(at.stem) /\ f.stem = RightChild(at.stem)
      \/ near.stem = RightChild(at.stem) /\ f.stem = LeftChild(at.stem)
  BY Zenon DEF Child
<1>6. /\ OnTree(near.stem, near.level, pivots, map)
      /\ OnTree(f.stem, f.level, pivots, map)
      /\ L(at.stem) = L(near.stem) \cup L(f.stem)
      /\ L(near.stem) \cap L(f.stem) = {}
  BY <1>3, <1>4, <1>5
<1>7. \A n \in 1 .. k : /\ frames[n].level < near.level /\ frames[n].level < f.level
                        /\ frames[n].level <= near.level
                        /\ L(frames[n].stem) \cap L(near.stem) = {}
                        /\ L(frames[n].stem) \cap L(f.stem) = {}
  <2> TAKE n \in 1 .. k
  <2>1. frames[n].level \in Nat
    <3>1. frames[n] \in Frame
      BY LenProperties
    <3>2. QED
      BY <3>1 DEF Frame
  <2>2. frames[n].level <= at.level /\ L(frames[n].stem) \cap L(at.stem) = {}
    BY <1>2
  <2>3. L(frames[n].stem) \cap L(near.stem) = {} /\ L(frames[n].stem) \cap L(f.stem) = {}
    BY <2>2, <1>6
  <2>4. frames[n].level < at.level + 1 /\ frames[n].level <= at.level + 1
    BY <2>1, <2>2, <1>2
  <2> QED
    BY <2>3, <2>4
<1>8. Walking(frames, near, pivots, map)
  BY <1>1, <1>6, <1>7 DEF Walking, L
<1>9. Waiting(more, pivots, map)
  <2>1. \A n \in DOMAIN more : OnTree(more[n].stem, more[n].level, pivots, map)
    <3> TAKE n \in DOMAIN more
    <3>1. CASE n \in 1 .. k
      BY <3>1, <1>1 DEF Waiting
    <3>2. CASE n = k + 1
      BY <3>2, <1>1, <1>6
    <3> QED
      BY <3>1, <3>2, <1>1
  <2>2. ASSUME NEW m \in DOMAIN more, NEW n \in DOMAIN more, m < n
        PROVE  /\ more[m].level < more[n].level
               /\ L(more[m].stem) \cap L(more[n].stem) = {}
    <3>1. m \in 1 .. k /\ more[m] = frames[m]
      BY <2>2, <1>1
    <3>2. CASE n \in 1 .. k
      <4>1. more[n] = frames[n]
        BY <3>2, <1>1
      <4>2. /\ frames[m].level < frames[n].level
            /\ L(frames[m].stem) \cap L(frames[n].stem) = {}
        BY <2>2, <3>1, <3>2, <1>1 DEF Waiting, L
      <4>3. QED
        BY <3>1, <4>1, <4>2
    <3>3. CASE n = k + 1
      BY <3>1, <3>3, <1>1, <1>7
    <3>4. QED
      BY <3>2, <3>3, <1>1
  <2> HIDE DEF more
  <2>3. QED
    BY <2>1, <2>2 DEF Waiting, L
<1>10. Walking(more, near, pivots, map)
  <2>1. ASSUME NEW n \in DOMAIN more
        PROVE  more[n].level <= near.level /\ L(more[n].stem) \cap L(near.stem) = {}
    <3>1. CASE n \in 1 .. k
      BY <3>1, <1>1, <1>7
    <3>2. CASE n = k + 1
      <4>1. more[n] = f
        BY <3>2, <1>1
      <4>2. f.level <= near.level
        BY <1>2
      <4>3. QED
        BY <4>1, <4>2, <1>6
    <3>3. QED
      BY <3>1, <3>2, <1>1
  <2> HIDE DEF more
  <2>2. QED
    BY <2>1, <1>6 DEF Walking, L
<1>11. Owed(more, map) = Owed(frames, map) \cup L(f.stem)
  <2> HIDE DEF more, k
  <2> QED
    BY <1>1 DEF Owed, L
<1>12. QED
  BY <1>6, <1>8, <1>9, <1>10, <1>11 DEF L

-----------------------------------------------------------------------------
(* The queries. *)

-----------------------------------------------------------------------------
(* The invariant of the walk, under each metric.                           *)

QueryTypeOK ==
    /\ qpc \in {"none", "pop", "traverse"}
    /\ off \in Offsets
    /\ stack \in Seq(Frame)
    /\ rd \in Int
    /\ results \in Seq(Int)
    /\ qpc # "none" => query \in Queries
    /\ qpc = "none" => stack = <<>> /\ results = <<>>

WalkInv ==
    /\ TreeInv
    /\ QueryTypeOK
    /\ Waiting(stack, stems, leaf_idx_map)
    /\ qpc = "traverse" => Walking(stack, cursor, stems, leaf_idx_map)

-----------------------------------------------------------------------------
(* What the tree gives a query.                                            *)

LEMMA TreeGrounds ==
    ASSUME TreeInv
    PROVE  /\ stems \in Seq(Int) /\ leaves \in Seq(Bucket)
           /\ Ground(stems, leaf_idx_map, leaves, max_stem_level)
           /\ Spread(stems, leaf_idx_map, leaves)
           /\ Cut(stems)
<1>1. /\ stems \in Seq(Int) /\ leaves \in Seq(Bucket)
      /\ Housed(stems, leaf_idx_map, leaves, max_stem_level)
  BY DEF TreeInv, TreeTypeOK, TreeHoused
<1>2. QED
  BY <1>1, HousedGround, HousedSpreads

LEMMA QueryTypes ==
    ASSUME query \in Queries
    PROVE  /\ query.point \in [0 .. K - 1 -> Int] /\ query.max_qty \in Nat \ {0}
           /\ query.radius \in Nat /\ query.exclusive \in BOOLEAN
  BY QueriesAssumption

LEMMA BelowIsUnder == \A s : LeavesBelow(s) = LeavesUnder(s, leaf_idx_map)
  BY DEF LeavesBelow, LeavesUnder

LEMMA PendingIsOwed ==
    PendingLeaves = Owed(stack, leaf_idx_map)
                       \cup (IF qpc = "traverse"
                             THEN LeavesUnder(cursor.stem, leaf_idx_map) ELSE {})
<1>1. \A s : LeavesBelow(s) = LeavesUnder(s, leaf_idx_map)
  BY BelowIsUnder
<1> DEFINE frames == {stack[n].stem : n \in DOMAIN stack}
           here == IF qpc = "traverse" THEN {cursor.stem} ELSE {}
<1>2. PendingLeaves = UNION {LeavesUnder(s, leaf_idx_map) : s \in frames \cup here}
  BY <1>1 DEF PendingLeaves, PendingStems
<1>3. Owed(stack, leaf_idx_map) = UNION {LeavesUnder(s, leaf_idx_map) : s \in frames}
  BY DEF Owed
<1>4. QED
  BY <1>2, <1>3

(* The entries in some leaves: finitely many, each at the distance of a    *)
(* stored point.                                                           *)
LEMMA MeasuredType ==
    ASSUME TreeInv, query \in Queries, NEW ks \in SUBSET DOMAIN leaves
    PROVE  /\ IsFiniteSet(Measured(ks))
           /\ \A x \in Measured(ks) :
                 /\ x.dist \in Nat /\ x.leaf \in ks
                 /\ \E e \in Occupied(leaves[x.leaf]) :
                       /\ e.point \in [0 .. K - 1 -> Int]
                       /\ x.dist = Dist(e.point, query.point)
<1>1. leaves \in Seq(Bucket)
  BY TreeGrounds
<1>2. query.point \in [0 .. K - 1 -> Int]
  BY QueryTypes
<1> DEFINE one(k, s) == [leaf |-> k, slot |-> s, dist |-> Dist(s[1].point, query.point)]
           part(k) == {one(k, s) : s \in Slots(leaves[k])}
           all == {part(k) : k \in ks}
           f == [k \in ks |-> part(k)]
<1>3. Measured(ks) = UNION all
  BY DEF Measured
<1>4. IsFiniteSet(ks)
  <2>1. PICK n \in Nat : n = Len(leaves) /\ DOMAIN leaves = 1 .. n
    BY <1>1, LenProperties
  <2>2. IsFiniteSet(1 .. n)
    BY FS_Interval
  <2>3. QED
    BY <2>1, <2>2, FS_Subset
<1>5. ASSUME NEW k \in ks PROVE IsFiniteSet(part(k))
  <2> DEFINE g == [s \in Slots(leaves[k]) |-> one(k, s)]
  <2>1. leaves[k] \in Bucket
    BY <1>1, LenProperties
  <2>2. IsFiniteSet(Slots(leaves[k]))
    BY <2>1, BucketLenType
  <2>3. g \in [Slots(leaves[k]) -> part(k)]
    OBVIOUS
  <2>4. \A x \in part(k) : \E s \in Slots(leaves[k]) : g[s] = x
    OBVIOUS
  <2> HIDE DEF g, part
  <2>5. QED
    BY <2>2, <2>3, <2>4, FiniteImage
<1>6. IsFiniteSet(all)
  <2>1. f \in [ks -> all] /\ \A c \in all : \E k \in ks : f[k] = c
    OBVIOUS
  <2> HIDE DEF f, all
  <2>2. QED
    BY <2>1, <1>4, FiniteImage
<1>7. IsFiniteSet(Measured(ks))
  <2>1. \A c \in all : IsFiniteSet(c)
    BY <1>5
  <2> HIDE DEF all
  <2>2. QED
    BY <2>1, <1>3, <1>6, FS_UNION
<1>8. ASSUME NEW x \in Measured(ks)
      PROVE  /\ x.dist \in Nat /\ x.leaf \in ks
             /\ \E e \in Occupied(leaves[x.leaf]) :
                   /\ e.point \in [0 .. K - 1 -> Int]
                   /\ x.dist = Dist(e.point, query.point)
  <2>1. PICK k \in ks : \E s \in Slots(leaves[k]) : x = one(k, s)
    BY <1>3
  <2>2. PICK s \in Slots(leaves[k]) : x = one(k, s)
    BY <2>1
  <2>3. PICK e \in Entries : s \in {e} \X (1 .. leaves[k][e])
    BY DEF Slots
  <2>4. s[1] = e /\ s[2] \in 1 .. leaves[k][e]
    BY <2>3
  <2>5. leaves[k] \in Bucket
    BY <1>1, LenProperties
  <2>6. leaves[k][e] \in Nat /\ leaves[k][e] > 0
    BY <2>4, <2>5 DEF Bucket
  <2>7. e \in Occupied(leaves[k])
    BY <2>6 DEF Occupied
  <2>8. e.point \in [0 .. K - 1 -> Int]
    BY PointsAssumption DEF Entries
  <2>9. x.dist = Dist(e.point, query.point) /\ x.leaf = k
    BY <2>2, <2>4
  <2>10. Dist(e.point, query.point) \in Nat
    BY <2>8, <1>2, DistType
  <2>11. QED
    BY <2>7, <2>8, <2>9, <2>10
<1>9. QED
  BY <1>7, <1>8

(* Those accepted can be counted, leaf by leaf. *)
LEMMA AcceptedType ==
    ASSUME TreeInv, query \in Queries, results \in Seq(Int),
           NEW ks \in SUBSET DOMAIN leaves, NEW bound
    PROVE  /\ IsCollection(results, Accepted(ks, bound))
           /\ \A got \in Seq(Int) : IsCollection(got, Accepted(ks, bound))
           /\ \A js \in SUBSET ks :
                 /\ Accepted(js, bound) \subseteq Accepted(ks, bound)
                 /\ Accepted(ks, bound) = Accepted(js, bound)
                                             \cup Accepted(ks \ js, bound)
                 /\ Accepted(js, bound) \cap Accepted(ks \ js, bound) = {}
                 /\ \A x \in Accepted(ks, bound) \ Accepted(js, bound) :
                       x \in Accepted(ks \ js, bound)
<1>1. IsFiniteSet(Measured(ks)) /\ \A x \in Measured(ks) : x.dist \in Nat /\ x.leaf \in ks
  BY MeasuredType
<1>2. IsFiniteSet(Accepted(ks, bound)) /\ \A x \in Accepted(ks, bound) : x.dist \in Int
  <2>1. Accepted(ks, bound) \subseteq Measured(ks)
    BY DEF Accepted
  <2>2. QED
    BY <2>1, <1>1, FS_Subset
<1>3. ASSUME NEW js \in SUBSET ks
      PROVE  /\ Accepted(js, bound) \subseteq Accepted(ks, bound)
             /\ Accepted(ks, bound) = Accepted(js, bound) \cup Accepted(ks \ js, bound)
             /\ Accepted(js, bound) \cap Accepted(ks \ js, bound) = {}
             /\ \A x \in Accepted(ks, bound) \ Accepted(js, bound) :
                   x \in Accepted(ks \ js, bound)
  <2>1. Measured(ks) = Measured(js) \cup Measured(ks \ js)
    <3> DEFINE part(k) == {[leaf |-> k, slot |-> s, dist |-> Dist(s[1].point, query.point)] :
                              s \in Slots(leaves[k])}
    <3>1. /\ Measured(ks) = UNION {part(k) : k \in ks}
          /\ Measured(js) = UNION {part(k) : k \in js}
          /\ Measured(ks \ js) = UNION {part(k) : k \in ks \ js}
      BY DEF Measured
    <3> HIDE DEF part
    <3>2. QED
      BY <3>1
  <2>2. Measured(js) \cap Measured(ks \ js) = {}
    <3>1. js \in SUBSET DOMAIN leaves /\ ks \ js \in SUBSET DOMAIN leaves
      OBVIOUS
    <3>2. /\ \A x \in Measured(js) : x.leaf \in js
          /\ \A x \in Measured(ks \ js) : x.leaf \in ks \ js
      BY <3>1, MeasuredType
    <3>3. QED
      BY <3>2
  <2>3. QED
    BY <2>1, <2>2 DEF Accepted
<1>4. QED
  BY <1>2, <1>3 DEF IsCollection

LEMMA CollectedType ==
    ASSUME TreeInv, query \in Queries, results \in Seq(Int),
           NEW ks \in SUBSET DOMAIN leaves, NEW bound
    PROVE  LET r == NearestAmong(query.max_qty, results, Accepted(ks, bound))
           IN  r \in Seq(Int) /\ Ascending(r) /\ Len(r) <= query.max_qty
<1> DEFINE found == Accepted(ks, bound)
           r == NearestAmong(query.max_qty, results, found)
<1>1. IsCollection(results, found) /\ query.max_qty \in Nat
  BY AcceptedType, QueryTypes
<1> HIDE DEF found
<1>2. Ranks(r, query.max_qty, results, found)
  BY <1>1, NearestRanks
<1> HIDE DEF r
<1>3. /\ r \in Seq(Int) /\ Len(r) <= query.max_qty
      /\ \A i, j \in 1 .. Len(r) : i <= j => r[i] <= r[j]
  BY <1>1, <1>2, RanksAscend
<1>4. QED
  BY <1>3 DEF Ascending, r, found

-----------------------------------------------------------------------------
(* The walk.                                                               *)

(* A traversal that is not at a leaf is at an interior stem within the     *)
(* levels; the leaf of any other stem of the tree is all there is below.   *)
LEMMA AtTheCursor ==
    ASSUME WalkInv, qpc = "traverse"
    PROVE  /\ OnTree(cursor.stem, cursor.level, stems, leaf_idx_map)
           /\ CursorLeaf = 0 => /\ cursor.stem \in Interior(stems)
                                /\ cursor.stem \in DOMAIN stems
                                /\ cursor.level <= max_stem_level
           /\ CursorLeaf # 0 => /\ CursorLeaf \in DOMAIN leaves
                                /\ LeavesBelow(cursor.stem) = {CursorLeaf}
<1>1. OnTree(cursor.stem, cursor.level, stems, leaf_idx_map)
  BY DEF WalkInv, Walking
<1>2. /\ Ground(stems, leaf_idx_map, leaves, max_stem_level)
      /\ Spread(stems, leaf_idx_map, leaves)
  BY TreeGrounds DEF WalkInv
<1>3. cursor.stem \in Nat \ {0} /\ cursor.level \in Nat
      /\ (cursor.stem \in Interior(stems) \/ CursorLeaf # 0)
  BY <1>1 DEF OnTree, CursorLeaf
<1>4. CursorLeaf = 0 => /\ cursor.stem \in Interior(stems)
                        /\ cursor.stem \in DOMAIN stems
                        /\ cursor.level <= max_stem_level
  BY <1>1, <1>2, <1>3 DEF Ground, Interior
<1>5. CursorLeaf # 0 => CursorLeaf \in DOMAIN leaves
  BY <1>2 DEF Ground, CursorLeaf
<1>6. CursorLeaf # 0 => LeavesBelow(cursor.stem) = {CursorLeaf}
  BY <1>2, <1>3, BelowIsUnder DEF Spread, CursorLeaf
<1>7. QED
  BY <1>1, <1>4, <1>5, <1>6

(* The children of the stem it is at, and the frame of the far one. *)
Right     == query.point[CursorDim] >= stems[cursor.stem]
NewOff    == AbsDiff(query.point[CursorDim], stems[cursor.stem])
FarDist   == RectDistAfterUpdate(rd, off, CursorDim, NewOff)
NearStep  == [stem |-> Child(cursor.stem, Right), level |-> cursor.level + 1]
FarFrame  == [stem |-> Child(cursor.stem, ~Right), level |-> cursor.level + 1,
              restore_dim |-> CursorDim, old_off |-> NewOff, rd |-> FarDist]

LEMMA TraverseFacts ==
    ASSUME WalkInv, Traverse
    PROVE  /\ qpc = "traverse" /\ cursor.stem \in Interior(stems)
           /\ cursor.level \in Nat /\ AtLevel(cursor.stem, cursor.level)
           /\ FarFrame \in Frame
           /\ Right \in BOOLEAN
           /\ cursor' = NearStep
           /\ stack' = IF FarDist <= MaxDist THEN Append(stack, FarFrame) ELSE stack
           /\ UNCHANGED <<query, qpc, off, rd, results>>
<1>1. qpc = "traverse" /\ CursorLeaf = 0
  BY DEF Traverse
<1>2. /\ OnTree(cursor.stem, cursor.level, stems, leaf_idx_map)
      /\ cursor.stem \in Interior(stems)
  BY <1>1, AtTheCursor
<1>3. /\ cursor.stem \in Nat \ {0} /\ cursor.level \in Nat
      /\ AtLevel(cursor.stem, cursor.level)
  BY <1>2 DEF OnTree
<1>4. stems[cursor.stem] < MaxValue /\ stems[cursor.stem] \in Int
  BY <1>2, TreeGrounds DEF Interior, WalkInv
<1> DEFINE written == stems[cursor.stem] < MaxValue
           goes == written /\ query.point[CursorDim] >= stems[cursor.stem]
<1>5. /\ cursor' = [stem |-> Child(cursor.stem, goes), level |-> cursor.level + 1]
      /\ stack' = IF written /\ FarDist <= MaxDist
                  THEN Append(stack, [stem |-> Child(cursor.stem, ~goes),
                                      level |-> cursor.level + 1,
                                      restore_dim |-> CursorDim,
                                      old_off |-> NewOff, rd |-> FarDist])
                  ELSE stack
      /\ UNCHANGED <<query, qpc, off, rd, results>>
  BY DEF Traverse, FarDist, NewOff
<1>6. goes = Right /\ written
  BY <1>4 DEF Right
<1>7. cursor' = NearStep
  <2> HIDE DEF goes, written
  <2> QED
    BY <1>5, <1>6 DEF NearStep
<1>8. stack' = IF FarDist <= MaxDist THEN Append(stack, FarFrame) ELSE stack
  <2> HIDE DEF goes, written
  <2>1. stack' = IF written /\ FarDist <= MaxDist THEN Append(stack, FarFrame) ELSE stack
    BY <1>5, <1>6 DEF FarFrame
  <2> QED
    BY <2>1, <1>6
<1>9. FarFrame \in Frame
  <2>1. CursorDim \in 0 .. K - 1
    BY <1>3, DimType DEF CursorDim
  <2>2. query.point \in [0 .. K - 1 -> Int]
    BY <1>1, QueryTypes DEF WalkInv, QueryTypeOK
  <2>3. NewOff \in Nat
    <3>1. query.point[CursorDim] \in Int
      BY <2>1, <2>2
    <3>2. QED
      BY <3>1, <1>4 DEF NewOff, AbsDiff
  <2>4. FarDist \in Int
    BY <2>1, <2>3, RectDistType DEF FarDist, WalkInv, QueryTypeOK
  <2>5. Child(cursor.stem, ~Right) \in Nat
    BY <1>3 DEF Child, LeftChild, RightChild
  <2>6. cursor.level + 1 \in Nat
    BY <1>3
  <2>7. QED
    BY <2>1, <2>3, <2>4, <2>5, <2>6 DEF FarFrame, Frame
<1>10. Right \in BOOLEAN
  BY DEF Right
<1>11. QED
  BY <1>1, <1>2, <1>3, <1>5, <1>7, <1>8, <1>9, <1>10

(* What a level down does to what is still to be looked at. *)
LEMMA TraverseWalks ==
    ASSUME WalkInv, Traverse
    PROVE  /\ Walking(stack, NearStep, stems, leaf_idx_map)
           /\ Waiting(Append(stack, FarFrame), stems, leaf_idx_map)
           /\ Walking(Append(stack, FarFrame), NearStep, stems, leaf_idx_map)
           /\ Owed(Append(stack, FarFrame), leaf_idx_map)
                 = Owed(stack, leaf_idx_map) \cup LeavesUnder(FarFrame.stem, leaf_idx_map)
           /\ LeavesUnder(cursor.stem, leaf_idx_map)
                 = LeavesUnder(NearStep.stem, leaf_idx_map)
                      \cup LeavesUnder(FarFrame.stem, leaf_idx_map)
<1>1. /\ qpc = "traverse" /\ cursor.stem \in Interior(stems)
      /\ FarFrame \in Frame /\ Right \in BOOLEAN
  BY TraverseFacts
<1>2. /\ Ground(stems, leaf_idx_map, leaves, max_stem_level)
      /\ Spread(stems, leaf_idx_map, leaves)
  BY TreeGrounds DEF WalkInv
<1>3. /\ stack \in Seq(Frame)
      /\ Waiting(stack, stems, leaf_idx_map)
      /\ Walking(stack, cursor, stems, leaf_idx_map)
  BY <1>1 DEF WalkInv, QueryTypeOK
<1>4. /\ FarFrame.stem = Child(cursor.stem, ~Right)
      /\ FarFrame.level = cursor.level + 1
  BY DEF FarFrame
<1>5. NearStep.stem = Child(cursor.stem, Right) /\ NearStep.level = cursor.level + 1
  BY DEF NearStep
<1>6. QED
  BY <1>1, <1>2, <1>3, <1>4, <1>5, WalkingDown

LEMMA WalkInit == TreeWithQueriesInit => WalkInv
<1> SUFFICES ASSUME Init, QueryInit PROVE WalkInv
  BY DEF TreeWithQueriesInit
<1>1. TreeInv
  BY TreeInvInit
<1>2. QueryTypeOK
  BY EmptySeq DEF QueryInit, QueryTypeOK, NoOff, Offsets
<1>3. Waiting(stack, stems, leaf_idx_map) /\ qpc # "traverse"
  BY DEF QueryInit, Waiting
<1>4. QED
  BY <1>1, <1>2, <1>3 DEF WalkInv

(* A call of the tree while no query runs. *)
LEMMA WalkOfCall ==
    ASSUME WalkInv, qpc = "none", [Next]_vars, UNCHANGED query_vars
    PROVE  WalkInv'
<1>1. TreeInv'
  BY TreeInvStep DEF WalkInv
<1>2. QueryTypeOK' /\ qpc' = "none" /\ stack' = <<>>
  BY DEF WalkInv, QueryTypeOK, query_vars
<1>3. Waiting(stack', stems', leaf_idx_map')
  BY <1>2 DEF Waiting
<1>4. QED
  BY <1>1, <1>2, <1>3 DEF WalkInv

LEMMA TreeBorrowed ==
    ASSUME TreeInv, UNCHANGED vars
    PROVE  /\ TreeInv'
           /\ stems' = stems /\ leaf_idx_map' = leaf_idx_map /\ leaves' = leaves
           /\ max_stem_level' = max_stem_level
<1>1. TreeInv'
  BY TreeInvStep
<1>2. QED
  BY <1>1 DEF vars, tree_vars

LEMMA WalkBegins ==
    ASSUME WalkInv, NEW q \in Queries, QueryBegin(q), UNCHANGED vars
    PROVE  WalkInv'
<1>1. /\ TreeInv' /\ stems' = stems /\ leaf_idx_map' = leaf_idx_map
  BY TreeBorrowed DEF WalkInv
<1>2. /\ qpc' = "pop" /\ stack' = <<RootFrame>> /\ query' = q /\ off' = NoOff
      /\ UNCHANGED <<cursor, rd, results>>
  BY DEF QueryBegin, RootFrame
<1>3. RootFrame \in Frame
  BY PointsAssumption DEF RootFrame, Frame, RootIdx
<1>4. QueryTypeOK'
  <2>1. <<RootFrame>> \in Seq(Frame) /\ NoOff \in Offsets
    BY <1>3 DEF NoOff, Offsets
  <2>2. QED
    BY <1>2, <2>1 DEF WalkInv, QueryTypeOK
<1>5. Waiting(<<RootFrame>>, stems, leaf_idx_map)
  <2>1. DOMAIN <<RootFrame>> = {1} /\ <<RootFrame>>[1] = RootFrame
    OBVIOUS
  <2>2. OnTree(RootFrame.stem, RootFrame.level, stems, leaf_idx_map)
    BY TreeGrounds DEF WalkInv, Ground, RootFrame
  <2>3. QED
    BY <2>1, <2>2 DEF Waiting
<1>6. QED
  BY <1>1, <1>2, <1>4, <1>5 DEF WalkInv

LEMMA WalkPops ==
    ASSUME WalkInv, PopPruned \/ PopVisited, UNCHANGED vars
    PROVE  WalkInv'
<1>1. /\ TreeInv' /\ stems' = stems /\ leaf_idx_map' = leaf_idx_map
  BY TreeBorrowed DEF WalkInv
<1>2. /\ qpc = "pop" /\ stack # <<>> /\ stack' = Front(stack)
      /\ UNCHANGED <<query, results>>
  BY DEF PopPruned, PopVisited
<1>3. /\ stack \in Seq(Frame) /\ Waiting(stack, stems, leaf_idx_map)
      /\ off \in Offsets
  BY DEF WalkInv, QueryTypeOK
<1>4. Last(stack) \in Frame /\ Front(stack) \in Seq(Frame)
  BY <1>2, <1>3, FrontType
<1>5. /\ Waiting(Front(stack), stems, leaf_idx_map)
      /\ Walking(Front(stack),
                 [stem |-> Last(stack).stem, level |-> Last(stack).level],
                 stems, leaf_idx_map)
  BY <1>2, <1>3, WaitingBelow
<1>6. CASE PopPruned
  <2>1. qpc' = "pop" /\ off' = off /\ rd' = rd
    BY <1>2, <1>6 DEF PopPruned
  <2>2. QueryTypeOK'
    BY <2>1, <1>2, <1>4 DEF WalkInv, QueryTypeOK
  <2>3. QED
    BY <2>1, <2>2, <1>1, <1>2, <1>5 DEF WalkInv
<1>7. CASE PopVisited
  <2>1. /\ qpc' = "traverse" /\ rd' = Last(stack).rd
        /\ off' = [off EXCEPT ![Last(stack).restore_dim] = Last(stack).old_off]
        /\ cursor' = [stem |-> Last(stack).stem, level |-> Last(stack).level]
    BY <1>7 DEF PopVisited, NextFrame
  <2>2. /\ Last(stack).restore_dim \in 0 .. K - 1 /\ Last(stack).old_off \in Nat
        /\ Last(stack).rd \in Int
    BY <1>4 DEF Frame
  <2>3. off' \in Offsets
    BY <2>1, <2>2, <1>3 DEF Offsets
  <2>4. QueryTypeOK'
    BY <2>1, <2>2, <2>3, <1>2, <1>4 DEF WalkInv, QueryTypeOK
  <2>5. QED
    BY <2>1, <2>4, <1>1, <1>2, <1>5 DEF WalkInv
<1>8. QED
  BY <1>6, <1>7

LEMMA WalkDown ==
    ASSUME WalkInv, Traverse, UNCHANGED vars
    PROVE  WalkInv'
<1>1. /\ TreeInv' /\ stems' = stems /\ leaf_idx_map' = leaf_idx_map
  BY TreeBorrowed DEF WalkInv
<1>2. /\ qpc = "traverse" /\ FarFrame \in Frame
      /\ cursor' = NearStep
      /\ stack' = IF FarDist <= MaxDist THEN Append(stack, FarFrame) ELSE stack
      /\ UNCHANGED <<query, qpc, off, rd, results>>
  BY TraverseFacts
<1>3. /\ Walking(stack, NearStep, stems, leaf_idx_map)
      /\ Waiting(Append(stack, FarFrame), stems, leaf_idx_map)
      /\ Walking(Append(stack, FarFrame), NearStep, stems, leaf_idx_map)
  BY TraverseWalks
<1>4. /\ stack \in Seq(Frame) /\ Waiting(stack, stems, leaf_idx_map)
  BY DEF WalkInv, QueryTypeOK
<1>5. /\ stack' \in Seq(Frame)
      /\ Waiting(stack', stems, leaf_idx_map)
      /\ Walking(stack', NearStep, stems, leaf_idx_map)
  BY <1>2, <1>3, <1>4
<1>6. QueryTypeOK'
  BY <1>2, <1>5 DEF WalkInv, QueryTypeOK
<1>7. QED
  BY <1>1, <1>2, <1>5, <1>6 DEF WalkInv

LEMMA WalkEnds ==
    ASSUME WalkInv, ProcessLeaf \/ QueryReturns, UNCHANGED vars
    PROVE  WalkInv'
<1>1. /\ TreeInv' /\ stems' = stems /\ leaf_idx_map' = leaf_idx_map
  BY TreeBorrowed DEF WalkInv
<1>2. stack' = stack /\ qpc' # "traverse"
  BY DEF ProcessLeaf, QueryReturns
<1>3. QueryTypeOK'
  <2>1. CASE ProcessLeaf
    <3>1. /\ qpc = "traverse" /\ qpc' = "pop" /\ CursorLeaf # 0
          /\ results' = NearestAmong(query.max_qty, results,
                                Accepted({CursorLeaf}, MaxDist))
          /\ UNCHANGED <<query, off, stack, rd>>
      BY <2>1 DEF ProcessLeaf
    <3>2. TreeInv /\ query \in Queries /\ results \in Seq(Int)
      BY <3>1 DEF WalkInv, QueryTypeOK
    <3>3. {CursorLeaf} \in SUBSET DOMAIN leaves
      BY <3>1, AtTheCursor
    <3>4. results' \in Seq(Int)
      BY <3>1, <3>2, <3>3, CollectedType
    <3>5. QED
      BY <3>1, <3>4 DEF WalkInv, QueryTypeOK
  <2>2. CASE QueryReturns
    <3>1. /\ qpc' = "none" /\ stack' = <<>> /\ results' = <<>> /\ off' = NoOff
          /\ rd' = 0
      BY <2>2 DEF QueryReturns
    <3>2. NoOff \in Offsets /\ <<>> \in Seq(Frame) /\ <<>> \in Seq(Int)
      BY EmptySeq DEF NoOff, Offsets
    <3>3. QED
      BY <3>1, <3>2 DEF QueryTypeOK
  <2>3. QED
    BY <2>1, <2>2
<1>4. QED
  BY <1>1, <1>2, <1>3 DEF WalkInv

LEMMA WalkStep == WalkInv /\ [TreeWithQueriesNext]_<<vars, query_vars>> => WalkInv'
<1> SUFFICES ASSUME WalkInv, [TreeWithQueriesNext]_<<vars, query_vars>>
             PROVE  WalkInv'
  OBVIOUS
<1>1. CASE qpc = "none" /\ Next /\ UNCHANGED query_vars
  BY <1>1, WalkOfCall
<1>2. CASE (\E q \in Queries : QueryBegin(q)) /\ UNCHANGED vars
  BY <1>2, WalkBegins
<1>3. CASE QueryWork /\ UNCHANGED vars
  BY <1>3, WalkPops, WalkDown, WalkEnds DEF QueryWork
<1>4. CASE UNCHANGED <<vars, query_vars>>
  <2>1. TreeInv' /\ stems' = stems /\ leaf_idx_map' = leaf_idx_map
    BY <1>4, TreeBorrowed DEF WalkInv
  <2>2. QueryTypeOK'
    BY <1>4 DEF WalkInv, QueryTypeOK, query_vars
  <2>3. QED
    BY <1>4, <2>1, <2>2 DEF WalkInv, query_vars
<1>5. QED
  BY <1>1, <1>2, <1>3, <1>4 DEF TreeWithQueriesNext

LEMMA WalkInvariant == TreeWithQueriesSpec => []WalkInv
  BY WalkInit, WalkStep, PTL DEF TreeWithQueriesSpec

(* The frames of a query are those of one path from the root, each deeper  *)
(* than the one below it, so that a stack of one more than the levels is   *)
(* always long enough.                                                     *)
THEOREM StackIsAlwaysOnePath == TreeWithQueriesSpec => []StackIsOnePath
<1>1. WalkInv => StackIsOnePath
  BY DEF WalkInv, Waiting, Walking, StackIsOnePath
<1>2. QED
  BY <1>1, WalkInvariant, PTL

(* A traversal goes on or is at a leaf: it never reads beyond the stems,   *)
(* and the panic of resolve_mapped_terminal_stem_idx is never reached.     *)
TraversalIsSafe ==
    qpc = "traverse" =>
        \/ CursorLeaf \in DOMAIN leaves
        \/ /\ CursorLeaf = 0
           /\ cursor.level <= max_stem_level
           /\ cursor.stem \in DOMAIN stems

THEOREM TraversalsEndAtLeaves == TreeWithQueriesSpec => []TraversalIsSafe
<1>1. WalkInv => TraversalIsSafe
  BY AtTheCursor DEF TraversalIsSafe
<1>2. QED
  BY <1>1, WalkInvariant, PTL

-----------------------------------------------------------------------------
(* Exactness, under a metric that adds up over the axes.                   *)

(* The frames and the traversal have their regions. *)
Enclosed(frames, offs, at, r, walking, pivots, q) ==
    \E ts : /\ Framed(ts, frames, offs, pivots, q)
            /\ walking => \E t : Ahead(ts, t, frames, offs, at, r, pivots, q)

Collected ==
    /\ Ascending(results)
    /\ qpc # "none" => Len(results) <= query.max_qty

ExactInv ==
    /\ WalkInv
    /\ qpc # "none" =>
          Enclosed(stack, off, cursor, rd, qpc = "traverse", stems, query.point)
    /\ Collected
    /\ NothingPrunedWasNear

(* What the query still has to look at. *)
Wanted(ks) == Accepted(ks, query.radius)

(* Entries that MaxDist does not accept are not missed. *)
LEMMA LeftOut ==
    ASSUME WalkInv, Collected, qpc # "none", NEW ks \in SUBSET DOMAIN leaves,
           NEW fewer \in SUBSET Wanted(ks),
           \A x \in Wanted(ks) \ fewer : ~Accepts(x.dist, MaxDist)
    PROVE  NearestAmong(query.max_qty, results, fewer)
              = NearestAmong(query.max_qty, results, Wanted(ks))
<1> DEFINE n == query.max_qty
<1>1. /\ TreeInv /\ query \in Queries /\ results \in Seq(Int)
      /\ Ascending(results) /\ Len(results) <= n
  BY DEF WalkInv, QueryTypeOK, Collected
<1>2. /\ n \in Nat \ {0} /\ query.radius \in Nat /\ query.exclusive \in BOOLEAN
  BY <1>1, QueryTypes
<1>3. IsCollection(results, Wanted(ks))
  BY <1>1, AcceptedType DEF Wanted
<1>4. ASSUME NEW x \in Wanted(ks) \ fewer
      PROVE  Len(results) = n /\ results[n] <= x.dist
  <2>1. /\ Accepts(x.dist, query.radius) /\ ~Accepts(x.dist, MaxDist)
        /\ x \in Measured(ks)
    BY <1>4 DEF Wanted, Accepted
  <2>2. x.dist \in Nat
    BY <2>1, <1>1, MeasuredType
  <2>3. MaxDist # query.radius
    BY <2>1
  <2>4. Len(results) = n /\ MaxDist = results[n]
    BY <2>3 DEF MaxDist, Last
  <2>5. results[n] \in Int
    <3>1. n \in 1 .. Len(results)
      BY <2>4, <1>2
    <3>2. QED
      BY <3>1, <1>1, ElementOfSeq
  <2>6. ~(x.dist < results[n])
    BY <2>1, <2>2, <2>4, <2>5 DEF Accepts
  <2>7. QED
    BY <2>2, <2>4, <2>5, <2>6
<1> HIDE DEF n
<1>5. NearestAmong(n, results, fewer) = NearestAmong(n, results, Wanted(ks))
  BY <1>1, <1>2, <1>3, <1>4, FartherIsNotMissed
<1>6. QED
  BY <1>5 DEF n

(* Nor are those below a stem whose region is too far. *)
LEMMA RegionLeftOut ==
    ASSUME WalkInv, Collected, qpc # "none", Metric # "Chebyshev",
           NEW ks \in SUBSET DOMAIN leaves, NEW js \in SUBSET ks,
           NEW s, NEW l \in Nat, AtLevel(s, l),
           NEW t, NEW r, Region(t, s, l, r, stems, query.point),
           ks \ js \subseteq LeavesUnder(s, leaf_idx_map), ~Accepts(r, MaxDist)
    PROVE  NearestAmong(query.max_qty, results, Wanted(js))
              = NearestAmong(query.max_qty, results, Wanted(ks))
<1>1. /\ TreeInv /\ query \in Queries /\ results \in Seq(Int)
      /\ Len(results) <= query.max_qty
  BY DEF WalkInv, QueryTypeOK, Collected
<1>2. /\ query.point \in [0 .. K - 1 -> Int] /\ query.exclusive \in BOOLEAN
      /\ query.radius \in Nat /\ query.max_qty \in Nat \ {0}
  BY <1>1, QueryTypes
<1>3. /\ Wanted(js) \subseteq Wanted(ks)
      /\ \A x \in Wanted(ks) \ Wanted(js) : x \in Wanted(ks \ js)
  BY <1>1, AcceptedType DEF Wanted
<1>4. ASSUME NEW x \in Wanted(ks) \ Wanted(js)
      PROVE  ~Accepts(x.dist, MaxDist)
  <2>1. x \in Measured(ks \ js) /\ ks \ js \in SUBSET DOMAIN leaves
    BY <1>3, <1>4 DEF Wanted, Accepted
  <2>2. x.dist \in Nat /\ x.leaf \in ks \ js
    BY <2>1, <1>1, MeasuredType
  <2>3. PICK e \in Occupied(leaves[x.leaf]) :
           /\ e.point \in [0 .. K - 1 -> Int]
           /\ x.dist = Dist(e.point, query.point)
    BY <2>1, <1>1, MeasuredType
  <2>4. x.leaf \in LeavesUnder(s, leaf_idx_map)
    BY <2>2
  <2>5. Lies(e.point, s, l, stems)
    <3>1. Spread(stems, leaf_idx_map, leaves)
      BY <1>1, TreeGrounds
    <3>2. QED
      BY <3>1, <2>4 DEF Spread
  <2>6. r <= x.dist
    BY <2>3, <2>5, <1>2, RegionIsFar
  <2>7. r \in Int
    BY DEF Region
  <2>8. MaxDist \in Int
    <3>1. CASE MaxDist = query.radius
      BY <3>1, <1>2
    <3>2. CASE MaxDist # query.radius
      <4>1. MaxDist = results[Len(results)] /\ Len(results) = query.max_qty
        BY <3>2 DEF MaxDist, Last
      <4>2. Len(results) \in 1 .. Len(results)
        BY <4>1, <1>2
      <4>3. QED
        BY <4>1, <4>2, <1>1, ElementOfSeq
    <3>3. QED
      BY <3>1, <3>2
  <2>9. QED
    BY <2>2, <2>6, <2>7, <2>8, <1>2 DEF Accepts
<1>5. QED
  BY <1>3, <1>4, LeftOut

LEMMA MaxDistType ==
    ASSUME WalkInv, Collected, qpc # "none"
    PROVE  MaxDist \in Int /\ query.radius \in Nat /\ MaxDist <= query.radius
<1>1. /\ query.radius \in Nat /\ query.max_qty \in Nat \ {0}
      /\ results \in Seq(Int)
  BY QueryTypes DEF WalkInv, QueryTypeOK
<1>2. CASE Len(results) = query.max_qty /\ Last(results) < query.radius
  <2>1. MaxDist = Last(results)
    BY <1>2 DEF MaxDist
  <2>2. Last(results) = results[Len(results)] /\ Len(results) \in 1 .. Len(results)
    BY <1>1, <1>2 DEF Last
  <2>3. Last(results) \in Int
    BY <2>2, <1>1, ElementOfSeq
  <2>4. QED
    BY <2>1, <2>3, <1>1, <1>2
<1>3. CASE ~(Len(results) = query.max_qty /\ Last(results) < query.radius)
  BY <1>1, <1>3 DEF MaxDist
<1>4. QED
  BY <1>2, <1>3

(* The leaves still to be looked at are leaves. *)
LEMMA PendingType == ASSUME TreeInv PROVE PendingLeaves \in SUBSET DOMAIN leaves
<1>1. Spread(stems, leaf_idx_map, leaves)
  BY TreeGrounds
<1>2. \A s : LeavesUnder(s, leaf_idx_map) \subseteq DOMAIN leaves
  BY <1>1 DEF Spread
<1>3. QED
  BY <1>2, PendingIsOwed DEF Owed

(* A step of a query keeps it exact where this holds of what it has next.  *)
Answers(got, ks) ==
    NearestAmong(query.max_qty, got, Wanted(ks))
        = NearestAmong(query.max_qty, <<>>, Wanted(DOMAIN leaves))

LEMMA ExactNow == qpc # "none" /\ NothingPrunedWasNear => Answers(results, PendingLeaves)
  BY DEF NothingPrunedWasNear, Answers, Wanted

LEMMA ExactNext ==
    ASSUME query' = query, leaves' = leaves, NEW ks, PendingLeaves' = ks,
           NEW got, results' = got, Answers(got, ks)
    PROVE  NothingPrunedWasNear'
<1>1. \A js : \A b : Accepted(js, b)' = Accepted(js, b)
  BY DEF Accepted, Accepts, Measured
<1>2. Accepted(PendingLeaves, query.radius)' = Accepted(ks, query.radius)
  BY DEF Accepted, Accepts, Measured
<1>3. Accepted(DOMAIN leaves, query.radius)' = Accepted(DOMAIN leaves, query.radius)
  BY DEF Accepted, Accepts, Measured
<1>4. QED
  BY <1>2, <1>3 DEF NothingPrunedWasNear, Answers, Wanted

(* The pending leaves after a step. *)
LEMMA PendingNext ==
    ASSUME leaf_idx_map' = leaf_idx_map
    PROVE  PendingLeaves' = Owed(stack', leaf_idx_map)
                \cup (IF qpc' = "traverse"
                      THEN LeavesUnder(cursor'.stem, leaf_idx_map) ELSE {})
<1>1. PendingLeaves' = Owed(stack', leaf_idx_map')
                \cup (IF qpc' = "traverse"
                      THEN LeavesUnder(cursor'.stem, leaf_idx_map') ELSE {})
  <2>1. \A s : LeavesBelow(s)' = LeavesUnder(s, leaf_idx_map')
    BY DEF LeavesBelow, LeavesUnder
  <2> DEFINE frames == {stack'[n].stem : n \in DOMAIN stack'}
             here == IF qpc' = "traverse" THEN {cursor'.stem} ELSE {}
  <2>2. PendingLeaves' = UNION {LeavesUnder(s, leaf_idx_map') : s \in frames \cup here}
    BY <2>1 DEF PendingLeaves, PendingStems, LeavesBelow, LeavesUnder
  <2>3. Owed(stack', leaf_idx_map') = UNION {LeavesUnder(s, leaf_idx_map') : s \in frames}
    BY DEF Owed
  <2>4. QED
    BY <2>2, <2>3
<1>2. QED
  BY <1>1

LEMMA ExactInit == TreeWithQueriesInit => ExactInv
<1> SUFFICES ASSUME TreeWithQueriesInit PROVE ExactInv
  OBVIOUS
<1>1. WalkInv
  BY WalkInit
<1>2. qpc = "none" /\ results = <<>>
  BY DEF TreeWithQueriesInit, QueryInit
<1>3. Collected
  BY <1>2 DEF Collected, Ascending
<1>4. NothingPrunedWasNear
  BY <1>2 DEF NothingPrunedWasNear
<1>5. QED
  BY <1>1, <1>2, <1>3, <1>4 DEF ExactInv

(* A query begins with everything still to be looked at. *)
LEMMA ExactBegins ==
    ASSUME Metric # "Chebyshev", ExactInv, NEW q \in Queries, QueryBegin(q),
           UNCHANGED vars
    PROVE  ExactInv'
<1>1. /\ WalkInv /\ WalkInv'
  BY WalkBegins DEF ExactInv
<1>2. /\ qpc = "none" /\ qpc' = "pop" /\ stack' = <<RootFrame>> /\ query' = q
      /\ off' = NoOff /\ results' = <<>>
  BY <1>1 DEF QueryBegin, RootFrame, WalkInv, QueryTypeOK
<1>3. /\ stems' = stems /\ leaf_idx_map' = leaf_idx_map /\ leaves' = leaves
  BY <1>1, TreeBorrowed DEF WalkInv
<1>4. q.point \in [0 .. K - 1 -> Int] /\ q.max_qty \in Nat \ {0}
  BY QueriesAssumption
<1>5. Enclosed(stack', off', cursor', rd', qpc' = "traverse", stems', query'.point)
  <2>1. Framed(<<NoOff>>, stack', off', stems', query'.point)
    BY <1>2, <1>4, FramedFirst
  <2>2. QED
    BY <2>1, <1>2 DEF Enclosed
<1>6. Collected'
  BY <1>2, <1>4 DEF Collected, Ascending
<1>7. PendingLeaves' = DOMAIN leaves
  <2>1. PendingLeaves' = Owed(<<RootFrame>>, leaf_idx_map)
    BY <1>2, <1>3, PendingNext
  <2>2. DOMAIN <<RootFrame>> = {1} /\ <<RootFrame>>[1].stem = RootIdx
    BY DEF RootFrame
  <2>3. Owed(<<RootFrame>>, leaf_idx_map) = LeavesUnder(RootIdx, leaf_idx_map)
    BY <2>2 DEF Owed
  <2>4. LeavesUnder(RootIdx, leaf_idx_map) = DOMAIN leaves
    BY <1>1, TreeGrounds DEF WalkInv, Spread
  <2>5. QED
    BY <2>1, <2>3, <2>4
<1>8. NothingPrunedWasNear'
  <2>1. Accepted(PendingLeaves, query.radius)' = Accepted(DOMAIN leaves, query.radius)'
    BY <1>3, <1>7 DEF Accepted, Measured
  <2>2. QED
    BY <2>1, <1>2 DEF NothingPrunedWasNear
<1>9. QED
  BY <1>1, <1>5, <1>6, <1>8 DEF ExactInv

(* A frame that is dropped is too far for all that is below its stem. *)
LEMMA ExactDrops ==
    ASSUME Metric # "Chebyshev", ExactInv, PopPruned, UNCHANGED vars
    PROVE  ExactInv'
<1>1. /\ WalkInv /\ WalkInv' /\ TreeInv
  BY WalkPops DEF ExactInv, WalkInv
<1>2. /\ qpc = "pop" /\ qpc' = "pop" /\ stack # <<>> /\ stack' = Front(stack)
      /\ query' = query /\ off' = off /\ results' = results
      /\ ~Accepts(Last(stack).rd, MaxDist)
  BY DEF PopPruned, Prunes, NextFrame
<1>3. /\ stems' = stems /\ leaf_idx_map' = leaf_idx_map /\ leaves' = leaves
  BY <1>1, TreeBorrowed
<1>4. /\ stack \in Seq(Frame) /\ Waiting(stack, stems, leaf_idx_map)
      /\ off \in Offsets
  BY <1>1 DEF WalkInv, QueryTypeOK
<1>5. PICK ts : Framed(ts, stack, off, stems, query.point)
  BY <1>2 DEF ExactInv, Enclosed
<1>6. Enclosed(stack', off', cursor', rd', qpc' = "traverse", stems', query'.point)
  <2>1. Framed(Lower(ts, stack), Front(stack), off, stems, query.point)
    BY <1>2, <1>4, <1>5, FramedBelow
  <2>2. QED
    BY <2>1, <1>2, <1>3 DEF Enclosed
<1>7. Collected'
  BY <1>2 DEF ExactInv, Collected
<1> DEFINE js == Owed(Front(stack), leaf_idx_map)
           f == Last(stack)
<1>8. PendingLeaves = js \cup LeavesUnder(f.stem, leaf_idx_map)
  BY <1>2, <1>4, PendingIsOwed, WaitingBelow
<1>9. PendingLeaves' = js
  BY <1>2, <1>3, PendingNext
<1>10. /\ f.level \in Nat /\ AtLevel(f.stem, f.level)
       /\ Region(ts[Len(stack)], f.stem, f.level, f.rd, stems, query.point)
  <2>1. f = stack[Len(stack)] /\ Len(stack) \in DOMAIN stack
    BY <1>2, <1>4, FrontType
  <2>2. QED
    BY <2>1, <1>4, <1>5 DEF Waiting, OnTree, Framed
<1>11. Answers(results, js)
  <2>1. PendingLeaves \in SUBSET DOMAIN leaves
    BY <1>1, PendingType
  <2>2. /\ js \in SUBSET PendingLeaves
        /\ PendingLeaves \ js \subseteq LeavesUnder(f.stem, leaf_idx_map)
    BY <1>8
  <2>3. Answers(results, PendingLeaves) /\ Collected /\ qpc # "none"
    BY <1>2, ExactNow DEF ExactInv
  <2> HIDE DEF js, f
  <2>4. NearestAmong(query.max_qty, results, Wanted(js))
           = NearestAmong(query.max_qty, results, Wanted(PendingLeaves))
    BY <2>1, <2>2, <2>3, <1>1, <1>2, <1>10, RegionLeftOut DEF f
  <2>5. QED
    BY <2>3, <2>4 DEF Answers
<1>12. NothingPrunedWasNear'
  BY <1>2, <1>3, <1>9, <1>11, ExactNext
<1>13. QED
  BY <1>1, <1>6, <1>7, <1>12 DEF ExactInv

(* One that is gone on from is where the traversal is next. *)
LEMMA ExactGoesOn ==
    ASSUME ExactInv, PopVisited, UNCHANGED vars
    PROVE  ExactInv'
<1> DEFINE f == Last(stack)
           at == [stem |-> f.stem, level |-> f.level]
           offs == [off EXCEPT ![f.restore_dim] = f.old_off]
<1>1. /\ WalkInv /\ WalkInv' /\ TreeInv
  BY WalkPops DEF ExactInv, WalkInv
<1>2. /\ qpc = "pop" /\ qpc' = "traverse" /\ stack # <<>> /\ stack' = Front(stack)
      /\ query' = query /\ off' = offs /\ results' = results
      /\ cursor' = at /\ rd' = f.rd
  BY DEF PopVisited, NextFrame
<1>3. /\ stems' = stems /\ leaf_idx_map' = leaf_idx_map /\ leaves' = leaves
  BY <1>1, TreeBorrowed
<1>4. /\ stack \in Seq(Frame) /\ Waiting(stack, stems, leaf_idx_map)
      /\ off \in Offsets
  BY <1>1 DEF WalkInv, QueryTypeOK
<1>5. PICK ts : Framed(ts, stack, off, stems, query.point)
  BY <1>2 DEF ExactInv, Enclosed
<1>6. Enclosed(stack', off', cursor', rd', qpc' = "traverse", stems', query'.point)
  <2>1. /\ Framed(Lower(ts, stack), Front(stack), offs, stems, query.point)
        /\ Ahead(Lower(ts, stack), ts[Len(stack)], Front(stack), offs, at, f.rd,
                 stems, query.point)
    BY <1>2, <1>4, <1>5, FramedGoesOn
  <2> HIDE DEF offs, at, f
  <2>2. QED
    BY <2>1, <1>2, <1>3 DEF Enclosed
<1>7. Collected'
  BY <1>2 DEF ExactInv, Collected
<1>8. PendingLeaves' = PendingLeaves
  <2>1. PendingLeaves = Owed(Front(stack), leaf_idx_map)
                           \cup LeavesUnder(f.stem, leaf_idx_map)
    BY <1>2, <1>4, PendingIsOwed, WaitingBelow
  <2>2. cursor'.stem = f.stem
    BY <1>2
  <2> HIDE DEF offs, at, f
  <2>3. PendingLeaves' = Owed(Front(stack), leaf_idx_map)
                           \cup LeavesUnder(f.stem, leaf_idx_map)
    BY <2>2, <1>2, <1>3, PendingNext
  <2>4. QED
    BY <2>1, <2>3
<1>9. NothingPrunedWasNear'
  <2>1. Answers(results, PendingLeaves)
    BY <1>2, ExactNow DEF ExactInv
  <2>2. QED
    BY <2>1, <1>2, <1>3, <1>8, ExactNext
<1>10. QED
  BY <1>1, <1>6, <1>7, <1>9 DEF ExactInv

(* One level down: a far child that gets no frame is too far. *)
LEMMA ExactDescends ==
    ASSUME Metric # "Chebyshev", ExactInv, Traverse, UNCHANGED vars
    PROVE  ExactInv'
<1>1. /\ WalkInv /\ WalkInv' /\ TreeInv
  BY WalkDown DEF ExactInv, WalkInv
<1>2. /\ qpc = "traverse" /\ cursor.stem \in Interior(stems)
      /\ cursor.level \in Nat /\ AtLevel(cursor.stem, cursor.level)
      /\ FarFrame \in Frame
      /\ cursor' = NearStep
      /\ stack' = IF FarDist <= MaxDist THEN Append(stack, FarFrame) ELSE stack
      /\ UNCHANGED <<query, qpc, off, rd, results>>
  BY <1>1, TraverseFacts
<1>3. /\ stems' = stems /\ leaf_idx_map' = leaf_idx_map /\ leaves' = leaves
  BY <1>1, TreeBorrowed
<1>4. /\ stack \in Seq(Frame) /\ off \in Offsets /\ query \in Queries
  BY <1>1, <1>2 DEF WalkInv, QueryTypeOK
<1>5. /\ stems \in Seq(Int) /\ Cut(stems) /\ query.point \in [0 .. K - 1 -> Int]
  BY <1>1, <1>4, TreeGrounds, QueryTypes
<1>6. PICK ts : /\ Framed(ts, stack, off, stems, query.point)
                /\ \E t : Ahead(ts, t, stack, off, cursor, rd, stems, query.point)
  BY <1>2 DEF ExactInv, Enclosed
<1>7. PICK t : Ahead(ts, t, stack, off, cursor, rd, stems, query.point)
  BY <1>6
<1>8. Descends(ts, t, stack, off, cursor, rd, stems, query.point)
  BY <1>2, <1>4, <1>5, <1>6, <1>7, FramedDescends
<1> DEFINE moved == [t EXCEPT ![CursorDim] = NewOff]
           more == Append(stack, FarFrame)
           ts2 == Upper(ts, stack, moved)
<1>9. /\ Ahead(ts, t, stack, off, NearStep, rd, stems, query.point)
      /\ Framed(ts2, more, off, stems, query.point)
      /\ Ahead(ts2, t, more, off, NearStep, rd, stems, query.point)
      /\ Region(moved, FarFrame.stem, FarFrame.level, FarFrame.rd, stems, query.point)
  BY <1>8 DEF Descends, FarFrame, NearStep, FarDist, NewOff, Right, CursorDim
<1>10. /\ Owed(more, leaf_idx_map)
            = Owed(stack, leaf_idx_map) \cup LeavesUnder(FarFrame.stem, leaf_idx_map)
       /\ LeavesUnder(cursor.stem, leaf_idx_map)
            = LeavesUnder(NearStep.stem, leaf_idx_map)
                 \cup LeavesUnder(FarFrame.stem, leaf_idx_map)
  BY <1>1, TraverseWalks
<1>11. Collected'
  BY <1>2 DEF ExactInv, Collected
<1>12. PendingLeaves = Owed(stack, leaf_idx_map) \cup LeavesUnder(cursor.stem, leaf_idx_map)
  BY <1>2, PendingIsOwed
<1>13. PendingLeaves' = Owed(stack', leaf_idx_map)
                           \cup LeavesUnder(NearStep.stem, leaf_idx_map)
  BY <1>2, <1>3, PendingNext
<1>14. Answers(results, PendingLeaves) /\ Collected /\ qpc # "none"
  BY <1>2, ExactNow DEF ExactInv
<1> HIDE DEF moved, more, ts2
<1>15. CASE FarDist <= MaxDist
  <2>1. stack' = more
    BY <1>2, <1>15 DEF more
  <2>2. Enclosed(stack', off', cursor', rd', qpc' = "traverse", stems', query'.point)
    BY <2>1, <1>2, <1>3, <1>9 DEF Enclosed
  <2>3. PendingLeaves' = PendingLeaves
    BY <2>1, <1>10, <1>12, <1>13
  <2>4. NothingPrunedWasNear'
    BY <2>3, <1>2, <1>3, <1>14, ExactNext
  <2>5. QED
    BY <2>2, <2>4, <1>1, <1>11 DEF ExactInv
<1>16. CASE ~(FarDist <= MaxDist)
  <2> DEFINE js == Owed(stack, leaf_idx_map) \cup LeavesUnder(NearStep.stem, leaf_idx_map)
  <2>1. stack' = stack
    BY <1>2, <1>16
  <2>2. Enclosed(stack', off', cursor', rd', qpc' = "traverse", stems', query'.point)
    BY <2>1, <1>2, <1>3, <1>6, <1>9 DEF Enclosed
  <2>3. PendingLeaves' = js
    BY <2>1, <1>13
  <2>4. /\ PendingLeaves \in SUBSET DOMAIN leaves
        /\ js \in SUBSET PendingLeaves
        /\ PendingLeaves \ js \subseteq LeavesUnder(FarFrame.stem, leaf_idx_map)
    BY <1>1, <1>10, <1>12, PendingType
  <2>5. ~Accepts(FarFrame.rd, MaxDist)
    <3>1. FarFrame.rd = FarDist /\ FarFrame.rd \in Int
      BY <1>2 DEF FarFrame, Frame
    <3>2. MaxDist \in Int
      BY <1>1, <1>14, MaxDistType
    <3>3. QED
      BY <3>1, <3>2, <1>16 DEF Accepts
  <2>6. FarFrame.level \in Nat /\ AtLevel(FarFrame.stem, FarFrame.level)
    <3>1. Waiting(more, stems, leaf_idx_map)
      BY <1>1, TraverseWalks DEF more
    <3>2. Len(stack) + 1 \in DOMAIN more /\ more[Len(stack) + 1] = FarFrame
      BY <1>2, <1>4 DEF more
    <3>3. QED
      BY <3>1, <3>2 DEF Waiting, OnTree
  <2> HIDE DEF js
  <2>7. NearestAmong(query.max_qty, results, Wanted(js))
           = NearestAmong(query.max_qty, results, Wanted(PendingLeaves))
    BY <2>4, <2>5, <2>6, <1>1, <1>9, <1>14, RegionLeftOut
  <2>8. Answers(results, js)
    BY <2>7, <1>14 DEF Answers
  <2>9. NothingPrunedWasNear'
    BY <2>3, <2>8, <1>2, <1>3, ExactNext
  <2>10. QED
    BY <2>2, <2>9, <1>1, <1>11 DEF ExactInv
<1>17. QED
  BY <1>15, <1>16

(* What a leaf adds is what of it is wanted and not too far, and with what *)
(* is collected from the others later on that is collecting all at once.   *)
LEMMA ExactCollects ==
    ASSUME ExactInv, ProcessLeaf, UNCHANGED vars
    PROVE  ExactInv'
<1> DEFINE leaf == CursorLeaf
           fewer == Accepted({leaf}, MaxDist)
           got == NearestAmong(query.max_qty, results, fewer)
           js == Owed(stack, leaf_idx_map)
<1>1. /\ WalkInv /\ WalkInv' /\ TreeInv
  BY WalkEnds DEF ExactInv, WalkInv
<1>2. /\ qpc = "traverse" /\ qpc' = "pop" /\ leaf # 0
      /\ results' = got
      /\ UNCHANGED <<query, off, stack, cursor, rd>>
  BY DEF ProcessLeaf
<1>3. /\ stems' = stems /\ leaf_idx_map' = leaf_idx_map /\ leaves' = leaves
  BY <1>1, TreeBorrowed
<1>4. /\ query \in Queries /\ results \in Seq(Int) /\ query.max_qty \in Nat
  BY <1>1, <1>2, QueryTypes DEF WalkInv, QueryTypeOK
<1>5. Enclosed(stack', off', cursor', rd', qpc' = "traverse", stems', query'.point)
  BY <1>2, <1>3 DEF ExactInv, Enclosed
<1>6. /\ leaf \in DOMAIN leaves
      /\ LeavesUnder(cursor.stem, leaf_idx_map) = {leaf}
  BY <1>1, <1>2, AtTheCursor, BelowIsUnder
<1>7. {leaf} \in SUBSET DOMAIN leaves
  BY <1>6
<1>8. PendingLeaves = js \cup {leaf}
  BY <1>2, <1>6, PendingIsOwed
<1>9. leaf \notin js
  <2>1. Walking(stack, cursor, stems, leaf_idx_map)
    BY <1>1, <1>2 DEF WalkInv
  <2>2. \A n \in DOMAIN stack :
           LeavesUnder(stack[n].stem, leaf_idx_map)
              \cap LeavesUnder(cursor.stem, leaf_idx_map) = {}
    BY <2>1 DEF Walking
  <2>3. QED
    BY <2>2, <1>6 DEF Owed
<1>10. PendingLeaves' = js
  BY <1>2, <1>3, PendingNext
<1>11. PendingLeaves \in SUBSET DOMAIN leaves
  BY <1>1, PendingType
<1>12. Answers(results, PendingLeaves) /\ Collected /\ qpc # "none"
  BY <1>2, ExactNow DEF ExactInv
<1>13. got \in Seq(Int) /\ Ascending(got) /\ Len(got) <= query.max_qty
  BY <1>1, <1>4, <1>7, CollectedType
<1> HIDE DEF leaf, js, got
<1>14. Collected'
  BY <1>2, <1>13 DEF Collected, Ascending
<1>15. /\ fewer \in SUBSET Wanted({leaf})
       /\ \A x \in Wanted({leaf}) \ fewer : ~Accepts(x.dist, MaxDist)
  <2>1. /\ MaxDist \in Int /\ query.radius \in Nat /\ MaxDist <= query.radius
    BY <1>1, <1>12, MaxDistType
  <2>2. \A x \in Measured({leaf}) : x.dist \in Nat
    BY <1>1, <1>4, <1>7, MeasuredType
  <2>3. ASSUME NEW x \in Measured({leaf}), Accepts(x.dist, MaxDist)
        PROVE  Accepts(x.dist, query.radius)
    <3>1. x.dist \in Nat
      BY <2>2, <2>3
    <3>2. QED
      BY <3>1, <2>1, <2>3 DEF Accepts
  <2>4. QED
    BY <2>3 DEF Wanted, Accepted
<1> HIDE DEF fewer
<1>16. NearestAmong(query.max_qty, results, fewer)
          = NearestAmong(query.max_qty, results, Wanted({leaf}))
  BY <1>1, <1>7, <1>12, <1>15, LeftOut
<1>17. /\ IsCollection(results, Wanted({leaf})) /\ IsCollection(results, Wanted(js))
       /\ Wanted({leaf}) \cap Wanted(js) = {}
       /\ Wanted(PendingLeaves) = Wanted({leaf}) \cup Wanted(js)
  <2>1. {leaf} \in SUBSET PendingLeaves /\ js = PendingLeaves \ {leaf}
        /\ js \in SUBSET DOMAIN leaves
    BY <1>8, <1>9, <1>11
  <2>2. IsCollection(results, Wanted({leaf})) /\ IsCollection(results, Wanted(js))
    BY <2>1, <1>1, <1>4, <1>7, AcceptedType DEF Wanted
  <2>3. /\ Wanted({leaf}) \cap Wanted(js) = {}
        /\ Wanted(PendingLeaves) = Wanted({leaf}) \cup Wanted(js)
    BY <2>1, <1>1, <1>4, <1>11, AcceptedType DEF Wanted
  <2>4. QED
    BY <2>2, <2>3
<1>18. NearestAmong(query.max_qty, got, Wanted(js))
          = NearestAmong(query.max_qty, results, Wanted(PendingLeaves))
  <2>1. got = NearestAmong(query.max_qty, results, Wanted({leaf}))
    BY <1>16 DEF got
  <2> DEFINE found == Wanted({leaf})
             others == Wanted(js)
             n == query.max_qty
  <2>2. /\ IsCollection(results, found) /\ IsCollection(results, others)
        /\ found \cap others = {} /\ n \in Nat
        /\ Wanted(PendingLeaves) = found \cup others
    BY <1>4, <1>17
  <2>3. got = NearestAmong(n, results, found)
    BY <2>1
  <2> HIDE DEF found, others, n
  <2>4. NearestAmong(n, NearestAmong(n, results, found), others)
           = NearestAmong(n, results, found \cup others)
    BY <2>2, NearestOfBoth
  <2>5. NearestAmong(n, got, others) = NearestAmong(n, results, Wanted(PendingLeaves))
    BY <2>2, <2>3, <2>4
  <2>6. QED
    BY <2>5 DEF others, n
<1>19. Answers(got, js)
  BY <1>12, <1>18 DEF Answers
<1>20. NothingPrunedWasNear'
  BY <1>2, <1>3, <1>10, <1>19, ExactNext
<1>21. QED
  BY <1>1, <1>5, <1>14, <1>20 DEF ExactInv

LEMMA ExactRests ==
    ASSUME ExactInv, WalkInv', qpc' = "none"
    PROVE  ExactInv'
<1>1. results' = <<>>
  BY DEF WalkInv, QueryTypeOK
<1>2. Collected' /\ NothingPrunedWasNear'
  BY <1>1 DEF Collected, Ascending, NothingPrunedWasNear
<1>3. QED
  BY <1>2 DEF ExactInv

LEMMA ExactStutters ==
    ASSUME ExactInv, UNCHANGED <<vars, query_vars>>
    PROVE  ExactInv'
<1>1. WalkInv /\ WalkInv'
  BY WalkStep DEF ExactInv
<1>2. /\ UNCHANGED <<query, qpc, off, stack, cursor, rd, results>>
      /\ stems' = stems /\ leaf_idx_map' = leaf_idx_map /\ leaves' = leaves
  BY <1>1, TreeBorrowed DEF WalkInv, query_vars
<1>3. CASE qpc = "none"
  BY <1>1, <1>2, <1>3, ExactRests
<1>4. CASE qpc # "none"
  <2>1. PendingLeaves' = PendingLeaves
    BY <1>2, PendingNext, PendingIsOwed
  <2>2. NothingPrunedWasNear'
    BY <2>1, <1>2, <1>4, ExactNow, ExactNext DEF ExactInv
  <2>3. Collected' /\ Enclosed(stack', off', cursor', rd', qpc' = "traverse", stems', query'.point)
    BY <1>2, <1>4 DEF ExactInv, Collected
  <2>4. QED
    BY <2>2, <2>3, <1>1 DEF ExactInv
<1>5. QED
  BY <1>3, <1>4

LEMMA ExactStep ==
    ASSUME Metric # "Chebyshev", ExactInv,
           [TreeWithQueriesNext]_<<vars, query_vars>>
    PROVE  ExactInv'
<1>1. WalkInv'
  BY WalkStep DEF ExactInv
<1>2. CASE qpc = "none" /\ Next /\ UNCHANGED query_vars
  BY <1>1, <1>2, ExactRests DEF query_vars
<1>3. CASE (\E q \in Queries : QueryBegin(q)) /\ UNCHANGED vars
  BY <1>3, ExactBegins
<1>4. CASE QueryWork /\ UNCHANGED vars
  <2>1. CASE QueryReturns
    BY <2>1, <1>1, ExactRests DEF QueryReturns
  <2>2. QED
    BY <1>4, <2>1, ExactDrops, ExactGoesOn, ExactDescends, ExactCollects DEF QueryWork
<1>5. CASE UNCHANGED <<vars, query_vars>>
  BY <1>5, ExactStutters
<1>6. QED
  BY <1>2, <1>3, <1>4, <1>5 DEF TreeWithQueriesNext

(* Whatever the traversal prunes was not part of the answer, and what it   *)
(* returns is what a scan of every stored entry returns.                   *)
THEOREM QueriesAreExact ==
    ASSUME Metric # "Chebyshev"
    PROVE  TreeWithQueriesSpec => []NothingPrunedWasNear
<1>1. ExactInv => NothingPrunedWasNear
  BY DEF ExactInv
<1>2. ExactInv /\ [TreeWithQueriesNext]_<<vars, query_vars>> => ExactInv'
  BY ExactStep
<1>3. QED
  BY <1>1, <1>2, ExactInit, PTL DEF TreeWithQueriesSpec

(* The distance of a frame is never more than that of an entry below it.   *)
THEOREM FramesAreAlwaysLowerBounds ==
    ASSUME Metric # "Chebyshev"
    PROVE  TreeWithQueriesSpec => []FramesAreLowerBounds
<1>1. ExactInv => FramesAreLowerBounds
  <2> SUFFICES ASSUME ExactInv, qpc # "none", NEW n \in DOMAIN stack,
                      NEW k \in LeavesBelow(stack[n].stem),
                      NEW e \in Occupied(leaves[k])
               PROVE  stack[n].rd <= Dist(e.point, query.point)
    BY DEF FramesAreLowerBounds
  <2>1. WalkInv /\ TreeInv /\ query \in Queries
    BY DEF ExactInv, WalkInv, QueryTypeOK
  <2>2. query.point \in [0 .. K - 1 -> Int] /\ e.point \in [0 .. K - 1 -> Int]
    BY <2>1, QueryTypes, PointsAssumption DEF Occupied, Entries
  <2>3. PICK ts : Framed(ts, stack, off, stems, query.point)
    BY DEF ExactInv, Enclosed
  <2>4. Region(ts[n], stack[n].stem, stack[n].level, stack[n].rd, stems, query.point)
    BY <2>3 DEF Framed
  <2>5. stack[n].level \in Nat /\ AtLevel(stack[n].stem, stack[n].level)
    BY <2>1 DEF WalkInv, Waiting, OnTree
  <2>6. Lies(e.point, stack[n].stem, stack[n].level, stems)
    <3>1. Spread(stems, leaf_idx_map, leaves)
      BY <2>1, TreeGrounds
    <3>2. QED
      BY <3>1, <2>5, BelowIsUnder DEF Spread
  <2>7. QED
    BY <2>2, <2>4, <2>6, RegionIsFar
<1>2. ExactInv /\ [TreeWithQueriesNext]_<<vars, query_vars>> => ExactInv'
  BY ExactStep
<1>3. QED
  BY <1>1, <1>2, ExactInit, PTL DEF TreeWithQueriesSpec

(* A query that is over returns the n nearest of all it was to accept.     *)
AnswerIsComplete ==
    qpc = "pop" /\ stack = <<>> =>
        results = NearestAmong(query.max_qty, <<>>, Accepted(DOMAIN leaves, query.radius))

THEOREM AnswersAreComplete ==
    ASSUME Metric # "Chebyshev"
    PROVE  TreeWithQueriesSpec => []AnswerIsComplete
<1>1. ExactInv => AnswerIsComplete
  <2> SUFFICES ASSUME ExactInv, qpc = "pop", stack = <<>>
               PROVE  results = NearestAmong(query.max_qty, <<>>,
                                        Accepted(DOMAIN leaves, query.radius))
    BY DEF AnswerIsComplete
  <2>1. /\ query \in Queries /\ results \in Seq(Int) /\ Ascending(results)
        /\ Len(results) <= query.max_qty
    BY DEF ExactInv, WalkInv, QueryTypeOK, Collected
  <2>2. PendingLeaves = {}
    BY DEF PendingLeaves, PendingStems
  <2>3. Accepted(PendingLeaves, query.radius) = {}
    BY <2>2 DEF Accepted, Measured
  <2>4. NearestAmong(query.max_qty, results, {}) = results
    BY <2>1, QueryTypes, NothingMore
  <2>5. QED
    BY <2>3, <2>4 DEF ExactInv, NothingPrunedWasNear
<1>2. ExactInv /\ [TreeWithQueriesNext]_<<vars, query_vars>> => ExactInv'
  BY ExactStep
<1>3. QED
  BY <1>1, <1>2, ExactInit, PTL DEF TreeWithQueriesSpec
=============================================================================
