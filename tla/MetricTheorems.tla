--------------------------- MODULE MetricTheorems ---------------------------
(***************************************************************************)
(* Distances, for every metric and number of axes: what is computed axis   *)
(* by axis is a distance, one that is nowhere nearer is at least as far,   *)
(* and the distance of a region after one of its sides moved is that of    *)
(* the region it became.                                                   *)
(***************************************************************************)
EXTENDS Metrics, CommonTheorems

-----------------------------------------------------------------------------
(* Distances.                                                              *)

(* What Combined goes through, up to the dimension n. *)
Solves(metric, f, n, u) ==
    u = [d \in 0 .. n |->
            IF d = 0 THEN 0 ELSE Combine(metric, u[d - 1], f[d - 1])]

LEMMA CombineType ==
    ASSUME NEW metric, NEW m \in Nat, NEW n \in Nat
    PROVE  Combine(metric, m, n) \in Nat
BY DEF Combine, Greater

LEMMA SolutionType ==
    ASSUME NEW metric, NEW f \in [Dims -> Nat], NEW n \in 0 .. K, NEW u,
           Solves(metric, f, n, u)
    PROVE  \A d \in 0 .. n : u[d] \in Nat
<1> DEFINE bad == {d \in 0 .. n : u[d] \notin Nat}
<1>1. SUFFICES ASSUME bad # {} PROVE FALSE
  OBVIOUS
<1>2. bad \in SUBSET Nat
  OBVIOUS
<1>3. PICK d \in bad : \A e \in bad : d <= e
  <2> HIDE DEF bad
  <2> QED
    BY <1>1, <1>2, LeastNatural
<1>4. d \in 0 .. n /\ u[d] \notin Nat
  OBVIOUS
<1>5. u[d] = IF d = 0 THEN 0 ELSE Combine(metric, u[d - 1], f[d - 1])
  BY <1>4 DEF Solves
<1>6. d # 0
  BY <1>4, <1>5
<1>7. d - 1 \in 0 .. n /\ d - 1 \notin bad /\ d - 1 \in Dims
  <2>1. K \in Nat /\ n \in 0 .. K /\ d \in 1 .. n
    BY <1>4, <1>6, MetricAssumption
  <2>2. d - 1 \in 0 .. n /\ d - 1 \in Dims /\ ~(d <= d - 1)
    BY <2>1 DEF Dims
  <2>3. QED
    BY <2>2, <1>3
<1>8. u[d - 1] \in Nat /\ f[d - 1] \in Nat
  BY <1>7
<1>9. QED
  BY <1>4, <1>5, <1>6, <1>8, CombineType

LEMMA SolutionExists ==
    ASSUME NEW metric, NEW f \in [Dims -> Nat]
    PROVE  \A n \in 0 .. K : \E u : Solves(metric, f, n, u)
<1> DEFINE bad == {n \in 0 .. K : ~\E u : Solves(metric, f, n, u)}
<1>1. SUFFICES ASSUME bad # {} PROVE FALSE
  OBVIOUS
<1>2. bad \in SUBSET Nat
  OBVIOUS
<1>3. PICK n \in bad : \A m \in bad : n <= m
  <2> HIDE DEF bad
  <2> QED
    BY <1>1, <1>2, LeastNatural
<1>4. n \in 0 .. K /\ K \in Nat /\ ~\E u : Solves(metric, f, n, u)
  BY MetricAssumption
<1>5. CASE n = 0
  <2>1. Solves(metric, f, 0, [d \in 0 .. 0 |-> 0])
    BY DEF Solves
  <2>2. QED
    BY <1>4, <1>5, <2>1
<1>6. CASE n # 0
  <2>1. n - 1 \in 0 .. K /\ ~(n <= n - 1)
    BY <1>4, <1>6
  <2>2. PICK u : Solves(metric, f, n - 1, u)
    BY <1>3, <2>1
  <2> DEFINE v == [d \in 0 .. n |-> IF d = n THEN Combine(metric, u[n - 1], f[n - 1])
                                    ELSE u[d]]
  <2>3. \A d \in 0 .. n - 1 :
           u[d] = IF d = 0 THEN 0 ELSE Combine(metric, u[d - 1], f[d - 1])
    BY <2>2 DEF Solves
  <2>4. \A d \in 0 .. n :
           v[d] = IF d = 0 THEN 0 ELSE Combine(metric, v[d - 1], f[d - 1])
    <3> TAKE d \in 0 .. n
    <3>1. CASE d = n
      <4>1. v[d] = Combine(metric, u[n - 1], f[n - 1]) /\ v[n - 1] = u[n - 1]
        BY <1>4, <1>6, <3>1
      <4> HIDE DEF v
      <4>2. QED
        BY <4>1, <3>1, <1>6
    <3>2. CASE d = 0
      BY <3>2, <2>3, <1>4, <1>6
    <3>3. CASE d # n /\ d # 0
      <4>1. d \in 0 .. n - 1 /\ d - 1 \in 0 .. n /\ d - 1 # n
        BY <1>4, <3>3
      <4>2. v[d] = u[d] /\ v[d - 1] = u[d - 1]
        BY <4>1, <3>3
      <4> HIDE DEF v
      <4>3. QED
        BY <4>1, <4>2, <2>3, <3>3
    <3>4. QED
      BY <3>1, <3>2, <3>3
  <2>5. Solves(metric, f, n, v)
    <3>1. v = [d \in 0 .. n |-> v[d]]
      OBVIOUS
    <3> HIDE DEF v
    <3>2. QED
      BY <3>1, <2>4 DEF Solves
  <2>6. QED
    BY <2>5, <1>4
<1>7. QED
  BY <1>5, <1>6

LEMMA CombinedSolved ==
    ASSUME NEW metric, NEW f \in [Dims -> Nat]
    PROVE  \E u : Solves(metric, f, K, u) /\ Combined(metric, f) = u[K]
<1> DEFINE Good(u) == Solves(metric, f, K, u)
<1>1. K \in 0 .. K
  BY MetricAssumption
<1>2. \E u : Good(u)
  BY <1>1, SolutionExists
<1>3. Good(CHOOSE u : Good(u))
  <2> HIDE DEF Good
  <2> QED
    BY <1>2
<1>4. Combined(metric, f) = (CHOOSE u : Good(u))[K]
  BY DEF Combined, Solves
<1>5. QED
  BY <1>3, <1>4

(* The distance is a number, and grows with every component. *)
LEMMA CombinedGrows ==
    ASSUME NEW metric, NEW f \in [Dims -> Nat], NEW g \in [Dims -> Nat],
           \A d \in Dims : f[d] <= g[d]
    PROVE  /\ Combined(metric, f) \in Nat /\ Combined(metric, g) \in Nat
           /\ Combined(metric, f) <= Combined(metric, g)
<1>1. PICK u : Solves(metric, f, K, u) /\ Combined(metric, f) = u[K]
  BY CombinedSolved
<1>2. PICK v : Solves(metric, g, K, v) /\ Combined(metric, g) = v[K]
  BY CombinedSolved
<1>3. K \in 0 .. K /\ K \in Nat
  BY MetricAssumption
<1>4. \A d \in 0 .. K : u[d] \in Nat /\ v[d] \in Nat
  BY <1>1, <1>2, <1>3, SolutionType
<1> DEFINE bad == {d \in 0 .. K : ~(u[d] <= v[d])}
<1>5. ASSUME bad # {} PROVE FALSE
  <2>1. bad \in SUBSET Nat
    OBVIOUS
  <2>2. PICK d \in bad : \A e \in bad : d <= e
    <3> HIDE DEF bad
    <3> QED
      BY <1>5, <2>1, LeastNatural
  <2>3. d \in 0 .. K /\ ~(u[d] <= v[d])
    OBVIOUS
  <2>4. /\ u[d] = IF d = 0 THEN 0 ELSE Combine(metric, u[d - 1], f[d - 1])
        /\ v[d] = IF d = 0 THEN 0 ELSE Combine(metric, v[d - 1], g[d - 1])
    BY <1>1, <1>2, <2>3 DEF Solves
  <2>5. d # 0
    BY <2>3, <2>4
  <2>6. d - 1 \in 0 .. K /\ ~(d <= d - 1) /\ d - 1 \in Dims
    BY <1>3, <2>3, <2>5 DEF Dims
  <2>7. u[d - 1] <= v[d - 1]
    BY <2>2, <2>6
  <2>8. /\ u[d - 1] \in Nat /\ v[d - 1] \in Nat
        /\ f[d - 1] \in Nat /\ g[d - 1] \in Nat /\ f[d - 1] <= g[d - 1]
    BY <2>6, <1>4
  <2> DEFINE a == u[d - 1]
             b == v[d - 1]
             s == f[d - 1]
             t == g[d - 1]
  <2>9. Combine(metric, a, s) <= Combine(metric, b, t)
    <3>1. a \in Nat /\ b \in Nat /\ s \in Nat /\ t \in Nat /\ a <= b /\ s <= t
      BY <2>7, <2>8
    <3> HIDE DEF a, b, s, t
    <3>2. QED
      BY <3>1 DEF Combine, Greater
  <2>10. QED
    BY <2>3, <2>4, <2>5, <2>9
<1>6. u[K] <= v[K]
  BY <1>3, <1>5
<1>7. QED
  BY <1>1, <1>2, <1>3, <1>4, <1>6

LEMMA Dist1Type ==
    ASSUME NEW metric, NEW a \in Int, NEW b \in Int
    PROVE  Dist1(metric, a, b) \in Nat
<1>1. AbsDiff(a, b) \in Nat
  BY DEF AbsDiff
<1> DEFINE n == AbsDiff(a, b)
<1> HIDE DEF n
<1>2. n \in Nat => n * n \in Nat
  OBVIOUS
<1>3. QED
  BY <1>1, <1>2 DEF Dist1, n

LEMMA Dist1Grows ==
    ASSUME NEW metric, NEW a \in Int, NEW b \in Int, NEW c \in Int, NEW d \in Int,
           AbsDiff(a, b) <= AbsDiff(c, d)
    PROVE  Dist1(metric, a, b) <= Dist1(metric, c, d)
<1>1. AbsDiff(a, b) \in Nat /\ AbsDiff(c, d) \in Nat
  BY DEF AbsDiff
<1> DEFINE m == AbsDiff(a, b)
           n == AbsDiff(c, d)
<1>2. m \in Nat /\ n \in Nat /\ m <= n
  BY <1>1
<1> HIDE DEF m, n
<1>3. m * m <= n * n
  <2>1. m * m \in Nat /\ m * n \in Nat /\ n * n \in Nat
    BY <1>2
  <2>2. m * m <= m * n
    BY <1>2
  <2>3. m * n <= n * n
    BY <1>2
  <2>4. QED
    BY <2>1, <2>2, <2>3
<1>4. QED
  BY <1>2, <1>3 DEF Dist1, m, n

LEMMA PointDistType ==
    ASSUME NEW metric, NEW p \in [Dims -> Int], NEW q \in [Dims -> Int]
    PROVE  /\ [d \in Dims |-> Dist1(metric, p[d], q[d])] \in [Dims -> Nat]
           /\ PointDist(metric, p, q) \in Nat
<1> DEFINE f == [d \in Dims |-> Dist1(metric, p[d], q[d])]
<1>1. \A d \in Dims : Dist1(metric, p[d], q[d]) \in Nat
  <2> TAKE d \in Dims
  <2>1. p[d] \in Int /\ q[d] \in Int
    OBVIOUS
  <2>2. QED
    BY <2>1, Dist1Type
<1>2. f \in [Dims -> Nat]
  BY <1>1
<1> HIDE DEF f
<1>3. \A d \in Dims : f[d] <= f[d]
  <2> TAKE d \in Dims
  <2>1. f[d] \in Nat
    BY <1>2
  <2>2. QED
    BY <2>1
<1>4. Combined(metric, f) \in Nat
  BY <1>2, <1>3, CombinedGrows
<1>5. QED
  BY <1>2, <1>4 DEF PointDist, f

(* Where there is nothing on any axis, there is nothing. *)
LEMMA CombinedZero ==
    ASSUME NEW metric, NEW f \in [Dims -> Nat], \A d \in Dims : f[d] = 0
    PROVE  Combined(metric, f) = 0
<1>1. PICK u : Solves(metric, f, K, u) /\ Combined(metric, f) = u[K]
  BY CombinedSolved
<1>2. K \in 0 .. K /\ K \in Nat
  BY MetricAssumption
<1> DEFINE bad == {d \in 0 .. K : u[d] # 0}
<1>3. ASSUME bad # {} PROVE FALSE
  <2>1. bad \in SUBSET Nat
    OBVIOUS
  <2>2. PICK d \in bad : \A e \in bad : d <= e
    <3> HIDE DEF bad
    <3> QED
      BY <1>3, <2>1, LeastNatural
  <2>3. d \in 0 .. K /\ u[d] # 0
    OBVIOUS
  <2>4. u[d] = IF d = 0 THEN 0 ELSE Combine(metric, u[d - 1], f[d - 1])
    BY <1>1, <2>3 DEF Solves
  <2>5. d # 0
    BY <2>3, <2>4
  <2>6. d - 1 \in 0 .. K /\ ~(d <= d - 1) /\ d - 1 \in Dims
    BY <1>2, <2>3, <2>5 DEF Dims
  <2>7. u[d - 1] = 0 /\ f[d - 1] = 0
    BY <2>2, <2>6
  <2>8. QED
    BY <2>3, <2>4, <2>5, <2>7 DEF Combine, Greater
<1>4. u[K] = 0
  BY <1>2, <1>3
<1>5. QED
  BY <1>1, <1>4

(* A metric that adds up follows one component that moves. *)
LEMMA CombinedMoves ==
    ASSUME NEW metric, metric # "chebyshev", NEW f \in [Dims -> Nat],
           NEW a \in Dims, NEW x \in Nat
    PROVE  Combined(metric, [f EXCEPT ![a] = x]) = (Combined(metric, f) - f[a]) + x
<1> DEFINE g == [f EXCEPT ![a] = x]
<1>1. g \in [Dims -> Nat] /\ g[a] = x /\ \A d \in Dims : d # a => g[d] = f[d]
  OBVIOUS
<1> HIDE DEF g
<1>2. PICK u : Solves(metric, f, K, u) /\ Combined(metric, f) = u[K]
  BY CombinedSolved
<1>3. PICK v : Solves(metric, g, K, v) /\ Combined(metric, g) = v[K]
  BY CombinedSolved, <1>1
<1>4. K \in 0 .. K /\ K \in Nat
  BY MetricAssumption
<1>5. \A d \in 0 .. K : u[d] \in Nat /\ v[d] \in Nat
  BY <1>1, <1>2, <1>3, <1>4, SolutionType
<1> DEFINE Moved(d) == v[d] = IF d <= a THEN u[d] ELSE (u[d] - f[a]) + x
           bad == {d \in 0 .. K : ~Moved(d)}
<1>6. ASSUME bad # {} PROVE FALSE
  <2>1. bad \in SUBSET Nat
    OBVIOUS
  <2>2. PICK d \in bad : \A e \in bad : d <= e
    <3> HIDE DEF bad
    <3> QED
      BY <1>6, <2>1, LeastNatural
  <2>3. d \in 0 .. K /\ ~Moved(d)
    OBVIOUS
  <2>4. /\ u[d] = IF d = 0 THEN 0 ELSE Combine(metric, u[d - 1], f[d - 1])
        /\ v[d] = IF d = 0 THEN 0 ELSE Combine(metric, v[d - 1], g[d - 1])
    BY <1>2, <1>3, <2>3 DEF Solves
  <2>5. a \in Nat
    BY <1>4 DEF Dims
  <2>6. d # 0
    BY <2>3, <2>4, <2>5
  <2>7. d - 1 \in 0 .. K /\ ~(d <= d - 1) /\ d - 1 \in Dims
    BY <1>4, <2>3, <2>6 DEF Dims
  <2>8. Moved(d - 1)
    BY <2>2, <2>7
  <2>9. /\ u[d] = u[d - 1] + f[d - 1] /\ v[d] = v[d - 1] + g[d - 1]
        /\ u[d - 1] \in Nat /\ v[d - 1] \in Nat
        /\ f[d - 1] \in Nat /\ g[d - 1] \in Nat /\ f[a] \in Nat
    BY <1>1, <1>5, <2>4, <2>6, <2>7 DEF Combine
  <2>10. CASE d - 1 = a
    <3>1. v[d - 1] = u[d - 1] /\ g[d - 1] = x /\ f[d - 1] = f[a] /\ ~(d <= a)
      BY <1>1, <2>3, <2>5, <2>8, <2>10
    <3>2. QED
      BY <3>1, <2>3, <2>9
  <2>11. CASE d - 1 # a
    <3>1. g[d - 1] = f[d - 1] /\ (d - 1 <= a <=> d <= a)
      BY <1>1, <2>3, <2>5, <2>7, <2>11
    <3>2. QED
      BY <3>1, <2>3, <2>8, <2>9
  <2>12. QED
    BY <2>10, <2>11
<1>7. Moved(K)
  BY <1>4, <1>6
<1>8. ~(K <= a)
  BY <1>4 DEF Dims
<1>9. QED
  BY <1>2, <1>3, <1>7, <1>8 DEF g

(* How far a region is. *)
LEMMA RegionDistType ==
    ASSUME NEW metric, NEW o \in [Dims -> Nat]
    PROVE  /\ [d \in Dims |-> Dist1(metric, o[d], 0)] \in [Dims -> Nat]
           /\ RegionDist(metric, o) \in Nat
<1> DEFINE f == [d \in Dims |-> Dist1(metric, o[d], 0)]
<1>1. f \in [Dims -> Nat]
  <2>1. \A d \in Dims : Dist1(metric, o[d], 0) \in Nat
    <3> TAKE d \in Dims
    <3>1. o[d] \in Int /\ 0 \in Int
      OBVIOUS
    <3>2. QED
      BY <3>1, Dist1Type
  <2>2. QED
    BY <2>1
<1> HIDE DEF f
<1>2. \A d \in Dims : f[d] <= f[d]
  <2> TAKE d \in Dims
  <2>1. f[d] \in Nat
    BY <1>1
  <2>2. QED
    BY <2>1
<1>3. Combined(metric, f) \in Nat
  BY <1>1, <1>2, CombinedGrows
<1>4. QED
  BY <1>1, <1>3 DEF RegionDist, f

(* rect_dist_after_update is the distance of the region after the move.    *)
LEMMA RegionMoves ==
    ASSUME NEW metric, NEW o \in [Dims -> Nat], NEW a \in Dims, NEW n \in Nat
    PROVE  RectDistAfterUpdate(metric, RegionDist(metric, o), o, a, n)
              = RegionDist(metric, [o EXCEPT ![a] = n])
<1>1. CASE metric = "chebyshev"
  BY <1>1 DEF RectDistAfterUpdate
<1>2. CASE metric # "chebyshev"
  <2> DEFINE f == [d \in Dims |-> Dist1(metric, o[d], 0)]
             x == Dist1(metric, n, 0)
             p == [o EXCEPT ![a] = n]
             g == [d \in Dims |-> Dist1(metric, p[d], 0)]
  <2>1. f \in [Dims -> Nat] /\ f[a] = Dist1(metric, o[a], 0)
    BY RegionDistType
  <2>2. x \in Nat
    <3>1. n \in Int /\ 0 \in Int
      OBVIOUS
    <3>2. QED
      BY <3>1, Dist1Type
  <2>3. g = [f EXCEPT ![a] = x]
    OBVIOUS
  <2>4. RegionDist(metric, o) = Combined(metric, f)
        /\ RegionDist(metric, p) = Combined(metric, g)
    BY DEF RegionDist
  <2>5. RectDistAfterUpdate(metric, RegionDist(metric, o), o, a, n)
           = (RegionDist(metric, o) - f[a]) + x
    BY <1>2, <2>1 DEF RectDistAfterUpdate
  <2> HIDE DEF f, x, p, g
  <2>6. Combined(metric, g) = (Combined(metric, f) - f[a]) + x
    BY <1>2, <2>1, <2>2, <2>3, CombinedMoves
  <2>7. QED
    BY <2>4, <2>5, <2>6 DEF p
<1>3. QED
  BY <1>1, <1>2

(* A point that is off by as much on each axis is as far as the region. *)
LEMMA RegionIsFar ==
    ASSUME NEW metric, NEW o \in [Dims -> Nat],
           NEW p \in [Dims -> Int], NEW q \in [Dims -> Int],
           \A d \in Dims : o[d] <= AbsDiff(p[d], q[d])
    PROVE  RegionDist(metric, o) <= PointDist(metric, p, q)
<1> DEFINE f == [d \in Dims |-> Dist1(metric, o[d], 0)]
           g == [d \in Dims |-> Dist1(metric, p[d], q[d])]
<1>1. f \in [Dims -> Nat] /\ g \in [Dims -> Nat]
  BY RegionDistType, PointDistType
<1>2. \A d \in Dims : f[d] <= g[d]
  <2> TAKE d \in Dims
  <2>1. o[d] \in Int /\ 0 \in Int /\ p[d] \in Int /\ q[d] \in Int
    OBVIOUS
  <2>2. AbsDiff(o[d], 0) = o[d]
    <3>1. o[d] \in Nat
      OBVIOUS
    <3>2. QED
      BY <3>1 DEF AbsDiff
  <2>3. Dist1(metric, o[d], 0) <= Dist1(metric, p[d], q[d])
    BY <2>1, <2>2, Dist1Grows
  <2>4. QED
    BY <2>3
<1> HIDE DEF f, g
<1>3. Combined(metric, f) <= Combined(metric, g)
  BY <1>1, <1>2, CombinedGrows
<1>4. QED
  BY <1>3 DEF RegionDist, PointDist, f, g
=============================================================================
