----------------------------- MODULE JoinProofs -----------------------------
(***************************************************************************)
(* Joins of two built trees, for all trees, queries, executors and every   *)
(* interleaving of the walks: the boxes stay around the entries below      *)
(* them, a pair within the radius is found once, a nearest query skips     *)
(* nothing that is nearer, and what is returned is what PairJoin promises. *)
(***************************************************************************)
EXTENDS JoinProperties, MetricTheorems

-----------------------------------------------------------------------------
(* Boxes.                                                                  *)

Interval == [min : Int, max : Int]
Box      == [Sides -> [Dims -> Interval]]

(* A point within the intervals of one side. *)
Within(p, intervals) ==
    \A d \in Dims : intervals[d].min <= p[d] /\ p[d] <= intervals[d].max

(* The lower bound of two boxes is one for the points within them. *)
LEMMA LowerIsBelow ==
    ASSUME NEW metric, NEW b \in Box,
           NEW p \in [Dims -> Int], NEW q \in [Dims -> Int],
           Within(p, b.left), Within(q, b.right)
    PROVE  Lower(b, metric) \in Nat /\ Lower(b, metric) <= PointDist(metric, p, q)
<1> DEFINE share(d) ==
              LET l == b.left[d]
                  r == b.right[d]
              IN  IF l.max < r.min THEN Dist1(metric, l.max, r.min)
                  ELSE IF r.max < l.min THEN Dist1(metric, r.max, l.min) ELSE 0
           f == [d \in Dims |-> share(d)]
           g == [d \in Dims |-> Dist1(metric, p[d], q[d])]
<1>1. ASSUME NEW d \in Dims
      PROVE  share(d) \in Nat /\ share(d) <= Dist1(metric, p[d], q[d])
  <2> DEFINE l == b.left[d]
             r == b.right[d]
  <2>1. l \in Interval /\ r \in Interval
    <3>1. "left" \in Sides /\ "right" \in Sides
      BY DEF Sides
    <3>2. b.left \in [Dims -> Interval] /\ b.right \in [Dims -> Interval]
      BY <3>1 DEF Box
    <3>3. QED
      BY <3>2
  <2>2. /\ l.min <= p[d] /\ p[d] <= l.max
        /\ r.min <= q[d] /\ q[d] <= r.max
    BY DEF Within
  <2> DEFINE a == p[d]
             c == q[d]
             lo == l.min
             hi == l.max
             ro == r.min
             ri == r.max
  <2>3. /\ lo \in Int /\ hi \in Int /\ ro \in Int /\ ri \in Int
        /\ a \in Int /\ c \in Int
        /\ lo <= a /\ a <= hi /\ ro <= c /\ c <= ri
    BY <2>1, <2>2 DEF Interval
  <2>4. share(d) = IF hi < ro THEN Dist1(metric, hi, ro)
                   ELSE IF ri < lo THEN Dist1(metric, ri, lo) ELSE 0
    OBVIOUS
  <2> HIDE DEF share, a, c, lo, hi, ro, ri
  <2>5. hi < ro => Dist1(metric, hi, ro) <= Dist1(metric, a, c)
    <3>1. hi < ro => AbsDiff(hi, ro) <= AbsDiff(a, c)
      BY <2>3 DEF AbsDiff
    <3>2. QED
      BY <3>1, <2>3, Dist1Grows
  <2>6. ri < lo => Dist1(metric, ri, lo) <= Dist1(metric, a, c)
    <3>1. ri < lo => AbsDiff(ri, lo) <= AbsDiff(a, c)
      BY <2>3 DEF AbsDiff
    <3>2. QED
      BY <3>1, <2>3, Dist1Grows
  <2>7. /\ Dist1(metric, a, c) \in Nat /\ Dist1(metric, hi, ro) \in Nat
        /\ Dist1(metric, ri, lo) \in Nat
    BY <2>3, Dist1Type
  <2>8. share(d) \in Nat /\ share(d) <= Dist1(metric, a, c)
    BY <2>4, <2>5, <2>6, <2>7
  <2>9. QED
    BY <2>8 DEF a, c
<1>2. g \in [Dims -> Nat]
  BY PointDistType
<1>3. f \in [Dims -> Nat] /\ \A d \in Dims : f[d] <= g[d]
  <2> HIDE DEF share
  <2> QED
    BY <1>1
<1>4. Lower(b, metric) = Combined(metric, f) /\ PointDist(metric, p, q) = Combined(metric, g)
  BY DEF Lower, PointDist
<1> HIDE DEF f, g
<1>5. QED
  BY <1>2, <1>3, <1>4, CombinedGrows

(* The upper bound of two boxes, where there is one, is one for the points *)
(* within them.                                                            *)
LEMMA UpperIsAbove ==
    ASSUME NEW metric, NEW b \in Box,
           NEW p \in [Dims -> Int], NEW q \in [Dims -> Int],
           Within(p, b.left), Within(q, b.right)
    PROVE  /\ Upper(b, metric) \in Nat
           /\ Upper(b, metric) = Infinity \/ PointDist(metric, p, q) <= Upper(b, metric)
<1> DEFINE share(d) ==
              Greater(Dist1(metric, b.left[d].min, b.right[d].max),
                      Dist1(metric, b.left[d].max, b.right[d].min))
           f == [d \in Dims |-> share(d)]
           g == [d \in Dims |-> Dist1(metric, p[d], q[d])]
<1>1. ASSUME NEW d \in Dims
      PROVE  share(d) \in Nat /\ Dist1(metric, p[d], q[d]) <= share(d)
  <2> DEFINE l == b.left[d]
             r == b.right[d]
  <2>1. l \in Interval /\ r \in Interval
    <3>1. "left" \in Sides /\ "right" \in Sides
      BY DEF Sides
    <3>2. b.left \in [Dims -> Interval] /\ b.right \in [Dims -> Interval]
      BY <3>1 DEF Box
    <3>3. QED
      BY <3>2
  <2>2. /\ l.min <= p[d] /\ p[d] <= l.max
        /\ r.min <= q[d] /\ q[d] <= r.max
    BY DEF Within
  <2> DEFINE a == p[d]
             c == q[d]
             lo == l.min
             hi == l.max
             ro == r.min
             ri == r.max
  <2>3. /\ lo \in Int /\ hi \in Int /\ ro \in Int /\ ri \in Int
        /\ a \in Int /\ c \in Int
        /\ lo <= a /\ a <= hi /\ ro <= c /\ c <= ri
    BY <2>1, <2>2 DEF Interval
  <2>4. share(d) = Greater(Dist1(metric, lo, ri), Dist1(metric, hi, ro))
    OBVIOUS
  <2> HIDE DEF share, a, c, lo, hi, ro, ri
  <2>5. a <= c => Dist1(metric, a, c) <= Dist1(metric, lo, ri)
    <3>1. a <= c => AbsDiff(a, c) <= AbsDiff(lo, ri)
      BY <2>3 DEF AbsDiff
    <3>2. QED
      BY <3>1, <2>3, Dist1Grows
  <2>6. c < a => Dist1(metric, a, c) <= Dist1(metric, hi, ro)
    <3>1. c < a => AbsDiff(a, c) <= AbsDiff(hi, ro)
      BY <2>3 DEF AbsDiff
    <3>2. QED
      BY <3>1, <2>3, Dist1Grows
  <2>7. /\ Dist1(metric, a, c) \in Nat /\ Dist1(metric, hi, ro) \in Nat
        /\ Dist1(metric, lo, ri) \in Nat
    BY <2>3, Dist1Type
  <2>8. share(d) \in Nat /\ Dist1(metric, a, c) <= share(d)
    <3>1. a <= c \/ c < a
      BY <2>3
    <3>2. QED
      BY <2>4, <2>5, <2>6, <2>7, <3>1 DEF Greater
  <2>9. QED
    BY <2>8 DEF a, c
<1>2. g \in [Dims -> Nat]
  BY PointDistType
<1>3. f \in [Dims -> Nat] /\ \A d \in Dims : g[d] <= f[d]
  <2> HIDE DEF share
  <2> QED
    BY <1>1
<1>4. /\ Upper(b, metric) = Combined(metric, f) \/ Upper(b, metric) = Infinity
      /\ PointDist(metric, p, q) = Combined(metric, g)
  BY DEF Upper, PointDist
<1> HIDE DEF f, g
<1>5. QED
  BY <1>2, <1>3, <1>4, CombinedGrows, MetricAssumption


-----------------------------------------------------------------------------
(* Leaves and the cursors over them.                                       *)

Cursors == [stem : Nat \ {0}, level : Nat, start : Nat, end : Nat,
            remaining : Nat, padding : {0}]

RowRange == [start : Nat, end : Nat]

(* A cursor is at the stem above its leaves, if it has any. *)
CursorOK(tree, c) ==
    /\ c \in Cursors
    /\ c.level + c.remaining = tree.depth
    /\ c.start <= c.end /\ c.end <= Len(tree.leaves)
    /\ c.start < c.end =>
          /\ 2 ^ tree.depth + c.start = c.stem * 2 ^ c.remaining
          /\ c.end <= c.start + 2 ^ c.remaining

LEMMA BuiltTypes ==
    ASSUME NEW tree, IsBuilt(tree)
    PROVE  /\ tree.depth \in Nat /\ 2 ^ tree.depth \in Nat
           /\ tree.max_stem_level = tree.depth - 1
           /\ tree.max_leaf_len \in Nat
           /\ Len(tree.leaves) \in Nat /\ Len(tree.leaves) <= 2 ^ tree.depth
           /\ DOMAIN tree.leaves = 1 .. Len(tree.leaves)
           /\ Len(tree.points) \in Nat
           /\ DOMAIN tree.points = 1 .. Len(tree.points)
           /\ \A i \in DOMAIN tree.points :
                 /\ tree.points[i] \in [Dims -> Int]
                 /\ \A d \in Dims : -Infinity < tree.points[i][d]
                                 /\ tree.points[i][d] < Infinity
           /\ \A n \in 1 .. 2 ^ tree.depth - 1 :
                 tree.stems[n] \in Int /\ -Infinity < tree.stems[n]
                                       /\ tree.stems[n] <= Infinity
           /\ \A leaf \in DOMAIN tree.leaves :
                 /\ Len(tree.leaves[leaf]) \in Nat
                 /\ Len(tree.leaves[leaf]) <= Infinity
                 /\ DOMAIN tree.leaves[leaf] = 1 .. Len(tree.leaves[leaf])
                 /\ \A r \in DOMAIN tree.leaves[leaf] :
                       tree.leaves[leaf][r] \in DOMAIN tree.points
<1>1. Infinity \in Nat
  BY MetricAssumption
<1>2. tree.depth \in Nat /\ 2 ^ tree.depth \in Nat
  BY PowerType DEF IsBuilt
<1>3. /\ tree.points \in Seq([Dims -> 1 - Infinity .. Infinity - 1])
      /\ tree.leaves \in Seq(Seq(DOMAIN tree.points))
      /\ tree.stems \in [1 .. 2 ^ tree.depth - 1 -> 1 - Infinity .. Infinity]
      /\ Len(tree.leaves) <= 2 ^ tree.depth
      /\ \A leaf \in DOMAIN tree.leaves : Len(tree.leaves[leaf]) <= Infinity
      /\ tree.max_stem_level = tree.depth - 1
      /\ tree.max_leaf_len \in Nat
  BY DEF IsBuilt
<1>4. /\ Len(tree.points) \in Nat /\ DOMAIN tree.points = 1 .. Len(tree.points)
      /\ \A i \in DOMAIN tree.points :
            tree.points[i] \in [Dims -> 1 - Infinity .. Infinity - 1]
  BY <1>3
<1>5. ASSUME NEW i \in DOMAIN tree.points
      PROVE  /\ tree.points[i] \in [Dims -> Int]
             /\ \A d \in Dims : -Infinity < tree.points[i][d]
                             /\ tree.points[i][d] < Infinity
  <2> DEFINE p == tree.points[i]
  <2>1. p \in [Dims -> 1 - Infinity .. Infinity - 1]
    BY <1>4
  <2> HIDE DEF p
  <2>2. \A d \in Dims : p[d] \in Int /\ -Infinity < p[d] /\ p[d] < Infinity
    <3> TAKE d \in Dims
    <3>1. p[d] \in 1 - Infinity .. Infinity - 1
      BY <2>1
    <3>2. QED
      BY <3>1, <1>1
  <2>3. p \in [Dims -> Int]
    BY <2>1, <2>2
  <2>4. QED
    BY <2>2, <2>3 DEF p
<1>6. /\ Len(tree.leaves) \in Nat /\ DOMAIN tree.leaves = 1 .. Len(tree.leaves)
      /\ \A leaf \in DOMAIN tree.leaves :
            tree.leaves[leaf] \in Seq(DOMAIN tree.points)
  BY <1>3
<1>7. \A leaf \in DOMAIN tree.leaves :
         /\ Len(tree.leaves[leaf]) \in Nat
         /\ DOMAIN tree.leaves[leaf] = 1 .. Len(tree.leaves[leaf])
         /\ \A r \in DOMAIN tree.leaves[leaf] :
               tree.leaves[leaf][r] \in DOMAIN tree.points
  BY <1>6
<1>8. \A n \in 1 .. 2 ^ tree.depth - 1 :
         tree.stems[n] \in Int /\ -Infinity < tree.stems[n]
                               /\ tree.stems[n] <= Infinity
  <2> TAKE n \in 1 .. 2 ^ tree.depth - 1
  <2>1. tree.stems[n] \in 1 - Infinity .. Infinity
    BY <1>3
  <2>2. QED
    BY <2>1, <1>1
<1>9. QED
  BY <1>2, <1>3, <1>4, <1>5, <1>6, <1>7, <1>8

LEMMA QuotientOf ==
    ASSUME NEW p \in Nat \ {0}, NEW q \in Nat, NEW r \in 0 .. p - 1
    PROVE  (q * p + r) \div p = q
<1> DEFINE x == q * p + r
           d == x \div p
<1>1. q * p \in Nat /\ x \in Nat
  OBVIOUS
<1>2. d \in Nat /\ p * d <= x /\ x < p * d + p
  <2> HIDE DEF x
  <2> QED
    BY <1>1
<1>3. ASSUME d < q PROVE FALSE
  <2>1. p * (d + 1) <= p * q
    BY <1>2, <1>3
  <2>2. p * (d + 1) = p * d + p
    BY <1>2
  <2>3. p * q = q * p
    OBVIOUS
  <2> HIDE DEF d
  <2>4. QED
    BY <1>1, <1>2, <2>1, <2>2, <2>3
<1>4. ASSUME q < d PROVE FALSE
  <2>1. p * (q + 1) <= p * d
    BY <1>2, <1>4
  <2>2. p * (q + 1) = q * p + p
    OBVIOUS
  <2> HIDE DEF d
  <2>3. QED
    BY <1>1, <1>2, <2>1, <2>2
<1>5. QED
  BY <1>2, <1>3, <1>4

LEMMA RootCursorOK ==
    ASSUME NEW tree, IsBuilt(tree)
    PROVE  CursorOK(tree, RootCursor(tree))
<1> DEFINE c == RootCursor(tree)
<1>1. /\ tree.depth \in Nat /\ 2 ^ tree.depth \in Nat /\ Len(tree.leaves) \in Nat
      /\ tree.max_stem_level = tree.depth - 1
      /\ Len(tree.leaves) <= 2 ^ tree.depth
  BY BuiltTypes
<1>2. Greater(tree.depth - Greater(tree.max_stem_level + 1, 0), 0) = 0
  BY <1>1 DEF Greater
<1>3. c = [stem |-> 1, level |-> 0, start |-> 0, end |-> Len(tree.leaves),
           remaining |-> tree.depth, padding |-> 0]
  BY <1>2 DEF RootCursor
<1>4. c \in Cursors
  BY <1>1, <1>3 DEF Cursors
<1>5. /\ c.level = 0 /\ c.start = 0 /\ c.end = Len(tree.leaves) /\ c.stem = 1
      /\ c.remaining = tree.depth
  BY <1>3
<1> DEFINE f == 2 ^ tree.depth
<1> HIDE DEF c
<1>6. f + c.start = c.stem * 2 ^ c.remaining /\ c.end <= c.start + 2 ^ c.remaining
  <2>1. f \in Nat /\ 2 ^ c.remaining = f
    BY <1>1, <1>5
  <2> HIDE DEF f
  <2>2. QED
    BY <2>1, <1>1, <1>5 DEF f
<1>7. CursorOK(tree, c)
  BY <1>1, <1>4, <1>5, <1>6 DEF CursorOK
<1>8. QED
  BY <1>7 DEF c

(* Halving a cursor. *)
LEMMA SplitCursors ==
    ASSUME NEW tree, IsBuilt(tree), NEW c, CursorOK(tree, c),
           ~AtLeaf(c), Span(c) > 0
    PROVE  /\ CursorOK(tree, SplitLeft(c)) /\ CursorOK(tree, SplitRight(c))
           /\ Mid(c) \in Nat /\ c.start < Mid(c) /\ Mid(c) <= c.end
           /\ SplitLeft(c).start = c.start /\ SplitLeft(c).end = Mid(c)
           /\ SplitRight(c).start = Mid(c) /\ SplitRight(c).end = c.end
           /\ c.remaining \in 1 .. tree.depth
           /\ c.stem \in 1 .. 2 ^ tree.depth - 1
           /\ \A leaf \in c.start .. c.end - 1 :
                 (2 ^ tree.depth + leaf) \div 2 ^ (c.remaining - 1)
                    = 2 * c.stem + (IF leaf < Mid(c) THEN 0 ELSE 1)
<1> DEFINE h == 2 ^ (c.remaining - 1)
           f == 2 ^ tree.depth
           s == c.stem
           m == Mid(c)
           l == SplitLeft(c)
           r == SplitRight(c)
           x == s * h
<1>1. /\ c \in Cursors /\ c.level + c.remaining = tree.depth
      /\ c.start <= c.end /\ c.end <= Len(tree.leaves)
      /\ tree.depth \in Nat /\ f \in Nat /\ Len(tree.leaves) \in Nat
      /\ Len(tree.leaves) <= f
  BY BuiltTypes DEF CursorOK
<1>2. /\ s \in Nat \ {0} /\ c.level \in Nat /\ c.start \in Nat /\ c.end \in Nat
      /\ c.remaining \in Nat /\ c.padding = 0
  BY <1>1 DEF Cursors
<1>3. c.remaining \in 1 .. tree.depth /\ c.start < c.end
  BY <1>1, <1>2 DEF AtLeaf, Span
<1>4. h \in Nat \ {0} /\ 2 ^ c.remaining = 2 * h
  <2>1. c.remaining \in Nat \ {0} /\ c.remaining - 1 \in Nat
    BY <1>2, <1>3
  <2>2. QED
    BY <2>1, PowerTwice, PowerType
<1>5. /\ f + c.start = s * (2 * h) /\ c.end <= c.start + 2 * h
  BY <1>3, <1>4 DEF CursorOK
<1>6. m = Lesser(c.start + h, c.end)
  BY DEF Mid
<1>7. /\ l = [c EXCEPT !.stem = 2 * s, !.level = c.level + 1,
                        !.remaining = c.remaining - 1, !.end = m]
      /\ r = [c EXCEPT !.stem = 2 * s + 1, !.level = c.level + 1,
                        !.remaining = c.remaining - 1, !.start = m]
  BY DEF SplitLeft, SplitRight
<1>8. m \in Nat /\ c.start < m /\ m <= c.end /\ (m < c.end => m = c.start + h)
      /\ m <= c.start + h
  <2> HIDE DEF m, h
  <2> QED
    BY <1>2, <1>3, <1>4, <1>6 DEF Lesser
<1>9. x \in Nat /\ h <= x /\ s <= x /\ s * (2 * h) = 2 * x
      /\ (2 * s) * h = 2 * x /\ (2 * s + 1) * h = 2 * x + h
  <2> HIDE DEF h, s
  <2>1. x \in Nat /\ s * (2 * h) = 2 * x /\ (2 * s) * h = 2 * x
        /\ (2 * s + 1) * h = 2 * x + h
    BY <1>2, <1>4
  <2>2. h <= x /\ s <= x
    <3>1. 1 <= s /\ 1 <= h
      BY <1>2, <1>4
    <3>2. 1 * h <= s * h /\ s * 1 <= s * h
      BY <3>1, <1>2, <1>4
    <3>3. QED
      BY <3>2, <1>2, <1>4
  <2>3. QED
    BY <2>1, <2>2
<1>10. /\ l.stem = 2 * s /\ l.level = c.level + 1 /\ l.remaining = c.remaining - 1
       /\ l.start = c.start /\ l.end = m /\ l.padding = 0
       /\ r.stem = 2 * s + 1 /\ r.level = c.level + 1 /\ r.remaining = c.remaining - 1
       /\ r.start = m /\ r.end = c.end /\ r.padding = 0
  <2> HIDE DEF m, l, r, s
  <2>1. QED
    BY <1>1, <1>2, <1>7 DEF Cursors
<1>17. l \in Cursors /\ r \in Cursors
  <2> HIDE DEF m, l, r, s
  <2>1. /\ 2 * s \in Nat \ {0} /\ 2 * s + 1 \in Nat \ {0} /\ c.level + 1 \in Nat
        /\ c.remaining - 1 \in Nat
    BY <1>2, <1>3
  <2>2. QED
    BY <1>1, <1>2, <1>7, <1>8, <2>1 DEF Cursors
<1>18. /\ c.level + c.remaining = tree.depth /\ c.level \in Nat
       /\ c.remaining \in Nat /\ c.start \in Nat /\ c.end \in Nat
  BY <1>1, <1>2
<1>16. f + c.start = 2 * x /\ c.end <= c.start + 2 * h /\ x \in Nat
  <2> HIDE DEF h, s, f
  <2> QED
    BY <1>5, <1>9
<1>11. CursorOK(tree, l)
  <2>2. l.stem * 2 ^ l.remaining = 2 * x
    <3> HIDE DEF l
    <3> QED
      BY <1>9, <1>10
  <2> HIDE DEF l, r, m, h, x, s, f
  <2>1. l.level + l.remaining = tree.depth
    BY <1>18, <1>10
  <2>3. f + l.start = l.stem * 2 ^ l.remaining
    BY <2>2, <1>16, <1>10
  <2>4. l.end <= l.start + 2 ^ l.remaining
    BY <1>8, <1>10 DEF h
  <2>5. QED
    BY <2>1, <2>3, <2>4, <1>1, <1>2, <1>8, <1>10, <1>17 DEF CursorOK, f
<1>12. CursorOK(tree, r)
  <2>2. r.stem * 2 ^ r.remaining = 2 * x + h
    <3> HIDE DEF r
    <3> QED
      BY <1>9, <1>10
  <2> HIDE DEF l, r, m, h, x, s, f
  <2>1. r.level + r.remaining = tree.depth
    BY <1>18, <1>10
  <2>3. r.start < r.end => f + r.start = r.stem * 2 ^ r.remaining
    <3>1. h \in Nat /\ f \in Nat /\ c.start \in Nat
      BY <1>1, <1>2, <1>4
    <3>2. QED
      <4>1. r.start < r.end => f + m = 2 * x + h
        BY <3>1, <1>8, <1>10, <1>16
      <4>2. QED
        BY <4>1, <2>2, <1>10
  <2>4. r.start < r.end => r.end <= r.start + 2 ^ r.remaining
    <3>1. 2 ^ r.remaining = h
      BY <1>10 DEF h
    <3>2. QED
      BY <3>1, <1>4, <1>8, <1>10, <1>16, <1>18
  <2>5. QED
    BY <2>1, <2>3, <2>4, <1>1, <1>2, <1>8, <1>10, <1>17 DEF CursorOK, f
<1>13. c.stem \in 1 .. f - 1
  <2> HIDE DEF h, x, f
  <2>1. s <= x /\ f + c.start = 2 * x /\ c.start < f
    BY <1>1, <1>2, <1>3, <1>5, <1>9
  <2>2. QED
    BY <2>1, <1>1, <1>2, <1>9
<1>14. ASSUME NEW leaf \in c.start .. c.end - 1
       PROVE  (f + leaf) \div h = 2 * s + (IF leaf < m THEN 0 ELSE 1)
  <2> DEFINE y == leaf - c.start
  <2> HIDE DEF h, x, f, m, s, y
  <2>1. y \in Nat /\ y < 2 * h /\ (leaf < m <=> y < h) /\ f + leaf = 2 * x + y
        /\ leaf \in Nat
    <3> HIDE DEF l, r
    <3>1. f \in Nat
      BY <1>1
    <3>2. leaf \in Int /\ c.start <= leaf /\ leaf < c.end
      BY <1>2
    <3>3. y \in Nat /\ leaf = c.start + y /\ leaf \in Nat
      BY <3>2, <1>2 DEF y
    <3>4. y < 2 * h
      BY <3>2, <3>3, <1>2, <1>4, <1>16
    <3>5. leaf < m <=> y < h
      BY <3>2, <3>3, <1>2, <1>4, <1>8
    <3>6. QED
      BY <3>1, <3>3, <3>4, <3>5, <1>2, <1>16
  <2> HIDE DEF y
  <2>2. CASE y < h
    <3>1. y \in 0 .. h - 1 /\ 2 * s \in Nat
      BY <2>1, <2>2, <1>2, <1>4
    <3>2. ((2 * s) * h + y) \div h = 2 * s
      BY <3>1, <1>4, QuotientOf
    <3>3. QED
      BY <3>2, <2>1, <2>2, <1>9, <1>2
  <2>3. CASE ~(y < h)
    <3>1. y - h \in 0 .. h - 1 /\ 2 * s + 1 \in Nat
      BY <2>1, <2>3, <1>2, <1>4
    <3>2. ((2 * s + 1) * h + (y - h)) \div h = 2 * s + 1
      BY <3>1, <1>4, QuotientOf
    <3>3. f + leaf = (2 * s + 1) * h + (y - h)
      BY <2>1, <1>4, <1>9
    <3>4. QED
      BY <3>2, <3>3, <2>1, <2>3
  <2>4. QED
    BY <2>2, <2>3
<1>15. QED
  BY <1>3, <1>8, <1>10, <1>11, <1>12, <1>13, <1>14


(* The rows of a leaf that are meant, by their numbers. *)
LEMMA RowsOfParts ==
    ASSUME NEW tree, IsBuilt(tree), NEW leaf \in 0 .. Len(tree.leaves) - 1,
           NEW rows \in RowRange
    PROVE  /\ leaf + 1 \in DOMAIN tree.leaves
           /\ LeafLen(tree, leaf) \in Nat /\ LeafLen(tree, leaf) <= Infinity
           /\ \A i \in RowsOf(tree, leaf, rows) :
                 /\ i \in DOMAIN tree.points
                 /\ \E r \in DOMAIN tree.leaves[leaf + 1] :
                       /\ tree.leaves[leaf + 1][r] = i
                       /\ rows.start < r /\ r <= rows.end
           /\ \A r \in DOMAIN tree.leaves[leaf + 1] :
                 rows.start < r /\ r <= rows.end =>
                    tree.leaves[leaf + 1][r] \in RowsOf(tree, leaf, rows)
<1> DEFINE rowsOf == tree.leaves[leaf + 1]
           n == Len(rowsOf)
<1>1. leaf + 1 \in DOMAIN tree.leaves
  BY BuiltTypes
<1>2. /\ n \in Nat /\ n <= Infinity /\ DOMAIN rowsOf = 1 .. n
      /\ \A r \in DOMAIN rowsOf : rowsOf[r] \in DOMAIN tree.points
  BY <1>1, BuiltTypes
<1>3. rows.start \in Nat /\ rows.end \in Nat
  BY DEF RowRange
<1>4. RowsOf(tree, leaf, rows) =
         {rowsOf[r] : r \in rows.start + 1 .. Lesser(rows.end, n)}
  BY DEF RowsOf, LeafLen
<1>5. \A r : r \in rows.start + 1 .. Lesser(rows.end, n) <=>
             r \in 1 .. n /\ rows.start < r /\ r <= rows.end
  <2> HIDE DEF n
  <2> QED
    BY <1>2, <1>3 DEF Lesser
<1>6. LeafLen(tree, leaf) = n
  BY DEF LeafLen
<1> HIDE DEF rowsOf, n
<1>7. QED
  BY <1>1, <1>2, <1>4, <1>5, <1>6 DEF rowsOf

(* An entry is in one row of one leaf, the one its point is routed to.     *)
LEMMA HomeOf ==
    ASSUME NEW tree, IsBuilt(tree), NEW i \in DOMAIN tree.points
    PROVE  \E leaf \in 0 .. Len(tree.leaves) - 1 :
              \E r \in DOMAIN tree.leaves[leaf + 1] :
                 tree.leaves[leaf + 1][r] = i
<1>1. PICK m \in DOMAIN tree.leaves : \E r \in DOMAIN tree.leaves[m] :
         tree.leaves[m][r] = i
  BY DEF IsBuilt
<1>2. m \in 1 .. Len(tree.leaves) /\ Len(tree.leaves) \in Nat
  BY BuiltTypes
<1>3. m - 1 \in 0 .. Len(tree.leaves) - 1 /\ (m - 1) + 1 = m
  BY <1>2
<1>4. QED
  BY <1>1, <1>3

LEMMA OneHome ==
    ASSUME NEW tree, IsBuilt(tree),
           NEW a \in 0 .. Len(tree.leaves) - 1, NEW b \in 0 .. Len(tree.leaves) - 1,
           NEW r \in DOMAIN tree.leaves[a + 1], NEW q \in DOMAIN tree.leaves[b + 1],
           tree.leaves[a + 1][r] = tree.leaves[b + 1][q]
    PROVE  a = b /\ r = q
<1> DEFINE i == tree.leaves[a + 1][r]
<1>1. a + 1 \in DOMAIN tree.leaves /\ b + 1 \in DOMAIN tree.leaves
  BY BuiltTypes
<1>2. i \in DOMAIN tree.points /\ tree.leaves[b + 1][q] = i
  BY <1>1, BuiltTypes
<1> HIDE DEF i
<1>3. PICK m \in DOMAIN tree.leaves : \E s \in DOMAIN tree.leaves[m] :
         \A n \in DOMAIN tree.leaves : \A t \in DOMAIN tree.leaves[n] :
            tree.leaves[n][t] = i => n = m /\ t = s
  BY <1>2 DEF IsBuilt
<1>4. a + 1 = b + 1 /\ r = q
  BY <1>1, <1>2, <1>3 DEF i
<1>5. QED
  BY <1>4

(* Leaf m, counted from one, is on a side of each stem above it that entry  *)
(* i may be on.                                                            *)
RoutedTo(tree, i, m) ==
    \A n \in 0 .. tree.depth - 1 :
       LET down == (2 ^ tree.depth + m - 1) \div 2 ^ n
           stem == tree.stems[down \div 2]
           x    == tree.points[i][(tree.depth - 1 - n) % K]
       IN  /\ down % 2 = 0 => x <= stem
           /\ down % 2 = 1 => x >= stem

LEMMA HomeIsRouted ==
    ASSUME NEW tree, IsBuilt(tree), NEW i \in DOMAIN tree.points
    PROVE  \E m \in DOMAIN tree.leaves : \E s \in DOMAIN tree.leaves[m] :
              /\ \A k \in DOMAIN tree.leaves : \A t \in DOMAIN tree.leaves[k] :
                    tree.leaves[k][t] = i => k = m /\ t = s
              /\ RoutedTo(tree, i, m)
<1>1. PICK m \in DOMAIN tree.leaves : \E r \in DOMAIN tree.leaves[m] :
             /\ tree.leaves[m][r] = i
             /\ \A k \in DOMAIN tree.leaves : \A q \in DOMAIN tree.leaves[k] :
                   tree.leaves[k][q] = i => k = m /\ q = r
             /\ \A n \in 0 .. tree.depth - 1 :
                   LET down == (2 ^ tree.depth + m - 1) \div 2 ^ n
                       stem == tree.stems[down \div 2]
                       x    == tree.points[i][(tree.depth - 1 - n) % K]
                   IN  /\ down % 2 = 0 => x <= stem
                       /\ down % 2 = 1 => x >= stem
  BY Zenon DEF IsBuilt
<1>2. QED
  BY <1>1, Zenon DEF RoutedTo

LEMMA DimType == ASSUME NEW l \in Nat PROVE l % K \in Dims
  BY MetricAssumption DEF Dims

(* The stem above its leaves tells which half an entry is in.              *)
LEMMA PivotDivides ==
    ASSUME NEW tree, IsBuilt(tree), NEW c, CursorOK(tree, c),
           ~AtLeaf(c), Span(c) > 0,
           NEW leaf \in c.start .. c.end - 1,
           NEW r \in DOMAIN tree.leaves[leaf + 1]
    PROVE  /\ c.level % K \in Dims
           /\ IF leaf < Mid(c)
              THEN tree.points[tree.leaves[leaf + 1][r]][c.level % K]
                      <= tree.stems[c.stem]
              ELSE tree.stems[c.stem]
                      <= tree.points[tree.leaves[leaf + 1][r]][c.level % K]
<1> DEFINE i == tree.leaves[leaf + 1][r]
           n == c.remaining - 1
           dim == c.level % K
           first == 2 ^ tree.depth
<1>1. /\ c.level \in Nat /\ c.start \in Nat /\ c.end \in Nat /\ c.remaining \in Nat
      /\ c.level + c.remaining = tree.depth /\ c.end <= Len(tree.leaves)
      /\ Len(tree.leaves) \in Nat /\ tree.depth \in Nat /\ first \in Nat
  BY BuiltTypes DEF CursorOK, Cursors
<1>2. dim \in Dims
  BY <1>1, DimType
<1>3. /\ c.remaining \in 1 .. tree.depth /\ c.stem \in 1 .. first - 1
      /\ (first + leaf) \div 2 ^ n = 2 * c.stem + (IF leaf < Mid(c) THEN 0 ELSE 1)
  BY SplitCursors
<1>4. leaf + 1 \in DOMAIN tree.leaves /\ leaf \in Nat
  BY <1>1, BuiltTypes
<1>5. i \in DOMAIN tree.points
  BY <1>4, BuiltTypes
<1>6. n \in 0 .. tree.depth - 1 /\ (tree.depth - 1 - n) % K = dim
  <2> HIDE DEF dim, first
  <2>0. /\ c.level \in Nat /\ c.remaining \in Nat /\ tree.depth \in Nat
        /\ c.level + c.remaining = tree.depth
    BY <1>1
  <2>1. tree.depth - 1 - n = c.level
    BY <2>0
  <2>2. n \in 0 .. tree.depth - 1
    BY <2>0, <1>3
  <2>3. QED
    BY <2>1, <2>2 DEF dim
<1> HIDE DEF n, dim
<1>7. LET down == (first + leaf) \div 2 ^ n
      IN  /\ down % 2 = 0 => tree.points[i][dim] <= tree.stems[down \div 2]
          /\ down % 2 = 1 => tree.points[i][dim] >= tree.stems[down \div 2]
  <2>1. PICK m \in DOMAIN tree.leaves : \E s \in DOMAIN tree.leaves[m] :
              /\ \A k \in DOMAIN tree.leaves : \A t \in DOMAIN tree.leaves[k] :
                    tree.leaves[k][t] = i => k = m /\ t = s
              /\ RoutedTo(tree, i, m)
    BY <1>5, HomeIsRouted
  <2>2. m = leaf + 1
    BY <2>1, <1>4 DEF i
  <2>3. first + m - 1 = first + leaf
    BY <2>2, <1>1, <1>4
  <2> DEFINE down == (first + leaf) \div 2 ^ n
  <2>4. LET x == tree.points[i][(tree.depth - 1 - n) % K]
        IN  /\ down % 2 = 0 => x <= tree.stems[down \div 2]
            /\ down % 2 = 1 => x >= tree.stems[down \div 2]
    BY <2>1, <2>3, <1>6 DEF RoutedTo
  <2>5. QED
    BY <2>4, <1>6
<1> DEFINE down == (first + leaf) \div 2 ^ n
<1>8. /\ leaf < Mid(c) => down % 2 = 0
      /\ ~(leaf < Mid(c)) => down % 2 = 1
      /\ down \div 2 = c.stem
  <2> DEFINE s == c.stem
  <2>1. s \in Nat
    BY DEF CursorOK, Cursors
  <2>2. down = 2 * s + (IF leaf < Mid(c) THEN 0 ELSE 1)
    BY <1>3 DEF n
  <2> HIDE DEF s, down
  <2>3. (2 * s) % 2 = 0 /\ (2 * s) \div 2 = s
        /\ (2 * s + 1) % 2 = 1 /\ (2 * s + 1) \div 2 = s
    BY <2>1
  <2>4. CASE leaf < Mid(c)
    <3>1. down = 2 * s
      BY <2>1, <2>2, <2>4
    <3>2. QED
      BY <3>1, <2>3, <2>4 DEF s
  <2>5. CASE ~(leaf < Mid(c))
    <3>1. down = 2 * s + 1
      BY <2>1, <2>2, <2>5
    <3>2. QED
      BY <3>1, <2>3, <2>5 DEF s
  <2>6. QED
    BY <2>4, <2>5
<1>9. tree.points[i][dim] \in Int /\ tree.stems[c.stem] \in Int
  <2>1. tree.points[i] \in [Dims -> Int] /\ tree.stems[c.stem] \in Int
    BY <1>3, <1>5, BuiltTypes
  <2>2. QED
    BY <2>1, <1>2 DEF dim
<1> DEFINE v == tree.points[i][dim]
           w == tree.stems[c.stem]
<1>10. IF leaf < Mid(c) THEN v <= w ELSE w <= v
  <2>1. (down % 2 = 0 => v <= w) /\ (down % 2 = 1 => v >= w)
    BY <1>7, <1>8
  <2>2. v \in Int /\ w \in Int
    BY <1>9
  <2> HIDE DEF v, w, down
  <2>3. QED
    BY <2>1, <2>2, <1>8
<1>11. QED
  BY <1>2, <1>10 DEF dim

(* Halving a cursor divides its entries at the pivot. *)
LEMMA BelowHalves ==
    ASSUME NEW tree, IsBuilt(tree), NEW c, CursorOK(tree, c),
           ~AtLeaf(c), Span(c) > 0, NEW rows \in RowRange
    PROVE  LET l == Below(tree, SplitLeft(c), rows)
               r == Below(tree, SplitRight(c), rows)
           IN  /\ c.level % K \in Dims
               /\ Below(tree, c, rows) = l \cup r
               /\ l \cap r = {}
               /\ Below(tree, c, rows) \subseteq DOMAIN tree.points
               /\ \A i \in l : tree.points[i][c.level % K] <= tree.stems[c.stem]
               /\ \A i \in r : tree.stems[c.stem] <= tree.points[i][c.level % K]
<1> DEFINE m == Mid(c)
           l == Below(tree, SplitLeft(c), rows)
           r == Below(tree, SplitRight(c), rows)
           all == Below(tree, c, rows)
           in(leaf) == RowsOf(tree, leaf, rows)
<1>1. /\ c.start \in Nat /\ c.end \in Nat /\ c.end <= Len(tree.leaves)
      /\ Len(tree.leaves) \in Nat /\ m \in Nat /\ c.start < m /\ m <= c.end
      /\ SplitLeft(c).start = c.start /\ SplitLeft(c).end = m
      /\ SplitRight(c).start = m /\ SplitRight(c).end = c.end
  BY SplitCursors, BuiltTypes DEF CursorOK, Cursors
<1>2. /\ l = UNION {in(leaf) : leaf \in c.start .. m - 1}
      /\ r = UNION {in(leaf) : leaf \in m .. c.end - 1}
      /\ all = UNION {in(leaf) : leaf \in c.start .. c.end - 1}
  BY <1>1 DEF Below
<1>3. \A leaf : leaf \in c.start .. c.end - 1 <=>
                   leaf \in c.start .. m - 1 \/ leaf \in m .. c.end - 1
  <2> HIDE DEF m
  <2> QED
    BY <1>1
<1>4. ASSUME NEW leaf \in c.start .. c.end - 1, NEW i \in in(leaf)
      PROVE  \E q \in DOMAIN tree.leaves[leaf + 1] : tree.leaves[leaf + 1][q] = i
  <2>1. leaf \in 0 .. Len(tree.leaves) - 1
    BY <1>1
  <2>2. QED
    BY <2>1, <1>4, RowsOfParts
<1>5. ASSUME NEW leaf \in c.start .. c.end - 1, NEW i \in in(leaf)
      PROVE  /\ i \in DOMAIN tree.points
             /\ IF leaf < m THEN tree.points[i][c.level % K] <= tree.stems[c.stem]
                ELSE tree.stems[c.stem] <= tree.points[i][c.level % K]
  <2>1. leaf \in 0 .. Len(tree.leaves) - 1
    BY <1>1
  <2>2. i \in DOMAIN tree.points
    BY <2>1, <1>5, RowsOfParts
  <2>3. QED
    BY <2>2, <1>4, PivotDivides
<1>6. all = l \cup r
  <2> HIDE DEF m, l, r, all, in
  <2> QED
    BY <1>2, <1>3
<1>7. /\ \A i \in l : tree.points[i][c.level % K] <= tree.stems[c.stem]
      /\ \A i \in r : tree.stems[c.stem] <= tree.points[i][c.level % K]
  <2>1. \A leaf \in c.start .. m - 1 : leaf \in c.start .. c.end - 1 /\ leaf < m
    <3> HIDE DEF m
    <3> QED
      BY <1>1
  <2>2. \A leaf \in m .. c.end - 1 : leaf \in c.start .. c.end - 1 /\ ~(leaf < m)
    <3> HIDE DEF m
    <3> QED
      BY <1>1
  <2> HIDE DEF m, l, r, all, in
  <2>3. QED
    BY <2>1, <2>2, <1>2, <1>5
<1>8. all \subseteq DOMAIN tree.points
  <2> HIDE DEF m, l, r, all, in
  <2> QED
    BY <1>2, <1>5
<1>9. l \cap r = {}
  <2> SUFFICES ASSUME NEW i \in l, i \in r PROVE FALSE
    OBVIOUS
  <2>1. PICK a \in c.start .. m - 1 : i \in in(a)
    BY <1>2
  <2>2. PICK b \in m .. c.end - 1 : i \in in(b)
    BY <1>2
  <2>3. a \in c.start .. c.end - 1 /\ b \in c.start .. c.end - 1 /\ a # b
        /\ a \in 0 .. Len(tree.leaves) - 1 /\ b \in 0 .. Len(tree.leaves) - 1
    <3> HIDE DEF m
    <3> QED
      BY <1>1
  <2>4. PICK q \in DOMAIN tree.leaves[a + 1] : tree.leaves[a + 1][q] = i
    BY <2>1, <2>3, <1>4
  <2>5. PICK t \in DOMAIN tree.leaves[b + 1] : tree.leaves[b + 1][t] = i
    BY <2>2, <2>3, <1>4
  <2>6. QED
    BY <2>3, <2>4, <2>5, OneHome
<1>10. c.level % K \in Dims
  <2>1. c.level \in Nat
    BY DEF CursorOK, Cursors
  <2>2. QED
    BY <2>1, DimType
<1>11. QED
  BY <1>6, <1>7, <1>8, <1>9, <1>10


-----------------------------------------------------------------------------
(* Work and its halves.                                                    *)

Works == [left : Cursors, right : Cursors, bounds : Box,
          rows : [Sides -> RowRange]]

BuiltTrees(tr) == \A s \in Sides : IsBuilt(tr[s])

(* What Encloses and Holds say, of given trees. *)
EnclosesIn(tr, w) ==
    \A s \in Sides : \A d \in Dims : \A i \in Below(tr[s], w[s], w.rows[s]) :
        /\ w.bounds[s][d].min <= tr[s].points[i][d]
        /\ tr[s].points[i][d] <= w.bounds[s][d].max

HoldsIn(tr, w, i, j) ==
    /\ i \in Below(tr["left"], w["left"], w.rows["left"])
    /\ j \in Below(tr["right"], w["right"], w.rows["right"])

(* Work that may be taken up. *)
Sound(tr, w) ==
    /\ w \in Works
    /\ \A s \in Sides : CursorOK(tr[s], w[s])
    /\ EnclosesIn(tr, w)

LEMMA EnclosesInTrees == ASSUME NEW w PROVE Encloses(w) <=> EnclosesIn(trees, w)
  BY DEF Encloses, EnclosesIn

LEMMA HoldsInTrees ==
    ASSUME NEW w, NEW i, NEW j
    PROVE  Holds(w, i, j) <=> HoldsIn(trees, w, i, j)
  BY DEF Holds, HoldsIn

LEMMA WorkTypes ==
    ASSUME NEW w \in Works, NEW s \in Sides
    PROVE  /\ w[s] \in Cursors /\ w.rows[s] \in RowRange
           /\ w.bounds \in Box /\ w.bounds[s] \in [Dims -> Interval]
           /\ \A d \in Dims : /\ w.bounds[s][d] \in Interval
                              /\ w.bounds[s][d].min \in Int
                              /\ w.bounds[s][d].max \in Int
<1>1. s = "left" \/ s = "right"
  BY DEF Sides
<1>2. w.left \in Cursors /\ w.right \in Cursors /\ w.bounds \in Box
      /\ w.rows \in [Sides -> RowRange]
  BY DEF Works
<1>3. w[s] \in Cursors
  BY <1>1, <1>2
<1>4. w.bounds[s] \in [Dims -> Interval]
  BY <1>2 DEF Box
<1>5. \A d \in Dims : w.bounds[s][d] \in Interval
  BY <1>4
<1>6. QED
  BY <1>2, <1>3, <1>4, <1>5 DEF Interval

(* One side of the work is halved, the other stays. *)
Halved(w, s, c, b) ==
    [left |-> IF s = "left" THEN c ELSE w.left,
     right |-> IF s = "right" THEN c ELSE w.right,
     bounds |-> b, rows |-> w.rows]

LEMMA HalvedParts ==
    ASSUME NEW w \in Works, NEW s \in Sides, NEW c \in Cursors, NEW b \in Box
    PROVE  LET h == Halved(w, s, c, b) IN
           /\ h \in Works
           /\ h[s] = c /\ \A o \in Sides : o # s => h[o] = w[o]
           /\ h.bounds = b /\ h.rows = w.rows
<1> DEFINE h == Halved(w, s, c, b)
<1>1. s = "left" \/ s = "right"
  BY DEF Sides
<1>2. w.left \in Cursors /\ w.right \in Cursors /\ w.rows \in [Sides -> RowRange]
  BY DEF Works
<1>3. /\ h = [left |-> IF s = "left" THEN c ELSE w.left,
              right |-> IF s = "right" THEN c ELSE w.right,
              bounds |-> b, rows |-> w.rows]
  BY DEF Halved
<1>4. (IF s = "left" THEN c ELSE w.left) \in Cursors
      /\ (IF s = "right" THEN c ELSE w.right) \in Cursors
  BY <1>2
<1>5. h \in Works
  BY <1>2, <1>3, <1>4 DEF Works
<1>6. /\ h.left = (IF s = "left" THEN c ELSE w.left)
      /\ h.right = (IF s = "right" THEN c ELSE w.right)
      /\ h.bounds = b /\ h.rows = w.rows
  BY <1>3
<1> HIDE DEF h
<1>7. h[s] = c /\ \A o \in Sides : o # s => h[o] = w[o]
  BY <1>1, <1>6 DEF Sides
<1>8. QED
  BY <1>5, <1>6, <1>7 DEF h

(* A box of which one interval is replaced. *)
Moved(b, s, d, interval) == [b EXCEPT ![s][d] = interval]

LEMMA MovedParts ==
    ASSUME NEW b \in Box, NEW s \in Sides, NEW d \in Dims, NEW v \in Interval
    PROVE  /\ Moved(b, s, d, v) \in Box
           /\ \A o \in Sides : \A e \in Dims :
                 Moved(b, s, d, v)[o][e] = IF o = s /\ e = d THEN v ELSE b[o][e]
<1>1. b \in [Sides -> [Dims -> Interval]] /\ b[s] \in [Dims -> Interval]
  BY DEF Box
<1> DEFINE row == [b[s] EXCEPT ![d] = v]
<1>2. row \in [Dims -> Interval]
      /\ \A e \in Dims : row[e] = IF e = d THEN v ELSE b[s][e]
  BY <1>1
<1>3. Moved(b, s, d, v) = [b EXCEPT ![s] = row]
  BY DEF Moved
<1> HIDE DEF row
<1>4. Moved(b, s, d, v) \in Box
  BY <1>1, <1>2, <1>3 DEF Box
<1>5. \A o \in Sides : \A e \in Dims :
         Moved(b, s, d, v)[o][e] = IF o = s /\ e = d THEN v ELSE b[o][e]
  BY <1>1, <1>2, <1>3
<1>6. QED
  BY <1>4, <1>5

LEMMA SideParts ==
    ASSUME NEW tr, BuiltTrees(tr), NEW w, Sound(tr, w),
           SomeLeaves(w), ~BothAtLeaf(w)
    PROVE  /\ Side(w) \in Sides
           /\ IsBuilt(tr[Side(w)]) /\ CursorOK(tr[Side(w)], w[Side(w)])
           /\ ~AtLeaf(w[Side(w)]) /\ Span(w[Side(w)]) > 0
           /\ Dim(w) \in Dims /\ Dim(w) = w[Side(w)].level % K
           /\ Pivot(tr, w) \in Int /\ -Infinity < Pivot(tr, w)
           /\ Pivot(tr, w) <= Infinity
           /\ ~IsPadding(tr, w)
<1> DEFINE s == Side(w)
<1>1. s = "left" \/ s = "right"
  BY DEF Side
<1>2. s \in Sides
  BY <1>1 DEF Sides
<1>3. ~AtLeaf(w[s]) /\ Span(w[s]) > 0
  BY <1>1 DEF Side, BothAtLeaf, SomeLeaves
<1>4. IsBuilt(tr[s]) /\ CursorOK(tr[s], w[s]) /\ w \in Works
  BY <1>2 DEF BuiltTrees, Sound
<1>5. w[s] \in Cursors
  BY <1>2, <1>4, WorkTypes
<1> HIDE DEF s
<1> DEFINE c == w[s]
<1>6. c.level \in Nat /\ c.padding = 0
  BY <1>5 DEF Cursors
<1>7. c.stem \in 1 .. 2 ^ tr[s].depth - 1
  BY <1>3, <1>4, SplitCursors
<1>8. /\ tr[s].stems[c.stem] \in Int /\ -Infinity < tr[s].stems[c.stem]
      /\ tr[s].stems[c.stem] <= Infinity
  BY <1>4, <1>7, BuiltTypes
<1>9. c.level % K \in Dims
  BY <1>6, DimType
<1>10. Pivot(tr, w) = tr[s].stems[c.stem] /\ Dim(w) = c.level % K
  BY DEF Pivot, Dim, s
<1>11. ~IsPadding(tr, w)
  BY <1>6 DEF IsPadding, s
<1>12. QED
  BY <1>2, <1>3, <1>4, <1>8, <1>9, <1>10, <1>11 DEF s

LEMMA HalvesAreHalved ==
    ASSUME NEW tr, BuiltTrees(tr), NEW w, Sound(tr, w),
           SomeLeaves(w), ~BothAtLeaf(w)
    PROVE  LET s == Side(w)
               d == Dim(w)
               p == Pivot(tr, w)
               i == w.bounds[s][d]
           IN  /\ NearHalf(tr, w) =
                     Halved(w, s, SplitLeft(w[s]),
                            IF Finite(p)
                            THEN Moved(w.bounds, s, d,
                                       [min |-> i.min, max |-> Lesser(p, i.max)])
                            ELSE w.bounds)
               /\ FarHalf(tr, w) =
                     Halved(w, s, SplitRight(w[s]),
                            Moved(w.bounds, s, d,
                                  [min |-> Greater(p, i.min), max |-> i.max]))
<1> DEFINE s == Side(w)
           d == Dim(w)
           p == Pivot(tr, w)
           i == w.bounds[s][d]
           near == [i EXCEPT !.max = Lesser(p, @)]
           far == [i EXCEPT !.min = Greater(p, @)]
<1>1. s \in Sides /\ d \in Dims /\ w \in Works
  BY SideParts DEF Sound
<1>2. s = "left" \/ s = "right"
  BY <1>1 DEF Sides
<1>3. i \in Interval
  BY <1>1, WorkTypes
<1>4. near = [min |-> i.min, max |-> Lesser(p, i.max)]
      /\ far = [min |-> Greater(p, i.min), max |-> i.max]
  BY <1>3 DEF Interval
<1>5. /\ NearHalf(tr, w) =
            IF Finite(p)
            THEN [[w EXCEPT ![s] = SplitLeft(w[s])] EXCEPT
                     !.bounds = Moved(w.bounds, s, d, near)]
            ELSE [w EXCEPT ![s] = SplitLeft(w[s])]
      /\ FarHalf(tr, w) =
            [[w EXCEPT ![s] = SplitRight(w[s])] EXCEPT
                !.bounds = Moved(w.bounds, s, d, far)]
  <2>1. s # "bounds"
    BY <1>2
  <2>2. NearHalf(tr, w) =
           IF Finite(p)
           THEN [w EXCEPT ![s] = SplitLeft(@), !.bounds[s][d].max = Lesser(p, @)]
           ELSE [w EXCEPT ![s] = SplitLeft(@)]
    BY DEF NearHalf
  <2>3. FarHalf(tr, w) =
           [w EXCEPT ![s] = SplitRight(@), !.bounds[s][d].min = Greater(p, @)]
    BY DEF FarHalf
  <2> HIDE DEF s, d, p
  <2>4. QED
    BY <2>1, <2>2, <2>3 DEF Moved
<1> HIDE DEF s, d, p, near, far
<1>6. ASSUME NEW c
      PROVE  /\ [w EXCEPT ![s] = c] = Halved(w, s, c, w.bounds)
  <2>1. PICK l, r, b, o : w = [left |-> l, right |-> r, bounds |-> b, rows |-> o]
    BY <1>1 DEF Works
  <2>2. CASE s = "left"
    BY <2>1, <2>2 DEF Halved
  <2>3. CASE s = "right"
    BY <2>1, <2>3 DEF Halved
  <2>4. QED
    BY <1>2, <2>2, <2>3
<1>7. ASSUME NEW c, NEW v
      PROVE  [Halved(w, s, c, w.bounds) EXCEPT !.bounds = v] = Halved(w, s, c, v)
  BY DEF Halved
<1>8. NearHalf(tr, w) = Halved(w, s, SplitLeft(w[s]),
                            IF Finite(p) THEN Moved(w.bounds, s, d, near)
                            ELSE w.bounds)
  BY <1>5, <1>6, <1>7
<1>9. FarHalf(tr, w) = Halved(w, s, SplitRight(w[s]), Moved(w.bounds, s, d, far))
  <2>1. [w EXCEPT ![s] = SplitRight(w[s])] = Halved(w, s, SplitRight(w[s]), w.bounds)
    BY <1>6
  <2>2. FarHalf(tr, w) = [Halved(w, s, SplitRight(w[s]), w.bounds) EXCEPT
                             !.bounds = Moved(w.bounds, s, d, far)]
    BY <1>5, <2>1
  <2>3. QED
    BY <2>2, <1>7
<1>10. QED
  BY <1>4, <1>8, <1>9 DEF s, d, p

(* A half of work, by its entries and its box. *)
LEMMA HalfSound ==
    ASSUME NEW tr, NEW w, Sound(tr, w), NEW s \in Sides, NEW c \in Cursors,
           CursorOK(tr[s], c), NEW d \in Dims, NEW v \in Interval,
           NEW b \in {w.bounds, Moved(w.bounds, s, d, v)},
           Below(tr[s], c, w.rows[s]) \subseteq Below(tr[s], w[s], w.rows[s]),
           b # w.bounds =>
              \A i \in Below(tr[s], c, w.rows[s]) :
                 v.min <= tr[s].points[i][d] /\ tr[s].points[i][d] <= v.max
    PROVE  Sound(tr, Halved(w, s, c, b))
<1> DEFINE h == Halved(w, s, c, b)
<1>1. w \in Works /\ EnclosesIn(tr, w) /\ \A o \in Sides : CursorOK(tr[o], w[o])
  BY DEF Sound
<1>2. w.bounds \in Box
  BY <1>1 DEF Works
<1>3. b \in Box
      /\ \A o \in Sides : \A e \in Dims :
            \/ b[o][e] = w.bounds[o][e]
            \/ (o = s /\ e = d /\ b[o][e] = v /\ b # w.bounds)
  <2>1. CASE b = w.bounds
    BY <2>1, <1>2
  <2>2. CASE b # w.bounds
    <3>1. b = Moved(w.bounds, s, d, v)
      BY <2>2
    <3>2. QED
      BY <3>1, <2>2, <1>2, MovedParts
  <2>3. QED
    BY <2>1, <2>2
<1>4. /\ h \in Works /\ h[s] = c /\ \A o \in Sides : o # s => h[o] = w[o]
      /\ h.bounds = b /\ h.rows = w.rows
  BY <1>1, <1>3, HalvedParts
<1> HIDE DEF h
<1>5. \A o \in Sides : CursorOK(tr[o], h[o])
  BY <1>1, <1>4
<1>6. EnclosesIn(tr, h)
  <2> SUFFICES ASSUME NEW o \in Sides, NEW e \in Dims,
                      NEW i \in Below(tr[o], h[o], w.rows[o])
               PROVE  /\ b[o][e].min <= tr[o].points[i][e]
                      /\ tr[o].points[i][e] <= b[o][e].max
    BY <1>4 DEF EnclosesIn
  <2>1. i \in Below(tr[o], w[o], w.rows[o])
    BY <1>4
  <2>2. /\ w.bounds[o][e].min <= tr[o].points[i][e]
        /\ tr[o].points[i][e] <= w.bounds[o][e].max
    BY <2>1, <1>1 DEF EnclosesIn
  <2>3. CASE b[o][e] = w.bounds[o][e]
    BY <2>2, <2>3
  <2>4. CASE o = s /\ e = d /\ b[o][e] = v /\ b # w.bounds
    BY <2>4, <1>4
  <2>5. QED
    BY <2>3, <2>4, <1>3
<1>7. QED
  BY <1>4, <1>5, <1>6 DEF Sound, h

(* Both halves are sound, and every pair is in one of them. *)
LEMMA SoundHalves ==
    ASSUME NEW tr, BuiltTrees(tr), NEW w, Sound(tr, w),
           SomeLeaves(w), ~BothAtLeaf(w)
    PROVE  /\ Sound(tr, NearHalf(tr, w))
           /\ Finite(Pivot(tr, w)) => Sound(tr, FarHalf(tr, w))
           /\ \A i, j : HoldsIn(tr, w, i, j) <=>
                 \/ HoldsIn(tr, NearHalf(tr, w), i, j)
                 \/ Finite(Pivot(tr, w)) /\ HoldsIn(tr, FarHalf(tr, w), i, j)
           /\ \A i, j : ~(/\ HoldsIn(tr, NearHalf(tr, w), i, j)
                          /\ HoldsIn(tr, FarHalf(tr, w), i, j))
           /\ NearHalf(tr, w).rows = w.rows /\ FarHalf(tr, w).rows = w.rows
<1> DEFINE s == Side(w)
           d == Dim(w)
           p == Pivot(tr, w)
           iv == w.bounds[s][d]
           c == w[s]
           l == SplitLeft(c)
           r == SplitRight(c)
           nv == [min |-> iv.min, max |-> Lesser(p, iv.max)]
           fv == [min |-> Greater(p, iv.min), max |-> iv.max]
           nb == IF Finite(p) THEN Moved(w.bounds, s, d, nv) ELSE w.bounds
           fb == Moved(w.bounds, s, d, fv)
           all == Below(tr[s], c, w.rows[s])
           left == Below(tr[s], l, w.rows[s])
           right == Below(tr[s], r, w.rows[s])
           at(i) == tr[s].points[i][d]
           near == NearHalf(tr, w)
           far == FarHalf(tr, w)
<1>1. /\ s \in Sides /\ d \in Dims /\ p \in Int /\ -Infinity < p /\ p <= Infinity
      /\ IsBuilt(tr[s]) /\ CursorOK(tr[s], c) /\ ~AtLeaf(c) /\ Span(c) > 0
      /\ d = c.level % K /\ p = tr[s].stems[c.stem]
  BY SideParts DEF Pivot
<1>2. w \in Works /\ w.rows[s] \in RowRange /\ w.bounds \in Box /\ iv \in Interval
      /\ iv.min \in Int /\ iv.max \in Int /\ EnclosesIn(tr, w)
  <2>1. w \in Works /\ EnclosesIn(tr, w)
    BY DEF Sound
  <2>2. QED
    BY <2>1, <1>1, WorkTypes
<1>3. CursorOK(tr[s], l) /\ CursorOK(tr[s], r)
  BY <1>1, SplitCursors
<1>4. /\ all = left \cup right /\ left \cap right = {}
      /\ all \subseteq DOMAIN tr[s].points
      /\ \A i \in left : at(i) <= p
      /\ \A i \in right : p <= at(i)
  BY <1>1, <1>2, BelowHalves
<1>5. \A i \in all : at(i) \in Int /\ at(i) < Infinity
                     /\ iv.min <= at(i) /\ at(i) <= iv.max
  <2>1. \A i \in all : iv.min <= at(i) /\ at(i) <= iv.max
    BY <1>1, <1>2 DEF EnclosesIn
  <2>2. \A i \in DOMAIN tr[s].points : at(i) \in Int /\ at(i) < Infinity
    BY <1>1, BuiltTypes
  <2>3. QED
    BY <2>1, <2>2, <1>4
<1>6. nv \in Interval /\ fv \in Interval
  <2>1. Lesser(p, iv.max) \in Int /\ Greater(p, iv.min) \in Int
    BY <1>1, <1>2 DEF Lesser, Greater
  <2>2. QED
    BY <2>1, <1>2 DEF Interval
<1>7. /\ \A i \in left : nv.min <= at(i) /\ at(i) <= nv.max
      /\ \A i \in right : fv.min <= at(i) /\ at(i) <= fv.max
  <2>1. /\ nv.min = iv.min /\ nv.max = Lesser(p, iv.max)
        /\ fv.min = Greater(p, iv.min) /\ fv.max = iv.max
    OBVIOUS
  <2> HIDE DEF nv, fv, iv, at, left, right, all, p
  <2>2. \A i \in left : at(i) \in Int /\ at(i) <= p /\ iv.min <= at(i) /\ at(i) <= iv.max
    BY <1>4, <1>5
  <2>3. \A i \in right : at(i) \in Int /\ p <= at(i) /\ iv.min <= at(i) /\ at(i) <= iv.max
    BY <1>4, <1>5
  <2>4. p \in Int /\ iv.min \in Int /\ iv.max \in Int
    BY <1>1, <1>2
  <2>5. QED
    BY <2>1, <2>2, <2>3, <2>4 DEF Lesser, Greater
<1>8. near = Halved(w, s, l, nb) /\ far = Halved(w, s, r, fb)
  BY HalvesAreHalved
<1>9. l \in Cursors /\ r \in Cursors
  BY <1>3 DEF CursorOK
<1>10. left \subseteq all /\ right \subseteq all
  <2> HIDE DEF all, left, right
  <2> QED
    BY <1>4
<1>11. Sound(tr, near)
  <2>1. nb \in {w.bounds, Moved(w.bounds, s, d, nv)}
    OBVIOUS
  <2> HIDE DEF s, d, p, l, r, nv, fv, nb, fb, near, far
  <2>2. QED
    BY <2>1, <1>1, <1>3, <1>6, <1>7, <1>8, <1>9, <1>10, HalfSound
<1>12. Sound(tr, far)
  <2>1. fb \in {w.bounds, Moved(w.bounds, s, d, fv)}
    OBVIOUS
  <2> HIDE DEF s, d, p, l, r, nv, fv, nb, fb, near, far
  <2>2. QED
    BY <2>1, <1>1, <1>3, <1>6, <1>7, <1>8, <1>9, <1>10, HalfSound
<1>13. ~Finite(p) => right = {}
  <2> HIDE DEF right, p, at
  <2>1. ~Finite(p) => p = Infinity
    BY <1>1, MetricAssumption DEF Finite
  <2>2. QED
    BY <2>1, <1>4, <1>5, <1>10, MetricAssumption
<1>14. /\ near[s] = l /\ far[s] = r /\ near.rows = w.rows /\ far.rows = w.rows
       /\ \A o \in Sides : o # s => near[o] = w[o] /\ far[o] = w[o]
  <2>1. nb \in Box /\ fb \in Box
    BY <1>1, <1>2, <1>6, MovedParts
  <2> HIDE DEF s, d, p, iv, c, l, r, nv, fv, nb, fb, at, near, far
  <2>2. QED
    BY <2>1, <1>1, <1>2, <1>8, <1>9, HalvedParts
<1> DEFINE in(x, o) == Below(tr[o], x[o], w.rows[o])
<1>15. /\ in(w, s) = in(near, s) \cup in(far, s) /\ in(near, s) \cap in(far, s) = {}
       /\ ~Finite(p) => in(far, s) = {}
       /\ \A o \in Sides : o # s => in(near, o) = in(w, o) /\ in(far, o) = in(w, o)
  <2>1. in(near, s) = left /\ in(far, s) = right /\ in(w, s) = all
    BY <1>14
  <2>2. \A o \in Sides : o # s => in(near, o) = in(w, o) /\ in(far, o) = in(w, o)
    BY <1>14
  <2> HIDE DEF in, left, right, all, s, p, near, far
  <2>3. QED
    BY <2>1, <2>2, <1>4, <1>13
<1>16. \A i, j : /\ HoldsIn(tr, w, i, j) <=> i \in in(w, "left") /\ j \in in(w, "right")
                 /\ HoldsIn(tr, near, i, j) <=>
                       i \in in(near, "left") /\ j \in in(near, "right")
                 /\ HoldsIn(tr, far, i, j) <=>
                       i \in in(far, "left") /\ j \in in(far, "right")
  BY <1>14 DEF HoldsIn
<1>17. s = "left" \/ s = "right"
  BY <1>1 DEF Sides
<1> HIDE DEF in, s, d, p, iv, c, l, r, nv, fv, nb, fb, at, near, far
<1>18. /\ \A i, j : HoldsIn(tr, w, i, j) <=>
             \/ HoldsIn(tr, near, i, j)
             \/ Finite(p) /\ HoldsIn(tr, far, i, j)
       /\ \A i, j : ~(HoldsIn(tr, near, i, j) /\ HoldsIn(tr, far, i, j))
  <2>1. "left" \in Sides /\ "right" \in Sides /\ "left" # "right"
    BY DEF Sides
  <2>2. CASE s = "left"
    BY <2>1, <2>2, <1>15, <1>16
  <2>3. CASE s = "right"
    BY <2>1, <2>3, <1>15, <1>16
  <2>4. QED
    BY <1>17, <2>2, <2>3
<1>19. QED
  BY <1>11, <1>12, <1>14, <1>18 DEF near, far, p

(* The rows of a pair of leaves that are cut in two.                       *)
Meant(rows, r) == rows.start < r /\ r <= rows.end

CutInto(D, rows, a, b) ==
    \A r \in D : /\ Meant(rows, r) <=> Meant(a, r) \/ Meant(b, r)
                 /\ ~(Meant(a, r) /\ Meant(b, r))

LEMMA RowsCut ==
    ASSUME NEW tree, IsBuilt(tree), NEW leaf \in 0 .. Len(tree.leaves) - 1,
           NEW rows \in RowRange, NEW a \in RowRange, NEW b \in RowRange,
           CutInto(DOMAIN tree.leaves[leaf + 1], rows, a, b)
    PROVE  /\ RowsOf(tree, leaf, rows) = RowsOf(tree, leaf, a) \cup RowsOf(tree, leaf, b)
           /\ RowsOf(tree, leaf, a) \cap RowsOf(tree, leaf, b) = {}
<1> DEFINE D == DOMAIN tree.leaves[leaf + 1]
           at(r) == tree.leaves[leaf + 1][r]
<1>1. ASSUME NEW x \in RowRange
      PROVE  \A i : i \in RowsOf(tree, leaf, x) <=> \E r \in D : at(r) = i /\ Meant(x, r)
  BY RowsOfParts DEF Meant
<1>2. \A r, q \in D : at(r) = at(q) => r = q
  BY OneHome
<1> HIDE DEF D, at
<1>3. \A r \in D : /\ Meant(rows, r) <=> Meant(a, r) \/ Meant(b, r)
                  /\ ~(Meant(a, r) /\ Meant(b, r))
  BY DEF D, CutInto
<1>4. \A i : i \in RowsOf(tree, leaf, rows) <=>
                i \in RowsOf(tree, leaf, a) \/ i \in RowsOf(tree, leaf, b)
  BY <1>1, <1>3
<1>5. \A i : ~(i \in RowsOf(tree, leaf, a) /\ i \in RowsOf(tree, leaf, b))
  BY <1>1, <1>2, <1>3
<1>6. QED
  BY <1>4, <1>5

MeanSame(D, a, b) == \A r \in D : Meant(a, r) <=> Meant(b, r)

LEMMA RowsSame ==
    ASSUME NEW tree, IsBuilt(tree), NEW leaf \in 0 .. Len(tree.leaves) - 1,
           NEW a \in RowRange, NEW b \in RowRange,
           MeanSame(DOMAIN tree.leaves[leaf + 1], a, b)
    PROVE  RowsOf(tree, leaf, a) = RowsOf(tree, leaf, b)
<1> DEFINE D == DOMAIN tree.leaves[leaf + 1]
           at(r) == tree.leaves[leaf + 1][r]
<1>1. ASSUME NEW x \in RowRange
      PROVE  \A i : i \in RowsOf(tree, leaf, x) <=> \E r \in D : at(r) = i /\ Meant(x, r)
  BY RowsOfParts DEF Meant
<1>2. \A r \in D : Meant(a, r) <=> Meant(b, r)
  BY DEF MeanSame
<1> HIDE DEF D, at
<1>3. \A i : i \in RowsOf(tree, leaf, a) <=> i \in RowsOf(tree, leaf, b)
  BY <1>1, <1>2
<1>4. QED
  BY <1>3

LEMMA LeafOfCursor ==
    ASSUME NEW tree, IsBuilt(tree), NEW c, CursorOK(tree, c), AtLeaf(c), Span(c) > 0
    PROVE  /\ c.start \in 0 .. Len(tree.leaves) - 1
           /\ \A rows : Below(tree, c, rows) = RowsOf(tree, c.start, rows)
<1>1. /\ c.start \in Nat /\ c.end \in Nat /\ c.start < c.end /\ c.remaining = 0
      /\ c.end <= Len(tree.leaves) /\ Len(tree.leaves) \in Nat
      /\ c.end <= c.start + 2 ^ c.remaining
  BY BuiltTypes DEF CursorOK, Cursors, AtLeaf, Span
<1>2. c.end = c.start + 1
  BY <1>1, PowerZero
<1>3. c.start .. c.end - 1 = {c.start}
  BY <1>1, <1>2
<1>4. QED
  BY <1>1, <1>3 DEF Below

(* Other rows for the same subtrees. *)
Rerowed(w, rows) == [w EXCEPT !.rows = rows]

LEMMA RerowedParts ==
    ASSUME NEW w \in Works, NEW rows \in [Sides -> RowRange]
    PROVE  /\ Rerowed(w, rows) \in Works
           /\ \A s \in Sides : Rerowed(w, rows)[s] = w[s]
           /\ Rerowed(w, rows).bounds = w.bounds
           /\ Rerowed(w, rows).rows = rows
  BY DEF Works, Rerowed, Sides

LEMMA RerowedSound ==
    ASSUME NEW tr, NEW w, Sound(tr, w), NEW rows \in [Sides -> RowRange],
           \A s \in Sides : Below(tr[s], w[s], rows[s])
                               \subseteq Below(tr[s], w[s], w.rows[s])
    PROVE  Sound(tr, Rerowed(w, rows))
<1> DEFINE h == Rerowed(w, rows)
<1>1. w \in Works /\ EnclosesIn(tr, w) /\ \A s \in Sides : CursorOK(tr[s], w[s])
  BY DEF Sound
<1>2. /\ h \in Works /\ \A s \in Sides : h[s] = w[s]
      /\ h.bounds = w.bounds /\ h.rows = rows
  BY <1>1, RerowedParts
<1> HIDE DEF h
<1>3. EnclosesIn(tr, h)
  BY <1>1, <1>2 DEF EnclosesIn
<1>4. QED
  BY <1>1, <1>2, <1>3 DEF Sound, h

LEMMA NextTileType == ASSUME NEW n \in Nat PROVE NextTile(n) \in Nat
<1> DEFINE q == (n + TileLen - 1) \div TileLen
<1>1. TileLen \in Nat \ {0}
  BY TaskAssumption
<1>2. n + TileLen - 1 \in Nat
  BY <1>1
<1>3. q \in Nat
  BY <1>1, <1>2
<1> HIDE DEF q
<1>4. q * TileLen \in Nat
  BY <1>1, <1>3
<1>5. QED
  BY <1>4 DEF NextTile, q

(* Where a leaf is cut. *)
LEMMA MidRow ==
    ASSUME NEW lo \in Nat, NEW hi \in Nat, lo < hi
    PROVE  LET len == hi - lo
               mid == lo + Lesser(NextTile(len \div 2), len - 1)
           IN  mid \in Nat /\ lo <= mid /\ mid <= hi
<1> DEFINE len == hi - lo
           t == NextTile(len \div 2)
<1>1. len \in Nat \ {0} /\ len \div 2 \in Nat
  OBVIOUS
<1>2. t \in Nat
  BY <1>1, NextTileType
<1> HIDE DEF t
<1>3. Lesser(t, len - 1) \in 0 .. len - 1
  BY <1>1, <1>2 DEF Lesser
<1> DEFINE x == Lesser(t, len - 1)
<1>4. x \in 0 .. hi - lo - 1
  BY <1>3
<1> HIDE DEF x
<1>5. lo + x \in Nat /\ lo <= lo + x /\ lo + x <= hi
  BY <1>4
<1>6. QED
  BY <1>5 DEF x, t

LEMMA LeafHalvesAre ==
    ASSUME BuiltTrees(trees), NEW w, Sound(trees, w), SomeLeaves(w), BothAtLeaf(w),
           \A s \in Sides : Rows(w, s) > 0
    PROVE  \E a, b \in [Sides -> RowRange], s \in Sides :
              /\ LeafHalves(w) = <<Rerowed(w, a), Rerowed(w, b)>>
              /\ \A o \in Sides :
                    \A r \in DOMAIN trees[o].leaves[w[o].start + 1] :
                       IF o = s
                       THEN /\ Meant(w.rows[o], r) <=> Meant(a[o], r) \/ Meant(b[o], r)
                            /\ ~(Meant(a[o], r) /\ Meant(b[o], r))
                       ELSE /\ Meant(w.rows[o], r) <=> Meant(a[o], r)
                            /\ Meant(w.rows[o], r) <=> Meant(b[o], r)
<1> DEFINE lenOf(o) == LeafLen(trees[o], w[o].start)
           ends == [o \in Sides |-> [w.rows[o] EXCEPT !.end = Lesser(@, lenOf(o))]]
           len(o) == ends[o].end - ends[o].start
           s == IF len("right") > len("left") THEN "right" ELSE "left"
           mid == ends[s].start + Lesser(NextTile(len(s) \div 2), len(s) - 1)
           a == [ends EXCEPT ![s].end = mid]
           b == [ends EXCEPT ![s].start = mid]
<1>1. s \in Sides
  BY DEF Sides
<1>2. w \in Works /\ \A o \in Sides : AtLeaf(w[o]) /\ Span(w[o]) > 0
  BY DEF Sound, Sides, BothAtLeaf, SomeLeaves
<1>3. ASSUME NEW o \in Sides
      PROVE  /\ ends[o] = [start |-> w.rows[o].start,
                           end |-> Lesser(w.rows[o].end, lenOf(o))]
             /\ ends[o] \in RowRange
             /\ ends[o].start = w.rows[o].start
             /\ ends[o].end = Lesser(w.rows[o].end, lenOf(o))
             /\ ends[o].start \in Nat /\ ends[o].end \in Nat
             /\ w.rows[o].start \in Nat /\ w.rows[o].end \in Nat
             /\ ends[o].start < ends[o].end
             /\ lenOf(o) \in Nat
             /\ DOMAIN trees[o].leaves[w[o].start + 1] = 1 .. lenOf(o)
             /\ w.rows[o] \in RowRange
  <2>1. w.rows[o] \in RowRange /\ IsBuilt(trees[o]) /\ CursorOK(trees[o], w[o])
    BY <1>2, WorkTypes DEF BuiltTrees, Sound
  <2>2. w[o].start \in 0 .. Len(trees[o].leaves) - 1
    BY <2>1, <1>2, LeafOfCursor
  <2>3. w[o].start + 1 \in DOMAIN trees[o].leaves
    BY <2>1, <2>2, BuiltTypes
  <2>4. lenOf(o) \in Nat /\ DOMAIN trees[o].leaves[w[o].start + 1] = 1 .. lenOf(o)
    BY <2>1, <2>3, BuiltTypes DEF LeafLen
  <2>5. Rows(w, o) = Greater(Lesser(lenOf(o), w.rows[o].end) - w.rows[o].start, 0)
    BY <1>2 DEF Rows
  <2> HIDE DEF lenOf
  <2>6. ends[o] = [start |-> w.rows[o].start, end |-> Lesser(w.rows[o].end, lenOf(o))]
    BY <2>1 DEF RowRange
  <2>7. w.rows[o].start \in Nat /\ w.rows[o].end \in Nat
    BY <2>1 DEF RowRange
  <2> HIDE DEF ends
  <2>8. w.rows[o].start < Lesser(w.rows[o].end, lenOf(o))
    BY <2>4, <2>5, <2>7 DEF Lesser, Greater
  <2>9. Lesser(w.rows[o].end, lenOf(o)) \in Nat
    BY <2>4, <2>7 DEF Lesser
  <2>10. /\ ends[o].start = w.rows[o].start
         /\ ends[o].end = Lesser(w.rows[o].end, lenOf(o))
         /\ ends[o] \in RowRange
    BY <2>6, <2>7, <2>9 DEF RowRange
  <2>11. QED
    BY <2>1, <2>4, <2>6, <2>7, <2>8, <2>9, <2>10
<1>4. mid \in Nat /\ ends[s].start <= mid /\ mid <= ends[s].end
  <2> HIDE DEF ends, s
  <2>1. QED
    BY <1>1, <1>3, MidRow
<1>5. LeafHalves(w) = <<Rerowed(w, a), Rerowed(w, b)>>
  BY DEF LeafHalves, Rerowed
<1>6. /\ a[s] = [start |-> ends[s].start, end |-> mid]
      /\ b[s] = [start |-> mid, end |-> ends[s].end]
      /\ \A o \in Sides : o # s => a[o] = ends[o] /\ b[o] = ends[o]
      /\ DOMAIN a = Sides /\ DOMAIN b = Sides
      /\ a = [o \in Sides |-> a[o]] /\ b = [o \in Sides |-> b[o]]
  <2>1. DOMAIN ends = Sides /\ ends[s] = [start |-> ends[s].start, end |-> ends[s].end]
    BY <1>1, <1>3
  <2> HIDE DEF ends, s, mid
  <2>2. QED
    BY <2>1, <1>1
<1> HIDE DEF a, b, mid, s, ends, lenOf
<1>7. a \in [Sides -> RowRange] /\ b \in [Sides -> RowRange]
  <2>1. \A o \in Sides : ends[o] \in RowRange
    BY <1>3
  <2>2. a[s] \in RowRange /\ b[s] \in RowRange
    <3>1. ends[s].start \in Nat /\ ends[s].end \in Nat
      BY <1>1, <1>3
    <3>2. QED
      BY <3>1, <1>4, <1>6 DEF RowRange
  <2>3. QED
    BY <2>1, <2>2, <1>6
<1>8. ASSUME NEW o \in Sides, NEW r \in DOMAIN trees[o].leaves[w[o].start + 1]
      PROVE  IF o = s
             THEN /\ Meant(w.rows[o], r) <=> Meant(a[o], r) \/ Meant(b[o], r)
                  /\ ~(Meant(a[o], r) /\ Meant(b[o], r))
             ELSE /\ Meant(w.rows[o], r) <=> Meant(a[o], r)
                  /\ Meant(w.rows[o], r) <=> Meant(b[o], r)
  <2>1. /\ ends[o].start = w.rows[o].start
        /\ ends[o].end = Lesser(w.rows[o].end, lenOf(o))
        /\ r \in 1 .. lenOf(o) /\ lenOf(o) \in Nat
        /\ w.rows[o].start \in Nat /\ w.rows[o].end \in Nat
    BY <1>3
  <2>2. Meant(w.rows[o], r) <=> Meant(ends[o], r)
    BY <2>1 DEF Meant, Lesser
  <2>3. CASE o = s
    <3>1. /\ a[o].start = ends[o].start /\ a[o].end = mid
          /\ b[o].start = mid /\ b[o].end = ends[o].end
          /\ ends[o].start <= mid /\ mid <= ends[o].end /\ mid \in Nat
          /\ ends[o].start \in Nat /\ ends[o].end \in Nat /\ r \in Nat
      <4>1. /\ a[s].start = ends[s].start /\ a[s].end = mid
            /\ b[s].start = mid /\ b[s].end = ends[s].end
        BY <1>6
      <4>2. ends[o].start \in Nat /\ ends[o].end \in Nat
        BY <1>3
      <4>3. QED
        BY <4>1, <4>2, <2>1, <2>3, <1>4
    <3>2. /\ Meant(ends[o], r) <=> Meant(a[o], r) \/ Meant(b[o], r)
          /\ ~(Meant(a[o], r) /\ Meant(b[o], r))
      BY <3>1 DEF Meant
    <3>3. QED
      BY <2>2, <2>3, <3>2
  <2>4. CASE o # s
    BY <2>2, <2>4, <1>6
  <2>5. QED
    BY <2>3, <2>4
<1>9. QED
  BY <1>1, <1>5, <1>7, <1>8

LEMMA LeafHalvesSound ==
    ASSUME BuiltTrees(trees), NEW w, Sound(trees, w), SomeLeaves(w), BothAtLeaf(w),
           \A s \in Sides : Rows(w, s) > 0
    PROVE  \E x, y :
              /\ LeafHalves(w) = <<x, y>>
              /\ Sound(trees, x) /\ Sound(trees, y)
              /\ \A i, j : HoldsIn(trees, w, i, j) <=>
                              HoldsIn(trees, x, i, j) \/ HoldsIn(trees, y, i, j)
              /\ \A i, j : ~(HoldsIn(trees, x, i, j) /\ HoldsIn(trees, y, i, j))
<1>1. PICK a, b \in [Sides -> RowRange], s \in Sides :
         /\ LeafHalves(w) = <<Rerowed(w, a), Rerowed(w, b)>>
         /\ \A o \in Sides :
               \A r \in DOMAIN trees[o].leaves[w[o].start + 1] :
                  IF o = s
                  THEN /\ Meant(w.rows[o], r) <=> Meant(a[o], r) \/ Meant(b[o], r)
                       /\ ~(Meant(a[o], r) /\ Meant(b[o], r))
                  ELSE /\ Meant(w.rows[o], r) <=> Meant(a[o], r)
                       /\ Meant(w.rows[o], r) <=> Meant(b[o], r)
  BY LeafHalvesAre
<1> DEFINE in(rows, o) == Below(trees[o], w[o], rows)
<1>2. w \in Works /\ \A o \in Sides : AtLeaf(w[o]) /\ Span(w[o]) > 0
  BY DEF Sound, Sides, BothAtLeaf, SomeLeaves
<1>3. ASSUME NEW o \in Sides
      PROVE  /\ IsBuilt(trees[o]) /\ w[o].start \in 0 .. Len(trees[o].leaves) - 1
             /\ \A rows : in(rows, o) = RowsOf(trees[o], w[o].start, rows)
             /\ w.rows[o] \in RowRange /\ a[o] \in RowRange /\ b[o] \in RowRange
             /\ DOMAIN trees[o].leaves[w[o].start + 1] \in SUBSET Nat
  <2>1. w.rows[o] \in RowRange /\ IsBuilt(trees[o]) /\ CursorOK(trees[o], w[o])
    BY <1>2, WorkTypes DEF BuiltTrees, Sound
  <2>2. /\ w[o].start \in 0 .. Len(trees[o].leaves) - 1
        /\ \A rows : in(rows, o) = RowsOf(trees[o], w[o].start, rows)
    BY <2>1, <1>2, LeafOfCursor
  <2>3. w[o].start + 1 \in DOMAIN trees[o].leaves
    BY <2>1, <2>2, BuiltTypes
  <2>4. DOMAIN trees[o].leaves[w[o].start + 1] \in SUBSET Nat
    <3>1. DOMAIN trees[o].leaves[w[o].start + 1] = 1 .. Len(trees[o].leaves[w[o].start + 1])
      BY <2>1, <2>3, BuiltTypes
    <3>2. QED
      BY <3>1
  <2>5. QED
    BY <2>1, <2>2, <2>4
<1>4. /\ in(w.rows[s], s) = in(a[s], s) \cup in(b[s], s)
      /\ in(a[s], s) \cap in(b[s], s) = {}
  <2> HIDE DEF in
  <2>1. CutInto(DOMAIN trees[s].leaves[w[s].start + 1], w.rows[s], a[s], b[s])
    BY <1>1, Zenon DEF CutInto
  <2>2. /\ RowsOf(trees[s], w[s].start, w.rows[s])
              = RowsOf(trees[s], w[s].start, a[s]) \cup RowsOf(trees[s], w[s].start, b[s])
        /\ RowsOf(trees[s], w[s].start, a[s]) \cap RowsOf(trees[s], w[s].start, b[s]) = {}
    BY <2>1, <1>3, RowsCut
  <2>3. QED
    BY <2>2, <1>3
<1>5. ASSUME NEW o \in Sides, o # s
      PROVE  in(a[o], o) = in(w.rows[o], o) /\ in(b[o], o) = in(w.rows[o], o)
  <2> DEFINE t == trees[o]
             l == w[o].start
             x == w.rows[o]
             y == a[o]
             z == b[o]
  <2>1. /\ MeanSame(DOMAIN t.leaves[l + 1], x, y)
        /\ MeanSame(DOMAIN t.leaves[l + 1], x, z)
    BY <1>1, <1>5, Zenon DEF MeanSame
  <2>2. /\ IsBuilt(t) /\ l \in 0 .. Len(t.leaves) - 1
        /\ x \in RowRange /\ y \in RowRange /\ z \in RowRange
    BY <1>3
  <2>3. \A rows : in(rows, o) = RowsOf(t, l, rows)
    BY <1>3
  <2> HIDE DEF t, l, x, y, z, in
  <2>4. RowsOf(t, l, x) = RowsOf(t, l, y)
    BY <2>1, <2>2, RowsSame
  <2>5. RowsOf(t, l, x) = RowsOf(t, l, z)
    BY <2>1, <2>2, RowsSame
  <2>6. QED
    BY <2>3, <2>4, <2>5 DEF x, y, z
<1>6. \A o \in Sides : /\ in(a[o], o) \subseteq in(w.rows[o], o)
                       /\ in(b[o], o) \subseteq in(w.rows[o], o)
  <2> HIDE DEF in
  <2> QED
    BY <1>4, <1>5
<1> DEFINE x == Rerowed(w, a)
           y == Rerowed(w, b)
<1>7. Sound(trees, x) /\ Sound(trees, y)
  BY <1>6, RerowedSound
<1>8. /\ \A i, j : HoldsIn(trees, w, i, j) <=> i \in in(w.rows["left"], "left")
                                            /\ j \in in(w.rows["right"], "right")
      /\ \A i, j : HoldsIn(trees, x, i, j) <=> i \in in(a["left"], "left")
                                            /\ j \in in(a["right"], "right")
      /\ \A i, j : HoldsIn(trees, y, i, j) <=> i \in in(b["left"], "left")
                                            /\ j \in in(b["right"], "right")
  <2>1. /\ x["left"] = w["left"] /\ x["right"] = w["right"] /\ x.rows = a
        /\ y["left"] = w["left"] /\ y["right"] = w["right"] /\ y.rows = b
    BY <1>2, RerowedParts DEF Sides
  <2> HIDE DEF x, y
  <2>2. QED
    BY <2>1 DEF HoldsIn
<1> HIDE DEF in, x, y
<1>9. /\ \A i, j : HoldsIn(trees, w, i, j) <=>
                      HoldsIn(trees, x, i, j) \/ HoldsIn(trees, y, i, j)
      /\ \A i, j : ~(HoldsIn(trees, x, i, j) /\ HoldsIn(trees, y, i, j))
  <2>1. "left" \in Sides /\ "right" \in Sides /\ "left" # "right"
        /\ (s = "left" \/ s = "right")
    BY DEF Sides
  <2>2. CASE s = "left"
    BY <2>1, <2>2, <1>4, <1>5, <1>8
  <2>3. CASE s = "right"
    BY <2>1, <2>3, <1>4, <1>5, <1>8
  <2>4. QED
    BY <2>1, <2>2, <2>3
<1>10. QED
  BY <1>1, <1>7, <1>9 DEF x, y

(* Work and what it is divided into: one half that is all of it, or two.   *)
Divided(w, hs) ==
    \/ \E x : /\ hs = <<x>> /\ Sound(trees, x)
              /\ \A i, j : HoldsIn(trees, w, i, j) <=> HoldsIn(trees, x, i, j)
    \/ \E x, y : /\ hs = <<x, y>> /\ Sound(trees, x) /\ Sound(trees, y)
                 /\ \A i, j : HoldsIn(trees, w, i, j) <=>
                                 HoldsIn(trees, x, i, j) \/ HoldsIn(trees, y, i, j)
                 /\ \A i, j : ~(HoldsIn(trees, x, i, j) /\ HoldsIn(trees, y, i, j))

LEMMA HalvesDivide ==
    ASSUME BuiltTrees(trees), NEW w, Sound(trees, w), SomeLeaves(w),
           BothAtLeaf(w) => \A s \in Sides : Rows(w, s) > 0
    PROVE  Divided(w, Halves(w))
<1>1. CASE BothAtLeaf(w)
  <2>1. PICK x, y : /\ LeafHalves(w) = <<x, y>> /\ Sound(trees, x) /\ Sound(trees, y)
                    /\ \A i, j : HoldsIn(trees, w, i, j) <=>
                                 HoldsIn(trees, x, i, j) \/ HoldsIn(trees, y, i, j)
                    /\ \A i, j : ~(HoldsIn(trees, x, i, j) /\ HoldsIn(trees, y, i, j))
    BY <1>1, LeafHalvesSound
  <2>2. Halves(w) = <<x, y>>
    BY <1>1, <2>1 DEF Halves
  <2>3. QED
    BY <2>1, <2>2 DEF Divided
<1>2. CASE ~BothAtLeaf(w)
  <2> DEFINE x == NearHalf(trees, w)
             y == FarHalf(trees, w)
             p == Pivot(trees, w)
  <2>1. ~IsPadding(trees, w)
    BY <1>2, SideParts
  <2>2. /\ Sound(trees, x) /\ (Finite(p) => Sound(trees, y))
        /\ \A i, j : HoldsIn(trees, w, i, j) <=>
              \/ HoldsIn(trees, x, i, j)
              \/ Finite(p) /\ HoldsIn(trees, y, i, j)
        /\ \A i, j : ~(HoldsIn(trees, x, i, j) /\ HoldsIn(trees, y, i, j))
    BY <1>2, SoundHalves
  <2>3. Halves(w) = IF ~Finite(p) THEN <<x>> ELSE <<x, y>>
    BY <1>2, <2>1 DEF Halves
  <2> HIDE DEF x, y, p
  <2>4. CASE Finite(p)
    BY <2>2, <2>3, <2>4 DEF Divided
  <2>5. CASE ~Finite(p)
    BY <2>2, <2>3, <2>5 DEF Divided
  <2>6. QED
    BY <2>4, <2>5
<1>3. QED
  BY <1>1, <1>2

-----------------------------------------------------------------------------
(* What is rejected holds no pair within the radius. *)
LEMMA BelowIsThere ==
    ASSUME NEW tree, IsBuilt(tree), NEW c, CursorOK(tree, c), NEW rows \in RowRange,
           NEW n \in Below(tree, c, rows)
    PROVE  n \in DOMAIN tree.points /\ Span(c) > 0
<1>1. PICK leaf \in c.start .. c.end - 1 : n \in RowsOf(tree, leaf, rows)
  BY DEF Below
<1>2. /\ c.start \in Nat /\ c.end \in Nat /\ c.end <= Len(tree.leaves)
      /\ Len(tree.leaves) \in Nat
  BY BuiltTypes DEF CursorOK, Cursors
<1>3. leaf \in 0 .. Len(tree.leaves) - 1 /\ Span(c) > 0
  BY <1>2 DEF Span
<1>4. n \in DOMAIN tree.points
  BY <1>1, <1>3, RowsOfParts
<1>5. QED
  BY <1>3, <1>4

LEMMA HeldIsThere ==
    ASSUME BuiltTrees(trees), NEW w, Sound(trees, w), NEW i, NEW j,
           HoldsIn(trees, w, i, j)
    PROVE  /\ SomeLeaves(w)
           /\ i \in DOMAIN trees["left"].points /\ j \in DOMAIN trees["right"].points
           /\ trees["left"].points[i] \in [Dims -> Int]
           /\ trees["right"].points[j] \in [Dims -> Int]
           /\ Within(trees["left"].points[i], w.bounds["left"])
           /\ Within(trees["right"].points[j], w.bounds["right"])
           /\ w.bounds \in Box
<1>1. "left" \in Sides /\ "right" \in Sides
  BY DEF Sides
<1>2. w \in Works /\ EnclosesIn(trees, w) /\ \A s \in Sides : CursorOK(trees[s], w[s])
  BY DEF Sound
<1>3. ASSUME NEW s \in Sides, NEW n \in Below(trees[s], w[s], w.rows[s])
      PROVE  /\ Span(w[s]) > 0
             /\ n \in DOMAIN trees[s].points /\ trees[s].points[n] \in [Dims -> Int]
             /\ Within(trees[s].points[n], w.bounds[s])
  <2>1. /\ IsBuilt(trees[s]) /\ CursorOK(trees[s], w[s]) /\ w.rows[s] \in RowRange
    BY <1>2, WorkTypes DEF BuiltTrees
  <2>5. n \in DOMAIN trees[s].points /\ Span(w[s]) > 0
    BY <2>1, BelowIsThere
  <2>6. trees[s].points[n] \in [Dims -> Int]
    BY <2>1, <2>5, BuiltTypes
  <2>7. Within(trees[s].points[n], w.bounds[s])
    BY <1>2 DEF EnclosesIn, Within
  <2>8. QED
    BY <2>5, <2>6, <2>7
<1>4. /\ i \in Below(trees["left"], w["left"], w.rows["left"])
      /\ j \in Below(trees["right"], w["right"], w.rows["right"])
  BY DEF HoldsIn
<1>5. SomeLeaves(w)
  BY <1>1, <1>3, <1>4 DEF SomeLeaves
<1>6. w.bounds \in Box
  BY <1>2 DEF Works
<1>7. QED
  BY <1>1, <1>3, <1>4, <1>5, <1>6

LEMMA LowerOfHeld ==
    ASSUME BuiltTrees(trees), NEW w, Sound(trees, w), NEW i, NEW j,
           HoldsIn(trees, w, i, j), NEW metric
    PROVE  /\ Lower(w.bounds, metric) \in Nat /\ EntryDist(trees, metric, i, j) \in Nat
           /\ Lower(w.bounds, metric) <= EntryDist(trees, metric, i, j)
<1> DEFINE p == trees["left"].points[i]
           q == trees["right"].points[j]
           b == w.bounds
<1>1. /\ p \in [Dims -> Int] /\ q \in [Dims -> Int] /\ b \in Box
      /\ Within(p, b["left"]) /\ Within(q, b["right"])
  BY HeldIsThere
<1>2. EntryDist(trees, metric, i, j) = PointDist(metric, p, q)
  BY DEF EntryDist
<1> HIDE DEF p, q, b
<1>3. Lower(b, metric) \in Nat /\ Lower(b, metric) <= PointDist(metric, p, q)
  BY <1>1, LowerIsBelow
<1>4. PointDist(metric, p, q) \in Nat
  BY <1>1, PointDistType
<1>5. QED
  BY <1>2, <1>3, <1>4 DEF b


-----------------------------------------------------------------------------
(* The work a query begins with is all there is.                           *)
LEMMA RootSound ==
    ASSUME NEW tr, BuiltTrees(tr)
    PROVE  Sound(tr, RootWork(tr))
<1> DEFINE w == RootWork(tr)
           c(s) == RootCursor(tr[s])
<1>1. Infinity \in Nat
  BY MetricAssumption
<1>2. \A s \in Sides : IsBuilt(tr[s]) /\ CursorOK(tr[s], c(s)) /\ c(s) \in Cursors
  <2> TAKE s \in Sides
  <2>1. IsBuilt(tr[s])
    BY DEF BuiltTrees
  <2>2. CursorOK(tr[s], c(s))
    BY <2>1, RootCursorOK
  <2>3. c(s) \in Cursors
    BY <2>2 DEF CursorOK
  <2>4. QED
    BY <2>1, <2>2, <2>3
<1>3. /\ w = [left |-> c("left"), right |-> c("right"), bounds |-> Unbounded,
              rows |-> [s \in Sides |-> AllRows]]
      /\ \A s \in Sides : w[s] = c(s)
      /\ w.bounds = Unbounded /\ w.rows = [s \in Sides |-> AllRows]
  BY DEF RootWork, Sides
<1> HIDE DEF c
<1>4. AllRows \in RowRange /\ [s \in Sides |-> AllRows] \in [Sides -> RowRange]
  BY <1>1 DEF AllRows, RowRange
<1>5. [min |-> -Infinity, max |-> Infinity] \in Interval
  BY <1>1 DEF Interval
<1>6. Unbounded \in Box
  BY <1>5 DEF Unbounded, Box
<1>7. w \in Works
  <2>1. c("left") \in Cursors /\ c("right") \in Cursors
    BY <1>2 DEF Sides
  <2>2. QED
    BY <2>1, <1>3, <1>4, <1>6 DEF Works
<1>8. EnclosesIn(tr, w)
  <2>1. \A s \in Sides : \A d \in Dims : /\ w.bounds[s][d].min = -Infinity
                                         /\ w.bounds[s][d].max = Infinity
    BY <1>3 DEF Unbounded
  <2> SUFFICES ASSUME NEW s \in Sides, NEW d \in Dims,
                      NEW i \in Below(tr[s], w[s], w.rows[s])
               PROVE  /\ w.bounds[s][d].min <= tr[s].points[i][d]
                      /\ tr[s].points[i][d] <= w.bounds[s][d].max
    BY DEF EnclosesIn
  <2>2. i \in DOMAIN tr[s].points
    BY <1>2, <1>3, <1>4, BelowIsThere
  <2>3. tr[s].points[i] \in [Dims -> Int]
        /\ -Infinity < tr[s].points[i][d] /\ tr[s].points[i][d] < Infinity
    BY <2>2, <1>2, BuiltTypes
  <2>4. tr[s].points[i][d] \in Int
    BY <2>3
  <2>5. QED
    BY <2>1, <2>3, <2>4, <1>1
<1> HIDE DEF w
<1>9. QED
  BY <1>2, <1>3, <1>7, <1>8 DEF Sound, w

LEMMA RootBelow ==
    ASSUME NEW tree, IsBuilt(tree), NEW i \in DOMAIN tree.points
    PROVE  i \in Below(tree, RootCursor(tree), AllRows) /\ Span(RootCursor(tree)) > 0
<1> DEFINE c == RootCursor(tree)
<1>1. PICK leaf \in 0 .. Len(tree.leaves) - 1 :
         \E r \in DOMAIN tree.leaves[leaf + 1] : tree.leaves[leaf + 1][r] = i
  BY HomeOf
<1>2. PICK r \in DOMAIN tree.leaves[leaf + 1] : tree.leaves[leaf + 1][r] = i
  BY <1>1
<1>3. AllRows \in RowRange /\ AllRows.start = 0 /\ AllRows.end = Infinity
      /\ Infinity \in Nat
  BY MetricAssumption DEF AllRows, RowRange
<1>4. leaf + 1 \in DOMAIN tree.leaves /\ Len(tree.leaves) \in Nat
  BY BuiltTypes
<1>5. r \in 1 .. Len(tree.leaves[leaf + 1]) /\ Len(tree.leaves[leaf + 1]) <= Infinity
      /\ Len(tree.leaves[leaf + 1]) \in Nat
  BY <1>2, <1>4, BuiltTypes
<1>6. i \in RowsOf(tree, leaf, AllRows)
  <2>1. AllRows.start < r /\ r <= AllRows.end
    BY <1>3, <1>5
  <2>2. tree.leaves[leaf + 1][r] \in RowsOf(tree, leaf, AllRows)
    BY <2>1, <1>2, <1>3, RowsOfParts
  <2>3. QED
    BY <2>2, <1>2
<1>7. c.start = 0 /\ c.end = Len(tree.leaves)
  BY DEF RootCursor
<1> HIDE DEF c
<1>8. leaf \in c.start .. c.end - 1
  BY <1>7
<1>9. i \in Below(tree, c, AllRows)
  BY <1>6, <1>8 DEF Below
<1>10. Span(c) > 0
  BY <1>4, <1>7, <1>8 DEF Span
<1>11. QED
  BY <1>9, <1>10 DEF c

LEMMA RootHolds ==
    ASSUME NEW tr, BuiltTrees(tr)
    PROVE  \A i \in DOMAIN tr["left"].points : \A j \in DOMAIN tr["right"].points :
              HoldsIn(tr, RootWork(tr), i, j) /\ SomeLeaves(RootWork(tr))
<1> TAKE i \in DOMAIN tr["left"].points
<1> TAKE j \in DOMAIN tr["right"].points
<1> DEFINE w == RootWork(tr)
<1>1. IsBuilt(tr["left"]) /\ IsBuilt(tr["right"])
  BY DEF BuiltTrees, Sides
<1>2. /\ w["left"] = RootCursor(tr["left"]) /\ w["right"] = RootCursor(tr["right"])
      /\ w.rows["left"] = AllRows /\ w.rows["right"] = AllRows
  BY DEF RootWork, Sides
<1>3. /\ i \in Below(tr["left"], RootCursor(tr["left"]), AllRows)
      /\ Span(RootCursor(tr["left"])) > 0
  BY <1>1, RootBelow
<1>4. /\ j \in Below(tr["right"], RootCursor(tr["right"]), AllRows)
      /\ Span(RootCursor(tr["right"])) > 0
  BY <1>1, RootBelow
<1> HIDE DEF w
<1>5. HoldsIn(tr, w, i, j)
  BY <1>2, <1>3, <1>4 DEF HoldsIn
<1>6. SomeLeaves(w)
  BY <1>2, <1>3, <1>4 DEF SomeLeaves
<1>7. QED
  BY <1>5, <1>6 DEF w

-----------------------------------------------------------------------------
(* What the frontier keeps of a task it cuts.                              *)

(* Of trees and of a query, the pairs that are to be found. *)
MatchIn(tr, q, i, j) ==
    /\ i \in DOMAIN tr["left"].points /\ j \in DOMAIN tr["right"].points
    /\ Accepts(q, EntryDist(tr, q.metric, i, j))

LEMMA KeptIfMatch ==
    ASSUME BuiltTrees(trees), query.radius \in Nat, NEW w, Sound(trees, w),
           NEW i, NEW j, HoldsIn(trees, w, i, j), MatchIn(trees, query, i, j)
    PROVE  Kept(w)
<1> DEFINE l == Lower(w.bounds, query.metric)
           e == EntryDist(trees, query.metric, i, j)
<1>1. l \in Nat /\ e \in Nat /\ l <= e
  BY LowerOfHeld
<1>2. SomeLeaves(w)
  BY HeldIsThere
<1>3. IF query.exclusive THEN e < query.radius ELSE e <= query.radius
  BY DEF MatchIn, Accepts
<1>4. Rejected(query, w.bounds) <=>
         IF query.exclusive THEN l >= query.radius ELSE l > query.radius
  BY DEF Rejected
<1> HIDE DEF l, e
<1>5. ~Rejected(query, w.bounds)
  BY <1>1, <1>3, <1>4
<1>6. QED
  BY <1>2, <1>5 DEF Kept

(* All tasks of the frontier are sound, with leaves on both sides. *)
Ready(tr, w) == Sound(tr, w) /\ SomeLeaves(w)

(* Of the pairs to be found those of the one work are in one of the others. *)
HandedOn(w, hs) ==
    /\ \A k \in DOMAIN hs : Ready(trees, hs[k])
    /\ \A i, j : \A k \in DOMAIN hs :
          HoldsIn(trees, hs[k], i, j) => HoldsIn(trees, w, i, j)
    /\ \A i, j : HoldsIn(trees, w, i, j) /\ MatchIn(trees, query, i, j) =>
          \E k \in DOMAIN hs : HoldsIn(trees, hs[k], i, j)
    /\ \A i, j : \A k, l \in DOMAIN hs :
          HoldsIn(trees, hs[k], i, j) /\ HoldsIn(trees, hs[l], i, j) => k = l

LEMMA ScoreIsRows ==
    ASSUME BuiltTrees(trees), NEW w, Ready(trees, w), Score(w) > MinScore
    PROVE  \A s \in Sides : Rows(w, s) > 0
<1>1. MinScore \in Nat
  BY TaskAssumption
<1>2. \A s \in Sides : Rows(w, s) \in Nat
  <2> TAKE s \in Sides
  <2>1. IsBuilt(trees[s]) /\ CursorOK(trees[s], w[s]) /\ w[s] \in Cursors
        /\ w.rows[s] \in RowRange /\ Span(w[s]) > 0
    BY WorkTypes DEF BuiltTrees, Ready, Sound, Sides, SomeLeaves
  <2>2. TreeSize(trees[s]) \in Nat /\ trees[s].max_leaf_len \in Nat
    BY <2>1, BuiltTypes DEF TreeSize
  <2>3. CASE AtLeaf(w[s])
    <3>1. w[s].start \in 0 .. Len(trees[s].leaves) - 1
      BY <2>1, <2>3, LeafOfCursor
    <3>2. LeafLen(trees[s], w[s].start) \in Nat
      BY <2>1, <3>1, RowsOfParts
    <3>3. w.rows[s].start \in Nat /\ w.rows[s].end \in Nat
      BY <2>1 DEF RowRange
    <3>4. QED
      BY <2>3, <3>2, <3>3 DEF Rows, Greater, Lesser
  <2>4. CASE ~AtLeaf(w[s])
    <3>1. Span(w[s]) \in Nat
      BY <2>1 DEF Span, Cursors
    <3> DEFINE p == Span(w[s]) * trees[s].max_leaf_len
    <3>2. p \in Nat
      BY <3>1, <2>2
    <3> HIDE DEF p
    <3>3. Rows(w, s) = Lesser(p, TreeSize(trees[s]))
      BY <2>4 DEF Rows, p
    <3>4. QED
      BY <3>2, <3>3, <2>2 DEF Lesser
  <2>5. QED
    BY <2>3, <2>4
<1> DEFINE m == Rows(w, "left")
           n == Rows(w, "right")
<1>3. m \in Nat /\ n \in Nat
  BY <1>2 DEF Sides
<1>4. m * n > MinScore
  BY DEF Score
<1> HIDE DEF m, n
<1>5. (m = 0 => m * n = 0) /\ (n = 0 => m * n = 0)
  BY <1>3
<1>6. m > 0 /\ n > 0
  BY <1>1, <1>3, <1>4, <1>5
<1>7. QED
  BY <1>6 DEF m, n, Sides

LEMMA HalvesHandedOn ==
    ASSUME BuiltTrees(trees), query.radius \in Nat, NEW w, Ready(trees, w),
           Score(w) > MinScore
    PROVE  \E n \in Nat : /\ KeptHalves(w) \in [1 .. n -> Works]
                          /\ HandedOn(w, KeptHalves(w))
<1> DEFINE hs == KeptHalves(w)
           H(x, i, j) == HoldsIn(trees, x, i, j)
           M(i, j) == MatchIn(trees, query, i, j)
<1>1. Sound(trees, w) /\ SomeLeaves(w)
  BY DEF Ready
<1>2. Divided(w, Halves(w))
  BY <1>1, ScoreIsRows, HalvesDivide
<1>3. \A i, j : H(w, i, j) /\ M(i, j) => ~Rejected(query, w.bounds)
  BY <1>1, KeptIfMatch DEF Kept
<1>4. ASSUME NEW x, Sound(trees, x)
      PROVE  /\ \A i, j : H(x, i, j) /\ M(i, j) => Kept(x)
             /\ Kept(x) => Ready(trees, x)
             /\ x \in Works
  BY <1>4, KeptIfMatch DEF Kept, Ready, Sound
<1>5. CASE Rejected(query, w.bounds)
  <2>1. hs = <<>>
    BY <1>5 DEF KeptHalves
  <2>2. hs \in [1 .. 0 -> Works] /\ DOMAIN hs = {}
    BY <2>1
  <2> HIDE DEF hs, H, M
  <2>3. HandedOn(w, hs)
    BY <2>2, <1>3, <1>5 DEF HandedOn, H, M
  <2>4. QED
    BY <2>2, <2>3 DEF hs
<1>6. CASE ~Rejected(query, w.bounds) /\ \E x :
              /\ Halves(w) = <<x>> /\ Sound(trees, x)
              /\ \A i, j : H(w, i, j) <=> H(x, i, j)
  <2>1. PICK x : /\ Halves(w) = <<x>> /\ Sound(trees, x)
                 /\ \A i, j : H(w, i, j) <=> H(x, i, j)
    BY <1>6
  <2>2. hs = IfKept(x)
    <3>1. Len(<<x>>) = 1 /\ <<x>>[1] = x
      OBVIOUS
    <3>2. QED
      BY <2>1, <3>1, <1>6 DEF KeptHalves
  <2>3. hs = IF Kept(x) THEN <<x>> ELSE <<>>
    BY <2>2 DEF IfKept
  <2>4. /\ Kept(x) => DOMAIN hs = {1} /\ hs[1] = x
        /\ ~Kept(x) => DOMAIN hs = {}
    BY <2>3
  <2>5. \E n \in Nat : hs \in [1 .. n -> Works]
    <3>1. x \in Works
      BY <2>1, <1>4
    <3>2. Kept(x) => hs \in [1 .. 1 -> Works]
      BY <3>1, <2>3
    <3>3. ~Kept(x) => hs \in [1 .. 0 -> Works]
      BY <2>3
    <3>4. QED
      BY <3>2, <3>3
  <2>6. /\ \A i, j : H(x, i, j) /\ M(i, j) => Kept(x)
        /\ Kept(x) => Ready(trees, x)
    BY <2>1, <1>4
  <2> HIDE DEF hs, H, M
  <2>7. HandedOn(w, hs)
    BY <2>1, <2>4, <2>6 DEF HandedOn, H, M
  <2>8. QED
    BY <2>5, <2>7 DEF hs
<1>7. CASE ~Rejected(query, w.bounds) /\ \E x, y :
              /\ Halves(w) = <<x, y>> /\ Sound(trees, x) /\ Sound(trees, y)
              /\ \A i, j : H(w, i, j) <=> H(x, i, j) \/ H(y, i, j)
              /\ \A i, j : ~(H(x, i, j) /\ H(y, i, j))
  <2>1. PICK x, y :
              /\ Halves(w) = <<x, y>> /\ Sound(trees, x) /\ Sound(trees, y)
              /\ \A i, j : H(w, i, j) <=> H(x, i, j) \/ H(y, i, j)
              /\ \A i, j : ~(H(x, i, j) /\ H(y, i, j))
    BY <1>7
  <2>2. hs = IfKept(x) \o IfKept(y)
    <3>1. Len(<<x, y>>) # 1 /\ <<x, y>>[1] = x /\ <<x, y>>[2] = y
      OBVIOUS
    <3>2. QED
      BY <2>1, <3>1, <1>7 DEF KeptHalves
  <2>3. hs = IF Kept(x) THEN IF Kept(y) THEN <<x, y>> ELSE <<x>>
             ELSE IF Kept(y) THEN <<y>> ELSE <<>>
    <3>0. <<x>> \o <<y>> = <<x, y>>
      <4> DEFINE a == <<x>>
                 b == <<y>>
                 c == <<x, y>>
                 S == {x, y}
      <4>1. a \in Seq(S) /\ b \in Seq(S) /\ c \in Seq(S)
        OBVIOUS
      <4>2. Len(a) = 1 /\ Len(b) = 1 /\ Len(c) = 2 /\ a[1] = x /\ b[1] = y
            /\ c[1] = x /\ c[2] = y
        OBVIOUS
      <4> HIDE DEF a, b, c, S
      <4>3. a \o b \in Seq(S) /\ Len(a \o b) = Len(a) + Len(b)
            /\ \A i \in 1 .. Len(a) + Len(b) :
                  (a \o b)[i] = IF i <= Len(a) THEN a[i] ELSE b[i - Len(a)]
        BY <4>1, ConcatProperties
      <4>4. Len(a \o b) = Len(c) /\ \A i \in 1 .. Len(a \o b) : (a \o b)[i] = c[i]
        BY <4>2, <4>3
      <4>5. a \o b = c
        BY <4>1, <4>3, <4>4, SeqEqual
      <4>6. QED
        BY <4>5 DEF a, b, c
    <3>4. <<x>> \in Seq({x}) /\ <<y>> \in Seq({y}) /\ <<>> \in Seq({x})
      OBVIOUS
    <3>1. /\ <<x>> \o <<y>> = <<x, y>> /\ <<x>> \o <<>> = <<x>>
          /\ <<>> \o <<y>> = <<y>> /\ <<>> \o <<>> = <<>>
      BY <3>0, <3>4, ConcatEmptySeq
    <3>2. /\ IfKept(x) = IF Kept(x) THEN <<x>> ELSE <<>>
          /\ IfKept(y) = IF Kept(y) THEN <<y>> ELSE <<>>
      BY DEF IfKept
    <3> HIDE DEF hs
    <3>3. QED
      BY <2>2, <3>1, <3>2
  <2>4. /\ Kept(x) /\ Kept(y) => DOMAIN hs = {1, 2} /\ hs[1] = x /\ hs[2] = y
        /\ Kept(x) /\ ~Kept(y) => DOMAIN hs = {1} /\ hs[1] = x
        /\ ~Kept(x) /\ Kept(y) => DOMAIN hs = {1} /\ hs[1] = y
        /\ ~Kept(x) /\ ~Kept(y) => DOMAIN hs = {}
    BY <2>3
  <2>5. \E n \in Nat : hs \in [1 .. n -> Works]
    <3>1. x \in Works /\ y \in Works
      BY <2>1, <1>4
    <3>2. /\ <<x, y>> \in [1 .. 2 -> Works] /\ <<x>> \in [1 .. 1 -> Works]
          /\ <<y>> \in [1 .. 1 -> Works] /\ <<>> \in [1 .. 0 -> Works]
      BY <3>1
    <3>3. QED
      BY <3>2, <2>3
  <2>6. /\ \A i, j : H(x, i, j) /\ M(i, j) => Kept(x)
        /\ \A i, j : H(y, i, j) /\ M(i, j) => Kept(y)
        /\ Kept(x) => Ready(trees, x)
        /\ Kept(y) => Ready(trees, y)
    BY <2>1, <1>4
  <2> HIDE DEF hs, H, M
  <2>7. HandedOn(w, hs)
    <3>1. CASE Kept(x) /\ Kept(y)
      BY <2>1, <2>4, <2>6, <3>1 DEF HandedOn, H, M
    <3>2. CASE ~(Kept(x) /\ Kept(y))
      BY <2>1, <2>4, <2>6, <3>2 DEF HandedOn, H, M
    <3>3. QED
      BY <3>1, <3>2
  <2>8. QED
    BY <2>5, <2>7 DEF hs
<1>8. QED
  <2> HIDE DEF hs
  <2>1. (\E x : /\ Halves(w) = <<x>> /\ Sound(trees, x)
                /\ \A i, j : H(w, i, j) <=> H(x, i, j))
        \/ (\E x, y :
              /\ Halves(w) = <<x, y>> /\ Sound(trees, x) /\ Sound(trees, y)
              /\ \A i, j : H(w, i, j) <=> H(x, i, j) \/ H(y, i, j)
              /\ \A i, j : ~(H(x, i, j) /\ H(y, i, j)))
    BY <1>2 DEF Divided
  <2>2. QED
    BY <2>1, <1>5, <1>6, <1>7 DEF hs

-----------------------------------------------------------------------------
(* The stack of a walk: taking the frames off it puts the box back, and a  *)
(* half that is left for later is sound in the box it will be given.       *)

RightFrames == [kind : {"right"}, left : Cursors, right : Cursors, side : Sides,
                dim : Dims, bound : Interval, pivot : Int]

RestoreFrames == [kind : {"restore"}, side : Sides, dim : Dims, bound : Interval]

Frames == RightFrames \cup RestoreFrames

FarBound(f) == [min |-> Greater(f.pivot, f.bound.min), max |-> f.bound.max]

FarWork(f, box, rows) ==
    [left |-> f.left, right |-> f.right,
     bounds |-> Moved(box, f.side, f.dim, FarBound(f)), rows |-> rows]

Unwound(tr, rows, f, above, below) ==
    /\ below = Moved(above, f.side, f.dim, f.bound)
    /\ f.kind = "right" => Sound(tr, FarWork(f, below, rows))

Unwinds(tr, box, rows, stack) ==
    \E boxes \in [1 .. Len(stack) + 1 -> Box] :
        /\ boxes[Len(stack) + 1] = box
        /\ \A m \in 1 .. Len(stack) :
              Unwound(tr, rows, stack[m], boxes[m + 1], boxes[m])

LEMMA FrameParts ==
    ASSUME NEW f \in Frames
    PROVE  /\ f.side \in Sides /\ f.dim \in Dims /\ f.bound \in Interval
           /\ f.bound.min \in Int /\ f.bound.max \in Int
           /\ f.kind \in {"right", "restore"}
           /\ f.kind = "right" => /\ f \in RightFrames
                                  /\ f.left \in Cursors /\ f.right \in Cursors
                                  /\ f.pivot \in Int /\ FarBound(f) \in Interval
<1>1. /\ f.side \in Sides /\ f.dim \in Dims /\ f.bound \in Interval
      /\ f.kind \in {"right", "restore"}
      /\ f.kind = "right" => f \in RightFrames
  BY DEF Frames, RightFrames, RestoreFrames
<1>2. f.bound.min \in Int /\ f.bound.max \in Int
  BY <1>1 DEF Interval
<1>3. ASSUME f.kind = "right"
      PROVE  /\ f.left \in Cursors /\ f.right \in Cursors /\ f.pivot \in Int
             /\ FarBound(f) \in Interval
  <2>1. f.left \in Cursors /\ f.right \in Cursors /\ f.pivot \in Int
    BY <1>1, <1>3 DEF RightFrames
  <2>2. Greater(f.pivot, f.bound.min) \in Int
    BY <1>2, <2>1 DEF Greater
  <2>3. FarBound(f) \in Interval
    BY <1>2, <2>2 DEF FarBound, Interval
  <2>4. QED
    BY <2>1, <2>3
<1>4. QED
  BY <1>1, <1>2, <1>3

LEMMA MovedTwice ==
    ASSUME NEW b \in Box, NEW s \in Sides, NEW d \in Dims, NEW u, NEW v
    PROVE  /\ Moved(Moved(b, s, d, u), s, d, v) = Moved(b, s, d, v)
           /\ Moved(b, s, d, b[s][d]) = b
<1> DEFINE row(x) == [b[s] EXCEPT ![d] = x]
<1>1. b[s] \in [Dims -> Interval] /\ DOMAIN b = Sides
      /\ b = [o \in Sides |-> b[o]]
  BY DEF Box
<1>2. \A x : /\ Moved(b, s, d, x) = [b EXCEPT ![s] = row(x)]
             /\ Moved(b, s, d, x)[s] = row(x)
  BY <1>1 DEF Moved
<1>3. [row(u) EXCEPT ![d] = v] = row(v) /\ row(b[s][d]) = b[s]
  BY <1>1
<1>4. Moved(Moved(b, s, d, u), s, d, v)
         = [Moved(b, s, d, u) EXCEPT ![s] = [Moved(b, s, d, u)[s] EXCEPT ![d] = v]]
  BY DEF Moved
<1> HIDE DEF row
<1>5. Moved(Moved(b, s, d, u), s, d, v) = [[b EXCEPT ![s] = row(u)] EXCEPT ![s] = row(v)]
  BY <1>2, <1>3, <1>4
<1>6. [[b EXCEPT ![s] = row(u)] EXCEPT ![s] = row(v)] = [b EXCEPT ![s] = row(v)]
  BY <1>1
<1>7. Moved(b, s, d, b[s][d]) = b
  BY <1>1, <1>2, <1>3
<1>8. QED
  BY <1>2, <1>5, <1>6, <1>7

LEMMA UnwindsEmpty ==
    ASSUME NEW tr, NEW rows, NEW b \in Box
    PROVE  Unwinds(tr, b, rows, <<>>)
<1> DEFINE boxes == [m \in 1 .. 1 |-> b]
<1>1. Len(<<>>) = 0
  OBVIOUS
<1>2. boxes \in [1 .. 1 -> Box] /\ boxes[1] = b
  OBVIOUS
<1>3. Len(<<>>) + 1 = 1 /\ 1 .. Len(<<>>) = {}
  BY <1>1
<1> HIDE DEF boxes
<1>4. QED
  BY <1>2, <1>3 DEF Unwinds

LEMMA UnwindsPush ==
    ASSUME NEW tr, NEW rows, NEW above \in Box, NEW below \in Box,
           NEW st \in Seq(Frames), NEW f \in Frames,
           Unwinds(tr, below, rows, st), Unwound(tr, rows, f, above, below)
    PROVE  Append(st, f) \in Seq(Frames) /\ Unwinds(tr, above, rows, Append(st, f))
<1> DEFINE n == Len(st)
           new == Append(st, f)
<1>1. /\ n \in Nat /\ new \in Seq(Frames) /\ Len(new) = n + 1
      /\ \A m \in 1 .. n : new[m] = st[m]
      /\ new[n + 1] = f
  BY AppendProperties
<1>2. PICK boxes \in [1 .. n + 1 -> Box] :
         /\ boxes[n + 1] = below
         /\ \A m \in 1 .. n : Unwound(tr, rows, st[m], boxes[m + 1], boxes[m])
  BY DEF Unwinds
<1> DEFINE more == [m \in 1 .. (n + 1) + 1 |-> IF m = (n + 1) + 1 THEN above ELSE boxes[m]]
<1> HIDE DEF n, new
<1>3. more \in [1 .. (n + 1) + 1 -> Box]
  <2>1. \A m \in 1 .. (n + 1) + 1 : m # (n + 1) + 1 => m \in 1 .. n + 1
    BY <1>1
  <2>2. \A m \in 1 .. (n + 1) + 1 : m # (n + 1) + 1 => boxes[m] \in Box
    BY <2>1, <1>2
  <2>3. QED
    BY <2>2
<1>4. more[(n + 1) + 1] = above /\ \A m \in 1 .. n + 1 : more[m] = boxes[m]
  BY <1>1
<1> HIDE DEF more
<1>5. \A m \in 1 .. n + 1 : Unwound(tr, rows, new[m], more[m + 1], more[m])
  <2> TAKE m \in 1 .. n + 1
  <2>1. CASE m = n + 1
    <3>1. n + 1 \in 1 .. n + 1
      BY <1>1
    <3>2. more[m] = below /\ more[m + 1] = above /\ new[m] = f
      BY <2>1, <3>1, <1>1, <1>2, <1>4
    <3>3. QED
      BY <3>2
  <2>2. CASE m # n + 1
    <3>1. m \in 1 .. n /\ m + 1 \in 1 .. n + 1
      BY <2>2, <1>1
    <3>2. more[m] = boxes[m] /\ more[m + 1] = boxes[m + 1] /\ new[m] = st[m]
      BY <3>1, <1>1, <1>4
    <3>3. QED
      BY <3>1, <3>2, <1>2
  <2>3. QED
    BY <2>1, <2>2
<1>6. Unwinds(tr, above, rows, new)
  BY <1>1, <1>3, <1>4, <1>5 DEF Unwinds
<1>7. QED
  BY <1>1, <1>6 DEF new

LEMMA FrontParts ==
    ASSUME NEW S, NEW st \in Seq(S), st # <<>>
    PROVE  /\ Len(st) \in Nat \ {0} /\ Last(st) = st[Len(st)] /\ Last(st) \in S
           /\ Front(st) \in Seq(S) /\ Len(Front(st)) = Len(st) - 1
           /\ \A m \in 1 .. Len(st) - 1 : Front(st)[m] = st[m]
<1> DEFINE n == Len(st)
<1>1. n \in Nat \ {0}
  BY EmptySeq
<1>2. \A m \in 1 .. n : st[m] \in S
  BY ElementOfSeq
<1>3. Front(st) = SubSeq(st, 1, n - 1) /\ Last(st) = st[n]
  BY DEF Front, Last
<1> HIDE DEF n
<1>4. 1 \in Int /\ n - 1 \in Int /\ \A m \in 1 .. n - 1 : st[m] \in S
  BY <1>1, <1>2
<1>5. /\ SubSeq(st, 1, n - 1) \in Seq(S)
      /\ Len(SubSeq(st, 1, n - 1)) = IF 1 <= n - 1 THEN (n - 1) - 1 + 1 ELSE 0
      /\ \A i \in 1 .. (n - 1) - 1 + 1 : SubSeq(st, 1, n - 1)[i] = st[1 + i - 1]
  BY <1>4, SubSeqProperties
<1>6. n \in 1 .. n /\ (n - 1) - 1 + 1 = n - 1
      /\ \A i \in 1 .. n - 1 : 1 + i - 1 = i
  BY <1>1
<1>7. Len(SubSeq(st, 1, n - 1)) = n - 1
  BY <1>1, <1>5
<1>8. QED
  BY <1>1, <1>2, <1>3, <1>5, <1>6, <1>7 DEF n

LEMMA UnwindsPop ==
    ASSUME NEW tr, NEW rows, NEW above \in Box,
           NEW st \in Seq(Frames), st # <<>>,
           Unwinds(tr, above, rows, st)
    PROVE  \E below \in Box :
              /\ Unwound(tr, rows, Last(st), above, below)
              /\ Unwinds(tr, below, rows, Front(st))
<1> DEFINE n == Len(st)
           new == Front(st)
<1>1. /\ n \in Nat \ {0} /\ Last(st) = st[n] /\ Len(new) = n - 1
      /\ \A m \in 1 .. n - 1 : new[m] = st[m]
  BY FrontParts
<1>2. PICK boxes \in [1 .. n + 1 -> Box] :
         /\ boxes[n + 1] = above
         /\ \A m \in 1 .. n : Unwound(tr, rows, st[m], boxes[m + 1], boxes[m])
  BY DEF Unwinds
<1> DEFINE fewer == [m \in 1 .. (n - 1) + 1 |-> boxes[m]]
<1> HIDE DEF n, new
<1>3. (n - 1) + 1 = n /\ n \in 1 .. n /\ n \in 1 .. n + 1
      /\ \A m \in 1 .. n : m \in 1 .. n + 1
  BY <1>1
<1>4. fewer \in [1 .. (n - 1) + 1 -> Box] /\ \A m \in 1 .. n : fewer[m] = boxes[m]
  BY <1>2, <1>3
<1> HIDE DEF fewer
<1>5. boxes[n] \in Box /\ Unwound(tr, rows, Last(st), above, boxes[n])
  BY <1>1, <1>2, <1>3
<1>6. \A m \in 1 .. n - 1 : Unwound(tr, rows, new[m], fewer[m + 1], fewer[m])
  <2> TAKE m \in 1 .. n - 1
  <2>1. m \in 1 .. n /\ m + 1 \in 1 .. n
    BY <1>1
  <2>2. new[m] = st[m] /\ fewer[m] = boxes[m] /\ fewer[m + 1] = boxes[m + 1]
    BY <2>1, <1>1, <1>4
  <2>3. QED
    BY <2>1, <2>2, <1>2
<1>7. Unwinds(tr, boxes[n], rows, new)
  BY <1>1, <1>3, <1>4, <1>6 DEF Unwinds
<1>8. QED
  BY <1>5, <1>7 DEF new

-----------------------------------------------------------------------------
(* A walk: what it is made of, and that its box can be relied on.          *)

WalkRec(pc, w, st, sink, n) ==
    [pc |-> pc, work |-> w, stack |-> st, sink |-> sink, counted |-> n]

WalkOK(tr, x) ==
    \E pc \in {"visit", "pop", "ended"}, w \in Works, st \in Seq(Frames), n \in Nat :
       \E sink :
          /\ x = WalkRec(pc, w, st, sink, n)
          /\ IsABag(sink)
          /\ pc = "visit" => Sound(tr, w)
          /\ Unwinds(tr, w.bounds, w.rows, st)

LEMMA WalkParts ==
    ASSUME NEW tr, NEW x, WalkOK(tr, x)
    PROVE  /\ x = WalkRec(x.pc, x.work, x.stack, x.sink, x.counted)
           /\ x.pc \in {"visit", "pop", "ended"} /\ x.work \in Works
           /\ x.stack \in Seq(Frames) /\ x.counted \in Nat /\ IsABag(x.sink)
           /\ x.pc = "visit" => Sound(tr, x.work)
           /\ Unwinds(tr, x.work.bounds, x.work.rows, x.stack)
<1>1. PICK pc \in {"visit", "pop", "ended"}, w \in Works, st \in Seq(Frames), n \in Nat :
       \E sink :
          /\ x = WalkRec(pc, w, st, sink, n)
          /\ IsABag(sink)
          /\ pc = "visit" => Sound(tr, w)
          /\ Unwinds(tr, w.bounds, w.rows, st)
  BY DEF WalkOK
<1>2. PICK sink :
          /\ x = WalkRec(pc, w, st, sink, n)
          /\ IsABag(sink)
          /\ pc = "visit" => Sound(tr, w)
          /\ Unwinds(tr, w.bounds, w.rows, st)
  BY <1>1
<1>3. x.pc = pc /\ x.work = w /\ x.stack = st /\ x.sink = sink /\ x.counted = n
  BY <1>2 DEF WalkRec
<1>4. QED
  BY <1>2, <1>3

LEMMA WalkMade ==
    ASSUME NEW tr, NEW pc \in {"visit", "pop", "ended"}, NEW w \in Works,
           NEW st \in Seq(Frames), NEW n \in Nat, NEW sink, IsABag(sink),
           pc = "visit" => Sound(tr, w), Unwinds(tr, w.bounds, w.rows, st)
    PROVE  WalkOK(tr, WalkRec(pc, w, st, sink, n))
  BY DEF WalkOK

(* The changes of one walk. *)
LEMMA EmptySinkBag == IsABag(EmptyBag)
  BY DEF IsABag, EmptyBag, SetToBag

LEMMA FoundAreBags ==
    ASSUME NEW b, IsABag(b), NEW S
    PROVE  IsABag(SetToBag(S)) /\ IsABag(b (+) SetToBag(S))
<1> DEFINE c == SetToBag(S)
<1>1. DOMAIN c = S /\ \A e \in S : c[e] = 1
  BY DEF SetToBag
<1>2. IsABag(c)
  BY DEF IsABag, SetToBag
<1>3. b \in [DOMAIN b -> {n \in Nat : n > 0}] /\ c \in [DOMAIN c -> {n \in Nat : n > 0}]
  BY <1>2 DEF IsABag
<1> HIDE DEF c
<1>4. \A e \in DOMAIN b : b[e] \in Nat /\ b[e] > 0
  BY <1>3
<1>5. \A e \in DOMAIN c : c[e] \in Nat /\ c[e] > 0
  BY <1>3
<1>6. IsABag(b (+) c)
  BY <1>4, <1>5 DEF IsABag, (+)
<1>7. QED
  BY <1>2, <1>6 DEF c

LEMMA RightFrameOK ==
    ASSUME BuiltTrees(trees), NEW w, Sound(trees, w), SomeLeaves(w), ~BothAtLeaf(w),
           Finite(Pivot(trees, w))
    PROVE  LET f == RightFrame(w) IN
           /\ f \in Frames /\ f.kind = "right"
           /\ FarWork(f, w.bounds, w.rows) = FarHalf(trees, w)
           /\ Unwound(trees, w.rows, f, NearHalf(trees, w).bounds, w.bounds)
<1> DEFINE s == Side(w)
           d == Dim(w)
           p == Pivot(trees, w)
           i == w.bounds[s][d]
           c == SplitRight(w[s])
           f == RightFrame(w)
<1>1. /\ s \in Sides /\ d \in Dims /\ w \in Works /\ w.bounds \in Box
      /\ p \in Int /\ IsBuilt(trees[s]) /\ CursorOK(trees[s], w[s])
      /\ ~AtLeaf(w[s]) /\ Span(w[s]) > 0
  BY SideParts DEF Sound, Works
<1>2. c \in Cursors
  BY <1>1, SplitCursors DEF CursorOK
<1>3. i \in Interval
  BY <1>1, WorkTypes
<1>4. Halved(w, s, c, w.bounds) \in Works
  BY <1>1, <1>2, HalvedParts
<1>5. [w EXCEPT ![s] = SplitRight(@)] = Halved(w, s, c, w.bounds)
  <2>1. PICK l, r, b, o : w = [left |-> l, right |-> r, bounds |-> b, rows |-> o]
    BY <1>1 DEF Works
  <2>2. s = "left" \/ s = "right"
    BY <1>1 DEF Sides
  <2> HIDE DEF s
  <2>3. CASE s = "left"
    BY <2>1, <2>3 DEF Halved
  <2>4. CASE s = "right"
    BY <2>1, <2>4 DEF Halved
  <2>5. QED
    BY <2>2, <2>3, <2>4
<1> DEFINE h == Halved(w, s, c, w.bounds)
<1>6. f = [kind |-> "right", left |-> h.left, right |-> h.right, side |-> s,
           dim |-> d, bound |-> i, pivot |-> p]
  BY <1>5 DEF RightFrame
<1>7. h.left \in Cursors /\ h.right \in Cursors /\ h.rows = w.rows
      /\ h.bounds = w.bounds
  BY <1>4 DEF Works, Halved
<1>8. FarHalf(trees, w) = [left |-> h.left, right |-> h.right,
                           bounds |-> Moved(w.bounds, s, d,
                                        [min |-> Greater(p, i.min), max |-> i.max]),
                           rows |-> w.rows]
  <2>1. FarHalf(trees, w) = Halved(w, s, c, Moved(w.bounds, s, d,
                                        [min |-> Greater(p, i.min), max |-> i.max]))
    BY HalvesAreHalved
  <2>2. h.left = (IF s = "left" THEN c ELSE w.left)
        /\ h.right = (IF s = "right" THEN c ELSE w.right)
    BY DEF Halved
  <2> HIDE DEF s, c, d, p, i, h
  <2>3. QED
    BY <2>1, <2>2 DEF Halved
<1>9. NearHalf(trees, w).bounds = Moved(w.bounds, s, d,
                                        [min |-> i.min, max |-> Lesser(p, i.max)])
  <2>1. NearHalf(trees, w) = Halved(w, s, SplitLeft(w[s]), Moved(w.bounds, s, d,
                                        [min |-> i.min, max |-> Lesser(p, i.max)]))
    BY HalvesAreHalved
  <2> HIDE DEF s, d, p, i
  <2>2. QED
    BY <2>1 DEF Halved
<1>10. Sound(trees, FarHalf(trees, w))
  BY SoundHalves
<1> HIDE DEF s, d, p, i, c, h
<1>11. f \in Frames
  BY <1>1, <1>3, <1>6, <1>7 DEF Frames, RightFrames
<1>12. /\ f.kind = "right" /\ f.left = h.left /\ f.right = h.right /\ f.side = s
       /\ f.dim = d /\ f.bound = i /\ f.pivot = p
  BY <1>6
<1> HIDE DEF f
<1>13. FarWork(f, w.bounds, w.rows) = FarHalf(trees, w)
  BY <1>8, <1>12 DEF FarWork, FarBound
<1>14. w.bounds = Moved(NearHalf(trees, w).bounds, s, d, i)
  <2> DEFINE v == [min |-> i.min, max |-> Lesser(p, i.max)]
  <2>1. Moved(Moved(w.bounds, s, d, v), s, d, i) = Moved(w.bounds, s, d, i)
    BY <1>1, MovedTwice
  <2>2. Moved(w.bounds, s, d, i) = w.bounds
    BY <1>1, MovedTwice DEF i
  <2>3. QED
    BY <2>1, <2>2, <1>9
<1>15. Unwound(trees, w.rows, f, NearHalf(trees, w).bounds, w.bounds)
  BY <1>10, <1>12, <1>13, <1>14 DEF Unwound
<1>16. QED
  BY <1>11, <1>12, <1>13, <1>15 DEF f

LEMMA DescendWalk ==
    ASSUME BuiltTrees(trees), NEW x, WalkOK(trees, x), x.pc = "visit",
           SomeLeaves(x.work), ~BothAtLeaf(x.work)
    PROVE  WalkOK(trees, WalkRec("visit", NearHalf(trees, x.work),
                                 IF Finite(Pivot(trees, x.work))
                                 THEN Append(x.stack, RightFrame(x.work)) ELSE x.stack,
                                 x.sink, x.counted))
<1> DEFINE w == x.work
           st == x.stack
           h == NearHalf(trees, w)
           f == RightFrame(w)
<1>1. /\ w \in Works /\ st \in Seq(Frames) /\ x.counted \in Nat /\ IsABag(x.sink)
      /\ Sound(trees, w) /\ Unwinds(trees, w.bounds, w.rows, st)
  BY WalkParts
<1>2. SomeLeaves(w) /\ ~BothAtLeaf(w)
  OBVIOUS
<1>3. Sound(trees, h) /\ h \in Works /\ h.bounds \in Box /\ w.bounds \in Box
  <2>1. Sound(trees, h)
    BY <1>1, <1>2, SoundHalves
  <2>2. QED
    BY <2>1, <1>1 DEF Sound, Works
<1>4. h.rows = w.rows /\ (~Finite(Pivot(trees, w)) => h.bounds = w.bounds)
  <2>1. /\ NearHalf(trees, w).rows = w.rows
        /\ ~Finite(Pivot(trees, w)) => NearHalf(trees, w).bounds = w.bounds
    <3> DEFINE s == Side(w)
               c == SplitLeft(w[s])
               b == IF Finite(Pivot(trees, w))
                    THEN Moved(w.bounds, s, Dim(w),
                               [min |-> w.bounds[s][Dim(w)].min,
                                max |-> Lesser(Pivot(trees, w),
                                               w.bounds[s][Dim(w)].max)])
                    ELSE w.bounds
    <3>1. NearHalf(trees, w) = Halved(w, s, c, b)
      BY <1>1, <1>2, HalvesAreHalved
    <3>2. ~Finite(Pivot(trees, w)) => b = w.bounds
      OBVIOUS
    <3> HIDE DEF s, c, b, w, h
    <3>3. QED
      BY <3>1, <3>2 DEF Halved
  <2>2. QED
    BY <2>1
<1> DEFINE new == IF Finite(Pivot(trees, w)) THEN Append(st, f) ELSE st
<1>5. new \in Seq(Frames) /\ Unwinds(trees, h.bounds, h.rows, new)
  <2>1. CASE Finite(Pivot(trees, w))
    <3>1. f \in Frames /\ Unwound(trees, w.rows, f, h.bounds, w.bounds)
      BY <1>1, <1>2, <2>1, RightFrameOK
    <3> HIDE DEF f, h, w, st
    <3>2. Append(st, f) \in Seq(Frames) /\ Unwinds(trees, h.bounds, w.rows, Append(st, f))
      BY <3>1, <1>1, <1>3, UnwindsPush
    <3>3. QED
      BY <3>2, <2>1, <1>4
  <2>2. CASE ~Finite(Pivot(trees, w))
    <3> HIDE DEF f, h, w, st
    <3> QED
      BY <1>1, <1>4, <2>2
  <2>3. QED
    BY <2>1, <2>2
<1> HIDE DEF w, st, h, f, new
<1>6. WalkOK(trees, WalkRec("visit", h, new, x.sink, x.counted))
  BY <1>1, <1>3, <1>5, WalkMade
<1>7. QED
  BY <1>6 DEF w, st, h, f, new

(* The box as a popped frame leaves it. *)
Boxed(w, b) ==
    [left |-> w.left, right |-> w.right, bounds |-> b, rows |-> w.rows]

LEMMA BoxedParts ==
    ASSUME NEW w \in Works, NEW b \in Box
    PROVE  /\ Boxed(w, b) \in Works /\ Boxed(w, b).bounds = b
           /\ Boxed(w, b).rows = w.rows
  BY DEF Works, Boxed

LEMMA RestoreWalk ==
    ASSUME NEW x, WalkOK(trees, x), x.pc = "pop", x.stack # <<>>
    PROVE  LET f == Last(x.stack) IN
           /\ f \in Frames
           /\ WalkOK(trees, WalkRec("pop",
                     Boxed(x.work, Moved(x.work.bounds, f.side, f.dim, f.bound)),
                     Front(x.stack), x.sink, x.counted))
<1> DEFINE w == x.work
           st == x.stack
           f == Last(st)
<1>1. /\ w \in Works /\ st \in Seq(Frames) /\ x.counted \in Nat /\ IsABag(x.sink)
      /\ Unwinds(trees, w.bounds, w.rows, st) /\ st # <<>>
  BY WalkParts
<1>2. w.bounds \in Box
  BY <1>1 DEF Works
<1>3. f \in Frames /\ Front(st) \in Seq(Frames)
  BY <1>1, FrontParts
<1>4. PICK b \in Box : /\ Unwound(trees, w.rows, f, w.bounds, b)
                       /\ Unwinds(trees, b, w.rows, Front(st))
  BY <1>1, <1>2, UnwindsPop
<1>5. b = Moved(w.bounds, f.side, f.dim, f.bound)
  BY <1>4 DEF Unwound
<1> HIDE DEF w, st, f
<1> DEFINE n == Boxed(w, b)
<1>6. n \in Works /\ n.bounds = b /\ n.rows = w.rows
  BY <1>1, BoxedParts
<1> HIDE DEF n
<1>7. WalkOK(trees, WalkRec("pop", n, Front(st), x.sink, x.counted))
  BY <1>1, <1>3, <1>4, <1>6, WalkMade
<1>8. QED
  BY <1>3, <1>5, <1>7 DEF n, w, st, f

LEMMA RightWalk ==
    ASSUME NEW x, WalkOK(trees, x), x.pc = "pop", x.stack # <<>>,
           Last(x.stack).kind = "right"
    PROVE  LET f == Last(x.stack) IN
           /\ f \in RightFrames
           /\ WalkOK(trees, WalkRec("visit",
                     FarWork(f, x.work.bounds, x.work.rows),
                     Append(Front(x.stack), Restore(f)), x.sink, x.counted))
<1> DEFINE w == x.work
           st == x.stack
           f == Last(st)
           r == Restore(f)
           v == FarBound(f)
<1>1. /\ w \in Works /\ st \in Seq(Frames) /\ x.counted \in Nat /\ IsABag(x.sink)
      /\ Unwinds(trees, w.bounds, w.rows, st) /\ st # <<>> /\ f.kind = "right"
  BY WalkParts
<1>2. w.bounds \in Box
  BY <1>1 DEF Works
<1>3. f \in Frames /\ Front(st) \in Seq(Frames)
  BY <1>1, FrontParts
<1>4. PICK b \in Box : /\ Unwound(trees, w.rows, f, w.bounds, b)
                       /\ Unwinds(trees, b, w.rows, Front(st))
  BY <1>1, <1>2, UnwindsPop
<1>5. /\ b = Moved(w.bounds, f.side, f.dim, f.bound)
      /\ Sound(trees, FarWork(f, b, w.rows))
  BY <1>1, <1>4 DEF Unwound
<1> HIDE DEF w, st, f
<1>6. /\ f \in RightFrames /\ f.side \in Sides /\ f.dim \in Dims /\ f.bound \in Interval
      /\ v \in Interval
  BY <1>1, <1>3, FrameParts
<1>7. /\ r = [kind |-> "restore", side |-> f.side, dim |-> f.dim, bound |-> f.bound]
      /\ r.kind = "restore" /\ r.side = f.side /\ r.dim = f.dim /\ r.bound = f.bound
  BY DEF Restore
<1>8. r \in Frames
  BY <1>6, <1>7 DEF Frames, RestoreFrames
<1> HIDE DEF r, v
<1> DEFINE nb == Moved(w.bounds, f.side, f.dim, v)
<1>9. nb \in Box
  BY <1>2, <1>6, MovedParts
<1>10. Moved(b, f.side, f.dim, v) = nb
  BY <1>2, <1>5, <1>6, MovedTwice
<1>11. FarWork(f, b, w.rows) = FarWork(f, w.bounds, w.rows)
       /\ FarWork(f, b, w.rows).bounds = nb /\ FarWork(f, b, w.rows).rows = w.rows
  BY <1>10 DEF FarWork, v
<1>12. b = Moved(nb, f.side, f.dim, f.bound)
  BY <1>2, <1>5, <1>6, MovedTwice
<1> HIDE DEF nb
<1>13. Unwound(trees, w.rows, r, nb, b)
  BY <1>7, <1>12 DEF Unwound
<1>14. Append(Front(st), r) \in Seq(Frames)
       /\ Unwinds(trees, nb, w.rows, Append(Front(st), r))
  BY <1>3, <1>4, <1>8, <1>9, <1>13, UnwindsPush
<1> DEFINE n == FarWork(f, w.bounds, w.rows)
<1>15. n \in Works /\ n.bounds = nb /\ n.rows = w.rows /\ Sound(trees, n)
  BY <1>5, <1>11 DEF Sound
<1> HIDE DEF n
<1>16. WalkOK(trees, WalkRec("visit", n, Append(Front(st), r), x.sink, x.counted))
  BY <1>1, <1>14, <1>15, WalkMade
<1>17. QED
  BY <1>6, <1>16 DEF n, w, st, f, r

-----------------------------------------------------------------------------
(* The inductive invariant of the boxes: what is asked, the tasks, the     *)
(* walks, and what is there in which phase.                                *)

InputOK ==
    \E c \in Calls : trees = c.trees /\ query = c.query /\ executor = c.executor

TasksOK ==
    /\ tasks \in Seq(Works)
    /\ \A k \in DOMAIN tasks : Sound(trees, tasks[k])
    /\ phase \in {"frontier", "running"} =>
          \A k \in DOMAIN tasks : SomeLeaves(tasks[k])

WalksOK ==
    /\ waiting \subseteq DOMAIN tasks
    /\ DOMAIN walks \subseteq DOMAIN tasks
    /\ waiting \cap DOMAIN walks = {}
    /\ walks = [k \in DOMAIN walks |-> walks[k]]
    /\ \A k \in DOMAIN walks : WalkOK(trees, walks[k])

PhaseOK ==
    /\ phase \in {"idle", "frontier", "running", "nearest", "done", "panicked"}
    /\ phase \in {"idle", "frontier", "nearest"} => waiting = {} /\ DOMAIN walks = {}
    /\ phase = "idle" => tasks = <<>> /\ answer = EmptyBag /\ total = 0
    /\ phase = "running" => waiting \cup DOMAIN walks = DOMAIN tasks
    /\ phase \in {"frontier", "running"} =>
          query.terminal # "nearest" /\ ~SomeTreeEmpty
    /\ phase = "nearest" => query.terminal = "nearest" /\ ~SomeTreeEmpty

JoinOK == InputOK /\ TasksOK /\ WalksOK /\ PhaseOK

LEMMA InputParts == InputOK => BuiltTrees(trees) /\ query.radius \in Nat
<1> SUFFICES ASSUME InputOK PROVE BuiltTrees(trees) /\ query.radius \in Nat
  OBVIOUS
<1>1. PICK c \in Calls : trees = c.trees /\ query = c.query
  BY DEF InputOK
<1>2. \A s \in Sides : IsBuilt(c.trees[s])
  BY TreesAssumption
<1>3. c.query.radius \in Nat
  BY TaskAssumption
<1>4. QED
  BY <1>1, <1>2, <1>3 DEF BuiltTrees

LEMMA InitOK == Init => JoinOK
<1> SUFFICES ASSUME Init PROVE JoinOK
  OBVIOUS
<1>1. InputOK
  BY DEF Init, InputOK
<1>2. tasks = <<>> /\ walks = <<>> /\ waiting = {} /\ phase = "idle"
      /\ answer = EmptyBag /\ total = 0
  BY DEF Init
<1>3. <<>> \in Seq(Works) /\ DOMAIN <<>> = {}
  OBVIOUS
<1>4. TasksOK
  BY <1>2, <1>3 DEF TasksOK
<1>5. WalksOK
  <2>1. <<>> = [k \in DOMAIN <<>> |-> <<>>[k]]
    OBVIOUS
  <2>2. QED
    BY <1>2, <1>3, <2>1 DEF WalksOK
<1>6. PhaseOK
  BY <1>2, <1>3 DEF PhaseOK
<1>7. QED
  BY <1>1, <1>4, <1>5, <1>6 DEF JoinOK

(* The walk of one task moves. *)
LEMMA OneWalk ==
    ASSUME JoinOK, NEW k \in DOMAIN walks, NEW x, WalkOK(trees, x),
           walks' = [walks EXCEPT ![k] = x], phase' = phase, phase = "running",
           UNCHANGED <<input_vars, tasks, waiting>>
    PROVE  /\ JoinOK'
           /\ DOMAIN walks' = DOMAIN walks
           /\ \A j \in DOMAIN walks : walks'[j] = IF j = k THEN x ELSE walks[j]
<1>1. InputOK /\ TasksOK /\ WalksOK /\ PhaseOK
  BY DEF JoinOK
<1>2. trees' = trees /\ query' = query /\ executor' = executor /\ tasks' = tasks
      /\ waiting' = waiting
  BY DEF input_vars
<1>3. /\ DOMAIN walks' = DOMAIN walks
      /\ \A j \in DOMAIN walks : walks'[j] = IF j = k THEN x ELSE walks[j]
      /\ walks' = [j \in DOMAIN walks |-> walks'[j]]
  <2>1. walks = [j \in DOMAIN walks |-> walks[j]]
    BY <1>1 DEF WalksOK
  <2>2. walks' = [j \in DOMAIN walks |-> IF j = k THEN x ELSE walks[j]]
    BY <2>1
  <2>3. QED
    BY <2>2
<1>4. InputOK'
  BY <1>1, <1>2 DEF InputOK
<1>5. TasksOK'
  BY <1>1, <1>2 DEF TasksOK
<1>6. \A j \in DOMAIN walks' : WalkOK(trees', walks'[j])
  BY <1>1, <1>2, <1>3 DEF WalksOK
<1>7. WalksOK'
  BY <1>1, <1>2, <1>3, <1>6 DEF WalksOK
<1>8. PhaseOK'
  BY <1>1, <1>2, <1>3 DEF PhaseOK, SomeTreeEmpty
<1>9. QED
  BY <1>3, <1>4, <1>5, <1>7, <1>8 DEF JoinOK

(* The trees do not change, and what is below two cursors is finite. *)
LEMMA FewBelow ==
    ASSUME NEW tree, IsBuilt(tree), NEW c, CursorOK(tree, c), NEW rows \in RowRange
    PROVE  Below(tree, c, rows) \subseteq DOMAIN tree.points
           /\ IsFiniteSet(DOMAIN tree.points) /\ IsFiniteSet(Below(tree, c, rows))
<1>1. Below(tree, c, rows) \subseteq DOMAIN tree.points
  BY BelowIsThere
<1>2. DOMAIN tree.points = 1 .. Len(tree.points) /\ Len(tree.points) \in Nat
  BY BuiltTypes
<1>3. IsFiniteSet(DOMAIN tree.points)
  BY <1>2, FS_Interval
<1>4. QED
  BY <1>1, <1>3, FS_Subset

AllPairs == Entry("left") \X Entry("right")

HeldBy(w) == {ij \in AllPairs : HoldsIn(trees, w, ij[1], ij[2])}

LEMMA HeldIsFinite ==
    ASSUME BuiltTrees(trees)
    PROVE  IsFiniteSet(AllPairs) /\ \A S \in SUBSET AllPairs : IsFiniteSet(S)
<1>1. IsBuilt(trees["left"]) /\ IsBuilt(trees["right"])
  BY DEF BuiltTrees, Sides
<1>2. /\ DOMAIN trees["left"].points = 1 .. Len(trees["left"].points)
      /\ Len(trees["left"].points) \in Nat
  BY <1>1, BuiltTypes
<1>3. /\ DOMAIN trees["right"].points = 1 .. Len(trees["right"].points)
      /\ Len(trees["right"].points) \in Nat
  BY <1>1, BuiltTypes
<1>4. IsFiniteSet(Entry("left"))
  BY <1>2, FS_Interval DEF Entry
<1>5. IsFiniteSet(Entry("right"))
  BY <1>3, FS_Interval DEF Entry
<1>6. IsFiniteSet(AllPairs)
  BY <1>4, <1>5, FS_Product DEF AllPairs
<1>7. QED
  BY <1>6, FS_Subset

LEMMA BulkHolds ==
    ASSUME BuiltTrees(trees), NEW w, Sound(trees, w)
    PROVE  Below(trees.left, w.left, w.rows.left)
              \X Below(trees.right, w.right, w.rows.right) = HeldBy(w)
<1> DEFINE l == Below(trees["left"], w["left"], w.rows["left"])
           r == Below(trees["right"], w["right"], w.rows["right"])
<1>1. /\ IsBuilt(trees["left"]) /\ CursorOK(trees["left"], w["left"])
      /\ w.rows["left"] \in RowRange
  BY WorkTypes DEF BuiltTrees, Sides, Sound
<1>2. /\ IsBuilt(trees["right"]) /\ CursorOK(trees["right"], w["right"])
      /\ w.rows["right"] \in RowRange
  BY WorkTypes DEF BuiltTrees, Sides, Sound
<1>3. l \subseteq DOMAIN trees["left"].points
  BY <1>1, FewBelow
<1>4. r \subseteq DOMAIN trees["right"].points
  BY <1>2, FewBelow
<1>5. \A i, j : HoldsIn(trees, w, i, j) <=> i \in l /\ j \in r
  BY DEF HoldsIn
<1> DEFINE L == Entry("left")
           R == Entry("right")
<1>8. HeldBy(w) = {ij \in L \X R : HoldsIn(trees, w, ij[1], ij[2])}
  BY DEF HeldBy, AllPairs
<1>9. l \subseteq L /\ r \subseteq R
  BY <1>3, <1>4 DEF Entry
<1> HIDE DEF l, r, L, R
<1>6. l \X r = HeldBy(w)
  <2>1. ASSUME NEW ij \in l \X r PROVE ij \in HeldBy(w)
    <3>1. PICK i \in l, j \in r : ij = <<i, j>>
      OBVIOUS
    <3>2. i \in L /\ j \in R
      BY <1>9
    <3>3. ij \in L \X R /\ ij[1] = i /\ ij[2] = j
      BY <3>1, <3>2
    <3>4. HoldsIn(trees, w, i, j)
      BY <1>5
    <3>5. QED
      BY <3>3, <3>4, <1>8
  <2>2. ASSUME NEW ij \in HeldBy(w) PROVE ij \in l \X r
    <3>1. ij \in L \X R /\ HoldsIn(trees, w, ij[1], ij[2])
      BY <1>8
    <3>2. ij = <<ij[1], ij[2]>> /\ ij[1] \in l /\ ij[2] \in r
      BY <3>1, <1>5
    <3>3. QED
      BY <3>2
  <2>3. QED
    BY <2>1, <2>2
<1>7. QED
  BY <1>6 DEF l, r

LEMMA LeafPairHolds ==
    ASSUME BuiltTrees(trees), NEW w, Sound(trees, w), SomeLeaves(w), BothAtLeaf(w)
    PROVE  {ij \in RowsOf(trees.left, w.left.start, w.rows.left)
                      \X RowsOf(trees.right, w.right.start, w.rows.right) :
               Accepts(query, EntryDist(trees, query.metric, ij[1], ij[2]))}
           = {ij \in HeldBy(w) : MatchIn(trees, query, ij[1], ij[2])}
<1>1. /\ IsBuilt(trees["left"]) /\ CursorOK(trees["left"], w["left"])
      /\ AtLeaf(w["left"]) /\ Span(w["left"]) > 0
  BY DEF BuiltTrees, Sides, Sound, SomeLeaves, BothAtLeaf
<1>2. /\ IsBuilt(trees["right"]) /\ CursorOK(trees["right"], w["right"])
      /\ AtLeaf(w["right"]) /\ Span(w["right"]) > 0
  BY DEF BuiltTrees, Sides, Sound, SomeLeaves, BothAtLeaf
<1>3. \A rows : Below(trees["left"], w["left"], rows)
                   = RowsOf(trees["left"], w["left"].start, rows)
  BY <1>1, LeafOfCursor
<1>4. \A rows : Below(trees["right"], w["right"], rows)
                   = RowsOf(trees["right"], w["right"].start, rows)
  BY <1>2, LeafOfCursor
<1> DEFINE l == RowsOf(trees["left"], w["left"].start, w.rows["left"])
           r == RowsOf(trees["right"], w["right"].start, w.rows["right"])
<1>5. l \X r = HeldBy(w)
  BY <1>3, <1>4, BulkHolds
<1>6. \A ij \in HeldBy(w) : MatchIn(trees, query, ij[1], ij[2]) <=>
             Accepts(query, EntryDist(trees, query.metric, ij[1], ij[2]))
  <2> TAKE ij \in HeldBy(w)
  <2>1. ij \in Entry("left") \X Entry("right")
    BY DEF HeldBy, AllPairs
  <2>2. ij[1] \in Entry("left") /\ ij[2] \in Entry("right")
    BY <2>1
  <2>3. QED
    BY <2>2 DEF MatchIn, Entry
<1> HIDE DEF l, r
<1>7. {ij \in l \X r : Accepts(query, EntryDist(trees, query.metric, ij[1], ij[2]))}
      = {ij \in HeldBy(w) : MatchIn(trees, query, ij[1], ij[2])}
  BY <1>5, <1>6
<1>8. QED
  BY <1>7 DEF l, r

(* How the steps of a walk change it. *)
LEMMA WalkShape ==
    ASSUME NEW x, WalkOK(trees, x)
    PROVE  \E pc, w, st, sink, n :
              x = [pc |-> pc, work |-> w, stack |-> st, sink |-> sink, counted |-> n]
  BY WalkParts DEF WalkRec

WithPc(x, p)         == [x EXCEPT !.pc = p]
WithSink(x, b)       == [x EXCEPT !.sink = b]
WithCount(x, n)      == [x EXCEPT !.counted = n]
WithWork(x, w, st)   == [x EXCEPT !.work = w, !.stack = st]
TakenUp(x, p, w, st) == [x EXCEPT !.pc = p, !.work = w, !.stack = st]

LEMMA WalkChanged ==
    ASSUME NEW x, WalkOK(trees, x)
    PROVE  /\ \A p : WithPc(x, p) = WalkRec(p, x.work, x.stack, x.sink, x.counted)
           /\ \A p, u : WithSink(WithPc(x, p), u)
                           = WalkRec(p, x.work, x.stack, u, x.counted)
           /\ \A p, u : WithCount(WithPc(x, p), u)
                           = WalkRec(p, x.work, x.stack, x.sink, u)
           /\ \A u, v : WithWork(x, u, v) = WalkRec(x.pc, u, v, x.sink, x.counted)
           /\ \A p, u, v : TakenUp(x, p, u, v) = WalkRec(p, u, v, x.sink, x.counted)
<1> SUFFICES ASSUME NEW p, NEW u, NEW v
             PROVE  /\ WithPc(x, p) = WalkRec(p, x.work, x.stack, x.sink, x.counted)
                    /\ WithSink(WithPc(x, p), u)
                          = WalkRec(p, x.work, x.stack, u, x.counted)
                    /\ WithCount(WithPc(x, p), u)
                          = WalkRec(p, x.work, x.stack, x.sink, u)
                    /\ WithWork(x, u, v) = WalkRec(x.pc, u, v, x.sink, x.counted)
                    /\ TakenUp(x, p, u, v) = WalkRec(p, u, v, x.sink, x.counted)
  BY Zenon
<1>1. PICK pc, w, st, sink, n :
         x = [pc |-> pc, work |-> w, stack |-> st, sink |-> sink, counted |-> n]
  BY WalkParts DEF WalkRec
<1>2. x.pc = pc /\ x.work = w /\ x.stack = st /\ x.sink = sink /\ x.counted = n
  BY <1>1
<1>3. [x EXCEPT !.pc = p]
         = [pc |-> p, work |-> w, stack |-> st, sink |-> sink, counted |-> n]
  BY <1>1
<1> DEFINE y == [x EXCEPT !.pc = p]
           z == [x EXCEPT !.work = u]
           yz == [y EXCEPT !.work = u]
<1>4. z = [pc |-> pc, work |-> u, stack |-> st, sink |-> sink, counted |-> n]
  BY <1>1
<1>5. y = [pc |-> p, work |-> w, stack |-> st, sink |-> sink, counted |-> n]
  BY <1>3
<1> HIDE DEF y, z
<1>6. /\ [y EXCEPT !.sink = u]
            = [pc |-> p, work |-> w, stack |-> st, sink |-> u, counted |-> n]
      /\ [y EXCEPT !.counted = u]
            = [pc |-> p, work |-> w, stack |-> st, sink |-> sink, counted |-> u]
      /\ yz = [pc |-> p, work |-> u, stack |-> st, sink |-> sink, counted |-> n]
  BY <1>5
<1>7. [z EXCEPT !.stack = v]
         = [pc |-> pc, work |-> u, stack |-> v, sink |-> sink, counted |-> n]
  BY <1>4
<1> HIDE DEF yz
<1>8. [yz EXCEPT !.stack = v]
         = [pc |-> p, work |-> u, stack |-> v, sink |-> sink, counted |-> n]
  BY <1>6
<1>9. /\ WithPc(x, p) = y
      /\ WithSink(WithPc(x, p), u) = [y EXCEPT !.sink = u]
      /\ WithCount(WithPc(x, p), u) = [y EXCEPT !.counted = u]
      /\ WithWork(x, u, v) = [z EXCEPT !.stack = v]
      /\ TakenUp(x, p, u, v) = [yz EXCEPT !.stack = v]
  BY Zenon DEF y, z, yz, WithPc, WithSink, WithCount, WithWork, TakenUp
<1>10. QED
  BY <1>2, <1>5, <1>6, <1>7, <1>8, <1>9 DEF WalkRec

LEMMA PopRestoreReads ==
    ASSUME JoinOK, NEW k, PopRestore(k)
    PROVE  LET x == walks[k]
               f == Last(x.stack)
           IN  /\ k \in DOMAIN walks /\ x.pc = "pop" /\ x.stack # <<>>
               /\ f.kind = "restore"
               /\ walks' = [walks EXCEPT ![k] =
                     WalkRec("pop", Boxed(x.work, Moved(x.work.bounds, f.side, f.dim, f.bound)),
                             Front(x.stack), x.sink, x.counted)]
<1> DEFINE x == walks[k]
           f == Last(x.stack)
<1>1. /\ k \in DOMAIN walks /\ x.pc = "pop" /\ x.stack # <<>> /\ f.kind = "restore"
  BY DEF PopRestore, Pops, Top
<1>2. WalkOK(trees, x)
  BY <1>1 DEF JoinOK, WalksOK
<1>3. walks' = [walks EXCEPT ![k] =
                   [x EXCEPT !.work = [x.work EXCEPT !.bounds = Moved(x.work.bounds, f.side, f.dim, f.bound)],
                             !.stack = Front(x.stack)]]
  <2>1. walks' = [walks EXCEPT
          ![k].work.bounds[Top(k).side][Top(k).dim] = Top(k).bound,
          ![k].stack = Front(@)]
    BY DEF PopRestore
  <2>2. Top(k) = f
    BY DEF Top
  <2> HIDE DEF f
  <2>3. QED
    BY <1>1, <2>1, <2>2 DEF Moved
<1>4. x.work \in Works
  BY <1>2, WalkParts
<1>5. \A b : [x.work EXCEPT !.bounds = b] = Boxed(x.work, b)
  <2>1. PICK l, r, b, o : x.work = [left |-> l, right |-> r, bounds |-> b, rows |-> o]
    BY <1>4 DEF Works
  <2>2. QED
    BY <2>1 DEF Boxed
<1> HIDE DEF x, f
<1> DEFINE b == Moved(x.work.bounds, f.side, f.dim, f.bound)
<1>6. walks' = [walks EXCEPT ![k] =
                     WalkRec("pop", Boxed(x.work, b), Front(x.stack), x.sink, x.counted)]
  <2>1. WithWork(x, Boxed(x.work, b), Front(x.stack))
           = WalkRec(x.pc, Boxed(x.work, b), Front(x.stack), x.sink, x.counted)
    BY <1>2, WalkChanged
  <2>2. x.pc = "pop"
    BY <1>1
  <2>3. walks' = [walks EXCEPT ![k] =
                     WithWork(x, Boxed(x.work, b), Front(x.stack))]
    BY <1>3, <1>5 DEF WithWork
  <2>4. QED
    BY <2>1, <2>2, <2>3
<1>7. QED
  BY <1>1, <1>6 DEF x, f

LEMMA ResumedIs ==
    ASSUME NEW w \in Works, NEW f \in RightFrames
    PROVE  Resumed(w, f) = FarWork(f, w.bounds, w.rows)
<1> DEFINE v == FarBound(f)
<1>1. PICK l, r, b, o : w = [left |-> l, right |-> r, bounds |-> b, rows |-> o]
  BY DEF Works
<1> DEFINE x == [left |-> f.left, right |-> r, bounds |-> b, rows |-> o]
           y == [left |-> f.left, right |-> f.right, bounds |-> b, rows |-> o]
<1>2. [w EXCEPT !.left = f.left] = x
  BY <1>1
<1>3. [x EXCEPT !.right = f.right] = y
  OBVIOUS
<1>4. [y EXCEPT !.bounds = Moved(b, f.side, f.dim, v)] = FarWork(f, b, o)
  BY DEF FarWork, v
<1>5. y.bounds = b /\ w.bounds = b /\ w.rows = o
  BY <1>1
<1>6. v = [min |-> Greater(f.pivot, f.bound.min), max |-> f.bound.max]
  BY DEF FarBound
<1> HIDE DEF x, y, v
<1>7. [y EXCEPT !.bounds[f.side][f.dim] = v] = FarWork(f, b, o)
  BY <1>4, <1>5 DEF Moved
<1>8. Resumed(w, f) = [y EXCEPT !.bounds[f.side][f.dim] = v]
  BY <1>2, <1>3, <1>6, Zenon DEF Resumed
<1>9. QED
  BY <1>5, <1>7, <1>8

LEMMA PopRightReads ==
    ASSUME JoinOK, NEW k, PopRight(k)
    PROVE  LET x == walks[k]
               f == Last(x.stack)
           IN  /\ k \in DOMAIN walks /\ x.pc = "pop" /\ x.stack # <<>>
               /\ f.kind = "right"
               /\ walks' = [walks EXCEPT ![k] =
                     WalkRec("visit", FarWork(f, x.work.bounds, x.work.rows),
                             Append(Front(x.stack), Restore(f)), x.sink, x.counted)]
<1> DEFINE x == walks[k]
           f == Last(x.stack)
           st == Append(Front(x.stack), Restore(f))
           w == Resumed(x.work, f)
<1>1. /\ k \in DOMAIN walks /\ x.pc = "pop" /\ x.stack # <<>> /\ f.kind = "right"
  BY DEF PopRight, Pops, Top
<1>2. WalkOK(trees, x)
  BY <1>1 DEF JoinOK, WalksOK
<1>3. walks' = [walks EXCEPT ![k] = TakenUp(x, "visit", w, st)]
  <2>1. walks' = [walks EXCEPT
          ![k].pc = "visit",
          ![k].work = Resumed(@, Top(k)),
          ![k].stack = Append(Front(@), Restore(Top(k)))]
    BY DEF PopRight
  <2>2. Top(k) = f
    BY DEF Top
  <2>3. PICK pc, u, s, sink, n :
           x = [pc |-> pc, work |-> u, stack |-> s, sink |-> sink, counted |-> n]
    BY <1>2, WalkShape
  <2> HIDE DEF f
  <2>4. walks' = [walks EXCEPT ![k].pc = "visit", ![k].work = w, ![k].stack = st]
    BY <1>1, <2>1, <2>2, <2>3
  <2> HIDE DEF w, st
  <2>5. QED
    BY <1>1, <2>4 DEF TakenUp
<1>4. f \in RightFrames /\ x.work \in Works
  BY <1>1, <1>2, WalkParts, FrontParts, FrameParts
<1>5. w = FarWork(f, x.work.bounds, x.work.rows)
  BY <1>4, ResumedIs
<1> HIDE DEF x, f, w, st
<1>6. TakenUp(x, "visit", w, st) = WalkRec("visit", w, st, x.sink, x.counted)
  BY <1>2, WalkChanged
<1>7. QED
  BY <1>1, <1>3, <1>5, <1>6 DEF x, f, st

LEMMA DescendReads ==
    ASSUME JoinOK, NEW k, Descend(k)
    PROVE  LET x == walks[k]
               w == x.work
           IN  /\ k \in DOMAIN walks /\ x.pc = "visit" /\ Kept(w) /\ ~BothAtLeaf(w)
               /\ walks' = [walks EXCEPT ![k] =
                     WalkRec("visit", NearHalf(trees, w),
                             IF Finite(Pivot(trees, w))
                             THEN Append(x.stack, RightFrame(w)) ELSE x.stack,
                             x.sink, x.counted)]
<1> DEFINE x == walks[k]
           w == x.work
           st == IF Finite(Pivot(trees, w)) THEN Append(x.stack, RightFrame(w)) ELSE x.stack
           h == NearHalf(trees, w)
<1>1. k \in DOMAIN walks /\ x.pc = "visit" /\ Kept(w) /\ ~BothAtLeaf(w)
  BY DEF Descend, Visits
<1>2. WalkOK(trees, x) /\ BuiltTrees(trees)
  BY <1>1, InputParts DEF JoinOK, WalksOK
<1>3. Sound(trees, w) /\ SomeLeaves(w)
  BY <1>1, <1>2, WalkParts DEF Kept
<1>4. ~IsPadding(trees, w)
  BY <1>1, <1>2, <1>3, SideParts
<1>5. walks' = [walks EXCEPT ![k] = WithWork(x, h, st)]
  <2>1. walks' = [walks EXCEPT
          ![k].work  = IF IsPadding(trees, w) THEN Unpadded(w) ELSE NearHalf(trees, w),
          ![k].stack = IF Finite(Pivot(trees, w))
                       THEN Append(@, RightFrame(w)) ELSE @]
    BY DEF Descend
  <2>2. PICK pc, u, s, sink, n :
           x = [pc |-> pc, work |-> u, stack |-> s, sink |-> sink, counted |-> n]
    BY <1>2, WalkShape
  <2>3. walks' = [walks EXCEPT ![k].work = h, ![k].stack = st]
    <3> DEFINE g == [walks EXCEPT ![k].work = IF IsPadding(trees, w) THEN Unpadded(w)
                                              ELSE NearHalf(trees, w)]
    <3>1. walks' = [g EXCEPT ![k].stack = IF Finite(Pivot(trees, w))
                                          THEN Append(@, RightFrame(w)) ELSE @]
      BY <2>1
    <3>2. g = [walks EXCEPT ![k] = [x EXCEPT !.work = h]]
      BY <1>4
    <3>3. g[k].stack = x.stack
      BY <3>2, <1>1, <2>2
    <3> HIDE DEF g
    <3>4. walks' = [g EXCEPT ![k].stack = st]
      BY <3>1, <3>3
    <3>5. QED
      BY <3>2, <3>4
  <2> HIDE DEF h, st
  <2>5. QED
    BY <1>1, <2>3 DEF WithWork
<1> HIDE DEF x, w, h, st
<1>6. WithWork(x, h, st) = WalkRec(x.pc, h, st, x.sink, x.counted)
  BY <1>2, WalkChanged
<1>7. QED
  BY <1>1, <1>5, <1>6 DEF x, w, h, st

LEMMA StopReads ==
    ASSUME JoinOK, NEW k, Reject(k) \/ WalkEnds(k)
    PROVE  LET x == walks[k] IN
           \E pc \in {"pop", "ended"} :
              /\ k \in DOMAIN walks
              /\ walks' = [walks EXCEPT ![k] =
                              WalkRec(pc, x.work, x.stack, x.sink, x.counted)]
              /\ Reject(k) => pc = "pop" /\ x.pc = "visit" /\ ~Kept(x.work)
              /\ ~Reject(k) => x.pc = "pop" /\ x.stack = <<>>
<1> DEFINE x == walks[k]
           pc == IF Reject(k) THEN "pop" ELSE "ended"
<1>1. /\ k \in DOMAIN walks
      /\ Reject(k) => x.pc = "visit" /\ ~Kept(x.work)
      /\ ~Reject(k) => x.pc = "pop" /\ x.stack = <<>>
      /\ walks' = [walks EXCEPT ![k] = WithPc(x, pc)]
  <2>1. CASE Reject(k)
    BY <2>1 DEF Reject, Visits, WithPc
  <2>2. CASE ~Reject(k)
    <3>1. WalkEnds(k)
      BY <2>2
    <3>2. QED
      BY <2>2, <3>1 DEF WalkEnds, Pops, WithPc
  <2>3. QED
    BY <2>1, <2>2
<1>2. WalkOK(trees, x)
  BY <1>1 DEF JoinOK, WalksOK
<1>3. pc \in {"pop", "ended"} /\ (Reject(k) => pc = "pop")
  OBVIOUS
<1> HIDE DEF x, pc
<1>4. WithPc(x, pc) = WalkRec(pc, x.work, x.stack, x.sink, x.counted)
  BY <1>2, WalkChanged
<1>5. QED
  BY <1>1, <1>3, <1>4 DEF x

(* What is found goes to the sink, to the answer or into the count. *)
Found(ij) == SetToBag({PairOf(x[1], x[2]) : x \in ij})

LEMMA EmitReads ==
    ASSUME JoinOK, NEW k \in DOMAIN walks, NEW ij, Emit(k, ij)
    PROVE  LET x == walks[k]
               n == x.counted + Cardinality(ij)
           IN  \/ /\ query.terminal = "execute" /\ phase' = phase /\ answer' = answer
                  /\ walks' = [walks EXCEPT ![k] =
                        WalkRec("pop", x.work, x.stack, x.sink (+) Found(ij), x.counted)]
               \/ /\ query.terminal = "for_each" /\ phase' = phase
                  /\ answer' = answer (+) Found(ij)
                  /\ walks' = [walks EXCEPT ![k] =
                        WalkRec("pop", x.work, x.stack, x.sink, x.counted)]
               \/ /\ query.terminal = "count" /\ phase' = phase /\ answer' = answer
                  /\ n <= MaxCount
                  /\ walks' = [walks EXCEPT ![k] =
                        WalkRec("pop", x.work, x.stack, x.sink, n)]
               \/ /\ query.terminal = "count" /\ phase' = "panicked" /\ n > MaxCount
                  /\ walks' = walks /\ answer' = answer
<1> DEFINE x == walks[k]
           n == x.counted + Cardinality(ij)
           f == Found(ij)
           next == [x EXCEPT !.pc = "pop"]
<1>1. WalkOK(trees, x)
  BY DEF JoinOK, WalksOK
<1>2. PICK pc, u, s, sink, c :
           x = [pc |-> pc, work |-> u, stack |-> s, sink |-> sink, counted |-> c]
  BY <1>1, WalkShape
<1>3. next = WithPc(x, "pop") /\ next.sink = x.sink
  BY <1>2 DEF WithPc
<1>4. \/ /\ query.terminal = "execute" /\ phase' = phase /\ answer' = answer
         /\ walks' = [walks EXCEPT ![k] = [next EXCEPT !.sink = @ (+) f]]
      \/ /\ query.terminal = "for_each" /\ phase' = phase /\ answer' = answer (+) f
         /\ walks' = [walks EXCEPT ![k] = next]
      \/ /\ query.terminal = "count" /\ phase' = phase /\ answer' = answer
         /\ n <= MaxCount
         /\ walks' = [walks EXCEPT ![k] = [next EXCEPT !.counted = n]]
      \/ /\ query.terminal = "count" /\ phase' = "panicked" /\ n > MaxCount
         /\ walks' = walks /\ answer' = answer
  BY DEF Emit, Found
<1> HIDE DEF x, n, f, next
<1>5. /\ [next EXCEPT !.sink = @ (+) f] = WithSink(next, x.sink (+) f)
      /\ [next EXCEPT !.counted = n] = WithCount(next, n)
  BY <1>3 DEF WithSink, WithCount
<1>6. /\ next = WalkRec("pop", x.work, x.stack, x.sink, x.counted)
      /\ WithSink(next, x.sink (+) f)
            = WalkRec("pop", x.work, x.stack, x.sink (+) f, x.counted)
      /\ WithCount(next, n) = WalkRec("pop", x.work, x.stack, x.sink, n)
  BY <1>1, <1>3, WalkChanged
<1>7. QED
  BY <1>4, <1>5, <1>6 DEF x, n, f

-----------------------------------------------------------------------------
(* Each step keeps the invariant.                                          *)

LEMMA RestParts ==
    ASSUME UNCHANGED Rest
    PROVE  UNCHANGED <<input_vars, tasks, waiting, total, candidates>>
           /\ UNCHANGED <<trees, query, executor, tasks, waiting, total, candidates>>
  BY DEF Rest, input_vars

LEMMA MovesOK ==
    ASSUME JoinOK, NEW k,
           Descend(k) \/ PopRestore(k) \/ PopRight(k) \/ Reject(k) \/ WalkEnds(k)
    PROVE  /\ JoinOK' /\ k \in DOMAIN walks /\ phase = "running"
           /\ \E x : WalkOK(trees, x) /\ walks' = [walks EXCEPT ![k] = x]
<1>1. phase = "running" /\ phase' = phase /\ UNCHANGED Rest
  BY DEF Descend, PopRestore, PopRight, Reject, WalkEnds, Pops, Visits
<1>2. UNCHANGED <<input_vars, tasks, waiting>>
  BY <1>1, RestParts
<1>3. BuiltTrees(trees)
  BY InputParts DEF JoinOK
<1>4. k \in DOMAIN walks /\ \E x : WalkOK(trees, x) /\ walks' = [walks EXCEPT ![k] = x]
  <2>1. CASE Descend(k)
    <3> DEFINE x == walks[k]
    <3>1. /\ k \in DOMAIN walks /\ x.pc = "visit" /\ Kept(x.work) /\ ~BothAtLeaf(x.work)
          /\ walks' = [walks EXCEPT ![k] =
                     WalkRec("visit", NearHalf(trees, x.work),
                             IF Finite(Pivot(trees, x.work))
                             THEN Append(x.stack, RightFrame(x.work)) ELSE x.stack,
                             x.sink, x.counted)]
      BY <2>1, DescendReads
    <3>2. WalkOK(trees, x)
      BY <3>1 DEF JoinOK, WalksOK
    <3> HIDE DEF x
    <3>3. SomeLeaves(x.work)
      BY <3>1 DEF Kept
    <3>4. QED
      BY <3>1, <3>2, <3>3, <1>3, DescendWalk
  <2>2. CASE PopRestore(k)
    <3> DEFINE x == walks[k]
               f == Last(x.stack)
    <3>1. /\ k \in DOMAIN walks /\ x.pc = "pop" /\ x.stack # <<>>
          /\ walks' = [walks EXCEPT ![k] =
                WalkRec("pop", Boxed(x.work, Moved(x.work.bounds, f.side, f.dim, f.bound)),
                        Front(x.stack), x.sink, x.counted)]
      BY <2>2, PopRestoreReads
    <3>2. WalkOK(trees, x)
      BY <3>1 DEF JoinOK, WalksOK
    <3> HIDE DEF x
    <3>3. QED
      BY <3>1, <3>2, RestoreWalk
  <2>3. CASE PopRight(k)
    <3> DEFINE x == walks[k]
               f == Last(x.stack)
    <3>1. /\ k \in DOMAIN walks /\ x.pc = "pop" /\ x.stack # <<>> /\ f.kind = "right"
          /\ walks' = [walks EXCEPT ![k] =
                     WalkRec("visit", FarWork(f, x.work.bounds, x.work.rows),
                             Append(Front(x.stack), Restore(f)), x.sink, x.counted)]
      BY <2>3, PopRightReads
    <3>2. WalkOK(trees, x)
      BY <3>1 DEF JoinOK, WalksOK
    <3> HIDE DEF x
    <3>3. QED
      BY <3>1, <3>2, RightWalk
  <2>4. CASE Reject(k) \/ WalkEnds(k)
    <3> DEFINE x == walks[k]
    <3>1. PICK pc \in {"pop", "ended"} :
             /\ k \in DOMAIN walks
             /\ walks' = [walks EXCEPT ![k] =
                              WalkRec(pc, x.work, x.stack, x.sink, x.counted)]
      BY <2>4, StopReads
    <3>2. WalkOK(trees, x)
      BY <3>1 DEF JoinOK, WalksOK
    <3> HIDE DEF x
    <3>3. /\ x.work \in Works /\ x.stack \in Seq(Frames) /\ x.counted \in Nat
          /\ IsABag(x.sink) /\ Unwinds(trees, x.work.bounds, x.work.rows, x.stack)
      BY <3>2, WalkParts
    <3>4. WalkOK(trees, WalkRec(pc, x.work, x.stack, x.sink, x.counted))
      BY <3>3, WalkMade
    <3>5. QED
      BY <3>1, <3>4
  <2>5. QED
    BY <2>1, <2>2, <2>3, <2>4
<1>5. JoinOK'
  BY <1>1, <1>2, <1>4, OneWalk
<1>6. QED
  BY <1>1, <1>4, <1>5

LEMMA PhaseOnly ==
    ASSUME JoinOK, UNCHANGED <<input_vars, tasks, waiting, walks>>,
           phase' \in {"done", "panicked"}
    PROVE  JoinOK'
<1>1. trees' = trees /\ query' = query /\ executor' = executor /\ tasks' = tasks
      /\ waiting' = waiting /\ walks' = walks
  BY DEF input_vars
<1>2. InputOK'
  BY <1>1 DEF JoinOK, InputOK
<1>3. TasksOK'
  BY <1>1 DEF JoinOK, TasksOK
<1>4. WalksOK'
  BY <1>1 DEF JoinOK, WalksOK
<1>5. PhaseOK'
  BY <1>1 DEF JoinOK, PhaseOK
<1>6. QED
  BY <1>2, <1>3, <1>4, <1>5 DEF JoinOK

LEMMA EmitOK ==
    ASSUME JoinOK, NEW k \in DOMAIN walks, phase = "running", NEW ij,
           IsFiniteSet(ij), Emit(k, ij)
    PROVE  JoinOK'
<1> DEFINE x == walks[k]
           n == x.counted + Cardinality(ij)
<1>1. WalkOK(trees, x)
  BY DEF JoinOK, WalksOK
<1>2. /\ x.work \in Works /\ x.stack \in Seq(Frames) /\ x.counted \in Nat
      /\ IsABag(x.sink) /\ Unwinds(trees, x.work.bounds, x.work.rows, x.stack)
  BY <1>1, WalkParts
<1>3. n \in Nat
  BY <1>2, FS_CardinalityType
<1>4. UNCHANGED <<input_vars, tasks, waiting>>
  BY RestParts DEF Emit
<1>5. \/ phase' = "panicked" /\ walks' = walks
      \/ /\ phase' = phase
         /\ \E b, m : /\ IsABag(b) /\ m \in Nat
                      /\ walks' = [walks EXCEPT ![k] =
                                     WalkRec("pop", x.work, x.stack, b, m)]
  <2>1. IsABag(x.sink (+) Found(ij))
    BY <1>2, FoundAreBags DEF Found
  <2> HIDE DEF x, n
  <2>2. QED
    BY <2>1, <1>2, <1>3, EmitReads DEF x, n
<1>6. CASE phase' = "panicked" /\ walks' = walks
  <2>1. UNCHANGED <<input_vars, tasks, waiting, walks>>
    BY <1>4, <1>6
  <2>2. phase' \in {"done", "panicked"}
    BY <1>6
  <2>3. QED
    BY <2>1, <2>2, PhaseOnly
<1>7. CASE /\ phase' = phase
           /\ \E b, m : /\ IsABag(b) /\ m \in Nat
                        /\ walks' = [walks EXCEPT ![k] =
                                       WalkRec("pop", x.work, x.stack, b, m)]
  <2>1. PICK b, m : /\ IsABag(b) /\ m \in Nat
                    /\ walks' = [walks EXCEPT ![k] =
                                    WalkRec("pop", x.work, x.stack, b, m)]
    BY <1>7
  <2> HIDE DEF x
  <2>2. WalkOK(trees, WalkRec("pop", x.work, x.stack, b, m))
    BY <1>2, <2>1, WalkMade
  <2>3. QED
    BY <2>1, <2>2, <1>4, <1>7, OneWalk
<1>8. QED
  BY <1>5, <1>6, <1>7

LEMMA FindsOK ==
    ASSUME JoinOK, NEW k, Bulk(k) \/ LeafPair(k)
    PROVE  LET w == walks[k].work IN
           /\ JoinOK' /\ k \in DOMAIN walks /\ phase = "running"
           /\ walks[k].pc = "visit" /\ Kept(w) /\ Sound(trees, w)
           /\ Bulk(k) => IsAccepted(w) /\ Emit(k, HeldBy(w))
           /\ ~Bulk(k) => Emit(k, {ij \in HeldBy(w) : MatchIn(trees, query, ij[1], ij[2])})
<1> DEFINE x == walks[k]
           w == x.work
           some == {ij \in HeldBy(w) : MatchIn(trees, query, ij[1], ij[2])}
<1>1. k \in DOMAIN walks /\ x.pc = "visit" /\ Kept(w) /\ phase = "running"
  BY DEF Bulk, LeafPair, Visits
<1>2. WalkOK(trees, x) /\ BuiltTrees(trees)
  BY <1>1, InputParts DEF JoinOK, WalksOK
<1>3. Sound(trees, w) /\ SomeLeaves(w)
  BY <1>1, <1>2, WalkParts DEF Kept
<1>4. IsFiniteSet(HeldBy(w)) /\ IsFiniteSet(some)
  <2>1. HeldBy(w) \in SUBSET AllPairs /\ some \in SUBSET AllPairs
    BY DEF HeldBy
  <2>2. QED
    BY <1>2, <2>1, HeldIsFinite
<1>5. Bulk(k) => IsAccepted(w) /\ Emit(k, HeldBy(w))
  <2>1. Bulk(k) => IsAccepted(w) /\ Emit(k, Below(trees.left, w.left, w.rows.left)
                              \X Below(trees.right, w.right, w.rows.right))
    BY DEF Bulk
  <2>2. QED
    BY <1>2, <1>3, <2>1, BulkHolds
<1>6. ~Bulk(k) => Emit(k, some)
  <2>1. ASSUME ~Bulk(k) PROVE Emit(k, some)
    <3>1. /\ BothAtLeaf(w)
          /\ Emit(k, {ij \in RowsOf(trees.left, w.left.start, w.rows.left)
                              \X RowsOf(trees.right, w.right.start, w.rows.right) :
                 Accepts(query, EntryDist(trees, query.metric, ij[1], ij[2]))})
      BY <2>1 DEF LeafPair
    <3>2. {ij \in RowsOf(trees.left, w.left.start, w.rows.left)
                              \X RowsOf(trees.right, w.right.start, w.rows.right) :
                 Accepts(query, EntryDist(trees, query.metric, ij[1], ij[2]))} = some
      BY <1>2, <1>3, <3>1, LeafPairHolds
    <3>3. QED
      BY <3>1, <3>2
  <2>2. QED
    BY <2>1
<1>7. JoinOK'
  <2> HIDE DEF w, x, some
  <2>1. CASE Bulk(k)
    BY <1>1, <1>4, <1>5, <2>1, EmitOK
  <2>2. CASE ~Bulk(k)
    BY <1>1, <1>4, <1>6, <2>2, EmitOK
  <2>3. QED
    BY <2>1, <2>2
<1>8. QED
  BY <1>1, <1>3, <1>5, <1>6, <1>7

LEMMA BeginOK ==
    ASSUME JoinOK, NEW k \in DOMAIN tasks, Begin(k)
    PROVE  /\ JoinOK'
           /\ k \in waiting /\ waiting' = waiting \ {k}
           /\ DOMAIN walks' = DOMAIN walks \cup {k}
           /\ \A j \in DOMAIN walks : j # k /\ walks'[j] = walks[j]
           /\ walks'[k] = WalkRec("visit", tasks[k], <<>>, EmptyBag, 0)
<1>1. InputOK /\ TasksOK /\ WalksOK /\ PhaseOK
  BY DEF JoinOK
<1> DEFINE x == WalkRec("visit", tasks[k], <<>>, EmptyBag, 0)
<1>2. /\ phase = "running" /\ phase' = phase /\ k \in waiting
      /\ waiting' = waiting \ {k}
      /\ walks' = [j \in DOMAIN walks \cup {k} |-> IF j # k THEN walks[j] ELSE x]
      /\ UNCHANGED <<input_vars, phase, tasks, answer, total, candidates>>
  BY DEF Begin, WalkRec
<1>3. trees' = trees /\ query' = query /\ executor' = executor /\ tasks' = tasks
      /\ answer' = answer /\ total' = total
  BY <1>2 DEF input_vars
<1>4. /\ DOMAIN walks' = DOMAIN walks \cup {k}
      /\ \A j \in DOMAIN walks : j # k /\ walks'[j] = walks[j]
      /\ walks'[k] = x
      /\ walks' = [j \in DOMAIN walks' |-> walks'[j]]
  <2> HIDE DEF x
  <2>1. k \notin DOMAIN walks
    BY <1>1, <1>2 DEF WalksOK
  <2>2. QED
    BY <1>2, <2>1
<1>5. WalkOK(trees, x)
  <2>1. tasks[k] \in Works /\ Sound(trees, tasks[k])
    BY <1>1, ElementOfSeq, LenProperties DEF TasksOK
  <2>2. tasks[k].bounds \in Box
    BY <2>1 DEF Works
  <2>3. Unwinds(trees, tasks[k].bounds, tasks[k].rows, <<>>)
    BY <2>2, UnwindsEmpty
  <2>4. <<>> \in Seq(Frames) /\ 0 \in Nat /\ IsABag(EmptyBag)
    BY EmptySinkBag
  <2>5. QED
    BY <2>1, <2>3, <2>4, WalkMade
<1>6. InputOK'
  BY <1>1, <1>3 DEF InputOK
<1>7. TasksOK'
  BY <1>1, <1>2, <1>3 DEF TasksOK
<1> HIDE DEF x
<1>8. WalksOK'
  <2>1. waiting' \subseteq DOMAIN tasks' /\ DOMAIN walks' \subseteq DOMAIN tasks'
        /\ waiting' \cap DOMAIN walks' = {}
    BY <1>1, <1>2, <1>3, <1>4 DEF WalksOK
  <2>2. \A j \in DOMAIN walks' : WalkOK(trees', walks'[j])
    BY <1>1, <1>3, <1>4, <1>5 DEF WalksOK
  <2>3. QED
    BY <2>1, <2>2, <1>4 DEF WalksOK
<1>9. PhaseOK'
  BY <1>1, <1>2, <1>3, <1>4 DEF PhaseOK, SomeTreeEmpty
<1>10. QED
  BY <1>2, <1>4, <1>6, <1>7, <1>8, <1>9 DEF JoinOK, x

IsCut(t, k, h, hs, new) ==
    LET n == Len(t) IN
    /\ n \in Nat \ {0} /\ k \in 1 .. n /\ DOMAIN t = 1 .. n
    /\ new \in Seq(Works) /\ DOMAIN new = 1 .. (n - 1) + h
    /\ \A j \in 1 .. n - 1 : new[j] = IF j = k THEN t[n] ELSE t[j]
    /\ \A j \in 1 .. h : new[(n - 1) + j] = hs[j]

LEMMA CutParts ==
    ASSUME NEW t \in Seq(Works), NEW k \in DOMAIN t, NEW h \in Nat,
           NEW hs \in [1 .. h -> Works]
    PROVE  IsCut(t, k, h, hs, SwapRemoved(t, k) \o hs)
<1> DEFINE n == Len(t)
           a == SwapRemoved(t, k)
           new == a \o hs
<1>1. n \in Nat /\ DOMAIN t = 1 .. n /\ t \in [1 .. n -> Works]
  BY LenProperties
<1>2. k \in 1 .. n /\ n \in Nat \ {0}
  BY <1>1
<1>3. a = [j \in 1 .. n - 1 |-> IF j = k THEN t[n] ELSE t[j]]
  BY DEF SwapRemoved
<1> HIDE DEF n, a
<1>4. n - 1 \in Nat /\ n \in 1 .. n /\ \A j \in 1 .. n - 1 : j \in 1 .. n
  BY <1>2
<1>5. a \in [1 .. n - 1 -> Works]
  BY <1>1, <1>3, <1>4
<1>6. a \in Seq(Works) /\ hs \in Seq(Works) /\ Len(a) = n - 1 /\ Len(hs) = h
  <2>1. a \in Seq(Works) /\ hs \in Seq(Works)
    BY <1>4, <1>5, SeqDef
  <2>2. DOMAIN a = 1 .. n - 1 /\ DOMAIN hs = 1 .. h
    BY <1>5
  <2>3. QED
    BY <2>1, <2>2, <1>4
<1>7. /\ new \in Seq(Works) /\ Len(new) = (n - 1) + h
      /\ \A i \in 1 .. (n - 1) + h :
            new[i] = IF i <= n - 1 THEN a[i] ELSE hs[i - (n - 1)]
  <2>1. /\ new \in Seq(Works) /\ Len(new) = Len(a) + Len(hs)
        /\ \A i \in 1 .. Len(a) + Len(hs) :
              new[i] = IF i <= Len(a) THEN a[i] ELSE hs[i - Len(a)]
    BY <1>6, ConcatProperties
  <2> HIDE DEF new
  <2>2. QED
    BY <2>1, <1>6
<1> HIDE DEF new
<1>8. DOMAIN new = 1 .. (n - 1) + h
  BY <1>7, LenProperties
<1>9. \A j \in 1 .. n - 1 : new[j] = IF j = k THEN t[n] ELSE t[j]
  <2> TAKE j \in 1 .. n - 1
  <2>1. j \in 1 .. (n - 1) + h /\ j <= n - 1
    BY <1>4
  <2>2. new[j] = a[j]
    BY <2>1, <1>7
  <2>3. QED
    BY <2>2, <1>3
<1>10. \A j \in 1 .. h : new[(n - 1) + j] = hs[j]
  <2> TAKE j \in 1 .. h
  <2> DEFINE i == (n - 1) + j
  <2>1. i \in 1 .. (n - 1) + h /\ ~(i <= n - 1) /\ i - (n - 1) = j
    BY <1>2
  <2> HIDE DEF i
  <2>2. new[i] = IF i <= n - 1 THEN a[i] ELSE hs[i - (n - 1)]
    BY <2>1, <1>7
  <2>3. new[i] = hs[j]
    BY <2>1, <2>2
  <2>4. QED
    BY <2>3 DEF i
<1>11. QED
  BY <1>1, <1>2, <1>7, <1>8, <1>9, <1>10 DEF n, new, a, IsCut

(* The tasks after one was cut. *)
LEMMA CutReads ==
    ASSUME JoinOK, CutFrontier
    PROVE  /\ phase = "frontier" /\ phase' = phase
           /\ UNCHANGED <<trees, query, executor, waiting, walks, answer, total>>
           /\ \E k \in DOMAIN tasks, h \in Nat : \E hs \in [1 .. h -> Works] :
                 /\ tasks' = SwapRemoved(tasks, k) \o hs
                 /\ HandedOn(tasks[k], hs)
<1>1. /\ phase = "frontier" /\ phase' = phase
      /\ UNCHANGED <<trees, query, executor, waiting, walks, answer, total>>
  BY DEF CutFrontier, input_vars
<1>2. PICK k \in Cuttable : tasks' = SwapRemoved(tasks, k) \o KeptHalves(tasks[k])
  BY DEF CutFrontier
<1>3. k \in DOMAIN tasks /\ Score(tasks[k]) > MinScore
  BY <1>2 DEF Cuttable
<1>4. Ready(trees, tasks[k])
  BY <1>1, <1>3 DEF JoinOK, TasksOK, Ready
<1>5. BuiltTrees(trees) /\ query.radius \in Nat
  BY InputParts DEF JoinOK
<1>6. PICK h \in Nat : /\ KeptHalves(tasks[k]) \in [1 .. h -> Works]
                       /\ HandedOn(tasks[k], KeptHalves(tasks[k]))
  BY <1>3, <1>4, <1>5, HalvesHandedOn
<1>7. QED
  BY <1>1, <1>2, <1>3, <1>6

LEMMA CutOK == ASSUME JoinOK, CutFrontier PROVE JoinOK'
<1>1. InputOK /\ TasksOK /\ WalksOK /\ PhaseOK
  BY DEF JoinOK
<1>2. /\ phase = "frontier" /\ phase' = phase
      /\ UNCHANGED <<trees, query, executor, waiting, walks, answer, total>>
  BY CutReads
<1>3. PICK k \in DOMAIN tasks, h \in Nat : \E hs \in [1 .. h -> Works] :
         tasks' = SwapRemoved(tasks, k) \o hs /\ HandedOn(tasks[k], hs)
  BY CutReads
<1>4. PICK hs \in [1 .. h -> Works] :
         tasks' = SwapRemoved(tasks, k) \o hs /\ HandedOn(tasks[k], hs)
  BY <1>3
<1> DEFINE n == Len(tasks)
<1>5. tasks \in Seq(Works)
  BY <1>1 DEF TasksOK
<1>6. /\ n \in Nat \ {0} /\ k \in 1 .. n /\ DOMAIN tasks = 1 .. n
      /\ tasks' \in Seq(Works) /\ DOMAIN tasks' = 1 .. (n - 1) + h
      /\ \A j \in 1 .. n - 1 : tasks'[j] = IF j = k THEN tasks[n] ELSE tasks[j]
      /\ \A j \in 1 .. h : tasks'[(n - 1) + j] = hs[j]
  <2>1. IsCut(tasks, k, h, hs, SwapRemoved(tasks, k) \o hs)
    BY <1>5, CutParts
  <2>2. IsCut(tasks, k, h, hs, tasks')
    BY <1>4, <2>1
  <2>3. QED
    BY <2>2 DEF IsCut
<1> HIDE DEF n
<1>7. \A j \in 1 .. n : Ready(trees, tasks[j])
  BY <1>1, <1>2, <1>6 DEF TasksOK, Ready
<1>8. \A j \in 1 .. h : Ready(trees, hs[j])
  BY <1>4 DEF HandedOn
<1>9. \A j \in DOMAIN tasks' : Ready(trees, tasks'[j])
  <2> TAKE j \in DOMAIN tasks'
  <2>1. CASE j \in 1 .. n - 1
    <3>1. j \in 1 .. n /\ n \in 1 .. n
      BY <2>1, <1>6
    <3>2. QED
      BY <2>1, <3>1, <1>6, <1>7
  <2>2. CASE j \notin 1 .. n - 1
    <3>1. j - (n - 1) \in 1 .. h /\ (n - 1) + (j - (n - 1)) = j
      BY <2>2, <1>6
    <3>2. tasks'[(n - 1) + (j - (n - 1))] = hs[j - (n - 1)]
      BY <3>1, <1>6
    <3>3. QED
      BY <3>1, <3>2, <1>8
  <2>3. QED
    BY <2>1, <2>2
<1>10. TasksOK'
  BY <1>2, <1>6, <1>9 DEF TasksOK, Ready
<1>11. InputOK' /\ PhaseOK'
  BY <1>1, <1>2 DEF InputOK, PhaseOK, SomeTreeEmpty
<1>12. WalksOK'
  <2>1. waiting = {} /\ DOMAIN walks = {}
    BY <1>1, <1>2 DEF PhaseOK
  <2>2. QED
    BY <2>1, <1>1, <1>2 DEF WalksOK
<1>13. QED
  BY <1>10, <1>11, <1>12 DEF JoinOK

LEMMA FrontierDoneOK == ASSUME JoinOK, FrontierDone PROVE JoinOK'
<1>1. InputOK /\ TasksOK /\ WalksOK /\ PhaseOK
  BY DEF JoinOK
<1>2. /\ phase = "frontier" /\ phase' = "running" /\ waiting' = DOMAIN tasks
      /\ trees' = trees /\ query' = query /\ executor' = executor
      /\ tasks' = tasks /\ walks' = walks
  BY DEF FrontierDone, input_vars
<1>3. DOMAIN walks = {}
  BY <1>1, <1>2 DEF PhaseOK
<1>4. InputOK'
  BY <1>1, <1>2 DEF InputOK
<1>5. TasksOK'
  BY <1>1, <1>2 DEF TasksOK
<1>6. WalksOK'
  BY <1>1, <1>2, <1>3 DEF WalksOK
<1>7. PhaseOK'
  BY <1>1, <1>2, <1>3 DEF PhaseOK, SomeTreeEmpty
<1>8. QED
  BY <1>4, <1>5, <1>6, <1>7 DEF JoinOK

LEMMA StartOK ==
    ASSUME JoinOK, Join \/ Nearest
    PROVE  JoinOK'
<1>1. InputOK /\ TasksOK /\ WalksOK /\ PhaseOK
  BY DEF JoinOK
<1> DEFINE w == RootWork(trees)
<1>2. /\ phase = "idle" /\ ~SomeTreeEmpty /\ tasks' = <<w>>
      /\ \/ phase' = "frontier" /\ query.terminal # "nearest"
         \/ phase' = "nearest" /\ query.terminal = "nearest"
      /\ trees' = trees /\ query' = query /\ executor' = executor
      /\ waiting' = waiting /\ walks' = walks
  BY DEF Join, Nearest, input_vars
<1>3. BuiltTrees(trees)
  BY <1>1, InputParts
<1>4. Sound(trees, w)
  BY <1>3, RootSound
<1>5. SomeLeaves(w)
  <2>1. IsBuilt(trees["left"]) /\ IsBuilt(trees["right"])
    BY <1>3 DEF BuiltTrees, Sides
  <2>2. Len(trees["left"].points) # 0 /\ Len(trees["right"].points) # 0
    BY <1>2 DEF SomeTreeEmpty, TreeSize
  <2>3. 1 \in DOMAIN trees["left"].points
    BY <2>1, <2>2, BuiltTypes
  <2>4. 1 \in DOMAIN trees["right"].points
    BY <2>1, <2>2, BuiltTypes
  <2>5. QED
    BY <1>3, <2>3, <2>4, RootHolds
<1>6. w \in Works
  BY <1>4 DEF Sound
<1> HIDE DEF w
<1>7. <<w>> \in Seq(Works) /\ DOMAIN <<w>> = {1} /\ <<w>>[1] = w
  BY <1>6
<1>8. InputOK'
  BY <1>1, <1>2 DEF InputOK
<1>9. TasksOK'
  BY <1>2, <1>4, <1>5, <1>7 DEF TasksOK
<1>10. waiting = {} /\ DOMAIN walks = {}
  BY <1>1, <1>2 DEF PhaseOK
<1>11. WalksOK'
  BY <1>1, <1>2, <1>10 DEF WalksOK
<1>12. PhaseOK'
  BY <1>1, <1>2, <1>10 DEF PhaseOK, SomeTreeEmpty
<1>13. QED
  BY <1>8, <1>9, <1>11, <1>12 DEF JoinOK

LEMMA DividedParts ==
    ASSUME NEW w, NEW hs, Divided(w, hs)
    PROVE  \E h \in Nat : /\ hs \in [1 .. h -> Works]
                          /\ \A m \in 1 .. h : Sound(trees, hs[m])
                          /\ \A i, j : HoldsIn(trees, w, i, j) <=>
                                \E m \in 1 .. h : HoldsIn(trees, hs[m], i, j)
<1> DEFINE H(x, i, j) == HoldsIn(trees, x, i, j)
<1>1. CASE \E x : /\ hs = <<x>> /\ Sound(trees, x)
                  /\ \A i, j : H(w, i, j) <=> H(x, i, j)
  <2>1. PICK x : /\ hs = <<x>> /\ Sound(trees, x)
                 /\ \A i, j : H(w, i, j) <=> H(x, i, j)
    BY <1>1
  <2>2. x \in Works
    BY <2>1 DEF Sound
  <2>3. hs \in [1 .. 1 -> Works] /\ hs[1] = x /\ 1 .. 1 = {1}
    BY <2>1, <2>2
  <2> HIDE DEF H
  <2>4. /\ \A m \in 1 .. 1 : Sound(trees, hs[m])
        /\ \A i, j : H(w, i, j) <=> \E m \in 1 .. 1 : H(hs[m], i, j)
    BY <2>1, <2>3
  <2>5. QED
    BY <2>3, <2>4 DEF H
<1>2. CASE \E x, y : /\ hs = <<x, y>> /\ Sound(trees, x) /\ Sound(trees, y)
                     /\ \A i, j : H(w, i, j) <=> H(x, i, j) \/ H(y, i, j)
  <2>1. PICK x, y : /\ hs = <<x, y>> /\ Sound(trees, x) /\ Sound(trees, y)
                    /\ \A i, j : H(w, i, j) <=> H(x, i, j) \/ H(y, i, j)
    BY <1>2
  <2>2. x \in Works /\ y \in Works
    BY <2>1 DEF Sound
  <2>3. hs \in [1 .. 2 -> Works] /\ hs[1] = x /\ hs[2] = y /\ 1 .. 2 = {1, 2}
    BY <2>1, <2>2
  <2> HIDE DEF H
  <2>4. /\ \A m \in 1 .. 2 : Sound(trees, hs[m])
        /\ \A i, j : H(w, i, j) <=> \E m \in 1 .. 2 : H(hs[m], i, j)
    BY <2>1, <2>3
  <2>5. QED
    BY <2>3, <2>4 DEF H
<1>3. QED
  BY <1>1, <1>2 DEF Divided

(* The stack of a nearest query: what is on top is taken off and others    *)
(* come in its place.                                                      *)
IsReplaced(t, h, hs, new) ==
    LET n == Len(t) IN
    /\ n \in Nat \ {0} /\ DOMAIN t = 1 .. n /\ Last(t) = t[n]
    /\ new \in Seq(Works) /\ DOMAIN new = 1 .. (n - 1) + h
    /\ \A j \in 1 .. n - 1 : new[j] = t[j]
    /\ \A j \in 1 .. h : new[(n - 1) + j] = hs[j]

LEMMA ReplacedParts ==
    ASSUME NEW t \in Seq(Works), t # <<>>, NEW h \in Nat, NEW hs \in [1 .. h -> Works]
    PROVE  IsReplaced(t, h, hs, Front(t) \o hs)
<1> DEFINE n == Len(t)
           a == Front(t)
           new == a \o hs
<1>1. /\ n \in Nat \ {0} /\ Last(t) = t[n] /\ a \in Seq(Works) /\ Len(a) = n - 1
      /\ \A m \in 1 .. n - 1 : a[m] = t[m]
  BY FrontParts
<1>2. DOMAIN t = 1 .. n
  BY LenProperties
<1> HIDE DEF n, a
<1>3. hs \in Seq(Works) /\ Len(hs) = h
  <2>1. hs \in Seq(Works)
    BY SeqDef
  <2>2. DOMAIN hs = 1 .. h
    OBVIOUS
  <2>3. QED
    BY <2>1, <2>2
<1>4. /\ new \in Seq(Works) /\ Len(new) = (n - 1) + h
      /\ \A i \in 1 .. (n - 1) + h :
            new[i] = IF i <= n - 1 THEN a[i] ELSE hs[i - (n - 1)]
  <2>1. /\ new \in Seq(Works) /\ Len(new) = Len(a) + Len(hs)
        /\ \A i \in 1 .. Len(a) + Len(hs) :
              new[i] = IF i <= Len(a) THEN a[i] ELSE hs[i - Len(a)]
    BY <1>1, <1>3, ConcatProperties
  <2> HIDE DEF new
  <2>2. QED
    BY <2>1, <1>1, <1>3
<1> HIDE DEF new
<1>5. DOMAIN new = 1 .. (n - 1) + h
  BY <1>4, LenProperties
<1>6. \A j \in 1 .. n - 1 : new[j] = t[j]
  <2> TAKE j \in 1 .. n - 1
  <2>1. j \in 1 .. (n - 1) + h /\ j <= n - 1
    BY <1>1
  <2>2. new[j] = a[j]
    BY <2>1, <1>4
  <2>3. QED
    BY <2>2, <1>1
<1>7. \A j \in 1 .. h : new[(n - 1) + j] = hs[j]
  <2> TAKE j \in 1 .. h
  <2> DEFINE i == (n - 1) + j
  <2>1. i \in 1 .. (n - 1) + h /\ ~(i <= n - 1) /\ i - (n - 1) = j
    BY <1>1
  <2> HIDE DEF i
  <2>2. new[i] = IF i <= n - 1 THEN a[i] ELSE hs[i - (n - 1)]
    BY <2>1, <1>4
  <2>3. new[i] = hs[j]
    BY <2>1, <2>2
  <2>4. QED
    BY <2>3 DEF i
<1>8. QED
  BY <1>1, <1>2, <1>4, <1>5, <1>6, <1>7 DEF n, new, a, IsReplaced

(* What a step of a nearest query does with the work on top: it is given   *)
(* up, looked at or divided.                                               *)
LEMMA NearestReads ==
    ASSUME JoinOK, NearestSkip \/ NearestLeaf \/ NearestDescend
    PROVE  /\ phase = "nearest" /\ phase' = phase /\ tasks # <<>>
           /\ UNCHANGED <<trees, query, executor, waiting, walks, answer, total>>
           /\ \E h \in Nat : \E hs \in [1 .. h -> Works] :
                 /\ IsReplaced(tasks, h, hs, tasks')
                 /\ \A m \in 1 .. h : Sound(trees, hs[m])
                 /\ NearestDescend =>
                       \A i, j : HoldsIn(trees, Last(tasks), i, j) =>
                          \E m \in 1 .. h : HoldsIn(trees, hs[m], i, j)
<1>1. /\ phase = "nearest" /\ phase' = phase /\ tasks # <<>>
      /\ UNCHANGED <<trees, query, executor, waiting, walks, answer, total>>
  BY DEF NearestSkip, NearestLeaf, NearestDescend, input_vars
<1>2. tasks \in Seq(Works) /\ BuiltTrees(trees)
  BY InputParts DEF JoinOK, TasksOK
<1>3. CASE NearestDescend
  <2> DEFINE w == Last(tasks)
             hs == Halves(w)
  <2>1. tasks' = Front(tasks) \o hs /\ ~Hopeless(w) /\ ~BothAtLeaf(w)
    BY <1>3 DEF NearestDescend
  <2>2. Sound(trees, w)
    <3>1. Len(tasks) \in Nat \ {0} /\ w = tasks[Len(tasks)]
      BY <1>1, <1>2, FrontParts
    <3>2. DOMAIN tasks = 1 .. Len(tasks)
      BY <1>2, LenProperties
    <3>3. Len(tasks) \in DOMAIN tasks
      BY <3>1, <3>2
    <3> HIDE DEF w
    <3>4. QED
      BY <3>1, <3>3 DEF JoinOK, TasksOK
  <2>3. SomeLeaves(w)
    BY <2>1 DEF Hopeless
  <2>4. Divided(w, hs)
    BY <1>2, <2>1, <2>2, <2>3, HalvesDivide
  <2> HIDE DEF w, hs
  <2>5. PICK h \in Nat : /\ hs \in [1 .. h -> Works]
                         /\ \A m \in 1 .. h : Sound(trees, hs[m])
                         /\ \A i, j : HoldsIn(trees, w, i, j) <=>
                                \E m \in 1 .. h : HoldsIn(trees, hs[m], i, j)
    BY <2>4, DividedParts
  <2>6. IsReplaced(tasks, h, hs, Front(tasks) \o hs)
    BY <1>1, <1>2, <2>5, ReplacedParts
  <2>7. IsReplaced(tasks, h, hs, tasks')
    BY <2>1, <2>6
  <2>8. QED
    BY <1>1, <2>5, <2>7 DEF w
<1>4. CASE ~NearestDescend
  <2>1. tasks' = Front(tasks)
    BY <1>4 DEF NearestSkip, NearestLeaf
  <2> DEFINE hs == [m \in 1 .. 0 |-> CHOOSE w \in Works : TRUE]
  <2>2. hs \in [1 .. 0 -> Works] /\ hs = <<>> /\ 0 \in Nat
    BY Z3
  <2>3. IsReplaced(tasks, 0, hs, Front(tasks) \o hs)
    BY <1>1, <1>2, <2>2, ReplacedParts
  <2>4. Front(tasks) \o hs = Front(tasks)
    BY <1>1, <1>2, <2>2, FrontParts, ConcatEmptySeq
  <2> HIDE DEF hs
  <2>5. IsReplaced(tasks, 0, hs, tasks')
    BY <2>1, <2>3, <2>4
  <2>6. \A m \in 1 .. 0 : Sound(trees, hs[m])
    OBVIOUS
  <2>7. QED
    BY <1>1, <1>4, <2>2, <2>5, <2>6
<1>5. QED
  BY <1>3, <1>4

LEMMA NearestStepOK ==
    ASSUME JoinOK, NearestSkip \/ NearestLeaf \/ NearestDescend
    PROVE  JoinOK'
<1>1. InputOK /\ TasksOK /\ WalksOK /\ PhaseOK
  BY DEF JoinOK
<1>2. /\ phase = "nearest" /\ phase' = phase /\ tasks # <<>>
      /\ UNCHANGED <<trees, query, executor, waiting, walks, answer, total>>
  BY NearestReads
<1>3. PICK h \in Nat : \E hs \in [1 .. h -> Works] :
         IsReplaced(tasks, h, hs, tasks') /\ \A m \in 1 .. h : Sound(trees, hs[m])
  BY NearestReads
<1>4. PICK hs \in [1 .. h -> Works] :
         IsReplaced(tasks, h, hs, tasks') /\ \A m \in 1 .. h : Sound(trees, hs[m])
  BY <1>3
<1> DEFINE n == Len(tasks)
<1>5. /\ n \in Nat \ {0} /\ DOMAIN tasks = 1 .. n
      /\ tasks' \in Seq(Works) /\ DOMAIN tasks' = 1 .. (n - 1) + h
      /\ \A j \in 1 .. n - 1 : tasks'[j] = tasks[j]
      /\ \A j \in 1 .. h : tasks'[(n - 1) + j] = hs[j]
  BY <1>4 DEF IsReplaced
<1> HIDE DEF n
<1>6. \A j \in 1 .. n : Sound(trees, tasks[j])
  BY <1>1, <1>5 DEF TasksOK
<1>7. \A j \in DOMAIN tasks' : Sound(trees, tasks'[j])
  <2> TAKE j \in DOMAIN tasks'
  <2>1. CASE j \in 1 .. n - 1
    <3>1. j \in 1 .. n
      BY <2>1, <1>5
    <3>2. QED
      BY <2>1, <3>1, <1>5, <1>6
  <2>2. CASE j \notin 1 .. n - 1
    <3>1. j - (n - 1) \in 1 .. h /\ (n - 1) + (j - (n - 1)) = j
      BY <2>2, <1>5
    <3>2. tasks'[(n - 1) + (j - (n - 1))] = hs[j - (n - 1)]
      BY <3>1, <1>5
    <3>3. QED
      BY <3>1, <3>2, <1>4
  <2>3. QED
    BY <2>1, <2>2
<1>8. TasksOK'
  BY <1>2, <1>5, <1>7 DEF TasksOK
<1>9. InputOK' /\ PhaseOK'
  BY <1>1, <1>2 DEF InputOK, PhaseOK, SomeTreeEmpty
<1>10. WalksOK'
  <2>1. waiting = {} /\ DOMAIN walks = {}
    BY <1>1, <1>2 DEF PhaseOK
  <2>2. QED
    BY <2>1, <1>1, <1>2 DEF WalksOK
<1>11. QED
  BY <1>8, <1>9, <1>10 DEF JoinOK

LEMMA JoinOKStep == JoinOK /\ [Next]_vars => JoinOK'
<1> SUFFICES ASSUME JoinOK, [Next]_vars PROVE JoinOK'
  OBVIOUS
<1>1. CASE AnswerEmpty \/ CountAll \/ Return \/ NearestReturn
  <2> DEFINE Ends == /\ UNCHANGED <<input_vars, tasks, waiting, walks>>
                     /\ phase' \in {"done", "panicked"}
  <2>1. CASE AnswerEmpty
    <3>1. AnswerEmpty => Ends
      BY Zenon DEF AnswerEmpty
    <3>2. QED
      BY <2>1, <3>1, PhaseOnly
  <2>2. CASE CountAll
    <3>1. CountAll => Ends
      BY Zenon DEF CountAll
    <3>2. QED
      BY <2>2, <3>1, PhaseOnly
  <2>3. CASE Return
    <3>1. Return => Ends
      BY Zenon DEF Return
    <3>2. QED
      BY <2>3, <3>1, PhaseOnly
  <2>4. CASE NearestReturn
    <3>1. NearestReturn => Ends
      BY Zenon DEF NearestReturn
    <3>2. QED
      BY <2>4, <3>1, PhaseOnly
  <2>5. QED
    BY <1>1, <2>1, <2>2, <2>3, <2>4
<1>2. CASE Join \/ Nearest
  BY <1>2, StartOK
<1>3. CASE CutFrontier
  BY <1>3, CutOK
<1>4. CASE FrontierDone
  BY <1>4, FrontierDoneOK
<1>5. CASE NearestSkip \/ NearestLeaf \/ NearestDescend
  BY <1>5, NearestStepOK
<1>6. CASE \E k \in DOMAIN tasks : Walk(k)
  <2>1. PICK k \in DOMAIN tasks : Walk(k)
    BY <1>6
  <2>2. CASE Begin(k)
    BY <2>2, BeginOK
  <2>3. CASE Bulk(k) \/ LeafPair(k)
    BY <2>3, FindsOK
  <2>4. CASE Descend(k) \/ PopRestore(k) \/ PopRight(k) \/ Reject(k) \/ WalkEnds(k)
    BY <2>4, MovesOK
  <2>5. QED
    BY <2>1, <2>2, <2>3, <2>4 DEF Walk
<1>7. CASE UNCHANGED vars
  <2>1. /\ trees' = trees /\ query' = query /\ executor' = executor
        /\ phase' = phase /\ tasks' = tasks /\ waiting' = waiting
        /\ walks' = walks /\ answer' = answer /\ total' = total
    BY <1>7 DEF vars, input_vars
  <2>2. InputOK' /\ TasksOK'
    BY <2>1 DEF JoinOK, InputOK, TasksOK
  <2>3. WalksOK' /\ PhaseOK'
    BY <2>1 DEF JoinOK, WalksOK, PhaseOK, SomeTreeEmpty
  <2>4. QED
    BY <2>2, <2>3 DEF JoinOK
<1>8. QED
  BY <1>1, <1>2, <1>3, <1>4, <1>5, <1>6, <1>7 DEF Next, Execute, Work

LEMMA JoinOKAlways == Spec => []JoinOK
<1>1. QED
  BY InitOK, JoinOKStep, PTL DEF Spec

LEMMA JoinOKEncloses == JoinOK => BoxesEnclose
<1> SUFFICES ASSUME JoinOK PROVE BoxesEnclose
  OBVIOUS
<1>1. \A k \in DOMAIN tasks : Encloses(tasks[k])
  BY EnclosesInTrees DEF JoinOK, TasksOK, Sound
<1>2. \A k \in DOMAIN walks : walks[k].pc = "visit" => Encloses(walks[k].work)
  <2> SUFFICES ASSUME NEW k \in DOMAIN walks, walks[k].pc = "visit"
               PROVE  Encloses(walks[k].work)
    OBVIOUS
  <2>1. WalkOK(trees, walks[k])
    BY DEF JoinOK, WalksOK
  <2>2. Sound(trees, walks[k].work)
    BY <2>1, WalkParts
  <2>3. QED
    BY <2>2, EnclosesInTrees DEF Sound
<1>3. QED
  BY <1>1, <1>2 DEF BoxesEnclose

(* The boxes a walk carries stay around the entries below its two          *)
(* cursors, through every descent and every interval that is put back.     *)
THEOREM BoxesStayAround == Spec => []BoxesEnclose
<1>1. QED
  BY JoinOKAlways, JoinOKEncloses, PTL

-----------------------------------------------------------------------------
(* Nearest queries: their candidates.                                      *)
CandidatesOK ==
    phase = "nearest" =>
        /\ candidates = [i \in Entry("left") |-> candidates[i]]
        /\ \A i \in Entry("left") : candidates[i].distance \in Nat

(* Whatever the rows that are meant, the candidates are those of all rows. *)
LEMMA AllRowsBelow ==
    ASSUME NEW tree, IsBuilt(tree), NEW c, CursorOK(tree, c), NEW rows \in RowRange
    PROVE  /\ Below(tree, c, rows) \subseteq Below(tree, c, AllRows)
           /\ AllRows \in RowRange
<1>1. AllRows \in RowRange /\ AllRows.start = 0 /\ AllRows.end = Infinity
      /\ Infinity \in Nat
  BY MetricAssumption DEF AllRows, RowRange
<1>2. /\ c.start \in Nat /\ c.end \in Nat /\ c.end <= Len(tree.leaves)
      /\ Len(tree.leaves) \in Nat
  BY BuiltTypes DEF CursorOK, Cursors
<1>3. ASSUME NEW i \in Below(tree, c, rows) PROVE i \in Below(tree, c, AllRows)
  <2>1. PICK leaf \in c.start .. c.end - 1 : i \in RowsOf(tree, leaf, rows)
    BY DEF Below
  <2>2. leaf \in 0 .. Len(tree.leaves) - 1
    BY <1>2
  <2>3. PICK r \in DOMAIN tree.leaves[leaf + 1] : tree.leaves[leaf + 1][r] = i
    BY <2>1, <2>2, RowsOfParts
  <2>4. leaf + 1 \in DOMAIN tree.leaves
    BY <2>2, RowsOfParts
  <2>5. r \in 1 .. Len(tree.leaves[leaf + 1]) /\ Len(tree.leaves[leaf + 1]) <= Infinity
        /\ Len(tree.leaves[leaf + 1]) \in Nat
    BY <2>3, <2>4, BuiltTypes
  <2>6. AllRows.start < r /\ r <= AllRows.end
    BY <1>1, <2>5
  <2>7. tree.leaves[leaf + 1][r] \in RowsOf(tree, leaf, AllRows)
    BY <1>1, <2>2, <2>6, RowsOfParts
  <2>8. QED
    BY <2>1, <2>3, <2>7 DEF Below
<1>4. QED
  BY <1>1, <1>3

(* The worst candidate is at least as far as any below the work. *)
LEMMA CandidateUpperIsAbove ==
    ASSUME JoinOK, CandidatesOK, phase = "nearest", NEW w, Sound(trees, w),
           NEW i \in Below(trees["left"], w["left"], AllRows)
    PROVE  /\ CandidateUpper(w) \in Nat
           /\ candidates[i].distance \in Nat
           /\ candidates[i].distance <= CandidateUpper(w)
<1> DEFINE b == Below(trees["left"], w["left"], AllRows)
           dist(n) == candidates[n].distance
           S == {0} \cup {dist(n) : n \in b}
<1>1. BuiltTrees(trees)
  BY InputParts DEF JoinOK
<1>2. IsBuilt(trees["left"]) /\ CursorOK(trees["left"], w["left"])
  BY <1>1 DEF BuiltTrees, Sides, Sound
<1>3. w.rows["left"] \in RowRange
  BY WorkTypes DEF Sound, Sides
<1>4. AllRows \in RowRange
  BY <1>2, <1>3, AllRowsBelow
<1>5. b \subseteq DOMAIN trees["left"].points /\ IsFiniteSet(b)
  BY <1>2, <1>4, FewBelow
<1>6. \A n \in b : dist(n) \in Nat
  BY <1>5 DEF CandidatesOK, Entry
<1>7. CandidateUpper(w) = Max(S)
  BY DEF CandidateUpper, Distant
<1>8. i \in b
  OBVIOUS
<1> HIDE DEF b, dist
<1>9. IsFiniteSet({dist(n) : n \in b})
  <2> DEFINE T == {dist(n) : n \in b}
             f == [n \in b |-> dist(n)]
  <2>1. f \in Surjection(b, T)
    BY DEF Surjection
  <2> HIDE DEF f, T
  <2>2. IsFiniteSet(T)
    BY <1>5, <2>1, FS_Surjection
  <2>3. QED
    BY <2>2 DEF T
<1>10. IsFiniteSet(S)
  BY <1>9, FS_AddElement
<1>11. S \in SUBSET Nat /\ S \in SUBSET Int /\ S # {}
  BY <1>6
<1>12. dist(i) \in S
  BY <1>8
<1> HIDE DEF S
<1>13. \E m \in S : \A n \in S : n <= m
  BY <1>10, <1>11, GreatestMember
<1>14. \E m \in S : \A n \in S : m >= n
  <2>1. PICK m \in S : \A n \in S : n <= m
    BY <1>13
  <2>2. \A n \in S : m >= n
    <3> TAKE n \in S
    <3>1. n <= m /\ n \in Int /\ m \in Int
      BY <1>11, <2>1
    <3>2. QED
      BY <3>1
  <2>3. QED
    BY <2>2
<1>15. Max(S) \in S /\ \A n \in S : Max(S) >= n
  BY <1>14, Zenon DEF Max
<1>16. Max(S) \in Nat /\ dist(i) \in Nat /\ dist(i) <= Max(S)
  <2>1. Max(S) \in Nat /\ dist(i) \in Nat /\ Max(S) >= dist(i)
    BY <1>11, <1>12, <1>15
  <2>2. QED
    BY <2>1
<1>17. QED
  BY <1>7, <1>16 DEF dist

(* What is given up holds nothing nearer than a candidate. *)
LEMMA HopelessHoldsNone ==
    ASSUME JoinOK, CandidatesOK, phase = "nearest", NEW w, Sound(trees, w),
           Hopeless(w), NEW i, NEW j, HoldsIn(trees, w, i, j)
    PROVE  ~(EntryDist(trees, query.metric, i, j) < candidates[i].distance)
<1> DEFINE l == Lower(w.bounds, query.metric)
           e == EntryDist(trees, query.metric, i, j)
           c == candidates[i].distance
           u == CandidateUpper(w)
<1>1. BuiltTrees(trees)
  BY InputParts DEF JoinOK
<1>2. l \in Nat /\ e \in Nat /\ l <= e
  BY <1>1, LowerOfHeld
<1>3. SomeLeaves(w)
  BY <1>1, HeldIsThere
<1>4. l >= u
  BY <1>3 DEF Hopeless
<1>5. i \in Below(trees["left"], w["left"], AllRows)
  <2>1. IsBuilt(trees["left"]) /\ CursorOK(trees["left"], w["left"])
    BY <1>1 DEF BuiltTrees, Sides, Sound
  <2>2. w.rows["left"] \in RowRange
    BY WorkTypes DEF Sound, Sides
  <2>3. i \in Below(trees["left"], w["left"], w.rows["left"])
    BY DEF HoldsIn
  <2>4. QED
    BY <2>1, <2>2, <2>3, AllRowsBelow
<1>6. u \in Nat /\ c \in Nat /\ c <= u
  BY <1>5, CandidateUpperIsAbove
<1> HIDE DEF l, e, c, u
<1>7. ~(e < c)
  BY <1>2, <1>4, <1>6
<1>8. QED
  BY <1>7 DEF e, c

(* The candidate of an entry after a leaf of the right tree was looked at: *)
(* as near as the old one and as every entry of the leaf.                  *)
LEMMA ImprovedIsNearest ==
    ASSUME JoinOK, NEW i \in Entry("left"), candidates[i].distance \in Nat,
           NEW leaf \in 0 .. Len(trees["right"].leaves) - 1
    PROVE  /\ Improved(i, leaf).distance \in Nat
           /\ Improved(i, leaf).distance <= candidates[i].distance
           /\ \A r \in DOMAIN trees["right"].leaves[leaf + 1] :
                 Improved(i, leaf).distance
                    <= EntryDist(trees, query.metric, i,
                                 trees["right"].leaves[leaf + 1][r])
           /\ \/ Improved(i, leaf) = candidates[i]
              \/ /\ Improved(i, leaf).right \in Entry("right")
                 /\ Improved(i, leaf).distance
                       = EntryDist(trees, query.metric, i, Improved(i, leaf).right)
<1> DEFINE rows   == trees["right"].leaves[leaf + 1]
           far(r) == EntryDist(trees, query.metric, i, rows[r])
           old    == candidates[i].distance
           nearer == {r \in DOMAIN rows : far(r) < old}
           Is(r)  == \A q \in nearer : far(r) <= far(q) /\ (r <= q \/ far(r) < far(q))
           first  == CHOOSE r \in nearer : Is(r)
<1>1. IsBuilt(trees["left"]) /\ IsBuilt(trees["right"])
  BY InputParts DEF JoinOK, BuiltTrees, Sides
<1>2. leaf + 1 \in DOMAIN trees["right"].leaves
  BY <1>1, BuiltTypes
<1>3. /\ DOMAIN rows = 1 .. Len(rows) /\ Len(rows) \in Nat
      /\ \A r \in DOMAIN rows : rows[r] \in DOMAIN trees["right"].points
  BY <1>1, <1>2, BuiltTypes
<1>4. \A r \in DOMAIN rows : far(r) \in Nat
  <2> TAKE r \in DOMAIN rows
  <2>1. trees["left"].points[i] \in [Dims -> Int]
    BY <1>1, BuiltTypes DEF Entry
  <2>2. trees["right"].points[rows[r]] \in [Dims -> Int]
    BY <1>1, <1>3, BuiltTypes
  <2>3. QED
    BY <2>1, <2>2, PointDistType DEF EntryDist
<1>5. old \in Nat
  OBVIOUS
<1>6. Improved(i, leaf) = IF nearer = {} THEN candidates[i]
                          ELSE [right |-> rows[first], distance |-> far(first)]
  BY DEF Improved
<1>7. \A r \in DOMAIN rows : r \in Nat
  BY <1>3
<1> HIDE DEF rows, far, old
<1>8. CASE nearer = {}
  <2>1. Improved(i, leaf).distance = old
    BY <1>6, <1>8 DEF old
  <2>2. \A r \in DOMAIN rows : old <= far(r)
    BY <1>4, <1>5, <1>8
  <2>3. Improved(i, leaf) = candidates[i]
    BY <1>6, <1>8
  <2>4. QED
    BY <1>5, <2>1, <2>2, <2>3 DEF rows, far, old
<1>9. CASE nearer # {}
  <2> DEFINE S == {far(r) : r \in nearer}
  <2>1. S \in SUBSET Nat /\ S # {}
    BY <1>4, <1>9
  <2>2. PICK m \in S : \A n \in S : m <= n
    <3> HIDE DEF S
    <3> QED
      BY <2>1, LeastNatural
  <2>3. m \in Nat /\ \A r \in nearer : m <= far(r)
    BY <2>1, <2>2
  <2> DEFINE T == {r \in nearer : far(r) = m}
  <2>4. T \in SUBSET Nat /\ T # {}
    BY <1>7, <2>2
  <2>5. PICK r \in T : \A q \in T : r <= q
    <3> HIDE DEF T
    <3> QED
      BY <2>4, LeastNatural
  <2>6. r \in nearer /\ far(r) = m
    BY <2>5
  <2>7. Is(r)
    <3>1. SUFFICES ASSUME NEW q \in nearer
                   PROVE  far(r) <= far(q) /\ (r <= q \/ far(r) < far(q))
      OBVIOUS
    <3>2. far(r) \in Nat /\ far(q) \in Nat /\ far(r) <= far(q)
      BY <1>4, <2>3, <2>6
    <3>3. CASE far(q) = m
      BY <2>5, <3>2, <3>3
    <3>4. CASE far(q) # m
      BY <2>6, <3>2, <3>4
    <3>5. QED
      BY <3>3, <3>4
  <2>8. first \in nearer /\ Is(first)
    <3> HIDE DEF nearer, Is
    <3> QED
      BY <2>6, <2>7
  <2> HIDE DEF first
  <2>9. far(first) \in Nat /\ far(first) < old
    BY <1>4, <2>8
  <2>10. \A q \in DOMAIN rows : far(first) <= far(q)
    <3> TAKE q \in DOMAIN rows
    <3>1. CASE q \in nearer
      BY <2>8, <3>1
    <3>2. CASE q \notin nearer
      <4>1. far(q) \in Nat /\ ~(far(q) < old)
        BY <1>4, <3>2
      <4>2. QED
        BY <4>1, <2>9, <1>5
    <3>3. QED
      BY <3>1, <3>2
  <2> HIDE DEF nearer
  <2>11. Improved(i, leaf).distance = far(first)
    BY <1>6, <1>9
  <2>12. Improved(i, leaf).distance <= old
    BY <2>9, <2>11, <1>5
  <2>13. rows[first] \in DOMAIN trees["right"].points /\ first \in DOMAIN rows
    <3>1. first \in DOMAIN rows
      BY <2>8 DEF nearer
    <3>2. QED
      BY <1>3, <3>1 DEF rows
  <2>14. /\ Improved(i, leaf).right \in Entry("right")
         /\ far(first) = EntryDist(trees, query.metric, i, Improved(i, leaf).right)
    <3>1. Improved(i, leaf).right = rows[first]
      BY <1>6, <1>9
    <3>2. QED
      BY <2>13, <3>1 DEF far, Entry
  <2>15. QED
    BY <2>9, <2>10, <2>11, <2>12, <2>14 DEF rows, far, old
<1>10. QED
  BY <1>8, <1>9

LEMMA RowOfEntry ==
    ASSUME NEW tree, IsBuilt(tree), NEW leaf \in 0 .. Len(tree.leaves) - 1,
           NEW rows \in RowRange, NEW i \in RowsOf(tree, leaf, rows)
    PROVE  \E r \in DOMAIN tree.leaves[leaf + 1] : tree.leaves[leaf + 1][r] = i
<1>1. QED
  BY RowsOfParts

NearestOK == CandidatesOK /\ NearerIsToCome

(* The candidates of a nearest query after a step: none is farther, and of *)
(* the work that was on top nothing is nearer, or it is handed on.         *)
LEMMA NearestImproves ==
    ASSUME JoinOK, NearestOK, NearestSkip \/ NearestLeaf \/ NearestDescend
    PROVE  /\ candidates' = [i \in Entry("left") |-> candidates'[i]]
           /\ \A i \in Entry("left") :
                 /\ candidates'[i].distance \in Nat
                 /\ candidates'[i].distance <= candidates[i].distance
           /\ NearestDescend \/
                 \A i \in Entry("left") : \A j \in Entry("right") :
                    HoldsIn(trees, Last(tasks), i, j) =>
                       ~(EntryDist(trees, query.metric, i, j)
                            < candidates'[i].distance)
<1> DEFINE w == Last(tasks)
<1>1. phase = "nearest" /\ tasks # <<>> /\ tasks \in Seq(Works)
  BY NearestReads DEF JoinOK, TasksOK
<1>2. /\ candidates = [i \in Entry("left") |-> candidates[i]]
      /\ \A i \in Entry("left") : candidates[i].distance \in Nat
      /\ CandidatesOK
  BY <1>1 DEF NearestOK, CandidatesOK
<1>3. Sound(trees, w)
  <2>1. Len(tasks) \in Nat \ {0} /\ w = tasks[Len(tasks)]
    BY <1>1, FrontParts
  <2>2. DOMAIN tasks = 1 .. Len(tasks)
    BY <1>1, LenProperties
  <2>3. Len(tasks) \in DOMAIN tasks
    BY <2>1, <2>2
  <2> HIDE DEF w
  <2>4. QED
    BY <2>1, <2>3 DEF JoinOK, TasksOK
<1>4. CASE NearestSkip
  <2>1. candidates' = candidates /\ Hopeless(w)
    BY <1>4 DEF NearestSkip
  <2> HIDE DEF w
  <2>2. \A i \in Entry("left") : \A j \in Entry("right") :
           HoldsIn(trees, w, i, j) =>
              ~(EntryDist(trees, query.metric, i, j) < candidates[i].distance)
    BY <1>1, <1>2, <1>3, <2>1, HopelessHoldsNone
  <2>3. \A i \in Entry("left") : candidates[i].distance <= candidates[i].distance
    BY <1>2
  <2>4. QED
    BY <1>2, <2>1, <2>2, <2>3 DEF w
<1>5. CASE NearestDescend
  <2>1. candidates' = candidates
    BY <1>5 DEF NearestDescend
  <2>2. \A i \in Entry("left") : candidates[i].distance <= candidates[i].distance
    BY <1>2
  <2>3. QED
    BY <1>2, <1>5, <2>1, <2>2
<1>6. CASE NearestLeaf
  <2> DEFINE l == RowsOf(trees.left, w.left.start, AllRows)
             leaf == w["right"].start
  <2>1. /\ candidates' = [i \in DOMAIN candidates |->
                             IF i \in l THEN Improved(i, leaf) ELSE candidates[i]]
        /\ ~Hopeless(w) /\ BothAtLeaf(w)
    BY <1>6 DEF NearestLeaf
  <2>2. SomeLeaves(w)
    BY <2>1 DEF Hopeless
  <2>3. /\ IsBuilt(trees["left"]) /\ CursorOK(trees["left"], w["left"])
        /\ AtLeaf(w["left"]) /\ Span(w["left"]) > 0
    BY <1>3, <2>1, <2>2, InputParts
       DEF JoinOK, BuiltTrees, Sides, Sound, SomeLeaves, BothAtLeaf
  <2>4. /\ IsBuilt(trees["right"]) /\ CursorOK(trees["right"], w["right"])
        /\ AtLeaf(w["right"]) /\ Span(w["right"]) > 0
    BY <1>3, <2>1, <2>2, InputParts
       DEF JoinOK, BuiltTrees, Sides, Sound, SomeLeaves, BothAtLeaf
  <2>5. leaf \in 0 .. Len(trees["right"].leaves) - 1
    BY <2>4, LeafOfCursor
  <2>6. w.rows["left"] \in RowRange /\ w.rows["right"] \in RowRange
    BY <1>3, WorkTypes DEF Sound, Sides
  <2>7. ASSUME NEW i, NEW j, HoldsIn(trees, w, i, j)
        PROVE  /\ i \in l
               /\ \E r \in DOMAIN trees["right"].leaves[leaf + 1] :
                     trees["right"].leaves[leaf + 1][r] = j
    <3>1. /\ i \in Below(trees["left"], w["left"], w.rows["left"])
          /\ j \in Below(trees["right"], w["right"], w.rows["right"])
      BY <2>7 DEF HoldsIn
    <3>2. i \in Below(trees["left"], w["left"], AllRows)
      BY <2>3, <2>6, <3>1, AllRowsBelow
    <3>3. i \in RowsOf(trees["left"], w["left"].start, AllRows)
      BY <2>3, <3>2, LeafOfCursor
    <3>4. j \in RowsOf(trees["right"], leaf, w.rows["right"])
      BY <2>4, <3>1, LeafOfCursor
    <3>5. \E r \in DOMAIN trees["right"].leaves[leaf + 1] :
             trees["right"].leaves[leaf + 1][r] = j
      <4> HIDE DEF w, leaf, l
      <4>1. QED
        BY <2>4, <2>5, <2>6, <3>4, RowOfEntry
    <3>6. QED
      BY <3>3, <3>5
  <2> HIDE DEF w, l, leaf
  <2>8. ASSUME NEW i \in Entry("left")
        PROVE  /\ Improved(i, leaf).distance \in Nat
               /\ Improved(i, leaf).distance <= candidates[i].distance
               /\ \A r \in DOMAIN trees["right"].leaves[leaf + 1] :
                     Improved(i, leaf).distance
                        <= EntryDist(trees, query.metric, i,
                                     trees["right"].leaves[leaf + 1][r])
    BY <1>2, <2>5, ImprovedIsNearest
  <2>9. DOMAIN candidates = Entry("left")
    BY <1>2
  <2>10. /\ candidates' = [i \in Entry("left") |-> candidates'[i]]
         /\ \A i \in Entry("left") :
               candidates'[i] = IF i \in l THEN Improved(i, leaf)
                                ELSE candidates[i]
    BY <2>1, <2>9
  <2>11. ASSUME NEW i \in Entry("left")
         PROVE  /\ candidates'[i].distance \in Nat
                /\ candidates'[i].distance <= candidates[i].distance
    <3>1. CASE i \in l
      BY <2>8, <2>10, <3>1
    <3>2. CASE i \notin l
      <4>1. candidates'[i] = candidates[i] /\ candidates[i].distance \in Nat
        BY <1>2, <2>10, <3>2
      <4>2. QED
        BY <4>1
    <3>3. QED
      BY <3>1, <3>2
  <2>12. ASSUME NEW i \in Entry("left"), NEW j \in Entry("right"),
                HoldsIn(trees, w, i, j)
         PROVE  ~(EntryDist(trees, query.metric, i, j) < candidates'[i].distance)
    <3> DEFINE e == EntryDist(trees, query.metric, i, j)
               c == candidates'[i].distance
    <3>1. PICK r \in DOMAIN trees["right"].leaves[leaf + 1] :
             trees["right"].leaves[leaf + 1][r] = j
      BY <2>7, <2>12
    <3>2. i \in l
      BY <2>7, <2>12
    <3>3. c <= e
      BY <2>8, <2>10, <3>1, <3>2
    <3>4. e \in Nat
      BY <1>3, <2>12, InputParts, LowerOfHeld DEF JoinOK
    <3>5. c \in Nat
      BY <2>11
    <3> HIDE DEF e, c
    <3>6. ~(e < c)
      BY <3>3, <3>4, <3>5
    <3>7. QED
      BY <3>6 DEF e, c
  <2>13. QED
    BY <2>10, <2>11, <2>12 DEF w
<1>7. QED
  BY <1>4, <1>5, <1>6

LEMMA NearestStep ==
    ASSUME JoinOK, NearestOK, NearestSkip \/ NearestLeaf \/ NearestDescend
    PROVE  NearestOK'
<1>1. /\ phase = "nearest" /\ phase' = phase
      /\ trees' = trees /\ query' = query
  BY NearestReads
<1>2. /\ candidates' = [i \in Entry("left") |-> candidates'[i]]
      /\ \A i \in Entry("left") :
            /\ candidates'[i].distance \in Nat
            /\ candidates'[i].distance <= candidates[i].distance
      /\ NearestDescend \/
            \A i \in Entry("left") : \A j \in Entry("right") :
               HoldsIn(trees, Last(tasks), i, j) =>
                  ~(EntryDist(trees, query.metric, i, j) < candidates'[i].distance)
  BY NearestImproves
<1>3. \A s : Entry(s)' = Entry(s)
  BY <1>1 DEF Entry
<1>4. CandidatesOK'
  BY <1>1, <1>2, <1>3 DEF CandidatesOK
<1>5. PICK h \in Nat : \E hs \in [1 .. h -> Works] :
         /\ IsReplaced(tasks, h, hs, tasks')
         /\ NearestDescend =>
               \A i, j : HoldsIn(trees, Last(tasks), i, j) =>
                  \E m \in 1 .. h : HoldsIn(trees, hs[m], i, j)
  BY NearestReads
<1>6. PICK hs \in [1 .. h -> Works] :
         /\ IsReplaced(tasks, h, hs, tasks')
         /\ NearestDescend =>
               \A i, j : HoldsIn(trees, Last(tasks), i, j) =>
                  \E m \in 1 .. h : HoldsIn(trees, hs[m], i, j)
  BY <1>5
<1> DEFINE n == Len(tasks)
<1>7. /\ n \in Nat \ {0} /\ DOMAIN tasks = 1 .. n /\ Last(tasks) = tasks[n]
      /\ DOMAIN tasks' = 1 .. (n - 1) + h
      /\ \A j \in 1 .. n - 1 : tasks'[j] = tasks[j]
      /\ \A j \in 1 .. h : tasks'[(n - 1) + j] = hs[j]
  BY <1>6 DEF IsReplaced
<1> HIDE DEF n
<1>8. ASSUME NEW i \in Entry("left"), NEW j \in Entry("right"),
             EntryDist(trees, query.metric, i, j) < candidates'[i].distance
      PROVE  \E k \in DOMAIN tasks' : HoldsIn(trees, tasks'[k], i, j)
  <2> DEFINE e == EntryDist(trees, query.metric, i, j)
  <2>1. e < candidates[i].distance
    <3>1. e \in Nat
      <4>1. IsBuilt(trees["left"]) /\ IsBuilt(trees["right"])
        BY InputParts DEF JoinOK, BuiltTrees, Sides
      <4>2. trees["left"].points[i] \in [Dims -> Int]
        BY <4>1, BuiltTypes DEF Entry
      <4>3. trees["right"].points[j] \in [Dims -> Int]
        BY <4>1, BuiltTypes DEF Entry
      <4>4. QED
        BY <4>2, <4>3, PointDistType DEF EntryDist
    <3>2. /\ candidates'[i].distance \in Nat /\ candidates[i].distance \in Nat
          /\ candidates'[i].distance <= candidates[i].distance
      BY <1>1, <1>2 DEF NearestOK, CandidatesOK
    <3> HIDE DEF e
    <3>3. e < candidates'[i].distance
      BY <1>8 DEF e
    <3>4. QED
      BY <3>1, <3>2, <3>3
  <2>2. PICK k \in DOMAIN tasks : HoldsIn(trees, tasks[k], i, j)
    BY <1>1, <2>1, HoldsInTrees DEF NearestOK, NearerIsToCome
  <2>3. CASE k \in 1 .. n - 1
    <3>1. k \in DOMAIN tasks' /\ tasks'[k] = tasks[k]
      BY <1>7, <2>3
    <3>2. QED
      BY <2>2, <3>1
  <2>4. CASE k = n
    <3>1. HoldsIn(trees, Last(tasks), i, j)
      BY <1>7, <2>2, <2>4
    <3>2. NearestDescend
      BY <1>2, <1>8, <3>1
    <3>3. PICK m \in 1 .. h : HoldsIn(trees, hs[m], i, j)
      BY <1>6, <3>1, <3>2
    <3>4. (n - 1) + m \in DOMAIN tasks' /\ tasks'[(n - 1) + m] = hs[m]
      BY <1>7
    <3>5. QED
      BY <3>3, <3>4
  <2>5. k \in 1 .. n - 1 \/ k = n
    BY <1>7
  <2>6. QED
    BY <2>3, <2>4, <2>5
<1>9. \A k, i, j : Holds(tasks[k], i, j)' <=> HoldsIn(trees, tasks'[k], i, j)
  BY <1>1 DEF Holds, HoldsIn
<1>10. \A i, j : EntryDist(trees, query.metric, i, j)'
                    = EntryDist(trees, query.metric, i, j)
  BY <1>1
<1>11. NearerIsToCome'
  BY <1>1, <1>3, <1>8, <1>9, <1>10 DEF NearerIsToCome
<1>12. QED
  BY <1>4, <1>11 DEF NearestOK

LEMMA NearestStarts ==
    ASSUME JoinOK, Nearest
    PROVE  NearestOK'
<1>1. /\ tasks' = <<RootWork(trees)>> /\ trees' = trees /\ query' = query
      /\ candidates' = [i \in DOMAIN trees["left"].points |->
                           [right |-> 0, distance |-> Infinity]]
  BY DEF Nearest, input_vars
<1>2. Entry("left")' = DOMAIN trees["left"].points
      /\ Entry("right")' = DOMAIN trees["right"].points
  BY <1>1 DEF Entry
<1>3. \A i \in DOMAIN trees["left"].points : candidates'[i].distance \in Nat
  BY <1>1, MetricAssumption
<1>4. candidates' = [i \in DOMAIN trees["left"].points |-> candidates'[i]]
  BY <1>1
<1>5. CandidatesOK'
  BY <1>2, <1>3, <1>4 DEF CandidatesOK
<1>6. BuiltTrees(trees)
  BY InputParts DEF JoinOK
<1>7. \A i \in DOMAIN trees["left"].points : \A j \in DOMAIN trees["right"].points :
         HoldsIn(trees, RootWork(trees), i, j)
  BY <1>6, RootHolds
<1>8. 1 \in DOMAIN tasks' /\ tasks'[1] = RootWork(trees)
  <2> DEFINE w == RootWork(trees)
  <2>1. tasks' = <<w>>
    BY <1>1
  <2> HIDE DEF w
  <2>2. 1 \in DOMAIN tasks' /\ tasks'[1] = w
    BY <2>1
  <2>3. QED
    BY <2>2 DEF w
<1>9. \A i \in DOMAIN trees["left"].points : \A j \in DOMAIN trees["right"].points :
         Holds(tasks[1], i, j)'
  BY <1>1, <1>7, <1>8 DEF Holds, HoldsIn
<1>10. \A i \in Entry("left")' : \A j \in Entry("right")' :
          \E k \in DOMAIN tasks' : Holds(tasks[k], i, j)'
  BY <1>2, <1>8, <1>9
<1>11. NearerIsToCome'
  BY <1>10 DEF NearerIsToCome
<1>12. QED
  BY <1>5, <1>11 DEF NearestOK

(* The other steps are no steps of a nearest query, or its last. *)
LEMMA NearestElsewhere ==
    ASSUME JoinOK, Next
    PROVE  \/ phase' # "nearest"
           \/ Nearest \/ NearestSkip \/ NearestLeaf \/ NearestDescend
<1>1. CASE AnswerEmpty
  BY <1>1 DEF AnswerEmpty
<1>2. CASE CountAll
  BY <1>2, Zenon DEF CountAll
<1>3. CASE Join
  BY <1>3 DEF Join
<1>4. CASE CutFrontier
  BY <1>4, Zenon DEF CutFrontier
<1>5. CASE FrontierDone
  BY <1>5 DEF FrontierDone
<1>6. CASE \E k \in DOMAIN tasks : Walk(k)
  <2>1. PICK k \in DOMAIN tasks : Walk(k)
    BY <1>6
  <2>2. CASE Begin(k)
    BY <2>2, Zenon DEF Begin
  <2>3. CASE Bulk(k) \/ LeafPair(k)
    <3>1. phase = "running" /\ phase' \in {phase, "panicked"}
      BY <2>3, Zenon DEF Bulk, LeafPair, Visits, Emit
    <3>2. QED
      BY <3>1
  <2>4. CASE Descend(k) \/ PopRestore(k) \/ PopRight(k) \/ Reject(k) \/ WalkEnds(k)
    <3>1. phase = "running" /\ phase' = phase
      BY <2>4, Zenon DEF Descend, PopRestore, PopRight, Reject, WalkEnds, Visits, Pops
    <3>2. QED
      BY <3>1
  <2>5. QED
    BY <2>1, <2>2, <2>3, <2>4 DEF Walk
<1>7. CASE Return
  <2>1. phase' \in {"panicked", "done"}
    BY <1>7, Zenon DEF Return
  <2>2. QED
    BY <2>1
<1>8. CASE NearestReturn
  BY <1>8, Zenon DEF NearestReturn
<1>9. QED
  BY <1>1, <1>2, <1>3, <1>4, <1>5, <1>6, <1>7, <1>8 DEF Next, Execute, Work

LEMMA NearestOKStep == JoinOK /\ NearestOK /\ [Next]_vars => NearestOK'
<1> SUFFICES ASSUME JoinOK, NearestOK, [Next]_vars PROVE NearestOK'
  OBVIOUS
<1>1. CASE phase' # "nearest"
  BY <1>1 DEF NearestOK, CandidatesOK, NearerIsToCome
<1>2. CASE Nearest
  BY <1>2, NearestStarts
<1>3. CASE NearestSkip \/ NearestLeaf \/ NearestDescend
  BY <1>3, NearestStep
<1>4. CASE UNCHANGED vars
  <2>1. /\ trees' = trees /\ query' = query /\ phase' = phase /\ tasks' = tasks
        /\ candidates' = candidates
    BY <1>4 DEF vars, input_vars
  <2>2. CandidatesOK'
    BY <2>1 DEF NearestOK, CandidatesOK, Entry
  <2>3. NearerIsToCome'
    BY <2>1 DEF NearestOK, NearerIsToCome, Entry, Holds
  <2>4. QED
    BY <2>2, <2>3 DEF NearestOK
<1>5. QED
  BY <1>1, <1>2, <1>3, <1>4, NearestElsewhere

LEMMA NearestOKInit == Init => NearestOK
  BY DEF Init, NearestOK, CandidatesOK, NearerIsToCome

(* A nearest query gives up no subtree pair that has an entry nearer than  *)
(* the candidate found so far.                                             *)
THEOREM NothingNearerIsSkipped == Spec => []NearerIsToCome
<1>1. Spec => [](JoinOK /\ NearestOK)
  BY InitOK, NearestOKInit, JoinOKStep, NearestOKStep, PTL DEF Spec
<1>2. NearestOK => NearerIsToCome
  BY DEF NearestOK
<1>3. QED
  BY <1>1, <1>2, PTL

-----------------------------------------------------------------------------
(* Sums over the tasks: as many as there are things to be counted.         *)

Area(f, D) == UNION {{d} \X (1 .. f[d]) : d \in D}

LEMMA SlotCount ==
    ASSUME NEW d, NEW n \in Nat
    PROVE  IsFiniteSet({d} \X (1 .. n)) /\ Cardinality({d} \X (1 .. n)) = n
<1> DEFINE S == {d} \X (1 .. n)
           f == [m \in 1 .. n |-> <<d, m>>]
<1>1. f \in Bijection(1 .. n, S)
  <2>1. f \in [1 .. n -> S]
    OBVIOUS
  <2>2. \A a, b \in 1 .. n : f[a] = f[b] => a = b
    OBVIOUS
  <2>3. \A s \in S : \E m \in 1 .. n : f[m] = s
    OBVIOUS
  <2> HIDE DEF f, S
  <2>4. f \in Injection(1 .. n, S)
    BY <2>1, <2>2 DEF Injection, IsInjective
  <2>5. f \in Surjection(1 .. n, S)
    BY <2>1, <2>3 DEF Surjection
  <2>6. QED
    BY <2>4, <2>5 DEF Bijection
<1>2. IsFiniteSet(1 .. n) /\ Cardinality(1 .. n) = n
  BY FS_Interval
<1>5. ExistsBijection(1 .. n, S)
  BY <1>1 DEF ExistsBijection
<1> HIDE DEF f, S
<1>3. IsFiniteSet(S) /\ Cardinality(S) = Cardinality(1 .. n)
  BY <1>2, <1>5, FS_Bijection
<1>4. QED
  BY <1>2, <1>3 DEF S

LEMMA AreaOfOne ==
    ASSUME NEW t, IsFiniteSet(t), NEW f, \A d \in t : f[d] \in Nat
    PROVE  /\ IsFiniteSet(Area(f, t)) /\ Cardinality(Area(f, t)) \in Nat
           /\ \A d \in t : /\ Cardinality(Area(f, t \ {d})) \in Nat
                           /\ Cardinality(Area(f, t))
                                 = f[d] + Cardinality(Area(f, t \ {d}))
<1>1. ASSUME NEW u \in SUBSET t
      PROVE  IsFiniteSet(Area(f, u)) /\ Cardinality(Area(f, u)) \in Nat
  <2> DEFINE part(d) == {d} \X (1 .. f[d])
             all == {part(d) : d \in u}
             g == [d \in u |-> part(d)]
  <2>1. IsFiniteSet(all)
    <3>1. g \in Surjection(u, all)
      BY DEF Surjection
    <3>2. IsFiniteSet(u)
      BY FS_Subset
    <3> HIDE DEF g, all
    <3>3. QED
      BY <3>1, <3>2, FS_Surjection
  <2>2. \A c \in all : IsFiniteSet(c)
    <3>1. SUFFICES ASSUME NEW d \in u PROVE IsFiniteSet(part(d))
      OBVIOUS
    <3>2. f[d] \in Nat
      OBVIOUS
    <3>3. QED
      BY <3>2, SlotCount
  <2>3. Area(f, u) = UNION all
    BY DEF Area
  <2> HIDE DEF all
  <2>4. QED
    BY <2>1, <2>2, <2>3, FS_UNION, FS_CardinalityType
<1>2. ASSUME NEW d \in t
      PROVE  Cardinality(Area(f, t)) = f[d] + Cardinality(Area(f, t \ {d}))
  <2> DEFINE P == {d} \X (1 .. f[d])
             R == Area(f, t \ {d})
  <2>1. Area(f, t) = P \cup R
    BY DEF Area
  <2>2. P \cap R = {}
    <3>1. SUFFICES ASSUME NEW x, x \in P, NEW c \in t \ {d},
                          x \in {c} \X (1 .. f[c])
                   PROVE  FALSE
      BY DEF Area
    <3>2. x[1] = d /\ x[1] = c
      BY <3>1
    <3>3. QED
      BY <3>2
  <2>3. IsFiniteSet(P) /\ Cardinality(P) = f[d]
    BY SlotCount
  <2>4. IsFiniteSet(R)
    BY <1>1
  <2> HIDE DEF P, R
  <2>5. QED
    BY <2>1, <2>2, <2>3, <2>4, DisjointCount DEF R
<1>3. \A d \in t : t \ {d} \in SUBSET t
  OBVIOUS
<1>4. QED
  BY <1>1, <1>2, <1>3

LEMMA SumIsArea ==
    ASSUME NEW D, IsFiniteSet(D), NEW f \in [D -> Nat]
    PROVE  SumFunction(f) = Cardinality(Area(f, D))
<1> DEFINE One(t) == CHOOSE d \in t : TRUE
           fold == [t \in SUBSET D |-> Cardinality(Area(f, t))]
           Adds(it) == it = [t \in SUBSET D |->
                               IF t = {} THEN 0
                               ELSE f[One(t)] + it[t \ {One(t)}]]
           F == FiniteSubsetsOf(D)
           R == StrictSubsetOrdering(D)
<1>1. ASSUME NEW t \in SUBSET D, t # {}
      PROVE  /\ One(t) \in t /\ t \ {One(t)} \in SUBSET D
             /\ Cardinality(Area(f, t))
                   = f[One(t)] + Cardinality(Area(f, t \ {One(t)}))
  <2>1. One(t) \in t
    BY <1>1
  <2> HIDE DEF One
  <2>2. IsFiniteSet(t) /\ \A d \in t : f[d] \in Nat
    BY FS_Subset
  <2>3. Cardinality(Area(f, t)) = f[One(t)] + Cardinality(Area(f, t \ {One(t)}))
    BY <2>1, <2>2, AreaOfOne
  <2>5. QED
    BY <2>1, <2>3
<1>2. Cardinality(Area(f, {})) = 0
  <2>1. Area(f, {}) = {}
    BY DEF Area
  <2>2. QED
    BY <2>1, FS_EmptySet
<1> HIDE DEF One
<1>3. Adds(fold)
  <2>1. \A t \in SUBSET D : fold[t] = IF t = {} THEN 0
                                      ELSE f[One(t)] + fold[t \ {One(t)}]
    BY <1>1, <1>2
  <2>2. QED
    BY <2>1
<1>4. ASSUME NEW it, Adds(it) PROVE it[D] = Cardinality(Area(f, D))
  <2> DEFINE bad == {t \in SUBSET D : it[t] # Cardinality(Area(f, t))}
  <2>1. SUFFICES ASSUME bad # {} PROVE FALSE
    OBVIOUS
  <2>2. bad \subseteq F
    BY FS_Subset DEF FiniteSubsetsOf
  <2>3. IsWellFoundedOn(R, F)
    BY FS_StrictSubsetOrderingWellFounded
  <2>4. PICK t \in bad : \A y \in bad : ~(<<y, t>> \in R)
    <3> HIDE DEF bad, R, F
    <3> QED
      BY <2>1, <2>2, <2>3, WFMin
  <2>5. t \in SUBSET D
    OBVIOUS
  <2>6. it[t] = IF t = {} THEN 0 ELSE f[One(t)] + it[t \ {One(t)}]
    BY <1>4, <2>5
  <2>7. t # {}
    BY <2>6, <1>2
  <2> DEFINE u == t \ {One(t)}
  <2>8. One(t) \in t /\ u \in SUBSET D
        /\ Cardinality(Area(f, t)) = f[One(t)] + Cardinality(Area(f, u))
    BY <1>1, <2>5, <2>7
  <2>9. it[u] = Cardinality(Area(f, u))
    <3>1. u \subseteq t /\ u # t
      BY <2>8
    <3>2. <<u, t>> \in R
      <4> HIDE DEF u
      <4> QED
        BY <3>1, <2>5, <2>8 DEF StrictSubsetOrdering
    <3>3. u \notin bad
      BY <3>2, <2>4
    <3>4. QED
      BY <2>8, <3>3
  <2>10. it[t] = Cardinality(Area(f, t))
    BY <2>6, <2>7, <2>8, <2>9
  <2>11. QED
    BY <2>10
<1>5. DOMAIN f = D
  OBVIOUS
<1>6. SumFunction(f) = (CHOOSE it : Adds(it))[DOMAIN f]
  BY DEF SumFunction, SumFunctionOnSet, FoldFunctionOnSet, MapThenFoldSet, One
<1>7. Adds(CHOOSE it : Adds(it))
  <2> HIDE DEF Adds
  <2> QED
    BY <1>3
<1>8. QED
  <2> HIDE DEF Adds
  <2> QED
    BY <1>4, <1>5, <1>6, <1>7

(* A sum when one of its summands is another, or one comes to it. *)
LEMMA SumChanges ==
    ASSUME NEW D, IsFiniteSet(D), NEW f \in [D -> Nat], NEW k \in D,
           NEW g \in [D -> Nat], \A d \in D : d # k => g[d] = f[d]
    PROVE  /\ SumFunction(f) \in Nat /\ SumFunction(g) \in Nat
           /\ SumFunction(g) + f[k] = SumFunction(f) + g[k]
<1>1. SumFunction(f) = Cardinality(Area(f, D)) /\ SumFunction(g) = Cardinality(Area(g, D))
  BY SumIsArea
<1>2. Area(f, D \ {k}) = Area(g, D \ {k})
  BY DEF Area
<1>3. /\ Cardinality(Area(f, D)) \in Nat
      /\ Cardinality(Area(f, D \ {k})) \in Nat
      /\ Cardinality(Area(f, D)) = f[k] + Cardinality(Area(f, D \ {k}))
  <2>1. \A d \in D : f[d] \in Nat
    OBVIOUS
  <2>2. QED
    BY <2>1, AreaOfOne
<1>4. /\ Cardinality(Area(g, D)) \in Nat
      /\ Cardinality(Area(g, D)) = g[k] + Cardinality(Area(g, D \ {k}))
  <2>1. \A d \in D : g[d] \in Nat
    OBVIOUS
  <2>2. QED
    BY <2>1, AreaOfOne
<1>5. f[k] \in Nat /\ g[k] \in Nat
  OBVIOUS
<1>6. QED
  BY <1>1, <1>2, <1>3, <1>4, <1>5

LEMMA SumExtends ==
    ASSUME NEW D, IsFiniteSet(D), NEW f \in [D -> Nat], NEW k, k \notin D,
           NEW g \in [D \cup {k} -> Nat], \A d \in D : g[d] = f[d], g[k] = 0
    PROVE  SumFunction(g) = SumFunction(f)
<1> DEFINE E == D \cup {k}
<1>1. IsFiniteSet(E) /\ k \in E /\ E \ {k} = D
  BY FS_AddElement
<1>2. SumFunction(f) = Cardinality(Area(f, D)) /\ SumFunction(g) = Cardinality(Area(g, E))
  BY <1>1, SumIsArea
<1>3. Area(f, D) = Area(g, D)
  BY DEF Area
<1> HIDE DEF E
<1>4. /\ Cardinality(Area(g, D)) \in Nat
      /\ Cardinality(Area(g, E)) = g[k] + Cardinality(Area(g, D))
  <2>1. \A d \in E : g[d] \in Nat
    BY DEF E
  <2>2. QED
    BY <1>1, <2>1, AreaOfOne
<1>5. QED
  BY <1>2, <1>3, <1>4

LEMMA SumOfZeros ==
    ASSUME NEW D, IsFiniteSet(D), NEW f \in [D -> Nat], \A d \in D : f[d] = 0
    PROVE  SumFunction(f) = 0
<1>1. Area(f, D) = {}
  <2>1. \A d \in D : {d} \X (1 .. f[d]) = {}
    OBVIOUS
  <2>2. QED
    BY <2>1 DEF Area
<1>2. QED
  BY <1>1, SumIsArea, FS_EmptySet

(* How many copies of a pair there are once more pairs were found. *)
LEMMA CopiesOfMore ==
    ASSUME NEW p, NEW b, IsABag(b), NEW S
    PROVE  /\ Copies(p, b) \in Nat
           /\ Copies(p, b (+) SetToBag(S)) = Copies(p, b) + IF p \in S THEN 1 ELSE 0
           /\ Copies(p, EmptyBag) = 0
<1> DEFINE c == SetToBag(S)
<1>1. DOMAIN c = S /\ \A e \in S : c[e] = 1
  BY DEF SetToBag
<1>2. b \in [DOMAIN b -> {n \in Nat : n > 0}]
  BY DEF IsABag
<1>3. \A e \in DOMAIN b : b[e] \in Nat
  BY <1>2
<1>4. DOMAIN EmptyBag = {}
  BY DEF EmptyBag, SetToBag
<1> HIDE DEF c
<1>5. Copies(p, b) = IF p \in DOMAIN b THEN b[p] ELSE 0
  BY DEF Copies, BagIn, BagToSet
<1>6. b (+) c = [e \in DOMAIN b \cup DOMAIN c |->
                    (IF e \in DOMAIN b THEN b[e] ELSE 0)
                       + (IF e \in DOMAIN c THEN c[e] ELSE 0)]
  BY DEF (+)
<1>7. Copies(p, b (+) c) = IF p \in DOMAIN (b (+) c) THEN (b (+) c)[p] ELSE 0
  BY DEF Copies, BagIn, BagToSet
<1>8. Copies(p, b (+) c) = Copies(p, b) + IF p \in S THEN 1 ELSE 0
  BY <1>1, <1>3, <1>5, <1>6, <1>7
<1>9. Copies(p, EmptyBag) = 0
  BY <1>4 DEF Copies, BagIn, BagToSet
<1>10. QED
  BY <1>3, <1>5, <1>8, <1>9 DEF c

LEMMA CopiesFound ==
    ASSUME NEW b, IsABag(b), NEW F, F \subseteq AllPairs, NEW i, NEW j
    PROVE  /\ Copies(PairOf(i, j), b) \in Nat
           /\ Copies(PairOf(i, j), b (+) Found(F))
                 = Copies(PairOf(i, j), b) + IF <<i, j>> \in F THEN 1 ELSE 0
<1> DEFINE S == {PairOf(x[1], x[2]) : x \in F}
<1>1. PairOf(i, j) \in S <=> <<i, j>> \in F
  <2>1. ASSUME NEW x \in F PROVE x = <<x[1], x[2]>>
    BY DEF AllPairs
  <2>2. ASSUME NEW x \in F, PairOf(i, j) = PairOf(x[1], x[2]) PROVE <<i, j>> = x
    <3>1. PairOf(i, j).left = i /\ PairOf(i, j).right = j
          /\ PairOf(x[1], x[2]).left = x[1] /\ PairOf(x[1], x[2]).right = x[2]
      BY DEF PairOf
    <3>2. i = x[1] /\ j = x[2]
      BY <2>2, <3>1
    <3>3. QED
      BY <2>1, <3>2
  <2>3. ASSUME <<i, j>> \in F PROVE PairOf(i, j) \in S
    <3>1. <<i, j>>[1] = i /\ <<i, j>>[2] = j
      OBVIOUS
    <3>2. QED
      BY <2>3, <3>1
  <2>4. QED
    BY <2>2, <2>3
<1>2. Found(F) = SetToBag(S)
  BY DEF Found
<1> HIDE DEF S
<1>3. QED
  BY <1>1, <1>2, CopiesOfMore

-----------------------------------------------------------------------------
(* Where a walk still has to look: the work it is at, as place 0, and the  *)
(* halves it left for later, by their frames.                              *)
PlaceWork(x, n) ==
    IF n = 0
    THEN [left |-> x.work.left, right |-> x.work.right, rows |-> x.work.rows]
    ELSE [left |-> x.stack[n].left, right |-> x.stack[n].right,
          rows |-> x.work.rows]

Places(x) ==
    {n \in 0 .. Len(x.stack) :
        IF n = 0 THEN x.pc = "visit" ELSE x.stack[n].kind = "right"}

AtPlace(tr, x, n, i, j) == n \in Places(x) /\ HoldsIn(tr, PlaceWork(x, n), i, j)

InWalk(tr, x, i, j) == \E n : AtPlace(tr, x, n, i, j)

OncePlaced(tr, x) ==
    \A i, j : \A m, n : AtPlace(tr, x, m, i, j) /\ AtPlace(tr, x, n, i, j) => m = n

(* What a step of a walk does with its places, but for those it is done    *)
(* with.                                                                   *)
Hands(tr, x, y) ==
    /\ \A i, j : InWalk(tr, y, i, j) => InWalk(tr, x, i, j)
    /\ OncePlaced(tr, x) => OncePlaced(tr, y)

HandsAll(tr, x, y) ==
    Hands(tr, x, y) /\ \A i, j : InWalk(tr, x, i, j) => InWalk(tr, y, i, j)

LEMMA PlaceOfWork ==
    ASSUME NEW tr, NEW x, NEW i, NEW j
    PROVE  AtPlace(tr, x, 0, i, j) <=>
              0 \in Places(x) /\ HoldsIn(tr, x.work, i, j)
  BY DEF AtPlace, PlaceWork, HoldsIn

LEMMA PlaceOfFrame ==
    ASSUME NEW tr, NEW x, NEW n, n # 0, NEW w, NEW i, NEW j,
           w["left"] = x.stack[n].left, w["right"] = x.stack[n].right,
           w.rows = x.work.rows
    PROVE  AtPlace(tr, x, n, i, j) <=> n \in Places(x) /\ HoldsIn(tr, w, i, j)
  BY DEF AtPlace, PlaceWork, HoldsIn

(* A walk that stops looking at its work. *)
LEMMA PlacesStop ==
    ASSUME NEW tr, NEW x, WalkOK(tr, x), NEW pc \in {"pop", "ended"}, NEW sink, NEW m
    PROVE  LET y == WalkRec(pc, x.work, x.stack, sink, m) IN
           /\ \A n, i, j : AtPlace(tr, y, n, i, j) <=>
                              n # 0 /\ AtPlace(tr, x, n, i, j)
           /\ Hands(tr, x, y)
           /\ x.pc # "visit" => HandsAll(tr, x, y)
<1> DEFINE y == WalkRec(pc, x.work, x.stack, sink, m)
<1>1. y.pc = pc /\ y.work = x.work /\ y.stack = x.stack
  BY DEF WalkRec
<1> HIDE DEF y
<1>2. \A n : n \in Places(y) <=> n # 0 /\ n \in Places(x)
  BY <1>1 DEF Places
<1>3. \A n : PlaceWork(y, n) = PlaceWork(x, n)
  BY <1>1 DEF PlaceWork
<1>4. \A n, i, j : AtPlace(tr, y, n, i, j) <=> n # 0 /\ AtPlace(tr, x, n, i, j)
  BY <1>2, <1>3 DEF AtPlace
<1>5. Hands(tr, x, y)
  BY <1>4 DEF Hands, InWalk, OncePlaced
<1>6. x.pc # "visit" => \A n, i, j : AtPlace(tr, x, n, i, j) => AtPlace(tr, y, n, i, j)
  <2>1. x.pc # "visit" => 0 \notin Places(x)
    BY DEF Places
  <2>2. QED
    BY <1>4, <2>1 DEF AtPlace
<1>7. x.pc # "visit" => HandsAll(tr, x, y)
  BY <1>5, <1>6 DEF HandsAll, InWalk
<1>8. QED
  BY <1>4, <1>5, <1>7 DEF y

(* A frame that puts an interval back is taken off. *)
LEMMA PlacesRestore ==
    ASSUME NEW tr, NEW x, WalkOK(tr, x), x.pc = "pop", x.stack # <<>>,
           Last(x.stack).kind = "restore", NEW b
    PROVE  HandsAll(tr, x, WalkRec("pop", Boxed(x.work, b), Front(x.stack),
                                   x.sink, x.counted))
<1> DEFINE y == WalkRec("pop", Boxed(x.work, b), Front(x.stack), x.sink, x.counted)
           len == Len(x.stack)
<1>1. y.pc = "pop" /\ y.work.rows = x.work.rows /\ y.stack = Front(x.stack)
  BY DEF WalkRec, Boxed
<1>2. x.stack \in Seq(Frames)
  BY WalkParts
<1>3. /\ len \in Nat \ {0} /\ x.stack[len].kind = "restore"
      /\ Len(y.stack) = len - 1 /\ \A n \in 1 .. len - 1 : y.stack[n] = x.stack[n]
  BY <1>1, <1>2, FrontParts
<1> HIDE DEF y, len
<1>4. \A n : n \in Places(x) <=> n \in 1 .. len /\ x.stack[n].kind = "right"
  BY <1>3 DEF Places, len
<1>5. \A n : n \in Places(y) <=> n \in 1 .. len - 1 /\ y.stack[n].kind = "right"
  BY <1>1, <1>3 DEF Places
<1>6. \A n : n \in Places(y) <=> n \in Places(x)
  <2>1. ASSUME NEW n PROVE n \in Places(y) <=> n \in Places(x)
    <3>1. CASE n \in 1 .. len - 1
      <4>1. n \in 1 .. len
        BY <1>3, <3>1
      <4>2. QED
        BY <3>1, <4>1, <1>3, <1>4, <1>5
    <3>2. CASE n = len
      <4>1. n \notin 1 .. len - 1
        BY <1>3, <3>2
      <4>2. x.stack[n].kind # "right"
        BY <1>3, <3>2
      <4>3. QED
        BY <4>1, <4>2, <1>4, <1>5
    <3>3. CASE n # len /\ n \notin 1 .. len - 1
      <4>1. n \notin 1 .. len
        BY <1>3, <3>3
      <4>2. QED
        BY <3>3, <4>1, <1>4, <1>5
    <3>4. QED
      BY <3>1, <3>2, <3>3
  <2>2. QED
    BY <2>1
<1>7. \A n \in Places(x) : PlaceWork(y, n) = PlaceWork(x, n)
  <2> TAKE n \in Places(x)
  <2>1. n \in 1 .. len - 1
    BY <1>5, <1>6
  <2>2. n # 0 /\ y.stack[n] = x.stack[n]
    BY <2>1, <1>3
  <2>3. QED
    BY <2>2, <1>1 DEF PlaceWork
<1>8. \A n, i, j : AtPlace(tr, y, n, i, j) <=> AtPlace(tr, x, n, i, j)
  BY <1>6, <1>7 DEF AtPlace
<1>9. HandsAll(tr, x, y)
  BY <1>8 DEF HandsAll, Hands, InWalk, OncePlaced
<1>10. QED
  BY <1>9 DEF y

(* A half that was left is taken up: the place of its frame becomes the    *)
(* work.                                                                   *)
LEMMA PlacesRight ==
    ASSUME NEW tr, NEW x, WalkOK(tr, x), x.pc = "pop", x.stack # <<>>,
           Last(x.stack).kind = "right", NEW b
    PROVE  LET f == Last(x.stack) IN
           HandsAll(tr, x, WalkRec("visit", FarWork(f, b, x.work.rows),
                                   Append(Front(x.stack), Restore(f)),
                                   x.sink, x.counted))
<1> DEFINE f == Last(x.stack)
           y == WalkRec("visit", FarWork(f, b, x.work.rows),
                        Append(Front(x.stack), Restore(f)), x.sink, x.counted)
           len == Len(x.stack)
<1>1. /\ y.pc = "visit" /\ y.work.rows = x.work.rows
      /\ y.work.left = f.left /\ y.work.right = f.right
      /\ y.stack = Append(Front(x.stack), Restore(f))
  BY DEF WalkRec, FarWork
<1>2. x.stack \in Seq(Frames) /\ x.stack # <<>>
  BY WalkParts
<1>3. /\ len \in Nat \ {0} /\ f = x.stack[len] /\ f.kind = "right"
      /\ Front(x.stack) \in Seq(Frames) /\ Len(Front(x.stack)) = len - 1
      /\ \A n \in 1 .. len - 1 : Front(x.stack)[n] = x.stack[n]
      /\ f \in Frames
  BY <1>2, FrontParts
<1>4. Restore(f) \in Frames /\ Restore(f).kind = "restore"
  <2>1. f.side \in Sides /\ f.dim \in Dims /\ f.bound \in Interval
    BY <1>3, FrameParts
  <2> HIDE DEF f
  <2>2. QED
    BY <2>1 DEF Restore, Frames, RestoreFrames
<1> HIDE DEF f, y, len
<1>5. /\ Len(y.stack) = len /\ y.stack[len] = Restore(f)
      /\ \A n \in 1 .. len - 1 : y.stack[n] = x.stack[n]
  <2> DEFINE a == Front(x.stack)
             r == Restore(f)
             new == Append(a, r)
  <2>1. /\ a \in Seq(Frames) /\ r \in Frames /\ Len(a) = len - 1
        /\ \A n \in 1 .. len - 1 : a[n] = x.stack[n]
    BY <1>3, <1>4
  <2> HIDE DEF a, r
  <2>2. /\ Len(new) = Len(a) + 1 /\ new[Len(a) + 1] = r
        /\ \A n \in 1 .. Len(a) : new[n] = a[n]
    BY <2>1, AppendProperties
  <2> HIDE DEF new
  <2>3. Len(new) = len /\ new[len] = r /\ \A n \in 1 .. len - 1 : new[n] = x.stack[n]
    BY <2>1, <2>2, <1>3
  <2>4. y.stack = new
    BY <1>1 DEF new, a, r
  <2>5. QED
    BY <2>3, <2>4 DEF r
<1>6. \A n : n \in Places(x) <=> n \in 1 .. len /\ x.stack[n].kind = "right"
  BY <1>3 DEF Places, len
<1>7. \A n : n \in Places(y) <=>
         n = 0 \/ (n \in 1 .. len - 1 /\ x.stack[n].kind = "right")
  <2>1. ASSUME NEW n
        PROVE  n \in Places(y) <=>
                  n = 0 \/ (n \in 1 .. len - 1 /\ x.stack[n].kind = "right")
    <3>1. n \in Places(y) <=>
             n = 0 \/ (n \in 1 .. len /\ y.stack[n].kind = "right")
      BY <1>1, <1>3, <1>5 DEF Places
    <3>2. CASE n \in 1 .. len - 1
      <4>1. n \in 1 .. len /\ y.stack[n] = x.stack[n]
        BY <1>3, <1>5, <3>2
      <4>2. QED
        BY <3>1, <3>2, <4>1
    <3>3. CASE n = len
      <4>1. n # 0 /\ n \notin 1 .. len - 1 /\ y.stack[n].kind # "right"
        BY <1>3, <1>4, <1>5, <3>3
      <4>2. QED
        BY <3>1, <4>1
    <3>4. CASE n # len /\ n \notin 1 .. len - 1
      <4>1. n \notin 1 .. len
        BY <1>3, <3>4
      <4>2. QED
        BY <3>1, <3>4, <4>1
    <3>5. QED
      BY <3>2, <3>3, <3>4
  <2>2. QED
    BY <2>1
<1>8. PlaceWork(y, 0) = PlaceWork(x, len)
  BY <1>1, <1>3 DEF PlaceWork
<1>9. \A n \in 1 .. len - 1 : PlaceWork(y, n) = PlaceWork(x, n)
  <2> TAKE n \in 1 .. len - 1
  <2>1. n # 0 /\ y.stack[n] = x.stack[n]
    BY <1>3, <1>5
  <2>2. QED
    BY <2>1, <1>1 DEF PlaceWork
<1>10. \A n : n \in Places(x) <=>
          n = len \/ (n \in 1 .. len - 1 /\ x.stack[n].kind = "right")
  <2>1. \A n : n \in 1 .. len <=> n = len \/ n \in 1 .. len - 1
    BY <1>3
  <2>2. QED
    BY <1>3, <1>6, <2>1
<1>11. len \notin 1 .. len - 1 /\ 0 \notin 1 .. len - 1
  BY <1>3
<1>12. ASSUME NEW i, NEW j, NEW n, AtPlace(tr, y, n, i, j)
       PROVE  IF n = 0 THEN AtPlace(tr, x, len, i, j)
              ELSE n \in 1 .. len - 1 /\ AtPlace(tr, x, n, i, j)
  BY <1>7, <1>8, <1>9, <1>10, <1>12 DEF AtPlace
<1>13. ASSUME NEW i, NEW j, NEW n, AtPlace(tr, x, n, i, j)
       PROVE  InWalk(tr, y, i, j)
  <2>1. CASE n = len
    <3>1. AtPlace(tr, y, 0, i, j)
      BY <1>7, <1>8, <1>13, <2>1 DEF AtPlace
    <3>2. QED
      BY <3>1 DEF InWalk
  <2>2. CASE n # len
    <3>1. AtPlace(tr, y, n, i, j)
      BY <1>7, <1>9, <1>10, <1>13, <2>2 DEF AtPlace
    <3>2. QED
      BY <3>1 DEF InWalk
  <2>3. QED
    BY <2>1, <2>2
<1>14. OncePlaced(tr, x) => OncePlaced(tr, y)
  BY <1>11, <1>12 DEF OncePlaced
<1>15. \A i, j : InWalk(tr, y, i, j) => InWalk(tr, x, i, j)
  BY <1>12 DEF InWalk
<1>16. \A i, j : InWalk(tr, x, i, j) => InWalk(tr, y, i, j)
  BY <1>13 DEF InWalk
<1>17. HandsAll(tr, x, y)
  BY <1>14, <1>15, <1>16 DEF HandsAll, Hands
<1>18. QED
  BY <1>17 DEF y, f

(* A walk descends: its work becomes the near half, and the far half a     *)
(* frame, where there is one.                                              *)
LEMMA PlacesDescend ==
    ASSUME BuiltTrees(trees), NEW x, WalkOK(trees, x), x.pc = "visit",
           SomeLeaves(x.work), ~BothAtLeaf(x.work)
    PROVE  HandsAll(trees, x,
                    WalkRec("visit", NearHalf(trees, x.work),
                            IF Finite(Pivot(trees, x.work))
                            THEN Append(x.stack, RightFrame(x.work)) ELSE x.stack,
                            x.sink, x.counted))
<1> DEFINE w == x.work
           near == NearHalf(trees, w)
           far == FarHalf(trees, w)
           f == RightFrame(w)
           cut == Finite(Pivot(trees, w))
           st == IF cut THEN Append(x.stack, f) ELSE x.stack
           y == WalkRec("visit", near, st, x.sink, x.counted)
           len == Len(x.stack)
           H(v, i, j) == HoldsIn(trees, v, i, j)
<1>1. Sound(trees, w) /\ x.stack \in Seq(Frames)
  BY WalkParts
<1>2. /\ \A i, j : H(w, i, j) <=> H(near, i, j) \/ (cut /\ H(far, i, j))
      /\ \A i, j : ~(H(near, i, j) /\ H(far, i, j))
      /\ near.rows = w.rows /\ far.rows = w.rows
  BY <1>1, SoundHalves
<1>3. cut => /\ f \in Frames /\ f.kind = "right"
             /\ f.left = far["left"] /\ f.right = far["right"]
  <2>1. ASSUME cut
        PROVE  f \in Frames /\ f.kind = "right" /\ FarWork(f, w.bounds, w.rows) = far
    BY <1>1, <2>1, RightFrameOK
  <2> HIDE DEF f, far, cut
  <2>2. QED
    BY <2>1 DEF FarWork
<1>4. y.pc = "visit" /\ y.work = near /\ y.stack = st
  BY DEF WalkRec
<1>5. len \in Nat
  BY <1>1
<1>6. /\ cut => /\ Len(st) = len + 1 /\ st[len + 1] = f
                /\ \A n \in 1 .. len : st[n] = x.stack[n]
      /\ ~cut => st = x.stack
  <2> HIDE DEF f, cut
  <2>1. ASSUME cut
        PROVE  /\ Len(st) = len + 1 /\ st[len + 1] = f
               /\ \A n \in 1 .. len : st[n] = x.stack[n]
    BY <1>1, <1>3, <2>1, AppendProperties
  <2>2. QED
    BY <2>1
<1> HIDE DEF w, near, far, f, cut, st, y, len, H
<1>7. \A i, j : AtPlace(trees, x, 0, i, j) <=> H(w, i, j)
  <2>1. 0 \in Places(x)
    BY <1>5 DEF Places, len
  <2>2. QED
    BY <2>1, PlaceOfWork DEF w, H
<1>8. \A i, j : AtPlace(trees, y, 0, i, j) <=> H(near, i, j)
  <2>1. Len(y.stack) \in Nat
    BY <1>4, <1>5, <1>6 DEF len
  <2>2. 0 \in Places(y)
    BY <1>4, <2>1 DEF Places
  <2>3. QED
    BY <1>4, <2>2, PlaceOfWork DEF H
<1>9. \A n, i, j : n \in 1 .. len =>
         (AtPlace(trees, y, n, i, j) <=> AtPlace(trees, x, n, i, j))
  <2>1. ASSUME NEW n \in 1 .. len, NEW i, NEW j
        PROVE  AtPlace(trees, y, n, i, j) <=> AtPlace(trees, x, n, i, j)
    <3>1. y.stack[n] = x.stack[n] /\ n # 0 /\ y.work.rows = x.work.rows
      BY <1>2, <1>4, <1>5, <1>6 DEF w
    <3>2. n \in 0 .. Len(x.stack) /\ n \in 0 .. Len(y.stack)
      BY <1>4, <1>5, <1>6 DEF len
    <3>3. n \in Places(y) <=> n \in Places(x)
      BY <3>1, <3>2 DEF Places
    <3>4. PlaceWork(y, n) = PlaceWork(x, n)
      BY <3>1 DEF PlaceWork
    <3>5. QED
      BY <3>3, <3>4 DEF AtPlace
  <2>2. QED
    BY <2>1
<1>10. cut => \A i, j : AtPlace(trees, y, len + 1, i, j) <=> H(far, i, j)
  <2>1. ASSUME cut, NEW i, NEW j
        PROVE  AtPlace(trees, y, len + 1, i, j) <=> H(far, i, j)
    <3>1. y.stack[len + 1] = f /\ Len(y.stack) = len + 1
      BY <1>4, <1>6, <2>1
    <3>2. len + 1 # 0 /\ len + 1 \in 0 .. Len(y.stack)
      BY <3>1, <1>5
    <3>3. len + 1 \in Places(y)
      BY <1>3, <2>1, <3>1, <3>2 DEF Places
    <3>4. /\ far["left"] = y.stack[len + 1].left
          /\ far["right"] = y.stack[len + 1].right
          /\ far.rows = y.work.rows
      BY <1>2, <1>3, <1>4, <2>1, <3>1
    <3>5. QED
      BY <3>2, <3>3, <3>4, PlaceOfFrame DEF H
  <2>2. QED
    BY <2>1
<1>11. \A n, i, j : AtPlace(trees, x, n, i, j) => n = 0 \/ n \in 1 .. len
  BY <1>5 DEF AtPlace, Places, len
<1>12. \A n, i, j : AtPlace(trees, y, n, i, j) =>
          n = 0 \/ n \in 1 .. len \/ (cut /\ n = len + 1)
  <2>1. ASSUME NEW n \in Places(y)
        PROVE  n = 0 \/ n \in 1 .. len \/ (cut /\ n = len + 1)
    <3>1. n \in 0 .. Len(y.stack)
      BY DEF Places
    <3>2. CASE cut
      BY <1>4, <1>5, <1>6, <3>1, <3>2
    <3>3. CASE ~cut
      BY <1>4, <1>5, <1>6, <3>1, <3>3 DEF len
    <3>4. QED
      BY <3>2, <3>3
  <2>2. QED
    BY <2>1 DEF AtPlace
<1>13. \A i, j : InWalk(trees, y, i, j) => InWalk(trees, x, i, j)
  BY <1>2, <1>7, <1>8, <1>9, <1>10, <1>12 DEF InWalk
<1>14. \A i, j : InWalk(trees, x, i, j) => InWalk(trees, y, i, j)
  BY <1>2, <1>7, <1>8, <1>9, <1>10, <1>11 DEF InWalk
<1>15. OncePlaced(trees, x) => OncePlaced(trees, y)
  <2>1. SUFFICES ASSUME OncePlaced(trees, x), NEW i, NEW j, NEW m, NEW n,
                        AtPlace(trees, y, m, i, j), AtPlace(trees, y, n, i, j)
                 PROVE  m = n
    BY DEF OncePlaced
  <2> DEFINE back(k) == IF k \in 1 .. len THEN k ELSE 0
  <2>2. ASSUME NEW k, AtPlace(trees, y, k, i, j)
        PROVE  AtPlace(trees, x, back(k), i, j)
    <3>1. CASE k \in 1 .. len
      BY <1>9, <2>2, <3>1
    <3>2. CASE k \notin 1 .. len
      <4>1. H(w, i, j)
        BY <1>2, <1>8, <1>10, <1>12, <2>2, <3>2
      <4>2. QED
        BY <1>7, <3>2, <4>1
    <3>3. QED
      BY <3>1, <3>2
  <2>3. back(m) = back(n)
    <3> HIDE DEF back
    <3>1. AtPlace(trees, x, back(m), i, j) /\ AtPlace(trees, x, back(n), i, j)
      BY <2>1, <2>2
    <3>2. QED
      BY <2>1, <3>1 DEF OncePlaced
  <2>4. 0 \notin 1 .. len
    BY <1>5
  <2>5. CASE m \in 1 .. len \/ n \in 1 .. len
    BY <2>3, <2>4, <2>5
  <2>6. CASE m \notin 1 .. len /\ n \notin 1 .. len
    <3>1. m = 0 \/ (cut /\ m = len + 1)
      BY <1>12, <2>1, <2>6
    <3>2. n = 0 \/ (cut /\ n = len + 1)
      BY <1>12, <2>1, <2>6
    <3>3. ~(H(near, i, j) /\ H(far, i, j))
      BY <1>2
    <3>4. QED
      BY <1>8, <1>10, <2>1, <3>1, <3>2, <3>3
  <2>7. QED
    BY <2>5, <2>6
<1>16. HandsAll(trees, x, y)
  BY <1>13, <1>14, <1>15 DEF HandsAll, Hands
<1>17. QED
  BY <1>16 DEF y, st, near, w, f, cut

-----------------------------------------------------------------------------
(* Whose a pair is: the task's that holds it and has not begun, or the     *)
(* walk's that has a place for it.                                         *)
Owns(k, i, j) ==
    IF k \in DOMAIN walks THEN InWalk(trees, walks[k], i, j)
    ELSE k \in UnbegunTasks /\ HoldsIn(trees, tasks[k], i, j)

IsOpen(i, j) == \E k : Owns(k, i, j)

Apart ==
    /\ \A i, j : \A k, l : Owns(k, i, j) /\ Owns(l, i, j) => k = l
    /\ \A k \in DOMAIN walks : OncePlaced(trees, walks[k])

Matches   == {x \in AllPairs : MatchIn(trees, query, x[1], x[2])}
OpenPairs == {x \in Matches : IsOpen(x[1], x[2])}
Closed    == Matches \ OpenPairs

Sunk(pair) == SumFunction([k \in DOMAIN walks |-> Copies(pair, walks[k].sink)])

(* What has been found are the pairs that are in no place any more.        *)
Ledger ==
    IF query.terminal = "count" THEN Counted = Cardinality(Closed)
    ELSE \A x \in AllPairs : HasBeenFound(x[1], x[2]) = IF x \in Closed THEN 1 ELSE 0

Whole ==
    phase \in {"frontier", "running"} => IsABag(answer) /\ Apart /\ Ledger

(* The walks are finitely many. *)
LEMMA FewWalks ==
    ASSUME JoinOK
    PROVE  /\ IsFiniteSet(DOMAIN walks)
           /\ [k \in DOMAIN walks |-> walks[k].counted] \in [DOMAIN walks -> Nat]
           /\ \A p : [k \in DOMAIN walks |-> Copies(p, walks[k].sink)]
                        \in [DOMAIN walks -> Nat]
           /\ Counted \in Nat /\ \A p : Sunk(p) \in Nat
<1>1. tasks \in Seq(Works) /\ DOMAIN walks \subseteq DOMAIN tasks
  BY DEF JoinOK, TasksOK, WalksOK
<1>2. IsFiniteSet(DOMAIN walks)
  <2>1. DOMAIN tasks = 1 .. Len(tasks) /\ Len(tasks) \in Nat
    BY <1>1, LenProperties
  <2>2. IsFiniteSet(1 .. Len(tasks))
    BY <2>1, FS_Interval
  <2>3. QED
    BY <1>1, <2>1, <2>2, FS_Subset
<1>3. ASSUME NEW k \in DOMAIN walks
      PROVE  walks[k].counted \in Nat /\ \A p : Copies(p, walks[k].sink) \in Nat
  <2>1. WalkOK(trees, walks[k])
    BY DEF JoinOK, WalksOK
  <2>2. walks[k].counted \in Nat /\ IsABag(walks[k].sink)
    BY <2>1, WalkParts
  <2>3. QED
    BY <2>2, CopiesOfMore
<1>4. [k \in DOMAIN walks |-> walks[k].counted] \in [DOMAIN walks -> Nat]
  BY <1>3
<1>5. ASSUME NEW p
      PROVE  [k \in DOMAIN walks |-> Copies(p, walks[k].sink)] \in [DOMAIN walks -> Nat]
  BY <1>3
<1>6. ASSUME NEW f \in [DOMAIN walks -> Nat] PROVE SumFunction(f) \in Nat
  <2>1. SumFunction(f) = Cardinality(Area(f, DOMAIN walks))
    BY <1>2, SumIsArea
  <2>2. \A d \in DOMAIN walks : f[d] \in Nat
    OBVIOUS
  <2>3. Cardinality(Area(f, DOMAIN walks)) \in Nat
    BY <1>2, <2>2, AreaOfOne
  <2>4. QED
    BY <2>1, <2>3
<1>7. Counted \in Nat
  BY <1>4, <1>6 DEF Counted
<1>8. ASSUME NEW p PROVE Sunk(p) \in Nat
  <2>1. [k \in DOMAIN walks |-> Copies(p, walks[k].sink)] \in [DOMAIN walks -> Nat]
    BY <1>5
  <2>2. QED
    BY <2>1, <1>6 DEF Sunk
<1>9. QED
  BY <1>2, <1>4, <1>5, <1>7, <1>8

(* The sums do not change with what is not summed up. *)
LEMMA SumsStay ==
    ASSUME DOMAIN walks' = DOMAIN walks,
           \A k \in DOMAIN walks : /\ walks'[k].sink = walks[k].sink
                                   /\ walks'[k].counted = walks[k].counted
    PROVE  Counted' = Counted /\ \A p : Sunk(p)' = Sunk(p)
<1>1. [k \in DOMAIN walks' |-> walks'[k].counted] = [k \in DOMAIN walks |-> walks[k].counted]
  OBVIOUS
<1>2. Counted' = Counted
  BY <1>1 DEF Counted
<1>3. ASSUME NEW p PROVE Sunk(p)' = Sunk(p)
  <2>1. [k \in DOMAIN walks' |-> Copies(p, walks'[k].sink)]
           = [k \in DOMAIN walks |-> Copies(p, walks[k].sink)]
    OBVIOUS
  <2>2. QED
    BY <2>1 DEF Sunk
<1>4. QED
  BY <1>2, <1>3

LEMMA LedgerStays ==
    ASSUME trees' = trees, query' = query, answer' = answer,
           OpenPairs' = OpenPairs, Counted' = Counted, \A p : Sunk(p)' = Sunk(p),
           Ledger
    PROVE  Ledger'
<1>1. \A i, j : PairOf(i, j)' = PairOf(i, j)
  BY DEF PairOf, Distances
<1>2. \A i, j : HasBeenFound(i, j) = Copies(PairOf(i, j), answer) + Sunk(PairOf(i, j))
  BY DEF HasBeenFound, Sunk
<1>3. \A i, j : HasBeenFound(i, j)' = Copies(PairOf(i, j)', answer') + Sunk(PairOf(i, j))'
  BY DEF HasBeenFound, Sunk
<1>4. \A i, j : HasBeenFound(i, j)' = HasBeenFound(i, j)
  BY <1>1, <1>2, <1>3
<1>5. AllPairs' = AllPairs /\ Matches' = Matches
  BY DEF AllPairs, Entry, Matches
<1>6. Closed' = Closed
  BY <1>5 DEF Closed
<1>7. QED
  BY <1>4, <1>5, <1>6 DEF Ledger

(* One walk moves, and its places with it. *)
LEMMA OwnersMove ==
    ASSUME JoinOK, phase = "running", phase' = phase, Apart,
           UNCHANGED <<trees, tasks, waiting>>, NEW k \in DOMAIN walks,
           DOMAIN walks' = DOMAIN walks,
           \A j \in DOMAIN walks : j # k => walks'[j] = walks[j],
           Hands(trees, walks[k], walks'[k])
    PROVE  /\ Apart'
           /\ \A l, i, j : l # k => (Owns(l, i, j)' <=> Owns(l, i, j))
           /\ \A i, j : Owns(k, i, j) <=> InWalk(trees, walks[k], i, j)
           /\ \A i, j : Owns(k, i, j)' <=> InWalk(trees, walks'[k], i, j)
           /\ \A l, i, j : Owns(l, i, j)' => Owns(l, i, j)
<1>1. UnbegunTasks' = UnbegunTasks
  BY DEF UnbegunTasks
<1>2. ASSUME NEW l, NEW i, NEW j, l # k
      PROVE  Owns(l, i, j)' <=> Owns(l, i, j)
  BY <1>1, <1>2 DEF Owns
<1>3. ASSUME NEW i, NEW j
      PROVE  /\ Owns(k, i, j) <=> InWalk(trees, walks[k], i, j)
             /\ Owns(k, i, j)' <=> InWalk(trees, walks'[k], i, j)
  BY DEF Owns
<1>4. ASSUME NEW l, NEW i, NEW j
      PROVE  Owns(l, i, j)' => Owns(l, i, j)
  <2>1. CASE l = k
    BY <2>1, <1>3 DEF Hands
  <2>2. CASE l # k
    BY <2>2, <1>2
  <2>3. QED
    BY <2>1, <2>2
<1>5. \A i, j : \A m, l : Owns(m, i, j)' /\ Owns(l, i, j)' => m = l
  BY <1>4 DEF Apart
<1>6. \A l \in DOMAIN walks' : OncePlaced(trees, walks'[l])
  <2>1. TAKE l \in DOMAIN walks'
  <2>2. OncePlaced(trees, walks[l])
    BY <2>1 DEF Apart
  <2>3. QED
    BY <2>1, <2>2 DEF Hands
<1>7. Apart'
  BY <1>5, <1>6 DEF Apart
<1>8. QED
  BY <1>2, <1>3, <1>4, <1>7

(* If what has to be found keeps its place, nothing is found and nothing   *)
(* is lost.                                                                *)
LEMMA OpenStays ==
    ASSUME JoinOK, phase = "running", phase' = phase, Apart,
           UNCHANGED <<trees, query, tasks, waiting>>, NEW k \in DOMAIN walks,
           DOMAIN walks' = DOMAIN walks,
           \A j \in DOMAIN walks : j # k => walks'[j] = walks[j],
           Hands(trees, walks[k], walks'[k]),
           \A i, j : MatchIn(trees, query, i, j) /\ InWalk(trees, walks[k], i, j) =>
                        InWalk(trees, walks'[k], i, j)
    PROVE  Apart' /\ OpenPairs' = OpenPairs
<1>1. /\ Apart'
      /\ \A l, i, j : l # k => (Owns(l, i, j)' <=> Owns(l, i, j))
      /\ \A i, j : Owns(k, i, j) <=> InWalk(trees, walks[k], i, j)
      /\ \A i, j : Owns(k, i, j)' <=> InWalk(trees, walks'[k], i, j)
      /\ \A l, i, j : Owns(l, i, j)' => Owns(l, i, j)
  BY OwnersMove
<1>2. ASSUME NEW i, NEW j, MatchIn(trees, query, i, j)
      PROVE  IsOpen(i, j)' <=> IsOpen(i, j)
  <2>1. \A l : Owns(l, i, j)' <=> Owns(l, i, j)
    BY <1>1, <1>2
  <2>2. QED
    BY <2>1 DEF IsOpen
<1>3. Matches' = Matches
  BY DEF Matches, AllPairs, Entry
<1>4. \A x \in Matches : IsOpen(x[1], x[2])' <=> IsOpen(x[1], x[2])
  BY <1>2 DEF Matches
<1>5. OpenPairs' = OpenPairs
  BY <1>3, <1>4 DEF OpenPairs
<1>6. QED
  BY <1>1, <1>5

(* A step of a walk that finds nothing. *)
LEMMA MoveKeepsWhole ==
    ASSUME JoinOK, Whole, phase = "running", phase' = phase,
           UNCHANGED <<trees, query, tasks, waiting, answer>>, NEW k \in DOMAIN walks,
           NEW pc, NEW w, NEW st,
           walks' = [walks EXCEPT ![k] =
                        WalkRec(pc, w, st, walks[k].sink, walks[k].counted)],
           Hands(trees, walks[k], WalkRec(pc, w, st, walks[k].sink, walks[k].counted)),
           \A i, j : MatchIn(trees, query, i, j) /\ InWalk(trees, walks[k], i, j) =>
                        InWalk(trees, WalkRec(pc, w, st, walks[k].sink, walks[k].counted),
                               i, j)
    PROVE  Whole'
<1> DEFINE y == WalkRec(pc, w, st, walks[k].sink, walks[k].counted)
<1>1. y.sink = walks[k].sink /\ y.counted = walks[k].counted
  BY DEF WalkRec
<1> HIDE DEF y
<1>2. /\ DOMAIN walks' = DOMAIN walks /\ walks'[k] = y
      /\ \A j \in DOMAIN walks : j # k => walks'[j] = walks[j]
  <2>1. walks' = [walks EXCEPT ![k] = y]
    BY DEF y
  <2>2. QED
    BY <2>1
<1>3. IsABag(answer) /\ Apart /\ Ledger
  BY DEF Whole
<1>4. Hands(trees, walks[k], walks'[k])
  BY <1>2 DEF y
<1>5. \A i, j : MatchIn(trees, query, i, j) /\ InWalk(trees, walks[k], i, j) =>
                   InWalk(trees, walks'[k], i, j)
  BY <1>2 DEF y
<1>6. Apart' /\ OpenPairs' = OpenPairs
  BY <1>2, <1>3, <1>4, <1>5, OpenStays
<1>7. Counted' = Counted /\ \A p : Sunk(p)' = Sunk(p)
  BY <1>1, <1>2, SumsStay
<1>8. Ledger'
  BY <1>3, <1>6, <1>7, LedgerStays
<1>9. QED
  BY <1>3, <1>6, <1>8 DEF Whole

LEMMA MovesWhole ==
    ASSUME JoinOK, Whole, NEW k,
           Descend(k) \/ PopRestore(k) \/ PopRight(k) \/ Reject(k) \/ WalkEnds(k)
    PROVE  Whole'
<1> DEFINE x == walks[k]
<1>1. /\ phase = "running" /\ phase' = phase
      /\ UNCHANGED <<trees, query, tasks, waiting, answer>>
  <2>1. phase = "running" /\ phase' = phase /\ UNCHANGED Rest /\ answer' = answer
    BY DEF Descend, PopRestore, PopRight, Reject, WalkEnds, Pops, Visits
  <2>2. QED
    BY <2>1, RestParts
<1>2. BuiltTrees(trees) /\ query.radius \in Nat
  BY InputParts DEF JoinOK
<1>3. ASSUME NEW pc, NEW w, NEW st, k \in DOMAIN walks,
             walks' = [walks EXCEPT ![k] = WalkRec(pc, w, st, x.sink, x.counted)],
             HandsAll(trees, x, WalkRec(pc, w, st, x.sink, x.counted))
      PROVE  Whole'
  <2>1. /\ Hands(trees, x, WalkRec(pc, w, st, x.sink, x.counted))
        /\ \A i, j : MatchIn(trees, query, i, j) /\ InWalk(trees, x, i, j) =>
                        InWalk(trees, WalkRec(pc, w, st, x.sink, x.counted), i, j)
    BY <1>3 DEF HandsAll
  <2>2. QED
    BY <1>1, <1>3, <2>1, MoveKeepsWhole
<1>4. ASSUME k \in DOMAIN walks PROVE WalkOK(trees, x)
  BY <1>4 DEF JoinOK, WalksOK
<1>5. CASE Descend(k)
  <2>1. /\ k \in DOMAIN walks /\ x.pc = "visit" /\ Kept(x.work) /\ ~BothAtLeaf(x.work)
        /\ walks' = [walks EXCEPT ![k] =
                   WalkRec("visit", NearHalf(trees, x.work),
                           IF Finite(Pivot(trees, x.work))
                           THEN Append(x.stack, RightFrame(x.work)) ELSE x.stack,
                           x.sink, x.counted)]
    BY <1>5, DescendReads
  <2>2. WalkOK(trees, x) /\ SomeLeaves(x.work)
    BY <2>1, <1>4 DEF Kept
  <2> HIDE DEF x
  <2>3. HandsAll(trees, x, WalkRec("visit", NearHalf(trees, x.work),
                           IF Finite(Pivot(trees, x.work))
                           THEN Append(x.stack, RightFrame(x.work)) ELSE x.stack,
                           x.sink, x.counted))
    BY <1>2, <2>1, <2>2, PlacesDescend
  <2>4. QED
    BY <2>1, <2>3, <1>3
<1>6. CASE PopRestore(k)
  <2> DEFINE f == Last(x.stack)
             b == Moved(x.work.bounds, f.side, f.dim, f.bound)
  <2>1. /\ k \in DOMAIN walks /\ x.pc = "pop" /\ x.stack # <<>>
        /\ f.kind = "restore"
        /\ walks' = [walks EXCEPT ![k] =
              WalkRec("pop", Boxed(x.work, b), Front(x.stack), x.sink, x.counted)]
    BY <1>6, PopRestoreReads
  <2>2. WalkOK(trees, x)
    BY <2>1, <1>4
  <2> HIDE DEF x, b
  <2>3. HandsAll(trees, x, WalkRec("pop", Boxed(x.work, b), Front(x.stack),
                                   x.sink, x.counted))
    BY <2>1, <2>2, PlacesRestore
  <2>4. QED
    BY <2>1, <2>3, <1>3
<1>7. CASE PopRight(k)
  <2> DEFINE f == Last(x.stack)
  <2>1. /\ k \in DOMAIN walks /\ x.pc = "pop" /\ x.stack # <<>> /\ f.kind = "right"
        /\ walks' = [walks EXCEPT ![k] =
                   WalkRec("visit", FarWork(f, x.work.bounds, x.work.rows),
                           Append(Front(x.stack), Restore(f)), x.sink, x.counted)]
    BY <1>7, PopRightReads
  <2>2. WalkOK(trees, x)
    BY <2>1, <1>4
  <2> HIDE DEF x
  <2>3. HandsAll(trees, x, WalkRec("visit", FarWork(f, x.work.bounds, x.work.rows),
                           Append(Front(x.stack), Restore(f)), x.sink, x.counted))
    BY <2>1, <2>2, PlacesRight
  <2>4. QED
    BY <2>1, <2>3, <1>3
<1>8. CASE Reject(k) \/ WalkEnds(k)
  <2>1. PICK pc \in {"pop", "ended"} :
           /\ k \in DOMAIN walks
           /\ walks' = [walks EXCEPT ![k] =
                            WalkRec(pc, x.work, x.stack, x.sink, x.counted)]
           /\ Reject(k) => x.pc = "visit" /\ ~Kept(x.work)
           /\ ~Reject(k) => x.pc = "pop" /\ x.stack = <<>>
    BY <1>8, StopReads
  <2>2. WalkOK(trees, x)
    BY <2>1, <1>4
  <2> DEFINE y == WalkRec(pc, x.work, x.stack, x.sink, x.counted)
  <2> HIDE DEF x
  <2>3. /\ \A n, i, j : AtPlace(trees, y, n, i, j) <=>
                           n # 0 /\ AtPlace(trees, x, n, i, j)
        /\ Hands(trees, x, y)
    BY <2>2, PlacesStop
  <2> HIDE DEF y
  <2>4. \A i, j : MatchIn(trees, query, i, j) => ~AtPlace(trees, x, 0, i, j)
    <3>1. SUFFICES ASSUME NEW i, NEW j, MatchIn(trees, query, i, j),
                          AtPlace(trees, x, 0, i, j)
                   PROVE  FALSE
      OBVIOUS
    <3>2. 0 \in Places(x) /\ HoldsIn(trees, x.work, i, j)
      BY <3>1, PlaceOfWork
    <3>3. x.pc = "visit"
      BY <3>2 DEF Places
    <3>4. Sound(trees, x.work)
      BY <2>2, <3>3, WalkParts
    <3>5. Kept(x.work)
      BY <1>2, <3>1, <3>2, <3>4, KeptIfMatch
    <3>6. QED
      BY <2>1, <3>3, <3>5
  <2>5. \A i, j : MatchIn(trees, query, i, j) /\ InWalk(trees, x, i, j) =>
                     InWalk(trees, y, i, j)
    BY <2>3, <2>4 DEF InWalk
  <2>6. QED
    BY <1>1, <2>1, <2>3, <2>5, MoveKeepsWhole DEF x, y
<1>9. QED
  BY <1>5, <1>6, <1>7, <1>8

(* A task is begun: what it holds has its place in the walk.               *)
LEMMA BeginWhole ==
    ASSUME JoinOK, Whole, NEW k \in DOMAIN tasks, Begin(k)
    PROVE  Whole'
<1> DEFINE y == WalkRec("visit", tasks[k], <<>>, EmptyBag, 0)
<1>1. /\ phase = "running" /\ phase' = phase /\ trees' = trees /\ query' = query
      /\ tasks' = tasks /\ answer' = answer
  BY DEF Begin, input_vars
<1>2. /\ JoinOK' /\ k \in waiting /\ waiting' = waiting \ {k}
      /\ DOMAIN walks' = DOMAIN walks \cup {k}
      /\ \A j \in DOMAIN walks : j # k /\ walks'[j] = walks[j]
      /\ walks'[k] = y
  BY BeginOK
<1>3. IsABag(answer) /\ Apart /\ Ledger
  BY <1>1 DEF Whole
<1>4. k \notin DOMAIN walks
  BY <1>2
<1>5. /\ \A n, i, j : AtPlace(trees, y, n, i, j) <=>
                         n = 0 /\ HoldsIn(trees, tasks[k], i, j)
      /\ \A i, j : InWalk(trees, y, i, j) <=> HoldsIn(trees, tasks[k], i, j)
      /\ OncePlaced(trees, y)
  <2>1. y.pc = "visit" /\ y.work = tasks[k] /\ y.stack = <<>>
    BY DEF WalkRec
  <2> HIDE DEF y
  <2>2. \A n : n \in Places(y) <=> n = 0
    <3>1. Len(y.stack) = 0
      BY <2>1
    <3>2. 0 .. Len(y.stack) = {0}
      BY <3>1
    <3>3. QED
      BY <2>1, <3>2 DEF Places
  <2>3. \A n, i, j : AtPlace(trees, y, n, i, j) => n = 0
    BY <2>2 DEF AtPlace
  <2>4. \A i, j : AtPlace(trees, y, 0, i, j) <=> HoldsIn(trees, tasks[k], i, j)
    BY <2>1, <2>2, PlaceOfWork
  <2>5. QED
    BY <2>3, <2>4 DEF InWalk, OncePlaced
<1> HIDE DEF y
<1>6. \A l, i, j : Owns(l, i, j)' <=> Owns(l, i, j)
  <2>1. TAKE l, i, j
  <2>2. CASE l = k
    <3>1. Owns(k, i, j) <=> HoldsIn(trees, tasks[k], i, j)
      BY <1>1, <1>2, <1>4 DEF Owns, UnbegunTasks
    <3>2. Owns(k, i, j)' <=> InWalk(trees, y, i, j)
      BY <1>1, <1>2 DEF Owns
    <3>3. QED
      BY <2>2, <3>1, <3>2, <1>5
  <2>3. CASE l # k
    BY <2>3, <1>1, <1>2 DEF Owns, UnbegunTasks
  <2>4. QED
    BY <2>2, <2>3
<1>7. Apart'
  <2>1. \A i, j : \A m, l : Owns(m, i, j)' /\ Owns(l, i, j)' => m = l
    BY <1>3, <1>6 DEF Apart
  <2>2. \A l \in DOMAIN walks' : OncePlaced(trees', walks'[l])
    BY <1>1, <1>2, <1>3, <1>5 DEF Apart
  <2>3. QED
    BY <2>1, <2>2 DEF Apart
<1>8. OpenPairs' = OpenPairs
  <2>1. Matches' = Matches
    BY <1>1 DEF Matches, AllPairs, Entry
  <2>2. \A i, j : IsOpen(i, j)' <=> IsOpen(i, j)
    BY <1>6 DEF IsOpen
  <2>3. QED
    BY <2>1, <2>2 DEF OpenPairs
<1>9. Counted' = Counted /\ \A p : Sunk(p)' = Sunk(p)
  <2>1. y.sink = EmptyBag /\ y.counted = 0
    BY DEF WalkRec, y
  <2>2. IsFiniteSet(DOMAIN walks)
    BY FewWalks
  <2>3. Counted' = Counted
    <3> DEFINE f == [j \in DOMAIN walks |-> walks[j].counted]
               g == [j \in DOMAIN walks' |-> walks'[j].counted]
    <3>1. f \in [DOMAIN walks -> Nat]
      BY FewWalks
    <3>2. \A d \in DOMAIN walks : g[d] = f[d] /\ f[d] \in Nat
      BY <1>2, <3>1
    <3>3. g[k] = 0
      BY <1>2, <2>1
    <3>4. g \in [DOMAIN walks \cup {k} -> Nat]
      BY <1>2, <3>2, <3>3
    <3>5. Counted = SumFunction(f) /\ Counted' = SumFunction(g)
      BY DEF Counted
    <3> HIDE DEF f, g
    <3>6. QED
      BY <1>4, <2>2, <3>1, <3>2, <3>3, <3>4, <3>5, SumExtends
  <2>4. ASSUME NEW p PROVE Sunk(p)' = Sunk(p)
    <3> DEFINE f == [j \in DOMAIN walks |-> Copies(p, walks[j].sink)]
               g == [j \in DOMAIN walks' |-> Copies(p, walks'[j].sink)]
    <3>1. f \in [DOMAIN walks -> Nat]
      BY FewWalks
    <3>2. \A d \in DOMAIN walks : g[d] = f[d] /\ f[d] \in Nat
      BY <1>2, <3>1
    <3>3. g[k] = 0
      BY <1>2, <2>1, EmptySinkBag, CopiesOfMore
    <3>4. g \in [DOMAIN walks \cup {k} -> Nat]
      BY <1>2, <3>2, <3>3
    <3>5. Sunk(p) = SumFunction(f) /\ Sunk(p)' = SumFunction(g)
      BY DEF Sunk
    <3> HIDE DEF f, g
    <3>6. QED
      BY <1>4, <2>2, <3>1, <3>2, <3>3, <3>4, <3>5, SumExtends
  <2>5. QED
    BY <2>3, <2>4
<1>10. Ledger'
  BY <1>1, <1>3, <1>8, <1>9, LedgerStays
<1>11. QED
  BY <1>1, <1>3, <1>7, <1>10 DEF Whole

(* What is accepted as a whole is within the radius, all of it. *)
LEMMA AcceptedMatch ==
    ASSUME JoinOK, NEW w, Sound(trees, w), IsAccepted(w), NEW x \in HeldBy(w)
    PROVE  MatchIn(trees, query, x[1], x[2])
<1> DEFINE i == x[1]
           j == x[2]
           p == trees["left"].points[i]
           q == trees["right"].points[j]
           b == w.bounds
           u == Upper(b, query.metric)
           e == EntryDist(trees, query.metric, i, j)
<1>1. BuiltTrees(trees) /\ query.radius \in Nat
  BY InputParts DEF JoinOK
<1>2. HoldsIn(trees, w, i, j)
  BY DEF HeldBy
<1>3. /\ i \in DOMAIN trees["left"].points /\ j \in DOMAIN trees["right"].points
      /\ p \in [Dims -> Int] /\ q \in [Dims -> Int] /\ b \in Box
      /\ Within(p, b["left"]) /\ Within(q, b["right"])
  BY <1>1, <1>2, HeldIsThere
<1>4. e = PointDist(query.metric, p, q)
  BY DEF EntryDist
<1>5. e <= Infinity
  <2>1. PICK c \in Calls : trees = c.trees /\ query = c.query
    BY DEF JoinOK, InputOK
  <2>2. \A m \in DOMAIN c.trees.left.points, n \in DOMAIN c.trees.right.points :
           EntryDist(c.trees, c.query.metric, m, n) <= Infinity
    BY <2>1, DistancesAssumption
  <2>3. QED
    BY <2>1, <2>2, <1>3
<1>6. IF query.exclusive THEN u < query.radius ELSE u <= query.radius
  BY DEF IsAccepted, Accepts
<1> HIDE DEF i, j, p, q, b
<1>7. u \in Nat /\ (u = Infinity \/ PointDist(query.metric, p, q) <= u)
  BY <1>3, UpperIsAbove
<1>8. e \in Nat
  BY <1>3, <1>4, PointDistType
<1>9. e <= u
  BY <1>4, <1>5, <1>7
<1> HIDE DEF u, e
<1>10. IF query.exclusive THEN e < query.radius ELSE e <= query.radius
  BY <1>1, <1>6, <1>7, <1>8, <1>9
<1>11. QED
  BY <1>3, <1>10 DEF MatchIn, Accepts, e, i, j

(* A walk hands over all it has at its work. *)
LEMMA OpenIsFound ==
    ASSUME JoinOK, phase = "running", phase' = phase, Apart,
           UNCHANGED <<trees, query, tasks, waiting>>, NEW k \in DOMAIN walks,
           walks[k].pc = "visit", NEW sink, NEW m,
           walks' = [walks EXCEPT ![k] =
                        WalkRec("pop", walks[k].work, walks[k].stack, sink, m)],
           NEW F, F = {ij \in HeldBy(walks[k].work) : MatchIn(trees, query, ij[1], ij[2])}
    PROVE  /\ Apart' /\ F \subseteq OpenPairs
           /\ Matches' = Matches /\ Closed' = Closed \cup F
<1> DEFINE x == walks[k]
           y == WalkRec("pop", x.work, x.stack, sink, m)
<1>1. WalkOK(trees, x)
  BY DEF JoinOK, WalksOK
<1>2. /\ \A n, i, j : AtPlace(trees, y, n, i, j) <=>
                         n # 0 /\ AtPlace(trees, x, n, i, j)
      /\ Hands(trees, x, y)
  <2> HIDE DEF x
  <2>1. QED
    BY <1>1, PlacesStop
<1>3. /\ DOMAIN walks' = DOMAIN walks /\ walks'[k] = y
      /\ \A j \in DOMAIN walks : j # k => walks'[j] = walks[j]
  <2> HIDE DEF y
  <2>1. walks' = [walks EXCEPT ![k] = y]
    BY DEF y
  <2>2. QED
    BY <2>1
<1> HIDE DEF y
<1>4. Hands(trees, walks[k], walks'[k])
  BY <1>2, <1>3
<1>5. /\ Apart'
      /\ \A l, i, j : l # k => (Owns(l, i, j)' <=> Owns(l, i, j))
      /\ \A i, j : Owns(k, i, j) <=> InWalk(trees, x, i, j)
      /\ \A i, j : Owns(k, i, j)' <=> InWalk(trees, y, i, j)
      /\ \A l, i, j : Owns(l, i, j)' => Owns(l, i, j)
  <2>1. QED
    BY <1>3, <1>4, OwnersMove
<1>6. F \subseteq Matches
  BY DEF HeldBy, Matches
<1>7. ASSUME NEW i, NEW j
      PROVE  AtPlace(trees, x, 0, i, j) <=> HoldsIn(trees, x.work, i, j)
  <2>1. 0 \in Places(x)
    <3>1. Len(x.stack) \in Nat
      BY <1>1, WalkParts, LenProperties
    <3>2. QED
      BY <3>1 DEF Places
  <2>2. QED
    BY <2>1, PlaceOfWork
<1>8. \A z \in Matches : z \in F <=> AtPlace(trees, x, 0, z[1], z[2])
  BY <1>7 DEF HeldBy, Matches
<1>9. F \subseteq OpenPairs
  <2>1. SUFFICES ASSUME NEW z \in F PROVE z \in OpenPairs
    OBVIOUS
  <2>2. AtPlace(trees, x, 0, z[1], z[2]) /\ z \in Matches
    BY <2>1, <1>6, <1>8
  <2>3. InWalk(trees, x, z[1], z[2])
    BY <2>2 DEF InWalk
  <2>4. IsOpen(z[1], z[2])
    BY <2>3, <1>5 DEF IsOpen
  <2>5. QED
    BY <2>2, <2>4 DEF OpenPairs
<1>10. Matches' = Matches
  BY DEF Matches, AllPairs, Entry
<1>11. ASSUME NEW z \in Matches
       PROVE  IsOpen(z[1], z[2])' <=> IsOpen(z[1], z[2]) /\ z \notin F
  <2>1. ASSUME IsOpen(z[1], z[2])' PROVE IsOpen(z[1], z[2]) /\ z \notin F
    <3>1. PICK l : Owns(l, z[1], z[2])'
      BY <2>1 DEF IsOpen
    <3>2. Owns(l, z[1], z[2])
      BY <3>1, <1>5
    <3>3. ASSUME z \in F PROVE FALSE
      <4>1. AtPlace(trees, x, 0, z[1], z[2])
        BY <3>3, <1>8
      <4>2. Owns(k, z[1], z[2])
        BY <4>1, <1>5 DEF InWalk
      <4>3. l = k
        BY <3>2, <4>2 DEF Apart
      <4>4. PICK n : AtPlace(trees, y, n, z[1], z[2])
        BY <3>1, <4>3, <1>5 DEF InWalk
      <4>5. n # 0 /\ AtPlace(trees, x, n, z[1], z[2])
        BY <4>4, <1>2
      <4>6. OncePlaced(trees, x)
        BY DEF Apart
      <4>7. QED
        BY <4>1, <4>5, <4>6 DEF OncePlaced
    <3>4. QED
      BY <3>2, <3>3 DEF IsOpen
  <2>2. ASSUME IsOpen(z[1], z[2]), z \notin F PROVE IsOpen(z[1], z[2])'
    <3>1. PICK l : Owns(l, z[1], z[2])
      BY <2>2 DEF IsOpen
    <3>2. CASE l # k
      BY <3>1, <3>2, <1>5 DEF IsOpen
    <3>3. CASE l = k
      <4>1. PICK n : AtPlace(trees, x, n, z[1], z[2])
        BY <3>1, <3>3, <1>5 DEF InWalk
      <4>2. n # 0
        BY <4>1, <1>8, <2>2
      <4>3. InWalk(trees, y, z[1], z[2])
        BY <4>1, <4>2, <1>2 DEF InWalk
      <4>4. Owns(k, z[1], z[2])'
        BY <4>3, <1>5
      <4>5. QED
        BY <4>4 DEF IsOpen
    <3>4. QED
      BY <3>2, <3>3
  <2>3. QED
    BY <2>1, <2>2
<1>12. OpenPairs' = OpenPairs \ F
  BY <1>10, <1>11 DEF OpenPairs
<1>13. Closed' = Closed \cup F
  BY <1>6, <1>9, <1>10, <1>12 DEF Closed
<1>14. QED
  BY <1>5, <1>9, <1>10, <1>13

(* The ledger after a step that found F, for each kind of query.           *)
LEMMA FoundInLedger ==
    ASSUME JoinOK, Whole, phase = "running", phase' = phase,
           UNCHANGED <<trees, query, tasks, waiting>>, NEW k \in DOMAIN walks,
           walks[k].pc = "visit", NEW sink, NEW m,
           walks' = [walks EXCEPT ![k] =
                        WalkRec("pop", walks[k].work, walks[k].stack, sink, m)],
           NEW F, F = {ij \in HeldBy(walks[k].work) : MatchIn(trees, query, ij[1], ij[2])},
           IsABag(answer'),
           query.terminal = "count" =>
              m = walks[k].counted + Cardinality(F),
           query.terminal # "count" =>
              \/ sink = walks[k].sink (+) Found(F) /\ answer' = answer
              \/ sink = walks[k].sink /\ answer' = answer (+) Found(F)
    PROVE  Whole'
<1> DEFINE x == walks[k]
           y == WalkRec("pop", x.work, x.stack, sink, m)
<1>1. IsABag(answer) /\ Apart /\ Ledger
  BY DEF Whole
<1>2. /\ Apart' /\ F \subseteq OpenPairs
      /\ Matches' = Matches /\ Closed' = Closed \cup F
  BY <1>1, OpenIsFound
<1>3. BuiltTrees(trees) /\ WalkOK(trees, x)
  BY InputParts DEF JoinOK, WalksOK
<1>4. x.counted \in Nat /\ IsABag(x.sink)
  BY <1>3, WalkParts
<1>5. /\ Closed \subseteq AllPairs /\ F \subseteq AllPairs /\ Closed \cap F = {}
      /\ IsFiniteSet(Closed) /\ IsFiniteSet(F)
  <2>1. Closed \subseteq AllPairs /\ F \subseteq AllPairs /\ Closed \cap F = {}
    BY <1>2 DEF Closed, OpenPairs, Matches
  <2>2. QED
    BY <1>3, <2>1, HeldIsFinite
<1>6. /\ DOMAIN walks' = DOMAIN walks /\ walks'[k] = y
      /\ \A j \in DOMAIN walks : j # k => walks'[j] = walks[j]
  <2> HIDE DEF y
  <2>1. walks' = [walks EXCEPT ![k] = y]
    BY DEF y
  <2>2. QED
    BY <2>1
<1>7. y.sink = sink /\ y.counted = m
  BY DEF WalkRec
<1> HIDE DEF y
<1>8. IsFiniteSet(DOMAIN walks)
  BY FewWalks
<1>9. CASE query.terminal = "count"
  <2> DEFINE f == [j \in DOMAIN walks |-> walks[j].counted]
             g == [j \in DOMAIN walks' |-> walks'[j].counted]
  <2>1. f \in [DOMAIN walks -> Nat]
    BY FewWalks
  <2>2. m = x.counted + Cardinality(F) /\ Cardinality(F) \in Nat
    BY <1>5, <1>9, FS_CardinalityType
  <2>3. m \in Nat /\ f[k] = x.counted /\ g[k] = m
    BY <1>4, <1>6, <1>7, <2>2
  <2>4. \A d \in DOMAIN walks : (d # k => g[d] = f[d]) /\ f[d] \in Nat
    BY <1>6, <2>1
  <2>5. g \in [DOMAIN walks -> Nat]
    BY <1>6, <2>3, <2>4
  <2>6. Counted = SumFunction(f) /\ Counted' = SumFunction(g)
    BY DEF Counted
  <2> HIDE DEF f, g, x
  <2>7. /\ Counted \in Nat /\ Counted' \in Nat
        /\ Counted' + f[k] = Counted + g[k]
    BY <1>8, <2>1, <2>4, <2>5, <2>6, SumChanges
  <2>8. Counted' = Counted + Cardinality(F)
    BY <2>2, <2>3, <2>7, <1>4
  <2>9. Cardinality(Closed \cup F) = Cardinality(Closed) + Cardinality(F)
    BY <1>5, DisjointCount
  <2>10. Counted = Cardinality(Closed)
    BY <1>1, <1>9 DEF Ledger
  <2>11. Ledger'
    BY <1>2, <1>9, <2>8, <2>9, <2>10 DEF Ledger
  <2>12. QED
    BY <1>2, <2>11 DEF Whole
<1>10. CASE query.terminal # "count"
  <2>1. ASSUME NEW z \in AllPairs
        PROVE  HasBeenFound(z[1], z[2])' = IF z \in Closed' THEN 1 ELSE 0
    <3> DEFINE p == PairOf(z[1], z[2])
               f == [j \in DOMAIN walks |-> Copies(p, walks[j].sink)]
               g == [j \in DOMAIN walks' |-> Copies(p, walks'[j].sink)]
               one == IF z \in F THEN 1 ELSE 0
    <3>1. z = <<z[1], z[2]>>
      BY DEF AllPairs
    <3>2. HasBeenFound(z[1], z[2]) = Copies(p, answer) + SumFunction(f)
      BY DEF HasBeenFound
    <3>3. HasBeenFound(z[1], z[2])' = Copies(p, answer') + SumFunction(g)
      <4>1. PairOf(z[1], z[2])' = p
        BY DEF PairOf, Distances
      <4> HIDE DEF p
      <4>2. QED
        BY <4>1 DEF HasBeenFound
    <3>4. /\ Copies(p, x.sink) \in Nat
          /\ Copies(p, x.sink (+) Found(F)) = Copies(p, x.sink) + one
          /\ Copies(p, answer) \in Nat
          /\ Copies(p, answer (+) Found(F)) = Copies(p, answer) + one
      BY <1>1, <1>4, <1>5, <3>1, CopiesFound
    <3>5. f \in [DOMAIN walks -> Nat]
      BY FewWalks
    <3>6. f[k] = Copies(p, x.sink) /\ g[k] = Copies(p, sink)
      BY <1>6, <1>7
    <3> HIDE DEF p
    <3>7. \A d \in DOMAIN walks : (d # k => g[d] = f[d]) /\ f[d] \in Nat
      BY <1>6, <3>5
    <3>8. one \in {0, 1}
      OBVIOUS
    <3> HIDE DEF x
    <3>9. g[k] \in Nat
      <4>1. sink = x.sink (+) Found(F) \/ sink = x.sink
        BY <1>10 DEF x
      <4>2. Copies(p, sink) = Copies(p, x.sink) + one \/ Copies(p, sink) = Copies(p, x.sink)
        BY <4>1, <3>4
      <4> HIDE DEF one
      <4>3. Copies(p, sink) \in Nat
        BY <4>2, <3>4, <3>8
      <4>4. QED
        BY <4>3, <3>6
    <3>10. g \in [DOMAIN walks -> Nat]
      BY <1>6, <3>7, <3>9
    <3> HIDE DEF f, g
    <3>11. /\ SumFunction(f) \in Nat /\ SumFunction(g) \in Nat
           /\ SumFunction(g) + f[k] = SumFunction(f) + g[k]
      BY <1>8, <3>5, <3>7, <3>10, SumChanges
    <3>12. HasBeenFound(z[1], z[2])' = HasBeenFound(z[1], z[2]) + one
      <4>1. CASE sink = walks[k].sink (+) Found(F) /\ answer' = answer
        <5>1. g[k] = f[k] + one
          BY <4>1, <3>4, <3>6 DEF x
        <5>2. f[k] \in Nat
          BY <3>4, <3>6
        <5> HIDE DEF one
        <5>3. SumFunction(g) = SumFunction(f) + one
          BY <5>1, <5>2, <3>8, <3>11
        <5>4. QED
          BY <4>1, <5>3, <3>2, <3>3, <3>4, <3>8, <3>11
      <4>2. CASE sink = walks[k].sink /\ answer' = answer (+) Found(F)
        <5>1. g[k] = f[k]
          BY <4>2, <3>6 DEF x
        <5>2. f[k] \in Nat
          BY <3>4, <3>6
        <5> HIDE DEF one
        <5>3. SumFunction(g) = SumFunction(f)
          BY <5>1, <5>2, <3>11
        <5>4. QED
          BY <4>2, <5>3, <3>2, <3>3, <3>4, <3>8, <3>11
      <4>3. QED
        BY <1>10, <4>1, <4>2
    <3>13. HasBeenFound(z[1], z[2]) = IF z \in Closed THEN 1 ELSE 0
      BY <1>1, <1>10 DEF Ledger
    <3>14. QED
      BY <3>12, <3>13, <1>2, <1>5
  <2>2. AllPairs' = AllPairs
    BY DEF AllPairs, Entry
  <2>3. Ledger'
    BY <1>10, <2>1, <2>2 DEF Ledger
  <2>4. QED
    BY <1>2, <2>3 DEF Whole
<1>11. QED
  BY <1>9, <1>10

(* A subtree pair taken whole or row by row gives the pairs that match.    *)
LEMMA FindsMatches ==
    ASSUME JoinOK, NEW k, Bulk(k) \/ LeafPair(k)
    PROVE  /\ k \in DOMAIN walks /\ phase = "running" /\ walks[k].pc = "visit"
           /\ Emit(k, {ij \in HeldBy(walks[k].work) : MatchIn(trees, query, ij[1], ij[2])})
           /\ UNCHANGED <<trees, query, tasks, waiting>>
<1> DEFINE x == walks[k]
           w == x.work
           F == {ij \in HeldBy(w) : MatchIn(trees, query, ij[1], ij[2])}
<1>1. /\ k \in DOMAIN walks /\ phase = "running" /\ x.pc = "visit"
      /\ Sound(trees, w)
      /\ Bulk(k) => IsAccepted(w) /\ Emit(k, HeldBy(w))
      /\ ~Bulk(k) => Emit(k, F)
  BY FindsOK
<1>2. Emit(k, F)
  <2>1. CASE Bulk(k)
    <3>1. IsAccepted(w)
      BY <1>1, <2>1
    <3> HIDE DEF w
    <3>2. \A z \in HeldBy(w) : MatchIn(trees, query, z[1], z[2])
      BY <1>1, <3>1, AcceptedMatch
    <3>3. F = HeldBy(w)
      BY <3>2
    <3>4. QED
      BY <1>1, <2>1, <3>3
  <2>2. QED
    BY <1>1, <2>1
<1>3. UNCHANGED <<trees, query, tasks, waiting>>
  <2>1. UNCHANGED Rest
    BY <1>2 DEF Emit
  <2>2. QED
    BY <2>1, RestParts
<1>4. QED
  BY <1>1, <1>2, <1>3

LEMMA FindsWhole ==
    ASSUME JoinOK, Whole, NEW k, Bulk(k) \/ LeafPair(k)
    PROVE  Whole'
<1> DEFINE x == walks[k]
           w == x.work
           F == {ij \in HeldBy(w) : MatchIn(trees, query, ij[1], ij[2])}
           n == x.counted + Cardinality(F)
<1>1. /\ k \in DOMAIN walks /\ phase = "running" /\ x.pc = "visit"
      /\ Emit(k, F)
      /\ UNCHANGED <<trees, query, tasks, waiting>>
  BY FindsMatches
<1> HIDE DEF F
<1>4. \/ /\ query.terminal = "execute" /\ phase' = phase /\ answer' = answer
         /\ walks' = [walks EXCEPT ![k] =
               WalkRec("pop", x.work, x.stack, x.sink (+) Found(F), x.counted)]
      \/ /\ query.terminal = "for_each" /\ phase' = phase
         /\ answer' = answer (+) Found(F)
         /\ walks' = [walks EXCEPT ![k] =
               WalkRec("pop", x.work, x.stack, x.sink, x.counted)]
      \/ /\ query.terminal = "count" /\ phase' = phase /\ answer' = answer
         /\ n <= MaxCount
         /\ walks' = [walks EXCEPT ![k] =
               WalkRec("pop", x.work, x.stack, x.sink, n)]
      \/ /\ query.terminal = "count" /\ phase' = "panicked" /\ n > MaxCount
         /\ walks' = walks /\ answer' = answer
  BY <1>1, EmitReads
<1>5. IsABag(answer) /\ IsABag(answer (+) Found(F))
  <2>1. IsABag(answer)
    BY <1>1 DEF Whole
  <2>2. QED
    BY <2>1, FoundAreBags DEF Found
<1>6. F = {ij \in HeldBy(walks[k].work) : MatchIn(trees, query, ij[1], ij[2])}
  BY DEF F
<1>7. CASE phase' = "panicked"
  BY <1>7 DEF Whole
<1>8. CASE phase' = phase
  <2>1. \E sink, m :
           /\ walks' = [walks EXCEPT ![k] =
                 WalkRec("pop", walks[k].work, walks[k].stack, sink, m)]
           /\ IsABag(answer')
           /\ query.terminal = "count" => m = walks[k].counted + Cardinality(F)
           /\ query.terminal # "count" =>
                 \/ sink = walks[k].sink (+) Found(F) /\ answer' = answer
                 \/ sink = walks[k].sink /\ answer' = answer (+) Found(F)
    BY <1>1, <1>4, <1>5, <1>8
  <2>2. PICK sink, m :
           /\ walks' = [walks EXCEPT ![k] =
                 WalkRec("pop", walks[k].work, walks[k].stack, sink, m)]
           /\ IsABag(answer')
           /\ query.terminal = "count" => m = walks[k].counted + Cardinality(F)
           /\ query.terminal # "count" =>
                 \/ sink = walks[k].sink (+) Found(F) /\ answer' = answer
                 \/ sink = walks[k].sink /\ answer' = answer (+) Found(F)
    BY <2>1
  <2>3. QED
    BY <1>1, <1>6, <1>8, <2>2, FoundInLedger
<1>9. QED
  BY <1>1, <1>4, <1>7, <1>8

(* Before a walk has begun nothing is counted or in a sink.                *)
LEMMA NoWalks ==
    ASSUME JoinOK, DOMAIN walks = {}
    PROVE  Counted = 0 /\ \A p : Sunk(p) = 0
<1>1. /\ IsFiniteSet(DOMAIN walks)
      /\ [k \in DOMAIN walks |-> walks[k].counted] \in [DOMAIN walks -> Nat]
      /\ \A p : [k \in DOMAIN walks |-> Copies(p, walks[k].sink)] \in [DOMAIN walks -> Nat]
  BY FewWalks
<1>2. ASSUME NEW f \in [DOMAIN walks -> Nat] PROVE SumFunction(f) = 0
  <2>1. \A d \in DOMAIN walks : f[d] = 0
    OBVIOUS
  <2>2. QED
    BY <1>1, <2>1, SumOfZeros
<1>3. Counted = 0
  BY <1>1, <1>2 DEF Counted
<1>4. ASSUME NEW p PROVE Sunk(p) = 0
  BY <1>1, <1>2 DEF Sunk
<1>5. QED
  BY <1>3, <1>4

(* In the frontier every pair is with a task.                              *)
LEMMA FrontierOwns ==
    ASSUME JoinOK, phase = "frontier"
    PROVE  \A k, i, j : Owns(k, i, j) <=>
                           k \in DOMAIN tasks /\ HoldsIn(trees, tasks[k], i, j)
<1>1. DOMAIN walks = {}
  BY DEF JoinOK, PhaseOK
<1>2. QED
  BY <1>1 DEF Owns, UnbegunTasks

LEMMA StartWhole ==
    ASSUME JoinOK, Join
    PROVE  Whole'
<1> DEFINE w == RootWork(trees)
<1>1. /\ phase = "idle" /\ phase' = "frontier" /\ tasks' = <<w>>
      /\ trees' = trees /\ query' = query /\ walks' = walks /\ answer' = answer
  BY DEF Join, input_vars
<1>2. DOMAIN walks = {} /\ answer = EmptyBag
  BY <1>1 DEF JoinOK, PhaseOK
<1>3. BuiltTrees(trees)
  BY InputParts DEF JoinOK
<1>4. \A k, i, j : Owns(k, i, j)' <=> k = 1 /\ HoldsIn(trees, w, i, j)
  <2> HIDE DEF w
  <2>1. DOMAIN tasks' = {1} /\ tasks'[1] = w
    BY <1>1
  <2>2. UnbegunTasks' = {1} /\ DOMAIN walks' = {}
    BY <1>1, <1>2, <2>1 DEF UnbegunTasks
  <2>3. QED
    BY <1>1, <2>1, <2>2 DEF Owns
<1>5. Apart'
  BY <1>1, <1>2, <1>4 DEF Apart
<1>6. OpenPairs' = Matches'
  <2>1. SUFFICES ASSUME NEW x \in Matches' PROVE IsOpen(x[1], x[2])'
    BY DEF OpenPairs
  <2>2. x[1] \in DOMAIN trees["left"].points /\ x[2] \in DOMAIN trees["right"].points
    BY <1>1 DEF Matches, MatchIn
  <2>3. HoldsIn(trees, w, x[1], x[2])
    BY <1>3, <2>2, RootHolds
  <2>4. Owns(1, x[1], x[2])'
    BY <1>4, <2>3
  <2>5. QED
    BY <2>4 DEF IsOpen
<1>7. Closed' = {}
  BY <1>6 DEF Closed
<1>8. Counted' = 0 /\ \A p : Sunk(p)' = 0
  <2>1. Counted' = Counted /\ \A p : Sunk(p)' = Sunk(p)
    BY <1>1, SumsStay
  <2>2. QED
    BY <1>2, <2>1, NoWalks
<1>9. Ledger'
  <2>1. Cardinality({}) = 0
    BY FS_EmptySet
  <2>2. ASSUME NEW i, NEW j PROVE HasBeenFound(i, j)' = 0
    <3>1. HasBeenFound(i, j)' = Copies(PairOf(i, j)', answer') + Sunk(PairOf(i, j))'
      BY DEF HasBeenFound, Sunk
    <3>2. \A p : Copies(p, EmptyBag) = 0
      BY EmptySinkBag, CopiesOfMore
    <3>3. QED
      BY <1>1, <1>2, <1>8, <3>1, <3>2
  <2>3. QED
    BY <1>7, <1>8, <2>1, <2>2 DEF Ledger
<1>10. IsABag(answer')
  BY <1>1, <1>2, EmptySinkBag
<1>11. QED
  BY <1>5, <1>9, <1>10 DEF Whole

LEMMA FrontierDoneWhole ==
    ASSUME JoinOK, Whole, FrontierDone
    PROVE  Whole'
<1>1. /\ phase = "frontier" /\ phase' = "running" /\ waiting' = DOMAIN tasks
      /\ trees' = trees /\ query' = query /\ tasks' = tasks /\ walks' = walks
      /\ answer' = answer
  BY DEF FrontierDone, input_vars
<1>2. IsABag(answer) /\ Apart /\ Ledger
  BY <1>1 DEF Whole
<1>3. UnbegunTasks' = UnbegunTasks
  BY <1>1 DEF UnbegunTasks
<1>4. \A k, i, j : Owns(k, i, j)' <=> Owns(k, i, j)
  BY <1>1, <1>3 DEF Owns
<1>5. Apart'
  BY <1>1, <1>2, <1>4 DEF Apart
<1>6. OpenPairs' = OpenPairs
  <2>1. Matches' = Matches
    BY <1>1 DEF Matches, AllPairs, Entry
  <2>2. \A i, j : IsOpen(i, j)' <=> IsOpen(i, j)
    BY <1>4 DEF IsOpen
  <2>3. QED
    BY <2>1, <2>2 DEF OpenPairs
<1>7. Counted' = Counted /\ \A p : Sunk(p)' = Sunk(p)
  BY <1>1, SumsStay
<1>8. Ledger'
  BY <1>1, <1>2, <1>6, <1>7, LedgerStays
<1>9. QED
  BY <1>1, <1>2, <1>5, <1>8 DEF Whole

(* A task of the frontier is cut: where those after it come from.          *)
LEMMA CutWhole ==
    ASSUME JoinOK, Whole, CutFrontier
    PROVE  Whole'
<1> DEFINE n == Len(tasks)
<1>1. /\ phase = "frontier" /\ phase' = phase
      /\ UNCHANGED <<trees, query, executor, waiting, walks, answer, total>>
  BY CutReads
<1>2. PICK k \in DOMAIN tasks, h \in Nat : \E hs \in [1 .. h -> Works] :
         tasks' = SwapRemoved(tasks, k) \o hs /\ HandedOn(tasks[k], hs)
  BY CutReads
<1>3. PICK hs \in [1 .. h -> Works] :
         tasks' = SwapRemoved(tasks, k) \o hs /\ HandedOn(tasks[k], hs)
  BY <1>2
<1>4. /\ n \in Nat \ {0} /\ k \in 1 .. n /\ DOMAIN tasks = 1 .. n
      /\ DOMAIN tasks' = 1 .. (n - 1) + h
      /\ \A j \in 1 .. n - 1 : tasks'[j] = IF j = k THEN tasks[n] ELSE tasks[j]
      /\ \A j \in 1 .. h : tasks'[(n - 1) + j] = hs[j]
  <2>1. tasks \in Seq(Works)
    BY DEF JoinOK, TasksOK
  <2>2. IsCut(tasks, k, h, hs, SwapRemoved(tasks, k) \o hs)
    BY <2>1, CutParts
  <2>3. IsCut(tasks, k, h, hs, tasks')
    BY <1>3, <2>2
  <2>4. QED
    BY <2>3 DEF IsCut
<1> HIDE DEF n
<1> DEFINE src(m) == IF m <= n - 1 THEN (IF m = k THEN n ELSE m) ELSE k
           T(m, i, j)  == m \in DOMAIN tasks /\ HoldsIn(trees, tasks[m], i, j)
           U(m, i, j)  == m \in DOMAIN tasks' /\ HoldsIn(trees, tasks'[m], i, j)
<1>5. \A m, i, j : Owns(m, i, j) <=> T(m, i, j)
  BY <1>1, FrontierOwns
<1>6. \A m, i, j : Owns(m, i, j)' <=> U(m, i, j)
  <2>1. DOMAIN walks' = {} /\ UnbegunTasks' = DOMAIN tasks'
    BY <1>1 DEF JoinOK, PhaseOK, UnbegunTasks
  <2>2. QED
    BY <1>1, <2>1 DEF Owns
<1>7. /\ \A i, j : \A m \in 1 .. h : HoldsIn(trees, hs[m], i, j) =>
                                        HoldsIn(trees, tasks[k], i, j)
      /\ \A i, j : HoldsIn(trees, tasks[k], i, j) /\ MatchIn(trees, query, i, j) =>
                      \E m \in 1 .. h : HoldsIn(trees, hs[m], i, j)
      /\ \A i, j : \A m, l \in 1 .. h :
            HoldsIn(trees, hs[m], i, j) /\ HoldsIn(trees, hs[l], i, j) => m = l
  <2>1. DOMAIN hs = 1 .. h
    OBVIOUS
  <2>2. QED
    BY <1>3, <2>1 DEF HandedOn
<1>8. ASSUME NEW m \in DOMAIN tasks', ~(m <= n - 1)
      PROVE  m - (n - 1) \in 1 .. h /\ tasks'[m] = hs[m - (n - 1)]
  <2>1. m - (n - 1) \in 1 .. h /\ (n - 1) + (m - (n - 1)) = m
    BY <1>4, <1>8
  <2>2. tasks'[(n - 1) + (m - (n - 1))] = hs[m - (n - 1)]
    BY <1>4, <2>1
  <2>3. QED
    BY <2>1, <2>2
<1>9. ASSUME NEW m, NEW i, NEW j, U(m, i, j)
      PROVE  T(src(m), i, j)
  <2>1. CASE m <= n - 1
    <3>1. m \in 1 .. n - 1 /\ src(m) \in DOMAIN tasks
      BY <1>4, <1>9, <2>1
    <3>2. tasks'[m] = tasks[src(m)]
      BY <1>4, <2>1, <3>1
    <3>3. QED
      BY <1>9, <3>1, <3>2
  <2>2. CASE ~(m <= n - 1)
    <3>1. m - (n - 1) \in 1 .. h /\ tasks'[m] = hs[m - (n - 1)]
      BY <1>8, <1>9, <2>2
    <3>2. src(m) = k
      BY <2>2
    <3>3. QED
      BY <1>7, <1>9, <3>1, <3>2
  <2>3. QED
    BY <2>1, <2>2
<1>10. ASSUME NEW i, NEW j, NEW m, NEW l, U(m, i, j), U(l, i, j)
       PROVE  m = l
  <2>1. src(m) = src(l)
    <3>1. Owns(src(m), i, j) /\ Owns(src(l), i, j)
      BY <1>5, <1>9, <1>10
    <3>2. Apart
      BY <1>1 DEF Whole
    <3> HIDE DEF src
    <3>3. QED
      BY <3>1, <3>2 DEF Apart
  <2>2. m \in 1 .. (n - 1) + h /\ l \in 1 .. (n - 1) + h
    BY <1>4, <1>10
  <2>3. CASE m <= n - 1 /\ l <= n - 1
    BY <1>4, <2>1, <2>2, <2>3
  <2>4. CASE m <= n - 1 /\ ~(l <= n - 1)
    BY <1>4, <2>1, <2>2, <2>4
  <2>5. CASE ~(m <= n - 1) /\ l <= n - 1
    BY <1>4, <2>1, <2>2, <2>5
  <2>6. CASE ~(m <= n - 1) /\ ~(l <= n - 1)
    <3>1. m - (n - 1) \in 1 .. h /\ tasks'[m] = hs[m - (n - 1)]
      BY <1>8, <1>10, <2>6
    <3>2. l - (n - 1) \in 1 .. h /\ tasks'[l] = hs[l - (n - 1)]
      BY <1>8, <1>10, <2>6
    <3>3. m - (n - 1) = l - (n - 1)
      BY <1>7, <1>10, <3>1, <3>2
    <3>4. QED
      BY <3>3, <2>2, <1>4
  <2>7. QED
    BY <2>3, <2>4, <2>5, <2>6
<1>11. Apart'
  <2>1. DOMAIN walks' = {}
    BY <1>1 DEF JoinOK, PhaseOK
  <2>2. \A i, j : \A m, l : Owns(m, i, j)' /\ Owns(l, i, j)' => m = l
    BY <1>6, <1>10
  <2>3. QED
    BY <2>1, <2>2 DEF Apart
<1>12. ASSUME NEW i, NEW j, MatchIn(trees, query, i, j), NEW m, T(m, i, j)
       PROVE  \E l : U(l, i, j)
  <2>1. CASE m = k
    <3>1. PICK l \in 1 .. h : HoldsIn(trees, hs[l], i, j)
      BY <1>7, <1>12, <2>1
    <3>2. (n - 1) + l \in DOMAIN tasks' /\ tasks'[(n - 1) + l] = hs[l]
      BY <1>4
    <3>3. U((n - 1) + l, i, j)
      BY <3>1, <3>2
    <3>4. QED
      BY <3>3
  <2>2. CASE m # k /\ m = n
    <3>1. k \in 1 .. n - 1 /\ k \in DOMAIN tasks'
      BY <1>4, <2>2
    <3>2. tasks'[k] = tasks[n]
      BY <1>4, <3>1
    <3>3. U(k, i, j)
      BY <1>12, <2>2, <3>1, <3>2
    <3>4. QED
      BY <3>3
  <2>3. CASE m # k /\ m # n
    <3>1. m \in 1 .. n - 1 /\ m \in DOMAIN tasks'
      BY <1>4, <1>12, <2>3
    <3>2. tasks'[m] = tasks[m]
      BY <1>4, <2>3, <3>1
    <3>3. U(m, i, j)
      BY <1>12, <3>1, <3>2
    <3>4. QED
      BY <3>3
  <2>4. QED
    BY <2>1, <2>2, <2>3
<1>13. ASSUME NEW i, NEW j, MatchIn(trees, query, i, j)
       PROVE  IsOpen(i, j)' <=> IsOpen(i, j)
  <2>1. (\E l : U(l, i, j)) <=> \E m : T(m, i, j)
    BY <1>9, <1>12, <1>13
  <2>2. IsOpen(i, j)' <=> \E l : U(l, i, j)
    BY <1>6 DEF IsOpen
  <2>3. IsOpen(i, j) <=> \E m : T(m, i, j)
    BY <1>5 DEF IsOpen
  <2>4. QED
    BY <2>1, <2>2, <2>3
<1>14. OpenPairs' = OpenPairs
  <2>1. Matches' = Matches
    BY <1>1 DEF Matches, AllPairs, Entry
  <2>2. \A x \in Matches : IsOpen(x[1], x[2])' <=> IsOpen(x[1], x[2])
    BY <1>13 DEF Matches
  <2>3. QED
    BY <2>1, <2>2 DEF OpenPairs
<1>15. Counted' = Counted /\ \A p : Sunk(p)' = Sunk(p)
  BY <1>1, SumsStay
<1>16. IsABag(answer) /\ Ledger
  BY <1>1 DEF Whole
<1>17. Ledger'
  BY <1>1, <1>14, <1>15, <1>16, LedgerStays
<1>18. QED
  BY <1>1, <1>11, <1>16, <1>17 DEF Whole

LEMMA WholeStep == JoinOK /\ Whole /\ [Next]_vars => Whole'
<1> SUFFICES ASSUME JoinOK, Whole, [Next]_vars PROVE Whole'
  OBVIOUS
<1>1. CASE Join
  BY <1>1, StartWhole
<1>2. CASE CutFrontier
  BY <1>2, CutWhole
<1>3. CASE FrontierDone
  BY <1>3, FrontierDoneWhole
<1>4. CASE \E k \in DOMAIN tasks : Walk(k)
  <2>1. PICK k \in DOMAIN tasks : Walk(k)
    BY <1>4
  <2>2. CASE Begin(k)
    BY <2>2, BeginWhole
  <2>3. CASE Bulk(k) \/ LeafPair(k)
    BY <2>3, FindsWhole
  <2>4. CASE Descend(k) \/ PopRestore(k) \/ PopRight(k) \/ Reject(k) \/ WalkEnds(k)
    BY <2>4, MovesWhole
  <2>5. QED
    BY <2>1, <2>2, <2>3, <2>4 DEF Walk
<1>5. CASE \/ AnswerEmpty \/ CountAll \/ Nearest \/ Return
           \/ NearestSkip \/ NearestLeaf \/ NearestDescend \/ NearestReturn
  <2>1. phase' \in {"done", "panicked", "nearest"}
    <3>1. AnswerEmpty \/ CountAll \/ Return \/ NearestReturn => phase' \in {"done", "panicked"}
      BY Zenon DEF AnswerEmpty, CountAll, Return, NearestReturn
    <3>2. Nearest => phase' = "nearest"
      BY DEF Nearest
    <3>3. NearestSkip \/ NearestLeaf \/ NearestDescend => phase' = "nearest"
      BY Zenon DEF NearestSkip, NearestLeaf, NearestDescend
    <3>4. QED
      BY <1>5, <3>1, <3>2, <3>3
  <2>2. QED
    BY <2>1 DEF Whole
<1>6. CASE UNCHANGED vars
  <2>1. /\ trees' = trees /\ query' = query /\ phase' = phase /\ tasks' = tasks
        /\ waiting' = waiting /\ walks' = walks /\ answer' = answer
    BY <1>6 DEF vars, input_vars
  <2>2. CASE phase \in {"frontier", "running"}
    <3>1. IsABag(answer) /\ Apart /\ Ledger
      BY <2>2 DEF Whole
    <3>2. \A k, i, j : Owns(k, i, j)' <=> Owns(k, i, j)
      BY <2>1 DEF Owns, UnbegunTasks
    <3>3. Apart'
      BY <2>1, <3>1, <3>2 DEF Apart
    <3>4. OpenPairs' = OpenPairs
      <4>1. Matches' = Matches
        BY <2>1 DEF Matches, AllPairs, Entry
      <4>2. \A i, j : IsOpen(i, j)' <=> IsOpen(i, j)
        BY <3>2 DEF IsOpen
      <4>3. QED
        BY <4>1, <4>2 DEF OpenPairs
    <3>5. Counted' = Counted /\ \A p : Sunk(p)' = Sunk(p)
      BY <2>1, SumsStay
    <3>6. Ledger'
      BY <2>1, <3>1, <3>4, <3>5, LedgerStays
    <3>7. QED
      BY <2>1, <3>1, <3>3, <3>6 DEF Whole
  <2>3. CASE phase \notin {"frontier", "running"}
    BY <2>1, <2>3 DEF Whole
  <2>4. QED
    BY <2>2, <2>3
<1>7. QED
  BY <1>1, <1>2, <1>3, <1>4, <1>5, <1>6 DEF Next, Execute, Work

LEMMA WholeInit == Init => Whole
  BY DEF Init, Whole

(* A pair is held by the task not begun that owns it, or is pending once   *)
(* in the walk that does.                                                  *)
LEMMA PendingIsPlaced ==
    ASSUME JoinOK, NEW k \in DOMAIN walks
    PROVE  Pending(k) = {PlaceWork(walks[k], n) : n \in Places(walks[k])}
<1> DEFINE x == walks[k]
           far(f) == [left |-> f.left, right |-> f.right, rows |-> x.work.rows]
           R == {n \in DOMAIN x.stack : x.stack[n].kind = "right"}
<1>1. WalkOK(trees, x)
  BY DEF JoinOK, WalksOK
<1>2. DOMAIN x.stack = 1 .. Len(x.stack) /\ Len(x.stack) \in Nat
  <2>1. x.stack \in Seq(Frames)
    BY <1>1, WalkParts
  <2> HIDE DEF x
  <2>2. QED
    BY <2>1, LenProperties
<1>3. Pending(k) = {far(x.stack[n]) : n \in R}
                      \cup IF x.pc # "visit" THEN {} ELSE {PlaceWork(x, 0)}
  BY DEF Pending, PlaceWork
<1> HIDE DEF x
<1>4. \A n \in R : n # 0 /\ PlaceWork(x, n) = far(x.stack[n])
  <2>1. TAKE n \in R
  <2>2. n # 0
    BY <1>2
  <2>3. QED
    BY <2>2 DEF PlaceWork
<1>5. \A n : n \in Places(x) <=> n \in R \/ (n = 0 /\ x.pc = "visit")
  <2>1. TAKE n
  <2>2. CASE n = 0
    BY <1>2, <2>2 DEF Places
  <2>3. CASE n # 0
    BY <1>2, <2>3 DEF Places
  <2>4. QED
    BY <2>2, <2>3
<1> HIDE DEF R, far
<1>6. {far(x.stack[n]) : n \in R} = {PlaceWork(x, n) : n \in R}
  BY <1>4
<1>7. CASE x.pc = "visit"
  <2>1. Places(x) = R \cup {0}
    BY <1>5, <1>7
  <2>2. QED
    BY <1>3, <1>6, <1>7, <2>1 DEF x
<1>8. CASE x.pc # "visit"
  <2>1. Places(x) = R
    BY <1>5, <1>8
  <2>2. QED
    BY <1>3, <1>6, <1>8, <2>1 DEF x
<1>9. QED
  BY <1>7, <1>8

LEMMA OpenOnce ==
    ASSUME JoinOK, Apart, NEW i, NEW j
    PROVE  ToBeFound(i, j) = IF IsOpen(i, j) THEN 1 ELSE 0
<1> DEFINE A == {k \in UnbegunTasks : Holds(tasks[k], i, j)}
           B == {kw \in UNION {{k} \X Pending(k) : k \in DOMAIN walks} :
                    Holds(kw[2], i, j)}
<1>1. ToBeFound(i, j) = Cardinality(A) + Cardinality(B)
  BY DEF ToBeFound
<1>2. UnbegunTasks \cap DOMAIN walks = {}
  BY DEF JoinOK, PhaseOK, WalksOK, UnbegunTasks
<1>3. \A k : k \in A <=> k \notin DOMAIN walks /\ Owns(k, i, j)
  BY <1>2, HoldsInTrees DEF Owns
<1>4. \A b \in B : \E k, n : /\ k \in DOMAIN walks /\ AtPlace(trees, walks[k], n, i, j)
                             /\ b = <<k, PlaceWork(walks[k], n)>>
  <2>1. TAKE b \in B
  <2>2. PICK k \in DOMAIN walks : b \in {k} \X Pending(k)
    OBVIOUS
  <2>3. b = <<k, b[2]>> /\ b[2] \in Pending(k) /\ Holds(b[2], i, j)
    BY <2>2
  <2>4. PICK n \in Places(walks[k]) : b[2] = PlaceWork(walks[k], n)
    BY <2>3, PendingIsPlaced
  <2>5. AtPlace(trees, walks[k], n, i, j)
    BY <2>3, <2>4, HoldsInTrees DEF AtPlace
  <2>6. QED
    BY <2>3, <2>4, <2>5
<1>5. \A k, n : k \in DOMAIN walks /\ AtPlace(trees, walks[k], n, i, j) =>
                   <<k, PlaceWork(walks[k], n)>> \in B
  <2>1. SUFFICES ASSUME NEW k \in DOMAIN walks, NEW n, AtPlace(trees, walks[k], n, i, j)
                 PROVE  <<k, PlaceWork(walks[k], n)>> \in B
    OBVIOUS
  <2> DEFINE w == PlaceWork(walks[k], n)
  <2>2. w \in Pending(k) /\ Holds(w, i, j)
    BY <2>1, PendingIsPlaced, HoldsInTrees DEF AtPlace
  <2> HIDE DEF w
  <2>3. <<k, w>> \in {k} \X Pending(k) /\ <<k, w>>[2] = w
    BY <2>2
  <2>4. <<k, w>> \in B
    BY <2>2, <2>3
  <2>5. QED
    BY <2>4 DEF w
<1> HIDE DEF A, B
<1>6. /\ Cardinality({}) = 0
      /\ \A x : Cardinality({x}) = 1
  BY FS_EmptySet, FS_Singleton
<1>7. \A k : k \in DOMAIN walks /\ Owns(k, i, j) =>
                \E n : AtPlace(trees, walks[k], n, i, j)
  BY DEF Owns, InWalk
<1>8. \A k, n : k \in DOMAIN walks /\ AtPlace(trees, walks[k], n, i, j) =>
                   Owns(k, i, j)
  BY DEF Owns, InWalk
<1>9. CASE ~IsOpen(i, j)
  <2>1. \A k : ~Owns(k, i, j)
    BY <1>9 DEF IsOpen
  <2>2. A = {} /\ B = {}
    BY <2>1, <1>3, <1>4, <1>8
  <2>3. QED
    BY <1>1, <1>6, <1>9, <2>2
<1>10. CASE IsOpen(i, j)
  <2>1. PICK k : Owns(k, i, j)
    BY <1>10 DEF IsOpen
  <2>2. \A l : Owns(l, i, j) => l = k
    BY <2>1 DEF Apart
  <2>3. CASE k \notin DOMAIN walks
    <3>1. A = {k} /\ B = {}
      BY <2>1, <2>2, <2>3, <1>3, <1>4, <1>8
    <3>2. Cardinality(A) = 1 /\ Cardinality(B) = 0
      BY <1>6, <3>1
    <3>3. QED
      BY <1>1, <1>10, <3>2
  <2>4. CASE k \in DOMAIN walks
    <3>1. A = {}
      BY <2>2, <2>4, <1>3
    <3>2. PICK n : AtPlace(trees, walks[k], n, i, j)
      BY <2>1, <2>4, <1>7
    <3>3. \A m : AtPlace(trees, walks[k], m, i, j) => m = n
      BY <2>4, <3>2 DEF Apart, OncePlaced
    <3>4. B = {<<k, PlaceWork(walks[k], n)>>}
      <4>1. <<k, PlaceWork(walks[k], n)>> \in B
        BY <1>5, <2>4, <3>2
      <4>2. ASSUME NEW b \in B PROVE b = <<k, PlaceWork(walks[k], n)>>
        <5>1. PICK l, m : /\ l \in DOMAIN walks /\ AtPlace(trees, walks[l], m, i, j)
                          /\ b = <<l, PlaceWork(walks[l], m)>>
          BY <1>4
        <5>2. l = k
          BY <5>1, <1>8, <2>2
        <5>3. m = n
          BY <5>1, <5>2, <3>3
        <5>4. QED
          BY <5>1, <5>2, <5>3
      <4>3. QED
        BY <4>1, <4>2
    <3>5. Cardinality(A) = 0 /\ Cardinality(B) = 1
      BY <1>6, <3>1, <3>4
    <3>6. QED
      BY <1>1, <1>10, <3>5
  <2>5. QED
    BY <2>3, <2>4
<1>11. QED
  BY <1>9, <1>10

LEMMA WholeIsOnce == JoinOK /\ Whole => EveryPairOnce
<1> SUFFICES ASSUME JoinOK, Whole, phase \in {"frontier", "running"}
             PROVE  LET all     == Entry("left") \X Entry("right")
                        matches == {x \in all : IsMatch(x[1], x[2])}
                    IN  IF query.terminal = "count"
                        THEN /\ \A x \in matches : ToBeFound(x[1], x[2]) \in {0, 1}
                             /\ Counted + Cardinality({x \in matches :
                                                          ToBeFound(x[1], x[2]) = 1})
                                   = Cardinality(matches)
                        ELSE \A x \in all :
                                IF x \in matches
                                THEN ToBeFound(x[1], x[2]) + HasBeenFound(x[1], x[2]) = 1
                                ELSE HasBeenFound(x[1], x[2]) = 0
  BY DEF EveryPairOnce
<1> DEFINE all     == Entry("left") \X Entry("right")
           matches == {x \in all : IsMatch(x[1], x[2])}
           open    == {x \in matches : ToBeFound(x[1], x[2]) = 1}
<1>1. Apart /\ Ledger
  BY DEF Whole
<1>2. all = AllPairs
  BY DEF AllPairs
<1>3. matches = Matches
  <2>1. \A x \in AllPairs : IsMatch(x[1], x[2]) <=> MatchIn(trees, query, x[1], x[2])
    BY DEF AllPairs, Entry, IsMatch, MatchIn
  <2>2. QED
    BY <1>2, <2>1 DEF Matches
<1>4. \A x \in Matches : ToBeFound(x[1], x[2]) = IF x \in OpenPairs THEN 1 ELSE 0
  BY <1>1, OpenOnce DEF OpenPairs
<1>5. OpenPairs \subseteq Matches /\ Closed = Matches \ OpenPairs /\ Closed \subseteq Matches
  BY DEF OpenPairs, Closed
<1>6. open = OpenPairs
  BY <1>3, <1>4, <1>5
<1> HIDE DEF all, matches, open
<1>7. CASE query.terminal = "count"
  <2>1. Counted = Cardinality(Closed)
    BY <1>1, <1>7 DEF Ledger
  <2>2. IsFiniteSet(Closed) /\ IsFiniteSet(OpenPairs)
    <3>1. BuiltTrees(trees)
      BY InputParts DEF JoinOK
    <3>2. Matches \in SUBSET AllPairs
      BY DEF Matches
    <3>3. Closed \in SUBSET AllPairs /\ OpenPairs \in SUBSET AllPairs
      BY <1>5, <3>2
    <3>4. QED
      BY <3>1, <3>3, HeldIsFinite
  <2>3. Closed \cup OpenPairs = Matches /\ Closed \cap OpenPairs = {}
    BY <1>5
  <2>4. Cardinality(Matches) = Cardinality(Closed) + Cardinality(OpenPairs)
    BY <2>2, <2>3, DisjointCount
  <2>5. \A x \in matches : ToBeFound(x[1], x[2]) \in {0, 1}
    BY <1>3, <1>4
  <2>6. Counted + Cardinality(open) = Cardinality(matches)
    BY <1>3, <1>6, <2>1, <2>4
  <2>7. QED
    BY <1>7, <2>5, <2>6 DEF all, matches, open
<1>8. CASE query.terminal # "count"
  <2>1. \A x \in AllPairs : HasBeenFound(x[1], x[2]) = IF x \in Closed THEN 1 ELSE 0
    BY <1>1, <1>8 DEF Ledger
  <2>2. \A x \in all : IF x \in matches
                       THEN ToBeFound(x[1], x[2]) + HasBeenFound(x[1], x[2]) = 1
                       ELSE HasBeenFound(x[1], x[2]) = 0
    BY <1>2, <1>3, <1>4, <1>5, <2>1
  <2>3. QED
    BY <1>8, <2>2 DEF all, matches
<1>9. QED
  BY <1>7, <1>8

(* However the frontier is cut and however the walks of the pool           *)
(* interleave, a pair within the radius has been handed over or counted    *)
(* once, or is in one place that will be looked at.                        *)
THEOREM EveryPairIsFoundOnce == Spec => []EveryPairOnce
<1>1. Init => JoinOK /\ Whole
  BY InitOK, WholeInit
<1>2. (JoinOK /\ Whole) /\ [Next]_vars => (JoinOK /\ Whole)'
  BY JoinOKStep, WholeStep
<1>3. QED
  BY <1>1, <1>2, WholeIsOnce, PTL DEF Spec

-----------------------------------------------------------------------------
(* The promise of PairJoin is kept.  What it says is said in the same      *)
(* words.                                                                  *)
LEMMA SameDistance ==
    ASSUME NEW tr, NEW metric, NEW i, NEW j
    PROVE  Abstract!EntryDist(tr, metric, i, j) = EntryDist(tr, metric, i, j)
<1>1. \A a, b : Abstract!Dist1(metric, a, b) = Dist1(metric, a, b)
  BY DEF Abstract!Dist1, Dist1, Abstract!AbsDiff, AbsDiff
<1>2. \A f : Abstract!Combined(metric, f) = Combined(metric, f)
  BY DEF Abstract!Combined, Combined, Abstract!Combine, Combine,
         Abstract!Greater, Greater
<1>3. [d \in Abstract!Dims |-> Abstract!Dist1(metric, tr.left.points[i][d],
                                              tr.right.points[j][d])]
         = [d \in Dims |-> Dist1(metric, tr.left.points[i][d], tr.right.points[j][d])]
  BY <1>1 DEF Dims, Abstract!Dims
<1>4. QED
  BY <1>2, <1>3 DEF EntryDist, Abstract!EntryDist, PointDist, Abstract!PointDist

LEMMA SameAccepts ==
    ASSUME NEW q, NEW d
    PROVE  Abstract!Accepts(q, d) <=> Accepts(q, d)
  BY DEF Accepts, Abstract!Accepts

LEMMA SameBags ==
    /\ Abstract!EmptyBag = EmptyBag
    /\ \A S : Abstract!SetToBag(S) = SetToBag(S)
    /\ \A S : Abstract!Cardinality(S) = Cardinality(S)
    /\ \A a, b : Abstract!\sqsubseteq(a, b) <=> a \sqsubseteq b
<1>1. Abstract!EmptyBag = EmptyBag /\ \A S : Abstract!SetToBag(S) = SetToBag(S)
  BY DEF EmptyBag, Abstract!EmptyBag, SetToBag, Abstract!SetToBag
<1>2. \A S : Abstract!Cardinality(S) = Cardinality(S)
  BY DEF Abstract!Cardinality, Cardinality
<1>3. \A a, b : Abstract!\sqsubseteq(a, b) <=> a \sqsubseteq b
  BY DEF \sqsubseteq, Abstract!\sqsubseteq
<1>4. QED
  BY <1>1, <1>2, <1>3

PairsOf(S) == {PairOf(x[1], x[2]) : x \in S}

LEMMA SamePairs ==
    /\ Abstract!Matching = Matches
    /\ query.terminal # "count" => Abstract!Pairs = PairsOf(Matches)
    /\ query.terminal # "count" => \A i, j : Abstract!PairOf(i, j) = PairOf(i, j)
<1>1. Abstract!Matching = Matches
  <2>1. \A x \in AllPairs : Abstract!Accepts(query,
                               Abstract!EntryDist(trees, query.metric, x[1], x[2]))
                            <=> MatchIn(trees, query, x[1], x[2])
    BY SameDistance, SameAccepts DEF AllPairs, Entry, MatchIn
  <2>2. QED
    BY <2>1 DEF Abstract!Matching, Abstract!Entry, Matches, AllPairs, Entry
<1>2. query.terminal # "count" => \A i, j : Abstract!PairOf(i, j) = PairOf(i, j)
  BY SameDistance DEF Abstract!PairOf, PairOf, Distances, None
<1>3. query.terminal # "count" => Abstract!Pairs = PairsOf(Matches)
  BY <1>1, <1>2 DEF Abstract!Pairs, PairsOf
<1>4. QED
  BY <1>1, <1>2, <1>3

LEMMA PairsStay ==
    ASSUME trees' = trees, query' = query
    PROVE  /\ Abstract!Matching' = Abstract!Matching
           /\ Abstract!Pairs' = Abstract!Pairs
<1>1. Abstract!Matching' = Abstract!Matching
  BY DEF Abstract!Matching, Abstract!Entry
<1>2. \A i, j : Abstract!PairOf(i, j)' = Abstract!PairOf(i, j)
  BY DEF Abstract!PairOf
<1>3. QED
  BY <1>1, <1>2 DEF Abstract!Pairs

(* The pairs of entries are told apart. *)
LEMMA PairOfParts ==
    ASSUME NEW S, S \subseteq AllPairs
    PROVE  /\ \A x \in AllPairs : PairOf(x[1], x[2]) \in PairsOf(S) <=> x \in S
           /\ \A x, y \in AllPairs : PairOf(x[1], x[2]) = PairOf(y[1], y[2]) => x = y
<1>1. \A x, y \in AllPairs : PairOf(x[1], x[2]) = PairOf(y[1], y[2]) => x = y
  <2>1. SUFFICES ASSUME NEW x \in AllPairs, NEW y \in AllPairs,
                        PairOf(x[1], x[2]) = PairOf(y[1], y[2])
                 PROVE  x = y
    OBVIOUS
  <2>2. x = <<x[1], x[2]>> /\ y = <<y[1], y[2]>>
    BY DEF AllPairs
  <2>3. PairOf(x[1], x[2]).left = x[1] /\ PairOf(x[1], x[2]).right = x[2]
        /\ PairOf(y[1], y[2]).left = y[1] /\ PairOf(y[1], y[2]).right = y[2]
    BY DEF PairOf
  <2>4. x[1] = y[1] /\ x[2] = y[2]
    BY <2>1, <2>3
  <2>5. QED
    BY <2>2, <2>4
<1>2. QED
  BY <1>1 DEF PairsOf

(* A bag of pairs of entries is known by how often it has each.            *)
LEMMA BagByCopies ==
    ASSUME NEW b, IsABag(b), DOMAIN b \subseteq PairsOf(AllPairs),
           NEW S, S \subseteq AllPairs
    PROVE  /\ (\A x \in AllPairs : Copies(PairOf(x[1], x[2]), b) = IF x \in S THEN 1 ELSE 0)
                 => b = SetToBag(PairsOf(S))
           /\ (\A x \in AllPairs : Copies(PairOf(x[1], x[2]), b) <= IF x \in S THEN 1 ELSE 0)
                 => b \sqsubseteq SetToBag(PairsOf(S))
<1>1. b \in [DOMAIN b -> {n \in Nat : n > 0}]
  BY DEF IsABag
<1>2. \A p : Copies(p, b) = IF p \in DOMAIN b THEN b[p] ELSE 0
  BY DEF Copies, BagIn, BagToSet
<1>3. \A p \in DOMAIN b : b[p] \in Nat /\ b[p] > 0
  BY <1>1
<1>4. ASSUME NEW p \in DOMAIN b
      PROVE  \E x \in AllPairs : p = PairOf(x[1], x[2])
  BY DEF PairsOf
<1>5. \A x \in AllPairs : PairOf(x[1], x[2]) \in PairsOf(S) <=> x \in S
  BY PairOfParts
<1>6. ASSUME \A x \in AllPairs : Copies(PairOf(x[1], x[2]), b) <= IF x \in S THEN 1 ELSE 0,
             NEW p \in DOMAIN b
      PROVE  p \in PairsOf(S) /\ b[p] <= 1
  <2>1. PICK x \in AllPairs : p = PairOf(x[1], x[2])
    BY <1>4, <1>6
  <2>2. Copies(p, b) = b[p] /\ b[p] \in Nat /\ b[p] > 0
    BY <1>2, <1>3, <1>6
  <2>3. b[p] <= IF x \in S THEN 1 ELSE 0
    BY <1>6, <2>1, <2>2
  <2>4. x \in S /\ b[p] <= 1
    BY <2>2, <2>3
  <2>5. QED
    BY <1>5, <2>1, <2>4
<1>7. ASSUME \A x \in AllPairs : Copies(PairOf(x[1], x[2]), b) <= IF x \in S THEN 1 ELSE 0
      PROVE  b \sqsubseteq SetToBag(PairsOf(S))
  <2>1. \A p \in DOMAIN b : p \in PairsOf(S) /\ b[p] <= 1
    BY <1>6, <1>7
  <2>2. QED
    BY <2>1 DEF \sqsubseteq, SetToBag
<1>8. ASSUME \A x \in AllPairs : Copies(PairOf(x[1], x[2]), b) = IF x \in S THEN 1 ELSE 0
      PROVE  b = SetToBag(PairsOf(S))
  <2>1. \A p \in DOMAIN b : p \in PairsOf(S) /\ b[p] <= 1
    BY <1>6, <1>8
  <2>2. \A p \in PairsOf(S) : p \in DOMAIN b
    <3>1. SUFFICES ASSUME NEW x \in S PROVE PairOf(x[1], x[2]) \in DOMAIN b
      BY DEF PairsOf
    <3>2. Copies(PairOf(x[1], x[2]), b) = 1
      BY <1>8, <3>1
    <3>3. QED
      BY <1>2, <3>2
  <2>3. DOMAIN b = PairsOf(S) /\ \A p \in DOMAIN b : b[p] = 1
    BY <1>3, <2>1, <2>2
  <2>4. b = [p \in DOMAIN b |-> b[p]]
    BY <1>1
  <2> HIDE DEF PairsOf
  <2>5. QED
    BY <2>3, <2>4 DEF SetToBag
<1>9. QED
  BY <1>7, <1>8

(* A walk that ended has nothing on its stack; what is handed over are     *)
(* pairs of entries; only a count counts.                                  *)
Clean ==
    phase \in {"frontier", "running"} =>
        /\ DOMAIN answer \subseteq PairsOf(AllPairs)
        /\ \A k \in DOMAIN walks :
              /\ DOMAIN walks[k].sink \subseteq PairsOf(AllPairs)
              /\ walks[k].pc = "ended" => walks[k].stack = <<>>
              /\ query.terminal # "count" => walks[k].counted = 0

LEMMA AllPairsStay ==
    ASSUME trees' = trees, query' = query
    PROVE  PairsOf(AllPairs)' = PairsOf(AllPairs)
<1>1. AllPairs' = AllPairs /\ \A i, j : PairOf(i, j)' = PairOf(i, j)
  BY DEF AllPairs, Entry, PairOf, Distances
<1>2. QED
  BY <1>1 DEF PairsOf

LEMMA MovesRead ==
    ASSUME JoinOK, NEW k,
           Descend(k) \/ PopRestore(k) \/ PopRight(k) \/ Reject(k) \/ WalkEnds(k)
    PROVE  /\ k \in DOMAIN walks
           /\ \E pc, w, st :
                 /\ walks' = [walks EXCEPT ![k] =
                                 WalkRec(pc, w, st, walks[k].sink, walks[k].counted)]
                 /\ pc = "ended" => st = <<>>
<1>1. CASE Descend(k)
  <2>1. k \in DOMAIN walks
    BY <1>1, DescendReads
  <2>2. PICK w, st :
           walks' = [walks EXCEPT ![k] =
                        WalkRec("visit", w, st, walks[k].sink, walks[k].counted)]
    BY <1>1, DescendReads
  <2>3. "visit" = "ended" => st = <<>>
    OBVIOUS
  <2>4. QED
    BY <2>1, <2>2, <2>3
<1>2. CASE PopRestore(k)
  <2>1. k \in DOMAIN walks
    BY <1>2, PopRestoreReads
  <2>2. PICK w, st :
           walks' = [walks EXCEPT ![k] =
                        WalkRec("pop", w, st, walks[k].sink, walks[k].counted)]
    BY <1>2, PopRestoreReads
  <2>3. "pop" = "ended" => st = <<>>
    OBVIOUS
  <2>4. QED
    BY <2>1, <2>2, <2>3
<1>3. CASE PopRight(k)
  <2>1. k \in DOMAIN walks
    BY <1>3, PopRightReads
  <2>2. PICK w, st :
           walks' = [walks EXCEPT ![k] =
                        WalkRec("visit", w, st, walks[k].sink, walks[k].counted)]
    BY <1>3, PopRightReads
  <2>3. "visit" = "ended" => st = <<>>
    OBVIOUS
  <2>4. QED
    BY <2>1, <2>2, <2>3
<1>4. CASE Reject(k) \/ WalkEnds(k)
  <2>1. PICK pc \in {"pop", "ended"} :
           /\ k \in DOMAIN walks
           /\ walks' = [walks EXCEPT ![k] =
                 WalkRec(pc, walks[k].work, walks[k].stack, walks[k].sink, walks[k].counted)]
           /\ Reject(k) => pc = "pop"
           /\ ~Reject(k) => walks[k].stack = <<>>
    BY <1>4, StopReads
  <2>2. pc = "ended" => walks[k].stack = <<>>
    BY <2>1
  <2>3. QED
    BY <2>1, <2>2
<1>5. QED
  BY <1>1, <1>2, <1>3, <1>4

LEMMA CleanWalk ==
    ASSUME Clean, phase = "running", UNCHANGED <<trees, query>>, NEW k \in DOMAIN walks,
           NEW pc, NEW w, NEW st, NEW sink, NEW m,
           walks' = [walks EXCEPT ![k] = WalkRec(pc, w, st, sink, m)],
           pc = "ended" => st = <<>>, DOMAIN sink \subseteq PairsOf(AllPairs),
           query.terminal # "count" => m = 0,
           DOMAIN answer' \subseteq PairsOf(AllPairs)
    PROVE  Clean'
<1> DEFINE y == WalkRec(pc, w, st, sink, m)
<1>1. y.pc = pc /\ y.stack = st /\ y.sink = sink /\ y.counted = m
  BY DEF WalkRec
<1> HIDE DEF y
<1>2. DOMAIN walks' = DOMAIN walks
      /\ \A j \in DOMAIN walks : walks'[j] = IF j = k THEN y ELSE walks[j]
  <2>1. walks' = [walks EXCEPT ![k] = y]
    BY DEF y
  <2>2. QED
    BY <2>1
<1>3. PairsOf(AllPairs)' = PairsOf(AllPairs)
  BY AllPairsStay
<1>4. \A j \in DOMAIN walks :
         /\ DOMAIN walks[j].sink \subseteq PairsOf(AllPairs)
         /\ walks[j].pc = "ended" => walks[j].stack = <<>>
         /\ query.terminal # "count" => walks[j].counted = 0
  BY DEF Clean
<1>5. \A j \in DOMAIN walks' :
         /\ DOMAIN walks'[j].sink \subseteq PairsOf(AllPairs)
         /\ walks'[j].pc = "ended" => walks'[j].stack = <<>>
         /\ query.terminal # "count" => walks'[j].counted = 0
  <2>1. TAKE j \in DOMAIN walks'
  <2>2. CASE j = k
    BY <1>1, <1>2, <2>2
  <2>3. CASE j # k
    BY <1>2, <1>4, <2>3
  <2>4. QED
    BY <2>2, <2>3
<1>6. QED
  BY <1>3, <1>5 DEF Clean

LEMMA FoundArePairs ==
    ASSUME NEW b, DOMAIN b \subseteq PairsOf(AllPairs), NEW F, F \subseteq AllPairs
    PROVE  DOMAIN (b (+) Found(F)) \subseteq PairsOf(AllPairs)
<1>1. Found(F) = SetToBag(PairsOf(F)) /\ PairsOf(F) \subseteq PairsOf(AllPairs)
  BY DEF Found, PairsOf
<1> DEFINE c == Found(F)
<1>2. DOMAIN c \subseteq PairsOf(AllPairs)
  BY <1>1 DEF SetToBag
<1> HIDE DEF c
<1>3. DOMAIN (b (+) c) = DOMAIN b \cup DOMAIN c
  BY DEF (+)
<1>4. QED
  BY <1>2, <1>3 DEF c

LEMMA CleanStep == JoinOK /\ Clean /\ [Next]_vars => Clean'
<1> SUFFICES ASSUME JoinOK, Clean, [Next]_vars PROVE Clean'
  OBVIOUS
<1>1. CASE phase' \notin {"frontier", "running"}
  BY <1>1 DEF Clean
<1>2. CASE \E k \in DOMAIN tasks : Walk(k)
  <2>1. PICK k \in DOMAIN tasks : Walk(k)
    BY <1>2
  <2>2. CASE Begin(k)
    <3>1. /\ phase = "running" /\ trees' = trees /\ query' = query /\ answer' = answer
          /\ DOMAIN walks' = DOMAIN walks \cup {k}
          /\ \A j \in DOMAIN walks : walks'[j] = walks[j]
          /\ walks'[k] = WalkRec("visit", tasks[k], <<>>, EmptyBag, 0)
      BY <2>2, BeginOK DEF Begin, input_vars
    <3>2. PairsOf(AllPairs)' = PairsOf(AllPairs)
      BY <3>1, AllPairsStay
    <3>3. walks'[k].pc = "visit" /\ walks'[k].sink = EmptyBag /\ walks'[k].counted = 0
      BY <3>1 DEF WalkRec
    <3>4. DOMAIN EmptyBag = {}
      BY DEF EmptyBag, SetToBag
    <3>5. /\ DOMAIN answer \subseteq PairsOf(AllPairs)
          /\ \A j \in DOMAIN walks :
                /\ DOMAIN walks[j].sink \subseteq PairsOf(AllPairs)
                /\ walks[j].pc = "ended" => walks[j].stack = <<>>
                /\ query.terminal # "count" => walks[j].counted = 0
      BY <3>1 DEF Clean
    <3>6. \A j \in DOMAIN walks' :
             /\ DOMAIN walks'[j].sink \subseteq PairsOf(AllPairs)
             /\ walks'[j].pc = "ended" => walks'[j].stack = <<>>
             /\ query.terminal # "count" => walks'[j].counted = 0
      BY <3>1, <3>3, <3>4, <3>5
    <3>7. QED
      BY <3>1, <3>2, <3>5, <3>6 DEF Clean
  <2>3. CASE Bulk(k) \/ LeafPair(k)
    <3> DEFINE x == walks[k]
               F == IF Bulk(k) THEN HeldBy(x.work)
                    ELSE {ij \in HeldBy(x.work) : MatchIn(trees, query, ij[1], ij[2])}
    <3>1. k \in DOMAIN walks /\ phase = "running" /\ Emit(k, F)
      BY <2>3, FindsOK
    <3>2. F \subseteq AllPairs
      BY DEF HeldBy
    <3> HIDE DEF F
    <3>3. trees' = trees /\ query' = query
      <4>1. UNCHANGED Rest
        BY <3>1 DEF Emit
      <4>2. QED
        BY <4>1, RestParts
    <3>4. DOMAIN answer \subseteq PairsOf(AllPairs) /\ DOMAIN x.sink \subseteq PairsOf(AllPairs)
         /\ (query.terminal # "count" => x.counted = 0)
      BY <3>1 DEF Clean
    <3>5. /\ DOMAIN (answer (+) Found(F)) \subseteq PairsOf(AllPairs)
          /\ DOMAIN (x.sink (+) Found(F)) \subseteq PairsOf(AllPairs)
      BY <3>2, <3>4, FoundArePairs
    <3>6. CASE phase' = "panicked"
      BY <3>6 DEF Clean
    <3>7. CASE phase' # "panicked"
      <4>1. PICK sink, m :
               /\ walks' = [walks EXCEPT ![k] = WalkRec("pop", x.work, x.stack, sink, m)]
               /\ DOMAIN sink \subseteq PairsOf(AllPairs)
               /\ DOMAIN answer' \subseteq PairsOf(AllPairs)
               /\ query.terminal # "count" => m = 0
        BY <3>1, <3>4, <3>5, <3>7, EmitReads
      <4> HIDE DEF x
      <4>2. QED
        BY <3>1, <3>3, <4>1, CleanWalk
    <3>8. QED
      BY <3>6, <3>7
  <2>4. CASE Descend(k) \/ PopRestore(k) \/ PopRight(k) \/ Reject(k) \/ WalkEnds(k)
    <3>1. phase = "running" /\ answer' = answer /\ UNCHANGED Rest
      BY <2>4 DEF Descend, PopRestore, PopRight, Reject, WalkEnds, Pops, Visits
    <3>2. trees' = trees /\ query' = query
      BY <3>1, RestParts
    <3>3. k \in DOMAIN walks
      BY <2>4, MovesRead
    <3>4. PICK pc, w, st :
             /\ walks' = [walks EXCEPT ![k] =
                             WalkRec(pc, w, st, walks[k].sink, walks[k].counted)]
             /\ pc = "ended" => st = <<>>
      BY <2>4, MovesRead
    <3>5. /\ DOMAIN answer' \subseteq PairsOf(AllPairs)
          /\ DOMAIN walks[k].sink \subseteq PairsOf(AllPairs)
          /\ query.terminal # "count" => walks[k].counted = 0
      BY <3>1, <3>3 DEF Clean
    <3>6. QED
      BY <3>1, <3>2, <3>3, <3>4, <3>5, CleanWalk
  <2>5. QED
    BY <2>1, <2>2, <2>3, <2>4 DEF Walk
<1>3. CASE Join
  <2>1. walks' = walks /\ answer' = answer /\ phase = "idle"
    BY <1>3 DEF Join
  <2>2. DOMAIN walks = {} /\ answer = EmptyBag
    BY <2>1 DEF JoinOK, PhaseOK
  <2>3. DOMAIN EmptyBag = {}
    BY DEF EmptyBag, SetToBag
  <2>4. QED
    BY <2>1, <2>2, <2>3 DEF Clean
<1>4. CASE CutFrontier \/ FrontierDone \/ UNCHANGED vars
  <2>1. CASE phase \in {"frontier", "running"}
    <3>1. trees' = trees /\ query' = query /\ walks' = walks /\ answer' = answer
      BY <1>4 DEF CutFrontier, FrontierDone, vars, input_vars
    <3>2. PairsOf(AllPairs)' = PairsOf(AllPairs)
      BY <3>1, AllPairsStay
    <3>3. QED
      BY <2>1, <3>1, <3>2 DEF Clean
  <2>2. CASE phase \notin {"frontier", "running"}
    <3>1. phase' = phase
      <4>1. ~FrontierDone
        BY <2>2 DEF FrontierDone
      <4>2. ~CutFrontier
        BY <2>2 DEF CutFrontier
      <4>3. QED
        BY <1>4, <4>1, <4>2 DEF vars
    <3>2. QED
      BY <2>2, <3>1 DEF Clean
  <2>3. QED
    BY <2>1, <2>2
<1>5. CASE \/ AnswerEmpty \/ CountAll \/ Nearest \/ Return
           \/ NearestSkip \/ NearestLeaf \/ NearestDescend \/ NearestReturn
  <2>1. phase' \in {"done", "panicked", "nearest"}
    <3>1. AnswerEmpty \/ CountAll \/ Return \/ NearestReturn => phase' \in {"done", "panicked"}
      BY Zenon DEF AnswerEmpty, CountAll, Return, NearestReturn
    <3>2. Nearest => phase' = "nearest"
      BY DEF Nearest
    <3>3. NearestSkip \/ NearestLeaf \/ NearestDescend => phase' = "nearest"
      BY Zenon DEF NearestSkip, NearestLeaf, NearestDescend
    <3>4. QED
      BY <1>5, <3>1, <3>2, <3>3
  <2>2. QED
    BY <1>1, <2>1
<1>6. QED
  BY <1>2, <1>3, <1>4, <1>5 DEF Next, Execute, Work

(* What the walks hand over when they are put together: a bag that has     *)
(* every pair as often as they have it among them.                         *)
Gathered ==
    FoldSet(LAMBDA k, b : b (+) walks[k].sink, answer, DOMAIN walks)

Sinks(p) == [k \in DOMAIN walks |-> Copies(p, walks[k].sink)]

(* The bag of the answer and the sinks of some of the walks. *)
GatheredFrom(t) ==
    [p \in DOMAIN answer \cup UNION {DOMAIN walks[k].sink : k \in t} |->
        Copies(p, answer) + Cardinality(Area(Sinks(p), t))]

LEMMA CopiesAreFew ==
    ASSUME NEW b, IsABag(b), NEW p
    PROVE  /\ Copies(p, b) = IF p \in DOMAIN b THEN b[p] ELSE 0
           /\ Copies(p, b) \in Nat
           /\ p \in DOMAIN b => Copies(p, b) > 0
  BY DEF Copies, BagIn, BagToSet, IsABag

LEMMA GatheredParts ==
    ASSUME JoinOK, IsABag(answer), NEW t \in SUBSET DOMAIN walks, NEW p
    PROVE  /\ IsFiniteSet(t) /\ \A k \in t : Sinks(p)[k] = Copies(p, walks[k].sink)
           /\ \A k \in t : IsABag(walks[k].sink) /\ Sinks(p)[k] \in Nat
           /\ Cardinality(Area(Sinks(p), t)) \in Nat
           /\ \A k \in t : /\ Cardinality(Area(Sinks(p), t \ {k})) \in Nat
                           /\ Cardinality(Area(Sinks(p), t))
                                 = Sinks(p)[k] + Cardinality(Area(Sinks(p), t \ {k}))
           /\ Copies(p, GatheredFrom(t))
                 = Copies(p, answer) + Cardinality(Area(Sinks(p), t))
           /\ p \in DOMAIN GatheredFrom(t) => GatheredFrom(t)[p] \in Nat \ {0}
<1> DEFINE f == Sinks(p)
           n == Cardinality(Area(f, t))
           dom == DOMAIN answer \cup UNION {DOMAIN walks[k].sink : k \in t}
<1>1. IsFiniteSet(t)
  BY FewWalks, FS_Subset
<1>2. \A k \in t : IsABag(walks[k].sink)
  BY WalkParts DEF JoinOK, WalksOK
<1>3. \A k \in t : f[k] = Copies(p, walks[k].sink)
  BY DEF Sinks
<1>4. \A k \in t : f[k] \in Nat /\ (p \in DOMAIN walks[k].sink => f[k] > 0)
                   /\ (p \notin DOMAIN walks[k].sink => f[k] = 0)
  BY <1>2, <1>3, CopiesAreFew
<1>5. /\ Copies(p, answer) \in Nat
      /\ p \in DOMAIN answer => Copies(p, answer) > 0
      /\ p \notin DOMAIN answer => Copies(p, answer) = 0
  BY CopiesAreFew
<1>6. DOMAIN GatheredFrom(t) = dom
      /\ (p \in dom => GatheredFrom(t)[p] = Copies(p, answer) + n)
  BY DEF GatheredFrom
<1> HIDE DEF f
<1>7. /\ n \in Nat
      /\ \A k \in t : /\ Cardinality(Area(f, t \ {k})) \in Nat
                      /\ n = f[k] + Cardinality(Area(f, t \ {k}))
  BY <1>1, <1>4, AreaOfOne
<1>8. p \notin dom => n = 0
  <2>1. SUFFICES ASSUME p \notin dom PROVE n = 0
    OBVIOUS
  <2>2. \A k \in t : f[k] = 0
    BY <1>4, <2>1
  <2>3. Area(f, t) = {}
    <3>1. \A k \in t : {k} \X (1 .. f[k]) = {}
      BY <2>2
    <3>2. QED
      BY <3>1 DEF Area
  <2>4. QED
    BY <2>3, FS_EmptySet
<1>9. p \in dom => Copies(p, answer) + n > 0
  <2>1. CASE p \in DOMAIN answer
    BY <1>5, <1>7, <2>1
  <2>2. CASE p \notin DOMAIN answer /\ p \in dom
    <3>1. PICK k \in t : p \in DOMAIN walks[k].sink
      BY <2>2
    <3>2. f[k] > 0 /\ f[k] \in Nat
      BY <1>4, <3>1
    <3>3. n = f[k] + Cardinality(Area(f, t \ {k})) /\ Cardinality(Area(f, t \ {k})) \in Nat
      BY <1>7
    <3> HIDE DEF n
    <3>4. QED
      BY <1>5, <1>7, <3>2, <3>3
  <2>3. QED
    BY <2>1, <2>2
<1>10. p \in dom => GatheredFrom(t)[p] \in Nat \ {0}
  <2> HIDE DEF n
  <2>1. QED
    BY <1>5, <1>6, <1>7, <1>9
<1>11. Copies(p, GatheredFrom(t)) = Copies(p, answer) + n
  <2>1. Copies(p, GatheredFrom(t)) = IF p \in dom THEN GatheredFrom(t)[p] ELSE 0
    BY <1>6 DEF Copies, BagIn, BagToSet
  <2>2. p \notin dom => p \notin DOMAIN answer
    OBVIOUS
  <2> HIDE DEF n, dom
  <2>3. QED
    BY <1>5, <1>6, <1>7, <1>8, <2>1, <2>2
<1>12. QED
  BY <1>1, <1>2, <1>3, <1>4, <1>6, <1>7, <1>10, <1>11 DEF f

LEMMA GatheredOneMore ==
    ASSUME JoinOK, IsABag(answer), NEW t \in SUBSET DOMAIN walks, NEW k \in t
    PROVE  GatheredFrom(t) = GatheredFrom(t \ {k}) (+) walks[k].sink
<1> DEFINE u == t \ {k}
           dom == DOMAIN answer \cup UNION {DOMAIN walks[j].sink : j \in t}
           low == DOMAIN answer \cup UNION {DOMAIN walks[j].sink : j \in u}
           b == GatheredFrom(u)
           c == walks[k].sink
<1>1. u \in SUBSET DOMAIN walks
  OBVIOUS
<1>2. DOMAIN GatheredFrom(t) = dom /\ DOMAIN b = low
  BY DEF GatheredFrom
<1>3. dom = low \cup DOMAIN c
  OBVIOUS
<1>4. IsABag(c)
  BY WalkParts DEF JoinOK, WalksOK
<1>5. ASSUME NEW p \in dom
      PROVE  GatheredFrom(t)[p] = (IF p \in DOMAIN b THEN b[p] ELSE 0)
                                  + (IF p \in DOMAIN c THEN c[p] ELSE 0)
  <2>1. GatheredFrom(t)[p] = Copies(p, GatheredFrom(t))
    BY <1>2 DEF Copies, BagIn, BagToSet
  <2>2. Copies(p, b) = IF p \in DOMAIN b THEN b[p] ELSE 0
    BY DEF Copies, BagIn, BagToSet
  <2>3. Copies(p, c) = IF p \in DOMAIN c THEN c[p] ELSE 0
    BY <1>4, CopiesAreFew
  <2>4. /\ Copies(p, GatheredFrom(t))
              = Copies(p, answer) + Cardinality(Area(Sinks(p), t))
        /\ Cardinality(Area(Sinks(p), t))
              = Sinks(p)[k] + Cardinality(Area(Sinks(p), u))
        /\ Sinks(p)[k] = Copies(p, c) /\ Sinks(p)[k] \in Nat
    <3> HIDE DEF b, c, dom, low
    <3>1. Sinks(p)[k] = Copies(p, walks[k].sink) /\ Sinks(p)[k] \in Nat
      BY GatheredParts
    <3>2. Cardinality(Area(Sinks(p), t))
             = Sinks(p)[k] + Cardinality(Area(Sinks(p), t \ {k}))
      <4>1. IsFiniteSet(t)
        BY FewWalks, FS_Subset
      <4>2. \A j \in t : Sinks(p)[j] \in Nat
        <5>1. \A j \in t : IsABag(walks[j].sink)
          BY WalkParts DEF JoinOK, WalksOK
        <5>2. \A j \in t : Copies(p, walks[j].sink) \in Nat
          BY <5>1, CopiesAreFew
        <5>3. QED
          BY <5>2 DEF Sinks
      <4>3. QED
        BY <4>1, <4>2, AreaOfOne
    <3>3. Copies(p, GatheredFrom(t))
             = Copies(p, answer) + Cardinality(Area(Sinks(p), t))
      BY GatheredParts
    <3>4. QED
      BY <3>1, <3>2, <3>3 DEF c
  <2>5. /\ Copies(p, b) = Copies(p, answer) + Cardinality(Area(Sinks(p), u))
        /\ Cardinality(Area(Sinks(p), u)) \in Nat
    BY <1>1, GatheredParts
  <2>6. Copies(p, answer) \in Nat
    BY CopiesAreFew
  <2> HIDE DEF b, c, u, dom, low
  <2>7. QED
    BY <2>1, <2>2, <2>3, <2>4, <2>5, <2>6
<1>6. GatheredFrom(t) = [p \in dom |-> GatheredFrom(t)[p]]
  BY DEF GatheredFrom
<1>7. b (+) c = [p \in low \cup DOMAIN c |->
                    (IF p \in DOMAIN b THEN b[p] ELSE 0)
                       + (IF p \in DOMAIN c THEN c[p] ELSE 0)]
  <2> HIDE DEF b, c
  <2>1. QED
    BY <1>2 DEF (+)
<1> HIDE DEF b, c, dom, low
<1>8. QED
  BY <1>3, <1>5, <1>6, <1>7 DEF b, c

LEMMA GatheredIs ==
    ASSUME JoinOK, IsABag(answer)
    PROVE  Gathered = GatheredFrom(DOMAIN walks)
<1> DEFINE D == DOMAIN walks
           One(t) == CHOOSE d \in t : TRUE
           fold == [t \in SUBSET D |-> GatheredFrom(t)]
           Adds(it) == it = [t \in SUBSET D |->
                               IF t = {} THEN answer
                               ELSE it[t \ {One(t)}] (+) walks[One(t)].sink]
           F == FiniteSubsetsOf(D)
           R == StrictSubsetOrdering(D)
<1>1. ASSUME NEW t \in SUBSET D, t # {}
      PROVE  /\ One(t) \in t /\ t \ {One(t)} \in SUBSET D
             /\ GatheredFrom(t) = GatheredFrom(t \ {One(t)}) (+) walks[One(t)].sink
  <2>1. One(t) \in t
    BY <1>1
  <2> HIDE DEF One
  <2>2. QED
    BY <2>1, GatheredOneMore
<1>2. GatheredFrom({}) = answer
  <2>1. DOMAIN GatheredFrom({}) = DOMAIN answer
    BY DEF GatheredFrom
  <2>2. ASSUME NEW p \in DOMAIN answer PROVE GatheredFrom({})[p] = answer[p]
    <3>1. Area(Sinks(p), {}) = {}
      BY DEF Area
    <3>2. Cardinality(Area(Sinks(p), {})) = 0
      BY <3>1, FS_EmptySet
    <3>3. Copies(p, answer) = answer[p] /\ Copies(p, answer) \in Nat
      BY CopiesAreFew
    <3>4. GatheredFrom({})[p] = Copies(p, answer) + Cardinality(Area(Sinks(p), {}))
      BY DEF GatheredFrom
    <3>5. QED
      BY <3>2, <3>3, <3>4
  <2>3. answer = [p \in DOMAIN answer |-> answer[p]]
    BY DEF IsABag
  <2>4. GatheredFrom({}) = [p \in DOMAIN GatheredFrom({}) |-> GatheredFrom({})[p]]
    BY DEF GatheredFrom
  <2>5. QED
    BY <2>1, <2>2, <2>3, <2>4
<1> HIDE DEF One
<1>3. Adds(fold)
  <2>1. \A t \in SUBSET D : fold[t] = IF t = {} THEN answer
                                      ELSE fold[t \ {One(t)}] (+) walks[One(t)].sink
    BY <1>1, <1>2
  <2>2. QED
    BY <2>1
<1>4. ASSUME NEW it, Adds(it) PROVE it[D] = GatheredFrom(D)
  <2> DEFINE bad == {t \in SUBSET D : it[t] # GatheredFrom(t)}
  <2>1. SUFFICES ASSUME bad # {} PROVE FALSE
    OBVIOUS
  <2>2. bad \subseteq F
    BY FewWalks, FS_Subset DEF FiniteSubsetsOf
  <2>3. IsWellFoundedOn(R, F)
    BY FewWalks, FS_StrictSubsetOrderingWellFounded
  <2>4. PICK t \in bad : \A y \in bad : ~(<<y, t>> \in R)
    <3> HIDE DEF bad, R, F
    <3> QED
      BY <2>1, <2>2, <2>3, WFMin
  <2>5. t \in SUBSET D
    OBVIOUS
  <2>6. it[t] = IF t = {} THEN answer ELSE it[t \ {One(t)}] (+) walks[One(t)].sink
    BY <1>4, <2>5
  <2>7. t # {}
    BY <2>6, <1>2
  <2> DEFINE u == t \ {One(t)}
  <2>8. One(t) \in t /\ u \in SUBSET D
        /\ GatheredFrom(t) = GatheredFrom(u) (+) walks[One(t)].sink
    BY <1>1, <2>5, <2>7
  <2>9. it[u] = GatheredFrom(u)
    <3>1. u \subseteq t /\ u # t
      BY <2>8
    <3>2. <<u, t>> \in R
      <4> HIDE DEF u
      <4> QED
        BY <3>1, <2>5, <2>8 DEF StrictSubsetOrdering
    <3>3. u \notin bad
      BY <3>2, <2>4
    <3>4. QED
      BY <2>8, <3>3
  <2>10. it[t] = GatheredFrom(t)
    BY <2>6, <2>7, <2>8, <2>9
  <2>11. QED
    BY <2>10
<1>6. Gathered = (CHOOSE it : Adds(it))[D]
  BY DEF Gathered, FoldSet, MapThenFoldSet, One
<1>7. Adds(CHOOSE it : Adds(it))
  <2> HIDE DEF Adds
  <2> QED
    BY <1>3
<1>8. QED
  <2> HIDE DEF Adds
  <2> QED
    BY <1>4, <1>6, <1>7

LEMMA GatheredCopies ==
    ASSUME JoinOK, IsABag(answer)
    PROVE  /\ IsABag(Gathered)
           /\ \A p : Copies(p, Gathered) = Copies(p, answer) + Sunk(p)
           /\ \A p \in DOMAIN Gathered :
                 p \in DOMAIN answer \/ \E k \in DOMAIN walks : p \in DOMAIN walks[k].sink
<1> DEFINE D == DOMAIN walks
           b == GatheredFrom(D)
<1>1. Gathered = b
  BY GatheredIs
<1>2. \A p \in DOMAIN b : b[p] \in Nat \ {0}
  BY GatheredParts
<1>3. b = [p \in DOMAIN b |-> b[p]]
  BY DEF GatheredFrom
<1>4. IsABag(b)
  <2> HIDE DEF b
  <2>1. b \in [DOMAIN b -> {n \in Nat : n > 0}]
    BY <1>2, <1>3
  <2>2. QED
    BY <2>1 DEF IsABag
<1>5. ASSUME NEW p PROVE Copies(p, b) = Copies(p, answer) + Sunk(p)
  <2>1. Copies(p, b) = Copies(p, answer) + Cardinality(Area(Sinks(p), D))
    BY GatheredParts
  <2>2. Sinks(p) \in [D -> Nat] /\ IsFiniteSet(D)
    BY FewWalks DEF Sinks
  <2>3. Sunk(p) = SumFunction(Sinks(p))
    BY DEF Sunk, Sinks
  <2>4. SumFunction(Sinks(p)) = Cardinality(Area(Sinks(p), D))
    BY <2>2, SumIsArea
  <2>5. QED
    BY <2>1, <2>3, <2>4
<1>6. \A p \in DOMAIN b :
         p \in DOMAIN answer \/ \E k \in D : p \in DOMAIN walks[k].sink
  BY DEF GatheredFrom
<1>7. QED
  BY <1>1, <1>4, <1>5, <1>6

-----------------------------------------------------------------------------
(* The steps of a join are steps of the promise, or change nothing of it.  *)
LEMMA CountAnswered ==
    ASSUME trees' = trees, query' = query, query.terminal = "count",
           total' = Cardinality(Matches)
    PROVE  Abstract!IsAnswer'
<1>1. Abstract!Matching' = Matches
  BY SamePairs, PairsStay
<1>2. Abstract!Cardinality(Matches) = Cardinality(Matches)
  BY SameBags
<1>3. QED
  BY <1>1, <1>2 DEF Abstract!IsAnswer

LEMMA PairsAnswered ==
    ASSUME trees' = trees, query' = query,
           query.terminal \notin {"count", "nearest"},
           answer' = SetToBag(PairsOf(Matches))
    PROVE  Abstract!IsAnswer'
<1>1. Abstract!Pairs' = PairsOf(Matches)
  BY SamePairs, PairsStay
<1>2. Abstract!SetToBag(PairsOf(Matches)) = SetToBag(PairsOf(Matches))
  BY SameBags
<1>3. QED
  BY <1>1, <1>2 DEF Abstract!IsAnswer

LEMMA NearestAnswered ==
    ASSUME query' = query, query.terminal = "nearest",
           Abstract!IsNearest(answer)'
    PROVE  Abstract!IsAnswer'
  BY DEF Abstract!IsAnswer

LEMMA PanicsByCount ==
    ASSUME trees' = trees, query' = query, query.terminal = "count",
           AbstractPhase \in {"idle", "working"}, phase' = "panicked",
           Cardinality(Matches) > MaxCount
    PROVE  Abstract!Panic
<1>1. Abstract!Matching' = Matches
  BY SamePairs, PairsStay
<1>2. Abstract!Cardinality(Matches) = Cardinality(Matches)
  BY SameBags
<1>3. AbstractPhase' = "panicked"
  BY DEF AbstractPhase
<1>4. (Abstract!Cardinality(Abstract!Matching) > MaxCount)'
  BY <1>1, <1>2
<1>5. QED
  BY <1>3, <1>4 DEF Abstract!Panic

(* When every walk has ended no pair is open. *)
LEMMA NothingOpen ==
    ASSUME JoinOK, Clean, phase = "running", waiting = {},
           \A k \in DOMAIN walks : walks[k].pc = "ended"
    PROVE  Closed = Matches
<1>1. ASSUME NEW k \in DOMAIN walks, NEW i, NEW j PROVE ~InWalk(trees, walks[k], i, j)
  <2> DEFINE x == walks[k]
  <2>1. x.pc = "ended" /\ x.stack = <<>>
    BY DEF Clean
  <2>2. Len(x.stack) = 0
    BY <2>1
  <2> HIDE DEF x
  <2>3. Places(x) = {}
    BY <2>1, <2>2 DEF Places
  <2>4. QED
    BY <2>3 DEF InWalk, AtPlace, x
<1>2. \A i, j : ~IsOpen(i, j)
  <2>1. UnbegunTasks = {}
    BY DEF UnbegunTasks
  <2>2. QED
    BY <1>1, <2>1 DEF IsOpen, Owns
<1>3. OpenPairs = {}
  BY <1>2 DEF OpenPairs
<1>4. QED
  BY <1>3 DEF Closed

LEMMA ReturnAnswers ==
    ASSUME JoinOK, Whole, Clean, Return
    PROVE  Abstract!Return \/ Abstract!Panic
<1>1. /\ phase = "running" /\ waiting = {}
      /\ \A k \in DOMAIN walks : walks[k].pc = "ended"
      /\ trees' = trees /\ query' = query
      /\ IF Counted > MaxCount THEN phase' = "panicked"
         ELSE phase' = "done" /\ answer' = Gathered /\ total' = Counted
  <2> DEFINE sum == SumFunction([k \in DOMAIN walks |-> walks[k].counted])
             all == FoldSet(LAMBDA k, b : b (+) walks[k].sink, answer, DOMAIN walks)
  <2>1. sum = Counted /\ all = Gathered
    BY DEF Counted, Gathered
  <2>2. /\ phase = "running" /\ waiting = {}
        /\ \A k \in DOMAIN walks : walks[k].pc = "ended"
        /\ trees' = trees /\ query' = query
    <3>1. /\ phase = "running" /\ waiting = {}
          /\ \A k \in DOMAIN walks : walks[k].pc = "ended"
          /\ UNCHANGED <<input_vars, tasks, waiting, walks, candidates>>
      BY Zenon DEF Return
    <3>2. QED
      BY <3>1 DEF input_vars
  <2>3. IF sum > MaxCount THEN phase' = "panicked"
        ELSE phase' = "done" /\ answer' = all /\ total' = sum
    BY Zenon DEF Return
  <2> HIDE DEF sum, all
  <2>4. QED
    BY <2>1, <2>2, <2>3
<1>2. Closed = Matches
  BY <1>1, NothingOpen
<1>3. IsABag(answer) /\ Ledger
  BY <1>1 DEF Whole
<1>4. AbstractPhase = "working" /\ query.terminal # "nearest"
  BY <1>1 DEF AbstractPhase, JoinOK, PhaseOK
<1>5. CASE Counted > MaxCount
  <2>1. query.terminal = "count"
    <3>1. SUFFICES ASSUME query.terminal # "count" PROVE FALSE
      OBVIOUS
    <3>2. \A k \in DOMAIN walks : walks[k].counted = 0
      BY <1>1, <3>1 DEF Clean
    <3> DEFINE f == [k \in DOMAIN walks |-> walks[k].counted]
    <3>3. f \in [DOMAIN walks -> Nat] /\ IsFiniteSet(DOMAIN walks)
      BY FewWalks
    <3>4. \A d \in DOMAIN walks : f[d] = 0
      BY <3>2
    <3>5. Counted = SumFunction(f)
      BY DEF Counted
    <3> HIDE DEF f
    <3>6. Counted = 0
      BY <3>3, <3>4, <3>5, SumOfZeros
    <3>7. MaxCount \in Nat
      BY TaskAssumption
    <3>8. QED
      BY <1>5, <3>6, <3>7
  <2>2. Cardinality(Matches) > MaxCount
    BY <1>2, <1>3, <1>5, <2>1 DEF Ledger
  <2>3. QED
    BY <1>1, <1>4, <1>5, <2>1, <2>2, PanicsByCount
<1>6. CASE ~(Counted > MaxCount)
  <2>1. phase' = "done" /\ answer' = Gathered /\ total' = Counted
    BY <1>1, <1>6
  <2>2. Abstract!IsAnswer'
    <3>1. CASE query.terminal = "count"
      BY <1>1, <1>2, <1>3, <2>1, <3>1, CountAnswered DEF Ledger
    <3>2. CASE query.terminal # "count"
      <4>1. /\ IsABag(Gathered)
            /\ \A p : Copies(p, Gathered) = Copies(p, answer) + Sunk(p)
            /\ \A p \in DOMAIN Gathered :
                  p \in DOMAIN answer \/ \E k \in DOMAIN walks : p \in DOMAIN walks[k].sink
        BY <1>3, GatheredCopies
      <4>2. DOMAIN Gathered \subseteq PairsOf(AllPairs)
        BY <1>1, <4>1 DEF Clean
      <4>3. \A x \in AllPairs : Copies(PairOf(x[1], x[2]), Gathered)
                                   = IF x \in Matches THEN 1 ELSE 0
        <5>1. \A x \in AllPairs : HasBeenFound(x[1], x[2]) = IF x \in Matches THEN 1 ELSE 0
          BY <1>2, <1>3, <3>2 DEF Ledger
        <5>2. \A i, j : HasBeenFound(i, j) = Copies(PairOf(i, j), answer) + Sunk(PairOf(i, j))
          BY DEF HasBeenFound, Sunk
        <5>3. QED
          BY <4>1, <5>1, <5>2
      <4>4. Matches \subseteq AllPairs
        BY DEF Matches
      <4>5. Gathered = SetToBag(PairsOf(Matches))
        BY <4>1, <4>2, <4>3, <4>4, BagByCopies
      <4>6. QED
        BY <1>1, <1>4, <2>1, <3>2, <4>5, PairsAnswered
    <3>3. QED
      BY <3>1, <3>2
  <2>3. AbstractPhase' = "done"
    BY <2>1 DEF AbstractPhase
  <2>4. QED
    BY <1>1, <1>4, <2>2, <2>3 DEF Abstract!Return
<1>7. QED
  BY <1>5, <1>6

(* What a walk holds of matching pairs is open; with it a count would not  *)
(* exceed the matches.                                                     *)
LEMMA HeldAreOpen ==
    ASSUME JoinOK, phase = "running", NEW k \in DOMAIN walks, walks[k].pc = "visit",
           NEW F, F = {ij \in HeldBy(walks[k].work) : MatchIn(trees, query, ij[1], ij[2])}
    PROVE  F \subseteq OpenPairs
<1> DEFINE x == walks[k]
<1>1. WalkOK(trees, x)
  BY DEF JoinOK, WalksOK
<1>2. F \subseteq Matches
  BY DEF HeldBy, Matches
<1>3. ASSUME NEW z \in F PROVE IsOpen(z[1], z[2])
  <2>1. z \in HeldBy(x.work)
    OBVIOUS
  <2>2. HoldsIn(trees, x.work, z[1], z[2])
    BY <2>1 DEF HeldBy
  <2>3. 0 \in Places(x)
    <3>1. Len(x.stack) \in Nat
      BY <1>1, WalkParts, LenProperties
    <3>2. QED
      BY <3>1 DEF Places
  <2>4. HoldsIn(trees, PlaceWork(x, 0), z[1], z[2])
    <3> HIDE DEF x
    <3>1. QED
      BY <2>2 DEF PlaceWork, HoldsIn
  <2>5. InWalk(trees, walks[k], z[1], z[2])
    BY <2>3, <2>4 DEF InWalk, AtPlace
  <2>6. Owns(k, z[1], z[2])
    BY <2>5 DEF Owns
  <2>7. QED
    BY <2>6 DEF IsOpen
<1>4. QED
  BY <1>2, <1>3 DEF OpenPairs

LEMMA CountIsAtMost ==
    ASSUME JoinOK, Whole, phase = "running", query.terminal = "count",
           NEW k \in DOMAIN walks, NEW F, F \subseteq OpenPairs
    PROVE  /\ walks[k].counted + Cardinality(F) \in Nat
           /\ Cardinality(Matches) \in Nat
           /\ walks[k].counted + Cardinality(F) <= Cardinality(Matches)
<1> DEFINE f == [j \in DOMAIN walks |-> walks[j].counted]
           D == DOMAIN walks
<1>1. f \in [D -> Nat] /\ IsFiniteSet(D) /\ Counted = SumFunction(f)
  BY FewWalks DEF Counted
<1>2. f[k] = walks[k].counted /\ f[k] \in Nat
  BY <1>1
<1> HIDE DEF f
<1>3. Counted = Cardinality(Area(f, D))
  BY <1>1, SumIsArea
<1>4. /\ Cardinality(Area(f, D \ {k})) \in Nat
      /\ Cardinality(Area(f, D)) = f[k] + Cardinality(Area(f, D \ {k}))
  <2>1. \A d \in D : f[d] \in Nat
    BY <1>1
  <2>2. QED
    BY <1>1, <2>1, AreaOfOne
<1>5. Counted = Cardinality(Closed)
  BY DEF Whole, Ledger
<1>6. OpenPairs \subseteq Matches /\ Closed = Matches \ OpenPairs
      /\ Matches \in SUBSET AllPairs
  BY DEF OpenPairs, Closed, Matches
<1>7. /\ IsFiniteSet(Closed) /\ IsFiniteSet(OpenPairs) /\ IsFiniteSet(F)
  <2>1. BuiltTrees(trees)
    BY InputParts DEF JoinOK
  <2>2. Closed \in SUBSET AllPairs /\ OpenPairs \in SUBSET AllPairs /\ F \in SUBSET AllPairs
    BY <1>6
  <2>3. QED
    BY <2>1, <2>2, HeldIsFinite
<1>8. Cardinality(Matches) = Cardinality(Closed) + Cardinality(OpenPairs)
  <2>1. Closed \cup OpenPairs = Matches /\ Closed \cap OpenPairs = {}
    BY <1>6
  <2>2. QED
    BY <1>7, <2>1, DisjointCount
<1>9. Cardinality(F) <= Cardinality(OpenPairs)
  BY <1>7, FS_Subset
<1>10. Cardinality(Closed) \in Nat /\ Cardinality(OpenPairs) \in Nat /\ Cardinality(F) \in Nat
  BY <1>7, FS_CardinalityType
<1> DEFINE c == walks[k].counted
<1>11. c \in Nat /\ Counted = c + Cardinality(Area(f, D \ {k}))
  BY <1>2, <1>3, <1>4
<1> HIDE DEF c, D
<1>12. c + Cardinality(F) \in Nat /\ Cardinality(Matches) \in Nat
       /\ c + Cardinality(F) <= Cardinality(Matches)
  BY <1>4, <1>5, <1>8, <1>9, <1>10, <1>11
<1>13. QED
  BY <1>12 DEF c

SunkAreCounts == \A p : Sunk(p) \in Nat

LEMMA SunkIsCount == JoinOK => SunkAreCounts
  BY FewWalks DEF SunkAreCounts

LEMMA FindsAreEmitted ==
    ASSUME JoinOK, Whole, Clean, JoinOK', Whole', Clean',
           NEW k, Bulk(k) \/ LeafPair(k)
    PROVE  Abstract!Emit \/ Abstract!Panic \/ UNCHANGED Abstract!vars
<1> DEFINE x == walks[k]
           F == {ij \in HeldBy(x.work) : MatchIn(trees, query, ij[1], ij[2])}
           n == x.counted + Cardinality(F)
<1>1. /\ k \in DOMAIN walks /\ phase = "running" /\ x.pc = "visit"
      /\ Emit(k, F)
  BY FindsMatches
<1>2. F \subseteq OpenPairs
  BY <1>1, HeldAreOpen
<1> HIDE DEF F
<1>3. \/ /\ query.terminal = "execute" /\ phase' = phase /\ answer' = answer
      \/ /\ query.terminal = "for_each" /\ phase' = phase
         /\ answer' = answer (+) Found(F)
      \/ /\ query.terminal = "count" /\ phase' = phase /\ answer' = answer
      \/ /\ query.terminal = "count" /\ phase' = "panicked" /\ n > MaxCount
         /\ walks' = walks /\ answer' = answer
  BY <1>1, EmitReads
<1>4. trees' = trees /\ query' = query /\ total' = total
  <2>1. UNCHANGED Rest
    BY <1>1 DEF Emit
  <2>2. QED
    BY <2>1, RestParts
<1>5. AbstractPhase = "working"
  BY <1>1 DEF AbstractPhase
<1>6. CASE phase' = phase /\ answer' = answer
  <2>1. AbstractPhase' = AbstractPhase
    BY <1>6 DEF AbstractPhase
  <2>2. QED
    BY <1>4, <1>6, <2>1 DEF Abstract!vars
<1>7. CASE query.terminal = "count" /\ phase' = "panicked" /\ n > MaxCount
  <2>1. n \in Nat /\ Cardinality(Matches) \in Nat /\ n <= Cardinality(Matches)
    BY <1>1, <1>2, <1>7, CountIsAtMost
  <2>2. MaxCount \in Nat
    BY TaskAssumption
  <2> HIDE DEF n
  <2>3. Cardinality(Matches) > MaxCount
    BY <1>7, <2>1, <2>2
  <2>4. QED
    BY <1>4, <1>5, <1>7, <2>3, PanicsByCount
<1>8. CASE /\ query.terminal = "for_each" /\ phase' = phase /\ answer' # answer
           /\ answer' = answer (+) Found(F)
  <2>1. IsABag(answer) /\ IsABag(answer') /\ Ledger'
    BY <1>1, <1>8 DEF Whole
  <2>2. answer \sqsubseteq answer'
    <3>1. \A p \in DOMAIN answer : /\ p \in DOMAIN answer'
                                   /\ answer[p] <= answer'[p]
      <4>1. SUFFICES ASSUME NEW p \in DOMAIN answer
                     PROVE  p \in DOMAIN answer' /\ answer[p] <= answer'[p]
        OBVIOUS
      <4>2. p \in DOMAIN answer'
        <5> DEFINE c == Found(F)
        <5>1. answer' = answer (+) c
          BY <1>8
        <5> HIDE DEF c
        <5>2. QED
          BY <5>1 DEF (+)
      <4>3. /\ Copies(p, answer) \in Nat
            /\ Copies(p, answer') = Copies(p, answer)
                  + IF p \in {PairOf(z[1], z[2]) : z \in F} THEN 1 ELSE 0
        BY <1>8, <2>1, CopiesOfMore DEF Found
      <4>4. Copies(p, answer) <= Copies(p, answer')
        BY <4>3
      <4>5. Copies(p, answer) = answer[p] /\ Copies(p, answer') = answer'[p]
        BY <2>1, <4>2, CopiesAreFew
      <4>6. QED
        BY <4>2, <4>4, <4>5
    <3>2. QED
      BY <3>1 DEF \sqsubseteq
  <2>3. answer' \sqsubseteq SetToBag(PairsOf(Matches))
    <3>1. PairsOf(AllPairs)' = PairsOf(AllPairs)
      BY <1>4, AllPairsStay
    <3>2. DOMAIN answer' \subseteq PairsOf(AllPairs)
      BY <1>1, <1>8, <3>1 DEF Clean
    <3>3. \A z \in AllPairs : HasBeenFound(z[1], z[2])' = IF z \in Closed' THEN 1 ELSE 0
      <4>1. AllPairs' = AllPairs
        BY <1>4 DEF AllPairs, Entry
      <4>2. query'.terminal # "count"
        BY <1>4, <1>8
      <4>3. QED
        BY <2>1, <4>1, <4>2 DEF Ledger
    <3>4. ASSUME NEW z \in AllPairs
          PROVE  Copies(PairOf(z[1], z[2]), answer') <= IF z \in Matches THEN 1 ELSE 0
      <4> DEFINE p == PairOf(z[1], z[2])
      <4>1. HasBeenFound(z[1], z[2])'
               = Copies(PairOf(z[1], z[2])', answer') + Sunk(PairOf(z[1], z[2]))'
        BY DEF HasBeenFound, Sunk
      <4>2. PairOf(z[1], z[2])' = p
        BY <1>4 DEF PairOf, Distances
      <4>3. Closed' \subseteq Matches
        <5>1. Matches' = Matches
          BY <1>4 DEF Matches, AllPairs, Entry
        <5>2. QED
          BY <5>1 DEF Closed
      <4>4. Copies(p, answer') \in Nat
        BY <2>1, CopiesAreFew
      <4>5. Sunk(PairOf(z[1], z[2]))' \in Nat
        <5>1. SunkAreCounts'
          BY SunkIsCount, PTL
        <5>2. \A q : Sunk(q)' \in Nat
          BY <5>1 DEF SunkAreCounts
        <5>3. QED
          BY <5>2
      <4> DEFINE more == Sunk(PairOf(z[1], z[2]))'
      <4>6. Copies(p, answer') + more = IF z \in Closed' THEN 1 ELSE 0
        BY <3>3, <4>1, <4>2
      <4> HIDE DEF p, more
      <4>7. Copies(p, answer') <= IF z \in Matches THEN 1 ELSE 0
        BY <4>3, <4>4, <4>5, <4>6 DEF more
      <4>8. QED
        BY <4>7 DEF p
    <3>5. Matches \subseteq AllPairs
      BY DEF Matches
    <3>6. QED
      BY <2>1, <3>2, <3>4, <3>5, BagByCopies
  <2>4. AbstractPhase' = AbstractPhase
    BY <1>8 DEF AbstractPhase
  <2>5. Abstract!Pairs' = PairsOf(Matches)
    BY <1>4, <1>8, SamePairs, PairsStay
  <2>6. Abstract!Pairs = PairsOf(Matches)
    BY <1>8, SamePairs
  <2>7. Abstract!SetToBag(PairsOf(Matches)) = SetToBag(PairsOf(Matches))
    BY SameBags
  <2>8. /\ Abstract!\sqsubseteq(answer, answer')
        /\ Abstract!\sqsubseteq(answer', Abstract!SetToBag(Abstract!Pairs))
    BY <2>2, <2>3, <2>6, <2>7, SameBags
  <2>9. QED
    BY <1>4, <1>5, <1>8, <2>4, <2>8 DEF Abstract!Emit
<1>9. QED
  BY <1>3, <1>6, <1>7, <1>8

-----------------------------------------------------------------------------
(* A candidate that is nearer than the one a query starts with is an entry *)
(* at the distance it says.                                                *)
IsChosen(i) ==
    \/ candidates[i].distance = Infinity
    \/ /\ candidates[i].right \in Entry("right")
       /\ candidates[i].distance = EntryDist(trees, query.metric, i, candidates[i].right)

Chosen == phase = "nearest" => \A i \in Entry("left") : IsChosen(i)

LEMMA ChosenStays ==
    ASSUME trees' = trees, query' = query, candidates' = candidates
    PROVE  /\ \A i : IsChosen(i)' <=> IsChosen(i)
           /\ \A s : Entry(s)' = Entry(s)
  BY DEF IsChosen, Entry

LEMMA ChosenAtLeaf ==
    ASSUME JoinOK, NearestOK, Chosen, NearestLeaf
    PROVE  Chosen'
<1> DEFINE w == Last(tasks)
           leaf == w["right"].start
           l == RowsOf(trees.left, w.left.start, AllRows)
<1>1. phase = "nearest" /\ trees' = trees /\ query' = query /\ tasks \in Seq(Works)
      /\ tasks # <<>>
  BY NearestReads DEF JoinOK, TasksOK
<1>2. /\ candidates = [i \in Entry("left") |-> candidates[i]]
      /\ \A i \in Entry("left") : candidates[i].distance \in Nat
  BY <1>1 DEF NearestOK, CandidatesOK
<1>3. Sound(trees, w)
  <2>1. Len(tasks) \in Nat \ {0} /\ w = tasks[Len(tasks)]
    BY <1>1, FrontParts
  <2>2. DOMAIN tasks = 1 .. Len(tasks)
    BY <1>1, LenProperties
  <2>3. Len(tasks) \in DOMAIN tasks
    BY <2>1, <2>2
  <2> HIDE DEF w
  <2>4. QED
    BY <2>1, <2>3 DEF JoinOK, TasksOK
<1>4. /\ candidates' = [i \in DOMAIN candidates |->
                           IF i \in l THEN Improved(i, leaf) ELSE candidates[i]]
      /\ ~Hopeless(w) /\ BothAtLeaf(w)
  BY DEF NearestLeaf
<1>5. leaf \in 0 .. Len(trees["right"].leaves) - 1
  <2>1. SomeLeaves(w)
    BY <1>4 DEF Hopeless
  <2>2. /\ IsBuilt(trees["right"]) /\ CursorOK(trees["right"], w["right"])
        /\ AtLeaf(w["right"]) /\ Span(w["right"]) > 0
    BY <1>3, <1>4, <2>1, InputParts
       DEF JoinOK, BuiltTrees, Sides, Sound, SomeLeaves, BothAtLeaf
  <2>3. QED
    BY <2>2, LeafOfCursor
<1> HIDE DEF w, leaf, l
<1>6. DOMAIN candidates = Entry("left")
  BY <1>2
<1>7. \A s : Entry(s)' = Entry(s)
  BY <1>1 DEF Entry
<1>8. ASSUME NEW i \in Entry("left") PROVE IsChosen(i)'
  <2> DEFINE c == candidates'[i]
  <2>1. IsChosen(i)
    BY <1>1, <1>8 DEF Chosen
  <2>2. \/ c = candidates[i]
        \/ /\ c.right \in Entry("right")
           /\ c.distance = EntryDist(trees, query.metric, i, c.right)
    <3>1. CASE i \in l
      <4>1. c = Improved(i, leaf)
        BY <1>4, <1>6, <3>1
      <4> HIDE DEF c
      <4>2. \/ Improved(i, leaf) = candidates[i]
            \/ /\ Improved(i, leaf).right \in Entry("right")
               /\ Improved(i, leaf).distance
                     = EntryDist(trees, query.metric, i, Improved(i, leaf).right)
        BY <1>2, <1>5, ImprovedIsNearest
      <4>3. QED
        BY <4>1, <4>2
    <3>2. CASE i \notin l
      BY <1>4, <1>6, <3>2
    <3>3. QED
      BY <3>1, <3>2
  <2> HIDE DEF c
  <2>3. \/ c.distance = Infinity
        \/ /\ c.right \in Entry("right")
           /\ c.distance = EntryDist(trees, query.metric, i, c.right)
    BY <2>1, <2>2 DEF IsChosen
  <2>4. \/ c.distance = Infinity
        \/ /\ c.right \in Entry("right")'
           /\ c.distance = EntryDist(trees', query'.metric, i, c.right)
    BY <1>1, <1>7, <2>3
  <2>5. QED
    BY <2>4 DEF IsChosen, c
<1>9. QED
  BY <1>7, <1>8 DEF Chosen

LEMMA ChosenStep == JoinOK /\ NearestOK /\ Chosen /\ [Next]_vars => Chosen'
<1> SUFFICES ASSUME JoinOK, NearestOK, Chosen, [Next]_vars PROVE Chosen'
  OBVIOUS
<1>1. CASE phase' # "nearest"
  BY <1>1 DEF Chosen
<1>2. CASE Nearest
  <2>1. /\ trees' = trees /\ query' = query
        /\ candidates' = [i \in DOMAIN trees["left"].points |->
                             [right |-> 0, distance |-> Infinity]]
    BY <1>2 DEF Nearest, input_vars
  <2>2. \A i \in Entry("left")' : candidates'[i].distance = Infinity
    BY <2>1 DEF Entry
  <2>3. \A i \in Entry("left")' : IsChosen(i)'
    BY <2>2 DEF IsChosen
  <2>4. QED
    BY <2>3 DEF Chosen
<1>3. CASE NearestLeaf
  BY <1>3, ChosenAtLeaf
<1>4. CASE NearestSkip \/ NearestDescend \/ UNCHANGED vars
  <2>1. /\ trees' = trees /\ query' = query /\ phase' = phase
        /\ candidates' = candidates
    BY <1>4 DEF NearestSkip, NearestDescend, vars, input_vars
  <2>2. QED
    BY <2>1, ChosenStays DEF Chosen
<1>5. QED
  BY <1>1, <1>2, <1>3, <1>4, NearestElsewhere

(* With nothing left to look at the candidates are nearest entries. *)
LEMMA CandidatesAreNearest ==
    ASSUME FiniteNearest, JoinOK, NearestOK, Chosen, phase = "nearest", tasks = <<>>,
           NEW i \in Entry("left")
    PROVE  /\ candidates[i].right \in Entry("right")
           /\ candidates[i].distance = EntryDist(trees, query.metric, i, candidates[i].right)
           /\ \A j \in Entry("right") :
                 EntryDist(trees, query.metric, i, candidates[i].right)
                    <= EntryDist(trees, query.metric, i, j)
<1> DEFINE e(j) == EntryDist(trees, query.metric, i, j)
           d == candidates[i].distance
<1>1. IsBuilt(trees["left"]) /\ IsBuilt(trees["right"])
  BY InputParts DEF JoinOK, BuiltTrees, Sides
<1>2. ASSUME NEW j \in Entry("right") PROVE e(j) \in Nat
  <2>1. trees["left"].points[i] \in [Dims -> Int]
    BY <1>1, BuiltTypes DEF Entry
  <2>2. trees["right"].points[j] \in [Dims -> Int]
    BY <1>1, BuiltTypes DEF Entry
  <2>3. QED
    BY <2>1, <2>2, PointDistType DEF EntryDist
<1>3. ASSUME NEW j \in Entry("right") PROVE e(j) < Infinity
  <2>1. PICK c \in Calls : trees = c.trees /\ query = c.query
    BY DEF JoinOK, InputOK
  <2>2. query.terminal = "nearest"
    BY DEF JoinOK, PhaseOK
  <2>3. QED
    BY <2>1, <2>2 DEF FiniteNearest, Entry
<1>4. d \in Nat
  BY DEF NearestOK, CandidatesOK
<1>5. \A j \in Entry("right") : ~(e(j) < d)
  <2>1. DOMAIN tasks = {}
    OBVIOUS
  <2>2. QED
    BY <2>1 DEF NearestOK, NearerIsToCome
<1>6. Entry("right") # {}
  <2>1. TreeSize(trees.right) # 0
    BY DEF JoinOK, PhaseOK, SomeTreeEmpty
  <2>2. Len(trees["right"].points) \in Nat /\ DOMAIN trees["right"].points = 1 .. Len(trees["right"].points)
    BY <1>1, BuiltTypes
  <2>3. 1 \in Entry("right")
    BY <2>1, <2>2 DEF TreeSize, Entry
  <2>4. QED
    BY <2>3
<1>7. IsChosen(i)
  BY DEF Chosen
<1> HIDE DEF e, d
<1>8. PICK j \in Entry("right") : TRUE
  BY <1>6
<1>9. d < Infinity
  <2>1. e(j) \in Nat /\ e(j) < Infinity /\ ~(e(j) < d)
    BY <1>2, <1>3, <1>5
  <2>2. Infinity \in Nat
    BY MetricAssumption
  <2>3. QED
    BY <2>1, <2>2, <1>4
<1>10. Infinity \in Nat
  BY MetricAssumption
<1>11. candidates[i].right \in Entry("right") /\ d = e(candidates[i].right)
  <2>1. d # Infinity
    BY <1>4, <1>9, <1>10
  <2>2. QED
    BY <1>7, <2>1 DEF IsChosen, d, e
<1>12. \A k \in Entry("right") : d <= e(k)
  BY <1>2, <1>4, <1>5
<1>13. QED
  BY <1>11, <1>12 DEF e, d

LEMMA NearestIsReturned ==
    ASSUME FiniteNearest, JoinOK, NearestOK, Chosen, NearestReturn
    PROVE  Abstract!Return
<1> DEFINE L == Entry("left")
           pair(i) == [left |-> i, right |-> candidates[i].right,
                       distance |-> candidates[i].distance]
           S == {pair(i) : i \in L}
           b == SetToBag(S)
<1>1. /\ phase = "nearest" /\ tasks = <<>> /\ phase' = "done"
      /\ trees' = trees /\ query' = query
      /\ answer' = SetToBag({pair(i) : i \in DOMAIN candidates})
  BY DEF NearestReturn, input_vars
<1>2. DOMAIN candidates = L
  BY <1>1 DEF NearestOK, CandidatesOK
<1>3. answer' = b
  <2> HIDE DEF L, pair
  <2>1. QED
    BY <1>1, <1>2
<1>4. query.terminal = "nearest" /\ ~SomeTreeEmpty
  BY <1>1 DEF JoinOK, PhaseOK
<1>5. query.distances
  BY <1>4, TaskAssumption DEF JoinOK, InputOK
<1>6. ASSUME NEW i \in L
      PROVE  /\ pair(i).left = i /\ pair(i).right \in Entry("right")
             /\ pair(i) = Abstract!PairOf(i, pair(i).right)
             /\ pair(i).right \in Abstract!NearestOf(i)
  <2> DEFINE r == candidates[i].right
  <2>1. /\ r \in Entry("right")
        /\ candidates[i].distance = EntryDist(trees, query.metric, i, r)
        /\ \A j \in Entry("right") :
              EntryDist(trees, query.metric, i, r) <= EntryDist(trees, query.metric, i, j)
    BY <1>1, CandidatesAreNearest
  <2>2. r \in Abstract!NearestOf(i)
    <3> HIDE DEF r
    <3>1. QED
      BY <2>1, SameDistance DEF Abstract!NearestOf, Abstract!Entry, Entry
  <2>3. pair(i) = Abstract!PairOf(i, r)
    <3>1. Abstract!PairOf(i, r) = PairOf(i, r)
      BY <1>4, SamePairs
    <3>2. PairOf(i, r) = [left |-> i, right |-> r,
                          distance |-> EntryDist(trees, query.metric, i, r)]
      BY <1>4, <1>5 DEF PairOf, Distances
    <3>3. QED
      BY <2>1, <3>1, <3>2
  <2>4. pair(i).left = i /\ pair(i).right = r
    OBVIOUS
  <2> HIDE DEF pair
  <2>5. QED
    BY <2>1, <2>2, <2>3, <2>4
<1> HIDE DEF pair
<1>7. DOMAIN b = S /\ \A p \in DOMAIN b : b[p] = 1
  BY DEF SetToBag
<1>8. \A p \in S : /\ p.right \in Abstract!NearestOf(p.left)
                   /\ p = Abstract!PairOf(p.left, p.right)
  BY <1>6
<1>9. {p.left : p \in S} = L
  BY <1>6
<1>10. Cardinality(S) = Cardinality(L)
  <2> DEFINE f == [i \in L |-> pair(i)]
  <2>1. \A i, j \in L : pair(i) = pair(j) => i = j
    BY <1>6
  <2>2. f \in Bijection(L, S)
    BY <2>1 DEF Bijection, Injection, Surjection, IsInjective
  <2>3. ExistsBijection(L, S)
    BY <2>2 DEF ExistsBijection
  <2>4. IsFiniteSet(L)
    <3>1. IsBuilt(trees["left"])
      BY InputParts DEF JoinOK, BuiltTrees, Sides
    <3>2. L = 1 .. Len(trees["left"].points) /\ Len(trees["left"].points) \in Nat
      BY <3>1, BuiltTypes DEF Entry
    <3> HIDE DEF L
    <3>3. QED
      BY <3>2, FS_Interval
  <2> HIDE DEF f, S, L
  <2>5. QED
    BY <2>3, <2>4, FS_Bijection
<1>11. Abstract!IsNearest(b)
  <2>1. Abstract!Entry("left") = L /\ Abstract!Entry("right") = Entry("right")
    BY DEF Abstract!Entry, Entry
  <2>2. Entry("right") # {}
    <3>1. IsBuilt(trees["right"])
      BY InputParts DEF JoinOK, BuiltTrees, Sides
    <3>2. TreeSize(trees.right) # 0
      BY <1>4 DEF SomeTreeEmpty
    <3>3. 1 \in Entry("right")
      BY <3>1, <3>2, BuiltTypes DEF TreeSize, Entry
    <3>4. QED
      BY <3>3
  <2>3. \A s : Abstract!Cardinality(s) = Cardinality(s)
    BY SameBags
  <2> HIDE DEF S, L, b
  <2>4. QED
    BY <1>7, <1>8, <1>9, <1>10, <2>1, <2>2, <2>3 DEF Abstract!IsNearest
<1> HIDE DEF b
<1>12. Abstract!IsNearest(answer)'
  BY <1>1, <1>3, <1>11
     DEF Abstract!IsNearest, Abstract!NearestOf, Abstract!Entry, Abstract!PairOf
<1>13. Abstract!IsAnswer'
  BY <1>1, <1>4, <1>12, NearestAnswered
<1>14. AbstractPhase = "working" /\ AbstractPhase' = "done"
  BY <1>1 DEF AbstractPhase
<1>15. QED
  BY <1>1, <1>13, <1>14 DEF Abstract!Return

(* The steps that answer at once. *)
LEMMA EmptyIsAnswered ==
    ASSUME JoinOK, AnswerEmpty
    PROVE  Abstract!Ask
<1>1. /\ phase = "idle" /\ phase' = "done" /\ SomeTreeEmpty
      /\ trees' = trees /\ query' = query /\ answer' = answer /\ total' = total
  BY DEF AnswerEmpty, input_vars
<1>2. answer = EmptyBag /\ total = 0
  BY <1>1 DEF JoinOK, PhaseOK
<1>3. Entry("left") = {} \/ Entry("right") = {}
  <2>1. IsBuilt(trees["left"]) /\ IsBuilt(trees["right"])
    BY InputParts DEF JoinOK, BuiltTrees, Sides
  <2>2. /\ Entry("left") = 1 .. Len(trees["left"].points)
        /\ Entry("right") = 1 .. Len(trees["right"].points)
    BY <2>1, BuiltTypes DEF Entry
  <2>3. Len(trees["left"].points) = 0 \/ Len(trees["right"].points) = 0
    BY <1>1 DEF SomeTreeEmpty, TreeSize
  <2>4. QED
    BY <2>2, <2>3
<1>4. Matches = {}
  BY <1>3 DEF Matches, AllPairs
<1>5. EmptyBag = SetToBag({}) /\ DOMAIN EmptyBag = {} /\ Cardinality({}) = 0
  BY FS_EmptySet DEF EmptyBag, SetToBag
<1>6. Abstract!IsAnswer'
  <2>1. CASE query.terminal = "count"
    BY <1>1, <1>2, <1>4, <1>5, <2>1, CountAnswered
  <2>2. CASE query.terminal = "nearest"
    <3>1. /\ \A s : Abstract!Entry(s)' = Entry(s)
          /\ \A s : Abstract!Cardinality(s) = Cardinality(s)
          /\ Abstract!EmptyBag = EmptyBag
      BY <1>1, SameBags DEF Abstract!Entry, Entry
    <3>2. {p.left : p \in DOMAIN EmptyBag} = {}
      BY <1>5
    <3>3. (IF Entry("right") = {} THEN answer' = Abstract!EmptyBag
           ELSE /\ \A p \in DOMAIN answer' : FALSE
                /\ {p.left : p \in DOMAIN answer'} = Entry("left")
                /\ Cardinality(DOMAIN answer') = Cardinality(Entry("left")))
      BY <1>1, <1>2, <1>3, <1>5, <3>1, <3>2
    <3>4. Abstract!IsNearest(answer)'
      BY <3>1, <3>3 DEF Abstract!IsNearest
    <3>5. QED
      BY <1>1, <2>2, <3>4, NearestAnswered
  <2>3. CASE query.terminal \notin {"count", "nearest"}
    <3>1. PairsOf({}) = {}
      BY DEF PairsOf
    <3>2. QED
      BY <1>1, <1>2, <1>4, <1>5, <2>3, <3>1, PairsAnswered
  <2>4. QED
    BY <2>1, <2>2, <2>3
<1>7. AbstractPhase = "idle" /\ AbstractPhase' = "done"
  BY <1>1 DEF AbstractPhase
<1>8. QED
  BY <1>6, <1>7 DEF Abstract!Ask

LEMMA AllAreCounted ==
    ASSUME JoinOK, CountAll
    PROVE  Abstract!Ask \/ Abstract!Panic
<1> DEFINE product == TreeSize(trees.left) * TreeSize(trees.right)
<1>1. /\ phase = "idle" /\ CountsAll
      /\ IF product > MaxCount THEN phase' = "panicked"
         ELSE phase' = "done" /\ total' = product
      /\ UNCHANGED <<input_vars, tasks, waiting, walks, answer, candidates>>
  BY Zenon DEF CountAll
<1>2. trees' = trees /\ query' = query
  BY <1>1 DEF input_vars
<1>3. query.terminal = "count" /\ ~query.exclusive /\ query.radius = Infinity
  BY <1>1 DEF CountsAll
<1>4. IsBuilt(trees["left"]) /\ IsBuilt(trees["right"])
  BY InputParts DEF JoinOK, BuiltTrees, Sides
<1>5. Matches = AllPairs
  <2>1. ASSUME NEW x \in AllPairs PROVE MatchIn(trees, query, x[1], x[2])
    <3>1. PICK c \in Calls : trees = c.trees /\ query = c.query
      BY DEF JoinOK, InputOK
    <3>2. x[1] \in DOMAIN trees["left"].points /\ x[2] \in DOMAIN trees["right"].points
      BY DEF AllPairs, Entry
    <3>3. EntryDist(trees, query.metric, x[1], x[2]) <= Infinity
      BY <3>1, <3>2, DistancesAssumption
    <3>4. QED
      BY <1>3, <3>2, <3>3 DEF MatchIn, Accepts
  <2>2. QED
    BY <2>1 DEF Matches
<1>6. Cardinality(AllPairs) = product
  <2>1. /\ Entry("left") = 1 .. Len(trees["left"].points)
        /\ Entry("right") = 1 .. Len(trees["right"].points)
        /\ Len(trees["left"].points) \in Nat /\ Len(trees["right"].points) \in Nat
    BY <1>4, BuiltTypes DEF Entry
  <2>2. \A n \in Nat : IsFiniteSet(1 .. n) /\ Cardinality(1 .. n) = n
    <3>1. SUFFICES ASSUME NEW n \in Nat
                   PROVE  IsFiniteSet(1 .. n) /\ Cardinality(1 .. n) = n
      OBVIOUS
    <3>2. QED
      BY FS_Interval
  <2> DEFINE l == Len(trees["left"].points)
             r == Len(trees["right"].points)
  <2>3. /\ IsFiniteSet(Entry("left")) /\ Cardinality(Entry("left")) = l
        /\ IsFiniteSet(Entry("right")) /\ Cardinality(Entry("right")) = r
    <3> HIDE DEF l, r
    <3>1. /\ Entry("left") = 1 .. l /\ Entry("right") = 1 .. r
          /\ l \in Nat /\ r \in Nat
      BY <2>1 DEF l, r
    <3>2. QED
      BY <2>2, <3>1
  <2>4. Cardinality(AllPairs) = Cardinality(Entry("left")) * Cardinality(Entry("right"))
    BY <2>3, FS_Product DEF AllPairs
  <2>5. QED
    BY <2>4, <2>3 DEF TreeSize
<1> HIDE DEF product
<1>7. AbstractPhase = "idle"
  BY <1>1 DEF AbstractPhase
<1>8. CASE product > MaxCount
  BY <1>1, <1>2, <1>3, <1>5, <1>6, <1>7, <1>8, PanicsByCount
<1>9. CASE ~(product > MaxCount)
  <2>1. phase' = "done" /\ total' = product
    BY <1>1, <1>9
  <2>2. Abstract!IsAnswer'
    BY <1>2, <1>3, <1>5, <1>6, <2>1, CountAnswered
  <2>3. AbstractPhase' = "done"
    BY <2>1 DEF AbstractPhase
  <2>4. QED
    BY <1>7, <2>2, <2>3 DEF Abstract!Ask
<1>10. QED
  BY <1>8, <1>9

(* The steps inside a join change nothing of what PairJoin shows.          *)
LEMMA WorkIsHidden ==
    ASSUME \/ CutFrontier \/ FrontierDone
           \/ NearestSkip \/ NearestLeaf \/ NearestDescend \/ UNCHANGED vars
           \/ \E k : \/ Begin(k) \/ Descend(k) \/ PopRestore(k) \/ PopRight(k)
                     \/ Reject(k) \/ WalkEnds(k)
    PROVE  UNCHANGED Abstract!vars
<1>1. /\ AbstractPhase' = AbstractPhase /\ trees' = trees /\ query' = query
      /\ answer' = answer /\ total' = total
  <2>1. CASE CutFrontier
    <3>1. phase' = phase /\ UNCHANGED <<input_vars, answer, total>>
      BY <2>1, Zenon DEF CutFrontier
    <3>2. QED
      BY <3>1 DEF AbstractPhase, input_vars
  <2>2. CASE FrontierDone
    <3>1. phase = "frontier" /\ phase' = "running" /\ UNCHANGED <<input_vars, answer, total>>
      BY <2>2, Zenon DEF FrontierDone
    <3>2. QED
      BY <3>1 DEF AbstractPhase, input_vars
  <2>3. CASE NearestSkip \/ NearestLeaf \/ NearestDescend
    <3>1. phase' = phase /\ UNCHANGED <<input_vars, answer, total>>
      BY <2>3, Zenon DEF NearestSkip, NearestLeaf, NearestDescend
    <3>2. QED
      BY <3>1 DEF AbstractPhase, input_vars
  <2>4. CASE UNCHANGED vars
    BY <2>4 DEF vars, input_vars, AbstractPhase
  <2>5. CASE \E k : Begin(k)
    <3>1. phase' = phase /\ UNCHANGED <<input_vars, answer, total>>
      BY <2>5, Zenon DEF Begin
    <3>2. QED
      BY <3>1 DEF AbstractPhase, input_vars
  <2>6. CASE \E k : Descend(k) \/ PopRestore(k) \/ PopRight(k) \/ Reject(k) \/ WalkEnds(k)
    <3>1. phase' = phase /\ answer' = answer /\ UNCHANGED Rest
      BY <2>6, Zenon DEF Descend, PopRestore, PopRight, Reject, WalkEnds, Pops
    <3>2. UNCHANGED <<trees, query, executor, tasks, waiting, total, candidates>>
      BY <3>1, RestParts
    <3>3. QED
      BY <3>1, <3>2 DEF AbstractPhase
  <2>7. QED
    BY <2>1, <2>2, <2>3, <2>4, <2>5, <2>6
<1>2. QED
  BY <1>1 DEF Abstract!vars

LEMMA AskedToWork ==
    ASSUME JoinOK, Join \/ Nearest
    PROVE  Abstract!Ask
<1>1. /\ phase = "idle" /\ phase' \in {"frontier", "nearest"}
      /\ UNCHANGED <<answer, total>>
  BY Zenon DEF Join, Nearest
<1>2. answer' = EmptyBag /\ total' = 0
  BY <1>1 DEF JoinOK, PhaseOK
<1>3. AbstractPhase = "idle" /\ AbstractPhase' = "working"
  BY <1>1 DEF AbstractPhase
<1>4. QED
  BY <1>2, <1>3, SameBags DEF Abstract!Ask

LEMMA JoinStepImplements ==
    ASSUME FiniteNearest
    PROVE  JoinOK /\ Whole /\ Clean /\ NearestOK /\ Chosen /\ [Next]_vars
              => [Abstract!Next]_(Abstract!vars)
<1> SUFFICES ASSUME JoinOK, Whole, Clean, NearestOK, Chosen, [Next]_vars
             PROVE  Abstract!Next \/ UNCHANGED Abstract!vars
  OBVIOUS
<1>1. JoinOK' /\ Whole' /\ Clean'
  BY JoinOKStep, WholeStep, CleanStep
<1>2. CASE AnswerEmpty
  BY <1>2, EmptyIsAnswered DEF Abstract!Next
<1>3. CASE CountAll
  BY <1>3, AllAreCounted DEF Abstract!Next
<1>4. CASE Join \/ Nearest
  BY <1>4, AskedToWork DEF Abstract!Next
<1>5. CASE Return
  BY <1>5, ReturnAnswers DEF Abstract!Next
<1>6. CASE NearestReturn
  BY <1>6, NearestIsReturned DEF Abstract!Next
<1>7. CASE CutFrontier \/ FrontierDone
           \/ NearestSkip \/ NearestLeaf \/ NearestDescend \/ UNCHANGED vars
  BY <1>7, WorkIsHidden
<1>8. CASE \E k \in DOMAIN tasks : Walk(k)
  <2>1. PICK k \in DOMAIN tasks : Walk(k)
    BY <1>8
  <2>2. CASE Bulk(k) \/ LeafPair(k)
    BY <1>1, <2>2, FindsAreEmitted DEF Abstract!Next
  <2>3. CASE Begin(k) \/ Descend(k) \/ PopRestore(k) \/ PopRight(k)
             \/ Reject(k) \/ WalkEnds(k)
    BY <2>3, WorkIsHidden
  <2>4. QED
    BY <2>1, <2>2, <2>3 DEF Walk
<1>9. QED
  BY <1>2, <1>3, <1>4, <1>5, <1>6, <1>7, <1>8 DEF Next, Execute, Work

LEMMA JoinInitImplements ==
    Init => Clean /\ Chosen /\ Abstract!Init
  BY SameBags DEF Init, Clean, Chosen, Abstract!Init, AbstractPhase

(* A join keeps the promise of PairJoin: a radius join returns every pair  *)
(* within the radius once and no other, handing them over in any order, a  *)
(* count is exact or panics because it is too great, and a nearest query   *)
(* returns a nearest entry for each, whatever tasks the frontier was cut   *)
(* into and however their walks interleave.                                *)
THEOREM JoinImplementsPairJoin ==
    ASSUME FiniteNearest
    PROVE  Spec => ImplementsPairJoin
<1> DEFINE Good == JoinOK /\ Whole /\ Clean /\ NearestOK /\ Chosen
<1>1. Init => Good /\ Abstract!Init
  BY InitOK, WholeInit, NearestOKInit, JoinInitImplements
<1>2. Good /\ [Next]_vars => Good'
  BY JoinOKStep, WholeStep, CleanStep, NearestOKStep, ChosenStep
<1>3. Good /\ [Next]_vars => [Abstract!Next]_(Abstract!vars)
  BY JoinStepImplements
<1> HIDE DEF Good
<1>4. QED
  BY <1>1, <1>2, <1>3, PTL DEF Spec, ImplementsPairJoin, Abstract!Spec

=============================================================================
