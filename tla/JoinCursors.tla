----------------------------- MODULE JoinCursors -----------------------------
(***************************************************************************)
(* What the joins of two immutable trees share: cursors over the subtrees  *)
(* of a tree, the boxes around two of them, and the step from a pair of    *)
(* subtrees to its two halves.                                             *)
(*                                                                         *)
(* A tree is a record: its points, its stems (numbered as by Eytzinger; a  *)
(* padded Donnelly tree has its root at the left of the padding levels),   *)
(* its leaves as sequences of positions in points, stems_depth as depth,   *)
(* max_stem_level and max_leaf_len.  Two trees are a record of two fields, *)
(* left and right, the sides.                                              *)
(***************************************************************************)
EXTENDS Metrics, FiniteSets, Sequences

Sides == {"left", "right"}

(* What building a tree leaves: every entry in one leaf, on the side of    *)
(* each stem above it that its coordinate allows, and where it is equal to *)
(* the stem on either; finite coordinates.                                 *)
IsBuilt(tree) ==
    LET first == 2 ^ tree.depth \* the number of the first leaf, as a stem
    IN
    /\ tree.depth \in Nat
    /\ tree.max_stem_level = tree.depth - 1
    /\ tree.max_leaf_len \in Nat
    /\ tree.points \in Seq([Dims -> 1 - Infinity .. Infinity - 1])
    /\ tree.stems \in [1 .. first - 1 -> 1 - Infinity .. Infinity]
    /\ tree.leaves \in Seq(Seq(DOMAIN tree.points))
    /\ Len(tree.leaves) <= first
    /\ \A leaf \in DOMAIN tree.leaves : Len(tree.leaves[leaf]) <= Infinity
    /\ \A i \in DOMAIN tree.points :
          \E leaf \in DOMAIN tree.leaves : \E r \in DOMAIN tree.leaves[leaf] :
             /\ tree.leaves[leaf][r] = i
             /\ \A m \in DOMAIN tree.leaves : \A q \in DOMAIN tree.leaves[m] :
                   tree.leaves[m][q] = i => m = leaf /\ q = r
             /\ \A n \in 0 .. tree.depth - 1 :
                   LET down == (first + leaf - 1) \div 2 ^ n
                       stem == tree.stems[down \div 2]
                       x    == tree.points[i][(tree.depth - 1 - n) % K]
                   IN  /\ down % 2 = 0 => x <= stem
                       /\ down % 2 = 1 => x >= stem

-----------------------------------------------------------------------------
(* Cursor: a subtree as its root stem and the leaves below it, which are   *)
(* numbered from zero; end is the first leaf after them.                   *)
RootCursor(tree) ==
    [stem |-> 1, level |-> 0, start |-> 0, end |-> Len(tree.leaves),
     remaining |-> tree.depth,
     padding |-> Greater(tree.depth - Greater(tree.max_stem_level + 1, 0), 0)]

AtLeaf(c) == c.remaining = 0
Span(c)   == c.end - c.start

Mid(c) == Lesser(c.start + 2 ^ (c.remaining - 1), c.end)

SplitLeft(c) ==
    [c EXCEPT !.stem = 2 * @, !.level = @ + 1, !.remaining = @ - 1,
              !.end = Mid(c)]

SplitRight(c) ==
    [c EXCEPT !.stem = 2 * @ + 1, !.level = @ + 1, !.remaining = @ - 1,
              !.start = Mid(c)]

DescendPadding(c) ==
    [c EXCEPT !.stem = 2 * @, !.level = @ + 1, !.remaining = @ - 1,
              !.padding = @ - 1]

-----------------------------------------------------------------------------
(* Bounds: for each side and dimension the interval around its subtree. *)
Unbounded == [s \in Sides |-> [d \in Dims |->
                 [min |-> -Infinity, max |-> Infinity]]]

Lower(b, metric) ==
    Combined(metric, [d \in Dims |->
        LET l == b.left[d]
            r == b.right[d]
        IN  IF l.max < r.min THEN Dist1(metric, l.max, r.min)
            ELSE IF r.max < l.min THEN Dist1(metric, r.max, l.min) ELSE 0])

Finite(x) == -Infinity < x /\ x < Infinity

UpperOneWay(b, metric) == \* a variation: the left below the right
    IF \A s \in Sides, d \in Dims : Finite(b[s][d].min) /\ Finite(b[s][d].max)
    THEN Combined(metric, [d \in Dims |->
             Dist1(metric, b.left[d].min, b.right[d].max)])
    ELSE Infinity

Upper(b, metric) ==
    IF \A s \in Sides, d \in Dims : Finite(b[s][d].min) /\ Finite(b[s][d].max)
    THEN Combined(metric, [d \in Dims |->
             Greater(Dist1(metric, b.left[d].min, b.right[d].max),
                     Dist1(metric, b.left[d].max, b.right[d].min))])
    ELSE Infinity

(* accepts and rejected, for the radius of a query. *)
Accepts(query, distance) ==
    IF query.exclusive THEN distance < query.radius
    ELSE distance <= query.radius

Rejected(query, b) ==
    IF query.exclusive THEN Lower(b, query.metric) >= query.radius
    ELSE Lower(b, query.metric) > query.radius

-----------------------------------------------------------------------------
(* Work: a subtree of each tree, the boxes around them, and the rows of a  *)
(* leaf that are meant.                                                    *)
AllRows == [start |-> 0, end |-> Infinity]

RootWork(trees) ==
    [left |-> RootCursor(trees.left), right |-> RootCursor(trees.right),
     bounds |-> Unbounded, rows |-> [s \in Sides |-> AllRows]]

BothAtLeaf(w) == AtLeaf(w.left) /\ AtLeaf(w.right)
SomeLeaves(w) == Span(w.left) > 0 /\ Span(w.right) > 0

(* The subtree that is halved: the one with more leaves. *)
Side(w) ==
    IF \/ AtLeaf(w.left)
       \/ ~AtLeaf(w.right) /\ Span(w.right) > Span(w.left)
    THEN "right" ELSE "left"

Dim(w)          == w[Side(w)].level % K
Pivot(trees, w) == trees[Side(w)].stems[w[Side(w)].stem]

IsPadding(trees, w) ==
    ~Finite(Pivot(trees, w)) /\ w[Side(w)].padding > 0

Unpadded(w) == [w EXCEPT ![Side(w)] = DescendPadding(@)]

(* The entries before the pivot, and those from it on.  All are before a   *)
(* pivot that is infinite, and the other half is not looked at.            *)
NearHalf(trees, w) ==
    LET s == Side(w)
        p == Pivot(trees, w)
    IN  IF Finite(p)
        THEN [w EXCEPT ![s] = SplitLeft(@),
                       !.bounds[s][Dim(w)].max = Lesser(p, @)]
        ELSE [w EXCEPT ![s] = SplitLeft(@)]

FarHalf(trees, w) ==
    LET s == Side(w)
        p == Pivot(trees, w)
    IN  [w EXCEPT ![s] = SplitRight(@),
                  !.bounds[s][Dim(w)].min = Greater(p, @)]

-----------------------------------------------------------------------------
LeafLen(tree, leaf) == Len(tree.leaves[leaf + 1])

(* tiles: the positions of a leaf that are among the rows. *)
RowsOf(tree, leaf, rows) ==
    {tree.leaves[leaf + 1][r] :
        r \in rows.start + 1 .. Lesser(rows.end, LeafLen(tree, leaf))}

(* The positions below a cursor. *)
Below(tree, c, rows) ==
    UNION {RowsOf(tree, leaf, rows) : leaf \in c.start .. c.end - 1}

TreeSize(tree) == Len(tree.points)

EntryDist(trees, metric, i, j) ==
    PointDist(metric, trees.left.points[i], trees.right.points[j])
=============================================================================
