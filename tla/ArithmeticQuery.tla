--------------------------- MODULE ArithmeticQuery ---------------------------
(***************************************************************************)
(* Exact queries on an immutable KdTree, whose leaves are found by the     *)
(* arithmetic of the path to them: the traversal that nearest_one,         *)
(* nearest_n, nearest_n_within and within share for trees that resolve     *)
(* leaves arithmetically.                                                  *)
(*                                                                         *)
(* Where MappedQuery keeps one stack of the subtrees to come back to, this *)
(* traversal keeps two of a fixed capacity that nothing but a debug        *)
(* assertion checks: one restore frame for every level of the path, and    *)
(* the far subtree of those that have one.  Neither says which axis a      *)
(* frame belongs to: a pop infers it from the axis of the pop before.      *)
(*                                                                         *)
(* A tree is a record as in JoinCursors, with dim_levels the number of     *)
(* consecutive levels its stem strategy splits on one axis, and the height *)
(* of the blocks its stems are laid out in: zero for Eytzinger stems.  The *)
(* block summaries of best_n_within, and the SIMD selection of a whole     *)
(* block's path, which makes the choices of Descend, are left out.  One    *)
(* step is a level of a descent, a leaf, or a pop.                         *)
(***************************************************************************)
EXTENDS Metrics, Donnelly, Collections

CONSTANTS
    Metric,   \* the metric of the queries
    Trees,    \* the trees queries are asked of
    Queries   \* the queries callers make

-----------------------------------------------------------------------------
(* The stems of a tree, in either layout. *)
RootIn(t) == IF t.block_height = 0 THEN [stem |-> 1, level |-> 0]
             ELSE RootOf(t.block_height)

(* branch_relative: one of the children of the stem of a cursor. *)
ChildIn(t, c, is_right) ==
    IF t.block_height = 0
    THEN [stem |-> 2 * c.stem + is_right, level |-> c.level + 1]
    ELSE Branch(t.block_height, c, is_right)

(* leaf_idx: the bits of the path. *)
LeafIdxIn(t, c) == IF t.block_height = 0 THEN c.stem - 2 ^ c.level ELSE c.leaf

(* The axis of a level: another one on each, or one for each block. *)
DimOf(t, level) == (level \div t.dim_levels) % K

(* The numbers of the leaves below a stem, whether there are so many or not. *)
Under(t, c) ==
    LET below == 2 ^ (t.max_stem_level + 1 - c.level)
        first == LeafIdxIn(t, c) * below
    IN  first .. first + below - 1

(* The stems above the leaf of a number, by level. *)
PathTo(t, k) ==
    LET path[level \in 0 .. t.max_stem_level + 1] ==
            IF level = 0 THEN RootIn(t)
            ELSE LET right == ChildIn(t, path[level - 1], 1) IN
                 IF k \in Under(t, right) THEN right
                 ELSE ChildIn(t, path[level - 1], 0)
    IN  path

(* What construction leaves: there is a pivot at every stem on the way to  *)
(* a leaf, on the right of one that cuts there is a leaf, and on the way   *)
(* to an entry each is passed on a side that its coordinate allows, and    *)
(* where it is equal to the pivot on either.                               *)
IsBuilt(t) ==
    LET levels == t.max_stem_level + 1
        leaf_count == Len(t.leaves)
    IN
    /\ t.max_stem_level \in Int /\ t.max_stem_level >= -1
    /\ t.block_height \in Nat
    /\ t.dim_levels \in Nat \ {0}
    /\ t.points \in Seq([Dims -> 1 - Infinity .. Infinity - 1])
    /\ t.leaves \in Seq(Seq(DOMAIN t.points))
    /\ leaf_count <= 2 ^ levels
    /\ t.points # <<>> => leaf_count > 0
    /\ \A k \in 0 .. 2 ^ levels - 1 : \A level \in 0 .. levels - 1 :
          LET stem  == PathTo(t, k)[level]
              right == Under(t, ChildIn(t, stem, 1))
              pivot == t.stems[stem.stem]
          IN
          /\ pivot \in Int
          /\ pivot < Infinity => \E leaf \in right : leaf < leaf_count
          /\ k < leaf_count =>
                \A n \in DOMAIN t.leaves[k + 1] :
                   LET x == t.points[t.leaves[k + 1][n]][DimOf(t, level)]
                   IN  IF k \in right THEN x >= pivot ELSE x <= pivot

(* nearest_one is max_qty 1 with an infinite radius, exclusive.  A max_qty *)
(* beyond any tree stands for within, whose collection has no limit.  The  *)
(* approximate nearest_one looks into one leaf only.                       *)
ASSUME ArithmeticAssumption ==
    /\ Metric \in {"squared_euclidean", "manhattan", "chebyshev"}
    /\ Queries \subseteq [point : [Dims -> Int], max_qty : Nat \ {0},
                          radius : Nat, exclusive : BOOLEAN,
                          approx : BOOLEAN]
    /\ \A t \in Trees : IsBuilt(t)

VARIABLES
    tree,     \* the tree asked
    query,    \* the query
    pc,       \* "idle", "start", "descend", "pop" or "done"
    off,      \* the distance, on each axis, of the region the query is in
    restore,  \* ScalarContinuationRestoreStack
    far,      \* ScalarContinuationFarStack
    cursor,   \* stem_strat: the stem the descent is at
    dim,      \* the axis the pops have come back to
    rd,       \* the distance of the region the descent began in
    checked,  \* CHECK_BOUND: whether the descent leaves out far subtrees
    results   \* the distances collected, ascending

vars == <<tree, query, pc, off, restore, far, cursor, dim, rd, checked, results>>

NoTree  == [max_stem_level |-> -1, block_height |-> 0]
NoQuery == [max_qty |-> 0]

Root == RootIn(tree)

NoOff == [d \in Dims |-> 0]

Init ==
    /\ tree = NoTree
    /\ query = NoQuery
    /\ pc = "idle"
    /\ off = NoOff
    /\ restore = <<>>
    /\ far = <<>>
    /\ cursor = Root
    /\ dim = 0
    /\ rd = 0
    /\ checked = FALSE
    /\ results = <<>>

-----------------------------------------------------------------------------
StemDim(level) == DimOf(tree, level)

Pivot == tree.stems[cursor.stem]
Coord == query.point[StemDim(cursor.level)]
IsCut == Pivot < Infinity

(* QueryContext::max_dist, for a collection limited by number and radius. *)
MaxDist ==
    IF Len(results) = query.max_qty
    THEN Lesser(results[Len(results)], query.radius)
    ELSE query.radius

Accepts(dist, bound) == IF query.exclusive THEN dist < bound ELSE dist <= bound

Prunes(r) == ~Accepts(r, MaxDist)

WithFar(old_off) == [old_off |-> old_off, has_far |-> TRUE]

RestoreWithFar(old_off) == WithFar(old_off) \* a variation: the wrong frame

RestoreOnly(old_off) == [old_off |-> old_off, has_far |-> FALSE]

Top(s)    == s[Len(s)]
Popped(s) == SubSeq(s, 1, Len(s) - 1)

ChildOf(c, is_right) == ChildIn(tree, c, is_right)

LeafIdx(c) == LeafIdxIn(tree, c)

(* The entries in some leaves, each with its place and its distance. *)
Measured(ks) ==
    UNION {{[leaf |-> k, row |-> n,
             dist |-> PointDist(Metric, tree.points[tree.leaves[k + 1][n]],
                                query.point)] :
                n \in DOMAIN tree.leaves[k + 1]} : k \in ks}

Accepted(ks, bound) == {e \in Measured(ks) : Accepts(e.dist, bound)}

(* get_leaf_idx: the leaf a point is routed to. *)
RoutedLeaf(point) ==
    LET levels == tree.max_stem_level + 1
        right == [slot \in DOMAIN tree.stems, level \in 0 .. levels - 1 |->
                     IF point[StemDim(level)] >= tree.stems[slot] THEN 1 ELSE 0]
        stem[n \in 0 .. levels] ==
            IF n = 0 THEN Root.stem
            ELSE 2 * stem[n - 1] + right[stem[n - 1], n - 1]
    IN  IF tree.block_height = 0
        THEN LeafIdx([stem |-> stem[levels], level |-> levels])
        ELSE BlockDescent(tree.block_height, right, levels)

-----------------------------------------------------------------------------
Ask ==
    /\ pc = "idle"
    /\ tree' \in Trees
    /\ query' \in Queries
    /\ pc' = "start"
    /\ UNCHANGED <<off, restore, far, cursor, dim, rd, checked, results>>

AskedEmpty ==
    /\ pc = "start"
    /\ tree.points = <<>>
    /\ pc' = "done"
    /\ UNCHANGED <<tree, query, off, restore, far, cursor, dim, rd, checked,
                   results>>

(* approx_nearest_one: the nearest entry of the leaf of the query point.   *)
Approximate ==
    /\ pc = "start"
    /\ tree.points # <<>>
    /\ query.approx
    /\ results' = NearestAmong(1, <<>>, Measured({RoutedLeaf(query.point)}))
    /\ pc' = "done"
    /\ UNCHANGED <<tree, query, off, restore, far, cursor, dim, rd, checked>>

(* The first descent notes every far subtree when there is no radius yet. *)
Begin ==
    /\ pc = "start"
    /\ tree.points # <<>>
    /\ ~query.approx
    /\ pc' = "descend"
    /\ cursor' = Root
    /\ checked' = (query.radius # Infinity)
    /\ UNCHANGED <<tree, query, off, restore, far, dim, rd, results>>

(* One level down to the near child, leaving a frame and, if there may be  *)
(* something nearer than what is collected, the far child.                 *)
DescendCut ==
    LET d        == StemDim(cursor.level)
        is_right == IF Coord >= Pivot THEN 1 ELSE 0
        new_off  == AbsDiff(Coord, Pivot)
        rd_far   == RectDistAfterUpdate(Metric, rd, off, d, new_off)
        worth_it == checked => rd_far <= MaxDist
    IN
    /\ pc = "descend"
    /\ cursor.level <= tree.max_stem_level
    /\ IsCut
    /\ cursor' = ChildOf(cursor, is_right)
    /\ restore' = Append(restore, IF worth_it THEN WithFar(off[d])
                                  ELSE RestoreOnly(off[d]))
    /\ far' = IF worth_it
              THEN Append(far, [state |-> ChildOf(cursor, 1 - is_right),
                                far_off |-> new_off, rd |-> rd_far])
              ELSE far
    /\ UNCHANGED <<tree, query, pc, off, dim, rd, checked, results>>

(* Everything below a stem that was never cut is on its left. *)
DescendUncut ==
    /\ pc = "descend"
    /\ cursor.level <= tree.max_stem_level
    /\ ~IsCut
    /\ cursor' = ChildOf(cursor, 0)
    /\ restore' = Append(restore, RestoreOnly(off[StemDim(cursor.level)]))
    /\ UNCHANGED <<tree, query, pc, off, far, dim, rd, checked, results>>

ProcessLeaf ==
    /\ pc = "descend"
    /\ cursor.level > tree.max_stem_level
    /\ results' = NearestAmong(query.max_qty, results,
                              Accepted({LeafIdx(cursor)}, MaxDist))
    /\ dim' = StemDim(cursor.level)
    /\ pc' = "pop"
    /\ UNCHANGED <<tree, query, off, restore, far, cursor, rd, checked>>

-----------------------------------------------------------------------------
RestoreDimSame == dim \* a variation: the axis of the pop before

RestoreDim == IF dim = 0 THEN K - 1 ELSE dim - 1

(* A frame without a far subtree: only the offset is put back. *)
PopRestoreOnly ==
    /\ pc = "pop"
    /\ restore # <<>>
    /\ ~Top(restore).has_far
    /\ off' = [off EXCEPT ![RestoreDim] = Top(restore).old_off]
    /\ dim' = RestoreDim
    /\ restore' = Popped(restore)
    /\ UNCHANGED <<tree, query, pc, far, cursor, rd, checked, results>>

(* With one that is by now beyond what is collected.  The far stack is not *)
(* empty here: the code expects it.                                        *)
PopPruned ==
    /\ pc = "pop"
    /\ restore # <<>>
    /\ Top(restore).has_far
    /\ far # <<>>
    /\ Prunes(Top(far).rd)
    /\ off' = [off EXCEPT ![RestoreDim] = Top(restore).old_off]
    /\ dim' = RestoreDim
    /\ restore' = Popped(restore)
    /\ far' = Popped(far)
    /\ UNCHANGED <<tree, query, pc, cursor, rd, checked, results>>

FarEnteredKept(s) == s \* a variation: the far subtree stays on its stack

FarEntered(s) == Popped(s)

(* With one to descend into, in whose place a frame remains that puts the  *)
(* offset back once the far subtree is done.                               *)
PopEntered ==
    LET entry == Top(far) IN
    /\ pc = "pop"
    /\ restore # <<>>
    /\ Top(restore).has_far
    /\ far # <<>>
    /\ ~Prunes(entry.rd)
    /\ restore' = Append(Popped(restore), RestoreOnly(Top(restore).old_off))
    /\ far' = FarEntered(far)
    /\ off' = [off EXCEPT ![RestoreDim] = entry.far_off]
    /\ rd' = entry.rd
    /\ cursor' = entry.state
    /\ dim' = RestoreDim
    /\ checked' = TRUE
    /\ pc' = "descend"
    /\ UNCHANGED <<tree, query, results>>

Return ==
    /\ pc = "pop"
    /\ restore = <<>>
    /\ pc' = "done"
    /\ UNCHANGED <<tree, query, off, restore, far, cursor, dim, rd, checked,
                   results>>

Next ==
    \/ Ask \/ AskedEmpty \/ Approximate \/ Begin
    \/ DescendCut \/ DescendUncut \/ ProcessLeaf
    \/ PopRestoreOnly \/ PopPruned \/ PopEntered
    \/ Return

(* The loop of a query runs to its end on the thread that asked. *)
Spec == Init /\ [][Next]_vars /\ WF_vars(~(pc = "idle") /\ Next)
=============================================================================
