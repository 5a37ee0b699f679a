----------------------------- MODULE MappedQuery -----------------------------
(***************************************************************************)
(* Exact queries on a mutable KdTree: the backtracking traversal over an   *)
(* explicit stack that nearest_one, nearest_n, nearest_n_within and within *)
(* share for trees whose leaves are found through the map.                 *)
(*                                                                         *)
(* A query borrows the tree, so it runs between two calls of MutableKdTree *)
(* and sees one state of it; the tree may have been built, split, emptied  *)
(* and rebuilt in any way before.  One step is one pop of the stack, one   *)
(* level of a traversal, or one leaf.                                      *)
(***************************************************************************)
EXTENDS MutableKdTree, Collections, SequencesExt

CONSTANTS
    Metric,  \* "SquaredEuclidean", "Manhattan" or "Chebyshev"
    Queries  \* the queries callers make

(* nearest_one is max_qty 1 with an unlimited radius, exclusive: both are  *)
(* strict about the distance and prune when it is met (its                 *)
(* prune_on_equal_max_dist is true).  A max_qty beyond any tree stands for *)
(* within, whose collection has no limit.                                  *)
ASSUME QueriesAssumption ==
    /\ Metric \in {"SquaredEuclidean", "Manhattan", "Chebyshev"}
    /\ Queries \subseteq [point : [0 .. K - 1 -> Int], max_qty : Nat \ {0},
                          radius : Nat, exclusive : BOOLEAN]

VARIABLES
    query,   \* the query running
    qpc,     \* "none", "pop" or "traverse"
    off,     \* the distance, on each axis, of the region the query is in
    stack,   \* QueryStack: the siblings to come back to
    cursor,  \* stem_strat: the stem the traversal is at, and its level
    rd,      \* the distance of the region the traversal began in
    results  \* the distances collected, ascending

query_vars == <<query, qpc, off, stack, cursor, rd, results>>

NoQuery == [max_qty |-> 0]

Frame == [stem : Nat, level : Nat, restore_dim : 0 .. K - 1, old_off : Nat,
          rd : Int]

NoCursor == [stem |-> RootIdx, level |-> 0]
NoOff    == [d \in 0 .. K - 1 |-> 0]

QueryInit ==
    /\ query = NoQuery
    /\ qpc = "none"
    /\ off = NoOff
    /\ stack = <<>>
    /\ cursor = NoCursor
    /\ rd = 0
    /\ results = <<>>

-----------------------------------------------------------------------------
(* The metric: one axis, all of them, and a rectangle one of whose sides   *)
(* has moved.                                                              *)
AbsDiff(a, b) == IF a >= b THEN a - b ELSE b - a

Dist1(o) == IF Metric = "SquaredEuclidean" THEN o * o ELSE o

Combined(f) ==
    FoldFunction(LAMBDA x, acc : IF Metric # "Chebyshev" THEN acc + x
                                 ELSE IF x > acc THEN x ELSE acc, 0, f)

Dist(p, q) == Combined([d \in 0 .. K - 1 |-> Dist1(AbsDiff(p[d], q[d]))])

RectDistAddedUp(r, o, dim, new_off) == \* a variation: the old side stays in
    r + Dist1(new_off)

RectDistAfterUpdate(r, o, dim, new_off) ==
    IF Metric = "Chebyshev" THEN Combined([o EXCEPT ![dim] = new_off])
    ELSE (r - Dist1(o[dim])) + Dist1(new_off)

-----------------------------------------------------------------------------
(* The entries in some leaves, each with its slot and its distance. *)
Measured(ks) ==
    UNION {{[leaf |-> k, slot |-> s, dist |-> Dist(s[1].point, query.point)] :
                s \in Slots(leaves[k])} : k \in ks}

(* QueryContext::max_dist: the radius, until the collection is full and    *)
(* its worst distance is nearer.                                           *)
MaxDist ==
    IF Len(results) = query.max_qty /\ Last(results) < query.radius
    THEN Last(results)
    ELSE query.radius

(* What a leaf leaves out on the boundary, and so the traversal prunes.    *)
Accepts(dist, bound) == IF query.exclusive THEN dist < bound ELSE dist <= bound

PrunesBoundary(r) == r >= MaxDist \* a variation: whatever the query wants

Prunes(r) == ~Accepts(r, MaxDist)

Accepted(ks, bound) == {e \in Measured(ks) : Accepts(e.dist, bound)}

-----------------------------------------------------------------------------
QueryBegin(q) ==
    /\ pc = "idle"
    /\ qpc = "none"
    /\ query' = q
    /\ qpc' = "pop"
    /\ off' = NoOff
    /\ stack' = <<[stem |-> RootIdx, level |-> 0, restore_dim |-> 0,
                   old_off |-> 0, rd |-> 0]>>
    /\ UNCHANGED <<cursor, rd, results>>

OldestFrame(s) == s[1] \* a variation: a queue

NextFrame(s) == Last(s)

(* The next frame is as far as what there is already: drop it. *)
PopPruned ==
    /\ qpc = "pop"
    /\ stack # <<>>
    /\ Prunes(NextFrame(stack).rd)
    /\ stack' = Front(stack)
    /\ UNCHANGED <<query, qpc, off, cursor, rd, results>>

(* Or go on from its stem.  Of the offsets only the one of the frame's own *)
(* axis is put back; the others are what the last traversal left.          *)
PopVisited ==
    LET frame == NextFrame(stack) IN
    /\ qpc = "pop"
    /\ stack # <<>>
    /\ ~Prunes(frame.rd)
    /\ stack' = Front(stack)
    /\ off' = [off EXCEPT ![frame.restore_dim] = frame.old_off]
    /\ cursor' = [stem |-> frame.stem, level |-> frame.level]
    /\ rd' = frame.rd
    /\ qpc' = "traverse"
    /\ UNCHANGED <<query, results>>

CursorLeaf == MappedLeaf(leaf_idx_map, cursor.stem)
CursorDim  == cursor.level % K

(* backtracking_traverse_step: down to the near child; the far one is      *)
(* worth a frame where it is not beyond what there is already.  A stem     *)
(* never written has everything on its left.                               *)
Traverse ==
    LET pivot    == stems[cursor.stem]
        written  == pivot < MaxValue
        is_right == written /\ query.point[CursorDim] >= pivot
        new_off  == AbsDiff(query.point[CursorDim], pivot)
        rd_far   == RectDistAfterUpdate(rd, off, CursorDim, new_off)
        far      == [stem |-> Child(cursor.stem, ~is_right),
                     level |-> cursor.level + 1, restore_dim |-> CursorDim,
                     old_off |-> new_off, rd |-> rd_far]
    IN
    /\ qpc = "traverse"
    /\ CursorLeaf = 0
    /\ cursor.level <= max_stem_level
    /\ cursor.stem \in DOMAIN stems
    /\ cursor' = [stem |-> Child(cursor.stem, is_right),
                  level |-> cursor.level + 1]
    /\ stack' = IF written /\ rd_far <= MaxDist THEN Append(stack, far)
                ELSE stack
    /\ UNCHANGED <<query, qpc, off, rd, results>>

(* The levels may also run out at a stem without a leaf, where             *)
(* resolve_mapped_terminal_stem_idx panics: the model has no step.         *)
ProcessLeaf ==
    /\ qpc = "traverse"
    /\ CursorLeaf # 0
    /\ results' = NearestAmong(query.max_qty, results,
                          Accepted({CursorLeaf}, MaxDist))
    /\ qpc' = "pop"
    /\ UNCHANGED <<query, off, stack, cursor, rd>>

QueryReturns ==
    /\ qpc = "pop"
    /\ stack = <<>>
    /\ query' = NoQuery
    /\ qpc' = "none"
    /\ off' = NoOff
    /\ cursor' = NoCursor
    /\ rd' = 0
    /\ results' = <<>>
    /\ UNCHANGED stack

QueryWork ==
    \/ PopPruned \/ PopVisited
    \/ Traverse \/ ProcessLeaf
    \/ QueryReturns

-----------------------------------------------------------------------------
TreeWithQueriesInit == Init /\ QueryInit

(* A call of the tree, when no query borrows it, or a step of a query. *)
TreeWithQueriesNext ==
    \/ qpc = "none" /\ Next /\ UNCHANGED query_vars
    \/ /\ (\E q \in Queries : QueryBegin(q)) \/ QueryWork
       /\ UNCHANGED vars

TreeWithQueriesSpec ==
    /\ TreeWithQueriesInit
    /\ [][TreeWithQueriesNext]_<<vars, query_vars>>

-----------------------------------------------------------------------------
(* What an exact query on a mutable KdTree must get right.                 *)

(* A stem and those above it, up to the root. *)
StemsUpFrom[i \in Nat] == IF i = 0 THEN {} ELSE {i} \cup StemsUpFrom[i \div 2]

(* The leaves below a stem. *)
LeavesBelow(stem) ==
    {leaf_idx_map[t] : t \in {i \in DOMAIN leaf_idx_map :
                                 leaf_idx_map[i] # 0 /\ stem \in StemsUpFrom[i]}}

(* The stems the query has still to look at. *)
PendingStems ==
    {stack[n].stem : n \in DOMAIN stack} \cup
    (IF qpc = "traverse" THEN {cursor.stem} ELSE {})

PendingLeaves == UNION {LeavesBelow(stem) : stem \in PendingStems}

(* The query is exact.  At each moment what it has collected, with what is *)
(* below the stems it has still to look at, gives the answer a scan of     *)
(* every stored entry gives, so that nothing pruned was part of it and     *)
(* nothing is counted twice; at the end nothing is left to look at.        *)
NothingPrunedWasNear ==
    qpc # "none" =>
        NearestAmong(query.max_qty, results, Accepted(PendingLeaves, query.radius))
            = NearestAmong(query.max_qty, <<>>, Accepted(DOMAIN leaves, query.radius))

(* A frame's distance is at most that of any entry below its stem: what    *)
(* the traversal prunes by never overestimates.                            *)
FramesAreLowerBounds ==
    qpc # "none" =>
        \A n \in DOMAIN stack : \A k \in LeavesBelow(stack[n].stem) :
            \A e \in Occupied(leaves[k]) :
                stack[n].rd <= Dist(e.point, query.point)

(* A traversal never takes more frames than there are levels: the stack    *)
(* holds the siblings of one path, each deeper than the one below it.      *)
StackIsOnePath ==
    /\ \A m, n \in DOMAIN stack : m < n => stack[m].level < stack[n].level
    /\ qpc = "traverse" =>
           \A n \in DOMAIN stack : stack[n].level <= cursor.level
=============================================================================
