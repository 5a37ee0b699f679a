------------------------ MODULE ArithmeticProperties ------------------------
(* What an exact query on an immutable KdTree must get right. *)
EXTENDS ArithmeticQuery

(* The stems the query has still to look at. *)
Pending ==
    {far[n].state : n \in DOMAIN far} \cup
    (IF pc = "start" THEN {Root} ELSE IF pc = "descend" THEN {cursor} ELSE {})

LeavesBelow(node) ==
    {leaf \in Under(tree, node) : leaf < Len(tree.leaves)}

PendingLeaves == UNION {LeavesBelow(node) : node \in Pending}

AllLeaves == 0 .. Len(tree.leaves) - 1

(* The query is exact.  At each moment what it has collected, with what is *)
(* below the stems it has still to look at, gives the answer a scan of     *)
(* every entry gives, so that nothing pruned was part of it and nothing is *)
(* counted twice; at the end nothing is left to look at.                   *)
NothingPrunedWasNear ==
    pc # "idle" /\ ~query.approx =>
    NearestAmong(query.max_qty, results, Accepted(PendingLeaves, query.radius))
        = NearestAmong(query.max_qty, <<>>, Accepted(AllLeaves, query.radius))

(* The splits go from axis to axis, level by level: what the pops take for *)
(* granted, and what a strategy of blocks split on one axis does not do.   *)
TreesAlternate ==
    \A t \in Trees : \A level \in 0 .. t.max_stem_level + 1 :
        DimOf(t, level) = level % K

(* The offsets a descent works with are those of its region: they combine  *)
(* to the distance the region was entered with, so that every pop put its  *)
(* offset back on the axis it was taken from.                              *)
RdMatchesOff == pc = "descend" => rd = RegionDist(Metric, off)

FarLevel(f) == f.state.level

(* The two stacks are read in step.  The frames of a descent are those of  *)
(* its path, never more than there are levels, which the fixed capacity is *)
(* for; the far subtrees are those of the frames that say they have one,   *)
(* in the same order, so the far stack never runs out before them.         *)
ContinuationsMatch ==
    /\ Len(restore) <= tree.max_stem_level + 1
    /\ pc = "descend" => Len(restore) = cursor.level
    /\ \A n \in DOMAIN far : /\ FarLevel(far[n]) \in DOMAIN restore
                             /\ restore[FarLevel(far[n])].has_far
    /\ \A m, n \in DOMAIN far :
           m < n => FarLevel(far[m]) < FarLevel(far[n])
    /\ \A p \in DOMAIN restore :
           restore[p].has_far => \E n \in DOMAIN far : FarLevel(far[n]) = p

(* An entry that lies left of a stem it is equal to, as update_pivot may   *)
(* leave it where others share its coordinate.                             *)
LeftOfItsEqual(n) ==
    \E k \in 0 .. Len(tree.leaves) - 1 : \E level \in 0 .. tree.max_stem_level :
        LET stem == PathTo(tree, k)[level] IN
        /\ \E r \in DOMAIN tree.leaves[k + 1] : tree.leaves[k + 1][r] = n
        /\ k \notin Under(tree, ChildIn(tree, stem, 1))
        /\ tree.points[n][DimOf(tree, level)] = tree.stems[stem.stem]

(* A point that is stored is found at once by the approximate query: the   *)
(* descent it takes, from block to block with nothing but a line and a     *)
(* path, ends in the leaf the entry was put into, unless it was put left   *)
(* of its equal.                                                           *)
StoredPointsAreNear ==
    pc = "done" /\ query.approx /\ (\E n \in DOMAIN tree.points :
                                       /\ tree.points[n] = query.point
                                       /\ ~LeftOfItsEqual(n))
        => results = <<0>>

(* Every query that begins returns. *)
QueryEnds == pc = "start" ~> pc = "done"
=============================================================================
