----------------------- MODULE ConstructionProperties -----------------------
(* What building a tree with hard buckets must get right. *)
EXTENDS HardConstruction, SequencesExt

(* The variables of the builder hold what their comments say. *)
TypeOK ==
    /\ source \in Bucket
    /\ phase \in Phases
    /\ calls \in Seq(Call)
    /\ new_stems \in Seq(Int)
    /\ new_leaves \in Seq(Bucket)
    /\ terminals \in Seq(Nat)
    /\ actual_max_stem_level \in Nat \cup {-1}
    /\ new_max_leaf_len \in Nat
    /\ top_level \in Nat \cup {-1}

PendingChunks == [k \in DOMAIN calls |-> calls[k].chunk]

(* The sort index is only ever cut in two: while the recursion runs and    *)
(* when it is over, the leaves written and the chunks still to come hold   *)
(* every entry of the source as often as the source does.                  *)
NothingLostOrDuplicated ==
    phase \in {"populating", "built"} =>
        FoldLeft(Plus, EmptyBucket, new_leaves \o PendingChunks) = source

(* Every chunk and so every leaf holds something, and no leaf more than a  *)
(* bucket: an empty side would be a leaf no point is ever routed to, and   *)
(* append_leaf copies into arrays of B slots.                              *)
LeavesFit ==
    phase # "idle" /\ source # EmptyBucket =>
        /\ \A k \in DOMAIN new_leaves : BucketLen(new_leaves[k]) \in 1 .. B
        /\ \A k \in DOMAIN calls : BucketLen(calls[k].chunk) > 0

(* The pivot a call asks for lies strictly inside its chunk, whatever      *)
(* capacity the calls above left it, so that neither side of the ideal     *)
(* split is empty and the recursion makes progress.                        *)
IdealPivotInside ==
    \A k \in DOMAIN calls :
        LET n == BucketLen(calls[k].chunk) IN
        n > B => CallPivot(calls[k]) \in 1 .. n - 1

(* The finished tree leads to every entry: a query that goes both ways at  *)
(* a stem equal to the coordinate, over the stems and the map built here,  *)
(* comes to the leaf that holds it, and so does the descent that goes one  *)
(* way, which every mutation makes, unless the entry shares a coordinate   *)
(* with another (update_pivot may put such an entry left of its equal).    *)
FinishedTreeRoutes ==
    phase = "built" =>
        LET map == MappedFromTerminals(terminals) IN
        \A k \in DOMAIN new_leaves : \A e \in Occupied(new_leaves[k]) :
            /\ k \in LeavesAround(e.point, new_stems, map,
                                  actual_max_stem_level)
            /\ \/ LeafIdx(e.point, new_stems, map, actual_max_stem_level) = k
               \/ Tied(source, e)

(* Each construction ends, in a tree or in an error, however unbalanced    *)
(* the nudged pivots make the recursion.                                   *)
ConstructionEnds == phase = "populating" ~> phase \in {"built", "unsplittable"}
=============================================================================
