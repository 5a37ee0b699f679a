--------------------------- MODULE TreeProperties ---------------------------
(* What a mutable KdTree must get right. *)
EXTENDS MutableKdTree, SequencesExt

(* Every entry the tree stores, in whichever leaf. *)
TreeContents == FoldLeft(Plus, EmptyBucket, leaves)

(* Every stored entry can be found again, through every split and every   *)
(* rebuild since it was added: a query that goes both ways at a stem equal *)
(* to the coordinate comes to the leaf that holds it.                      *)
StoredEntriesAreFound ==
    \A k \in DOMAIN leaves : \A e \in Occupied(leaves[k]) :
        k \in LeavesAround(e.point, stems, leaf_idx_map, max_stem_level)

(* "Removes a point and associated item from the tree." (KdTree::remove): *)
(* no copy of the entry is stored when the call returns.                   *)
RemovedEntriesAreGone ==
    [][request.op = "remove" /\ reply' = "ok" =>
          TreeContents'[request.entry] = 0]_vars

(* The descent never reads beyond the stems and never ends at a stem       *)
(* without a leaf ("mapped leaf resolution miss"), for points never stored *)
(* as for stored ones.                                                     *)
DescentReachesALeaf ==
    pc = "descend" =>
        /\ ~Arrived => stem_idx \in DOMAIN stems
        /\ Arrived => Leaf \in DOMAIN leaves

(* The three ways to count the stored entries agree, and no leaf exceeds   *)
(* a bucket: KdTree::size is kept apart from VecOfArrays::size, and both   *)
(* from the lengths of the leaves.                                         *)
SizesAgree ==
    /\ size = leaves_size
    /\ size = BucketLen(TreeContents)
    /\ \A k \in DOMAIN leaves : BucketLen(leaves[k]) <= B

(* An error changes nothing: an add that cannot split, or whose rebuild    *)
(* fails halfway, leaves the tree as it was.                               *)
ErrorsChangeNothing ==
    [][reply' \in {"unsplittable", "not_found"} => UNCHANGED tree_vars]_vars

(* The copies of an entry that are stored where the descent for its point  *)
(* does not end: remove and replace_item do not see them.                  *)
RoutedLeaf(e) == LeafIdx(e.point, stems, leaf_idx_map, max_stem_level)

SlotsBesides(e, leaf) ==
    UNION {{k} \X (1 .. leaves[k][e]) : k \in DOMAIN leaves \ {leaf}}

Hidden == [e \in Entries |-> Cardinality(SlotsBesides(e, RoutedLeaf(e)))]

(* The tree is a store: it implements PointStore with the contents of its  *)
(* leaves as the store's contents.                                         *)
Store == INSTANCE PointStore WITH contents <- TreeContents, hidden <- Hidden

ImplementsPointStore == Store!Spec

(* Every call returns: the descent ends, and so does a rebuild. *)
CallsReturn == pc # "idle" ~> pc = "idle"
=============================================================================
