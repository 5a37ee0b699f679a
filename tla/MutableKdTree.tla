---------------------------- MODULE MutableKdTree ----------------------------
(***************************************************************************)
(* A mutable KdTree: Eytzinger stems, the map from terminal stems to       *)
(* leaves (OwnedStemLeafResolution::Mapped) and VecOfArrays leaves.        *)
(*                                                                         *)
(* A call is a request the tree works on step by step: one step for each   *)
(* level of the descent, one for what happens at the leaf, and, when a     *)
(* split would leave the stems too sparse, the steps of a rebuild.  The    *)
(* tree is borrowed mutably for the whole call, so nothing interleaves     *)
(* with it; the steps show the state the code passes through.              *)
(*                                                                         *)
(* Leaves are numbered from 1 and 0 stands for None in the map; the code   *)
(* numbers them from 0.  Element 0 of the stems and of the map is unused.  *)
(***************************************************************************)
EXTENDS HardConstruction

CONSTANT MaxSize \* bound: no add is issued to a tree of this many entries

(* The two selections of split_leaf order a bucket of up to six entries    *)
(* (module LeafSplit checks it); from seven on a split need not be one     *)
(* that SplitValues describes.                                             *)
ASSUME OrderedSplitAssumption == B <= 6

VARIABLES
    stems, leaf_idx_map, leaves,
    leaves_size,     \* VecOfArrays::size
    size, max_stem_level, max_leaf_len,
    request, reply,  \* the call in progress and what the last one returned
    pc,              \* where the call is
    stem_idx, level, \* the descent: stem_strat
    entries,         \* rebuild_with_added_entry: the entries copied so far
    next_leaf        \* and the leaf the iterator is at

tree_vars    == <<stems, leaf_idx_map, leaves, leaves_size, size,
                  max_stem_level, max_leaf_len>>
call_vars    == <<request, reply>>
descent_vars == <<stem_idx, level>>
rebuild_vars == <<entries, next_leaf>>
vars == <<tree_vars, call_vars, pc, descent_vars, rebuild_vars, build_vars>>

NoRequest == [op |-> "none"]

Requests ==
    [op : {"add", "remove"}, entry : Entries] \cup
    [op : {"replace"}, entry : Entries, new_item : Items] \cup
    [op : {"construct"}, source : Sources]

(* KdTree::default: one empty leaf behind the root stem. *)
Init ==
    /\ stems = <<MaxValue>>
    /\ leaf_idx_map = <<1>>
    /\ leaves = <<EmptyBucket>>
    /\ leaves_size = 0
    /\ size = 0
    /\ max_stem_level = 0
    /\ max_leaf_len = B
    /\ request = NoRequest
    /\ reply = "none"
    /\ pc = "idle"
    /\ stem_idx = RootIdx
    /\ level = 0
    /\ entries = EmptyBucket
    /\ next_leaf = 1
    /\ BuildInit

-----------------------------------------------------------------------------
(* The calls.  A tree is built from a source only while there is nothing   *)
(* stored, in place of the empty one.                                      *)
Issue(r) ==
    /\ pc = "idle"
    /\ request' = r
    /\ reply' = "none"
    /\ UNCHANGED <<tree_vars, descent_vars, rebuild_vars>>

IssueMutation(r) ==
    /\ r.op = "add" => size < MaxSize
    /\ Issue(r)
    /\ pc' = "descend"
    /\ UNCHANGED build_vars

IssueConstruct(r) ==
    /\ size = 0
    /\ Issue(r)
    /\ Construct(r.source)
    /\ pc' = "build"

Invoke ==
    \E r \in Requests :
        \/ r.op # "construct" /\ IssueMutation(r)
        \/ r.op = "construct" /\ IssueConstruct(r)

(* The end of every call; the descent's locals are gone. *)
Return(result) ==
    /\ request' = NoRequest
    /\ reply' = result
    /\ pc' = "idle"
    /\ stem_idx' = RootIdx
    /\ level' = 0

-----------------------------------------------------------------------------
(* find_leaf_with_context and get_leaf_idx_mapped: the same loop. *)
Leaf == MappedLeaf(leaf_idx_map, stem_idx)
Dim  == level % K

Arrived == level > max_stem_level \/ Leaf # 0

Descend ==
    /\ pc = "descend"
    /\ ~Arrived
    /\ stem_idx \in DOMAIN stems
    /\ stem_idx' = Child(stem_idx, request.entry.point[Dim] >= stems[stem_idx])
    /\ level' = level + 1
    /\ UNCHANGED <<tree_vars, call_vars, pc, rebuild_vars, build_vars>>

(* Where the code would read past the stems (get_unchecked), or panic at a *)
(* stem without a leaf (the unwrap in add, "mapped leaf resolution miss"), *)
(* the model has no step and the call never returns.                       *)
At(op) ==
    /\ pc = "descend"
    /\ Arrived
    /\ Leaf # 0
    /\ request.op = op

-----------------------------------------------------------------------------
Full == BucketLen(leaves[Leaf]) >= B

NeedsRebuild == SplitRequiresRebuild(stem_idx, Len(leaves) + 1)

(* add, where the leaf has room. *)
AddToLeaf ==
    /\ At("add")
    /\ ~Full
    /\ leaves' = [leaves EXCEPT ![Leaf] = With(@, request.entry)]
    /\ leaves_size' = leaves_size + 1
    /\ size' = size + 1
    /\ Return("ok")
    /\ UNCHANGED <<stems, leaf_idx_map, max_stem_level, max_leaf_len,
                   rebuild_vars, build_vars>>

(* split_leaf: the leaf keeps what is below the pivot, a new leaf gets the *)
(* rest, and the terminal stem becomes an interior one over the two.       *)
SplitPivots == SplitValues(leaves[Leaf], Dim, B \div 2)

LeavesAfterSplit(pivot) ==
    Append([leaves EXCEPT ![Leaf] = Below(@, Dim, pivot)],
           AtLeast(leaves[Leaf], Dim, pivot))

MapAfterSplitLeft == \* a variation: only the left child is mapped
    [Grown(leaf_idx_map, RightChild(stem_idx), 0)
        EXCEPT ![LeftChild(stem_idx)]  = Leaf,
               ![stem_idx]             = 0]

MapAfterSplit ==
    [Grown(leaf_idx_map, RightChild(stem_idx), 0)
        EXCEPT ![LeftChild(stem_idx)]  = Leaf,
               ![stem_idx]             = 0,
               ![RightChild(stem_idx)] = Len(leaves) + 1]

LevelAfterSplit == AtLeastOf(max_stem_level, level)

SplitTargetUnmoved(pivot) == Leaf \* a variation: the leaf found before it

(* The half of the split leaf the entry to add belongs to. *)
SplitTarget(pivot) ==
    IF request.entry.point[Dim] >= pivot THEN Len(leaves) + 1 ELSE Leaf

CanSplit ==
    /\ At("add")
    /\ Full
    /\ ~NeedsRebuild
    /\ Splittable(leaves[Leaf], Dim)

(* add_to_leaf would index past the arrays of a half that is still full:   *)
(* again no step.                                                          *)
AddSplit ==
    /\ CanSplit
    /\ \E pivot \in SplitPivots :
          /\ BucketLen(LeavesAfterSplit(pivot)[SplitTarget(pivot)]) < B
          /\ leaves' = [LeavesAfterSplit(pivot)
                           EXCEPT ![SplitTarget(pivot)] =
                                      With(@, request.entry)]
          /\ stems' = [Grown(stems, stem_idx, MaxValue)
                          EXCEPT ![stem_idx] = pivot]
    /\ leaf_idx_map' = MapAfterSplit
    /\ max_stem_level' = LevelAfterSplit
    /\ leaves_size' = leaves_size + 1
    /\ size' = size + 1
    /\ Return("ok")
    /\ UNCHANGED <<max_leaf_len, rebuild_vars, build_vars>>

(* Every entry of the leaf has the same coordinate: the error leaves the   *)
(* leaf reordered, with the same entries.                                  *)
AddUnsplittable ==
    /\ At("add")
    /\ Full
    /\ ~NeedsRebuild
    /\ ~Splittable(leaves[Leaf], Dim)
    /\ Return("unsplittable")
    /\ UNCHANGED <<tree_vars, rebuild_vars, build_vars>>

-----------------------------------------------------------------------------
(* rebuild_with_added_entry: copy the entries leaf by leaf as the iterator *)
(* yields them, add the new one, build a tree and put it in place of this. *)
AddRebuild ==
    /\ At("add")
    /\ Full
    /\ NeedsRebuild
    /\ pc' = "collect"
    /\ UNCHANGED <<tree_vars, call_vars, descent_vars, rebuild_vars, build_vars>>

CollectLeaf ==
    /\ pc = "collect"
    /\ next_leaf <= Len(leaves)
    /\ entries' = Plus(entries, leaves[next_leaf])
    /\ next_leaf' = next_leaf + 1
    /\ UNCHANGED <<tree_vars, call_vars, pc, descent_vars, build_vars>>

BeginRebuild ==
    /\ pc = "collect"
    /\ next_leaf > Len(leaves)
    /\ Construct(With(entries, request.entry))
    /\ pc' = "build"
    /\ UNCHANGED <<tree_vars, call_vars, descent_vars, rebuild_vars>>

BuildStep ==
    /\ pc = "build"
    /\ Populate
    /\ UNCHANGED <<tree_vars, call_vars, pc, descent_vars, rebuild_vars>>

(* The locals of a construction that is over. *)
DropBuild ==
    /\ entries' = EmptyBucket
    /\ next_leaf' = 1
    /\ source' = EmptyBucket
    /\ phase' = "idle"
    /\ calls' = <<>>
    /\ new_stems' = <<>>
    /\ new_leaves' = <<>>
    /\ terminals' = <<>>
    /\ actual_max_stem_level' = -1
    /\ new_max_leaf_len' = 0
    /\ top_level' = -1

Install ==
    /\ pc = "build"
    /\ phase = "built"
    /\ stems' = new_stems
    /\ leaf_idx_map' = MappedFromTerminals(terminals)
    /\ leaves' = new_leaves
    /\ leaves_size' = BucketLen(source)
    /\ size' = BucketLen(source)
    /\ max_stem_level' = actual_max_stem_level
    /\ max_leaf_len' = new_max_leaf_len
    /\ Return("ok")
    /\ DropBuild

(* Two variations of the next action. *)
BuildFailsRetrying == \* the rebuild is tried again
    /\ pc = "build"
    /\ phase = "unsplittable"
    /\ request.op = "add"
    /\ pc' = "collect"
    /\ DropBuild
    /\ UNCHANGED <<tree_vars, call_vars, descent_vars>>
BuildFailsEmptied == \* the leaves were taken, not copied
    /\ pc = "build"
    /\ phase = "unsplittable"
    /\ leaves' = <<EmptyBucket>>
    /\ Return("unsplittable")
    /\ DropBuild
    /\ UNCHANGED <<stems, leaf_idx_map, leaves_size, size, max_stem_level,
                   max_leaf_len>>

BuildFails ==
    /\ pc = "build"
    /\ phase = "unsplittable"
    /\ Return("unsplittable")
    /\ DropBuild
    /\ UNCHANGED tree_vars

-----------------------------------------------------------------------------
RemovedOnce == \* a variation: one copy counted
    IF leaves[Leaf][request.entry] > 0 THEN 1 ELSE 0

(* remove: every copy of the entry goes from the leaf it is routed to. *)
Removed == leaves[Leaf][request.entry]

RemoveFromLeaf ==
    /\ At("remove")
    /\ leaves' = [leaves EXCEPT ![Leaf] = Without(@, request.entry)]
    /\ leaves_size' = leaves_size - Removed
    /\ size' = size - Removed
    /\ Return("ok")
    /\ UNCHANGED <<stems, leaf_idx_map, max_stem_level, max_leaf_len,
                   rebuild_vars, build_vars>>

ReplaceItem ==
    /\ At("replace")
    /\ leaves[Leaf][request.entry] > 0
    /\ leaves' = [leaves EXCEPT ![Leaf] =
                     Replaced(@, request.entry, request.new_item)]
    /\ Return("ok")
    /\ UNCHANGED <<stems, leaf_idx_map, leaves_size, size, max_stem_level,
                   max_leaf_len, rebuild_vars, build_vars>>

ReplaceItemNotFound ==
    /\ At("replace")
    /\ leaves[Leaf][request.entry] = 0
    /\ Return("not_found")
    /\ UNCHANGED <<tree_vars, rebuild_vars, build_vars>>

-----------------------------------------------------------------------------
Work ==
    \/ Descend
    \/ AddToLeaf \/ AddSplit \/ AddUnsplittable \/ AddRebuild
    \/ CollectLeaf \/ BeginRebuild \/ BuildStep \/ Install \/ BuildFails
    \/ RemoveFromLeaf
    \/ ReplaceItem \/ ReplaceItemNotFound

Next == Invoke \/ Work

Spec == Init /\ [][Next]_vars /\ WF_vars(Work)
=============================================================================
