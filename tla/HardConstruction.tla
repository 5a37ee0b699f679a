-------------------------- MODULE HardConstruction --------------------------
(***************************************************************************)
(* Building a tree whose leaves hold at most B entries (BucketLimitType::  *)
(* Hard: VecOfArrays, the mutable leaf strategy) over the Eytzinger stems: *)
(* KdTree::new_from_source_with and populate_recursive_hard.               *)
(*                                                                         *)
(* The recursion is a stack of calls still to be made, the next one first; *)
(* each step below is one whole call of populate_recursive_hard.  The sort *)
(* index of a call is the bucket of the entries it selects.                *)
(***************************************************************************)
EXTENDS Buckets, Eytzinger

CONSTANTS
    B,       \* the bucket size
    Sources  \* the collections of entries callers build trees from

(* VecOfArrays does not compile for buckets of one entry (_VALID_B). *)
ASSUME BucketSizeAssumption == B \in Nat \ {0, 1}
ASSUME SourcesAssumption == Sources \subseteq Bucket

VARIABLES
    source,       \* the entries to lay out
    phase,        \* "idle", "populating", "built" or "unsplittable"
    calls,        \* calls of populate_recursive_hard still to be made
    new_stems,    \* the stems of the tree being built
    new_leaves,   \* its leaves, in the order they are appended
    terminals,    \* terminal_stem_indices: the stem of each leaf
    actual_max_stem_level,
    new_max_leaf_len,
    top_level     \* the max_stem_level argument, the same in every call

build_vars == <<source, phase, calls, new_stems, new_leaves, terminals,
                actual_max_stem_level, new_max_leaf_len, top_level>>

Call == [stem : Nat, level : Nat, chunk : Bucket, capacity : Nat]

Phases == {"idle", "populating", "built", "unsplittable"}

BuildInit ==
    /\ source = EmptyBucket
    /\ phase = "idle"
    /\ calls = <<>>
    /\ new_stems = <<>>
    /\ new_leaves = <<>>
    /\ terminals = <<>>
    /\ actual_max_stem_level = -1
    /\ new_max_leaf_len = 0
    /\ top_level = -1

-----------------------------------------------------------------------------
LeafNodeCount(n) == (n + B - 1) \div B

(* The length of the stem array the builder starts with: up to the parent  *)
(* of the last leaf of a full layout, rounded up to a multiple of eight    *)
(* (element 0 of the array is not in new_stems).                           *)
InitialStemLen(leaf_node_count) ==
    LET rightmost == 2 ^ (StemsDepth(leaf_node_count) - 1)
                     + (leaf_node_count - 1) \div 2
    IN  NextMultipleOf(rightmost + 1, 8) - 1

LeftCapacity(call) ==
    LET below == IF top_level >= call.level THEN top_level - call.level ELSE 0
        full  == 2 ^ below * B
    IN  IF full <= call.capacity THEN full ELSE call.capacity

RightCapacity(call) == call.capacity - LeftCapacity(call)

AtMost(n, bound)  == IF n <= bound THEN n ELSE bound
AtLeastOf(n, low) == IF n >= low THEN n ELSE low
MonusNat(m, n)    == IF m >= n THEN m - n ELSE 0  \* saturating_sub

CalcPivotCoarse(chunk_length, right_capacity) == \* a variation: no finer split
    AtLeastOf(AtMost(NextMultipleOf(MonusNat(chunk_length, right_capacity), B),
                     chunk_length),
              AtMost(B, chunk_length))

(* calc_pivot: what does not fit on the right, in whole buckets, and never *)
(* less than one; split finer when that would put the whole chunk left.    *)
CalcPivot(chunk_length, right_capacity) ==
    LET ideal(r) == AtMost(NextMultipleOf(MonusNat(chunk_length, r), B),
                           chunk_length)
        result   == AtLeastOf(ideal(right_capacity), AtMost(B, chunk_length))
    IN  IF result >= chunk_length /\ result > B
        THEN ideal(AtLeastOf(right_capacity, B))
        ELSE result

CallDimAfterBranch(call) == (call.level + 1) % K \* a variation: read too late

CallDim(call)   == call.level % K
CallPivot(call) == CalcPivot(BucketLen(call.chunk), RightCapacity(call))

-----------------------------------------------------------------------------
(* new_from_source_no_stems_with: at most one bucket of entries.  An empty *)
(* source gets the sentinel root stem, any other none at all.              *)
ConstructNoStems(src) ==
    /\ phase = "idle"
    /\ LeafNodeCount(BucketLen(src)) < 2
    /\ source' = src
    /\ phase' = "built"
    /\ new_leaves' = <<src>>
    /\ terminals' = <<RootIdx>>
    /\ \/ /\ BucketLen(src) = 0
          /\ new_stems' = <<MaxValue>>
          /\ actual_max_stem_level' = 0
          /\ new_max_leaf_len' = B
       \/ /\ BucketLen(src) > 0
          /\ new_stems' = <<>>
          /\ actual_max_stem_level' = -1
          /\ new_max_leaf_len' = BucketLen(src)
    /\ UNCHANGED <<calls, top_level>>

(* new_from_source_with_index up to its call of populate_recursive_hard. *)
ConstructWithStems(src) ==
    LET leaf_node_count == LeafNodeCount(BucketLen(src)) IN
    /\ phase = "idle"
    /\ leaf_node_count >= 2
    /\ source' = src
    /\ phase' = "populating"
    /\ calls' = <<[stem |-> RootIdx, level |-> 0, chunk |-> src,
                   capacity |-> leaf_node_count * B]>>
    /\ new_stems' = [i \in 1 .. InitialStemLen(leaf_node_count) |-> MaxValue]
    /\ new_leaves' = <<>>
    /\ terminals' = <<>>
    /\ actual_max_stem_level' = -1
    /\ new_max_leaf_len' = 0
    /\ top_level' = StemsDepth(leaf_node_count) - 1

Construct(src) == ConstructNoStems(src) \/ ConstructWithStems(src)

(* Two variations of the next action: the bound of a leaf is off by one. *)
PopulateLeafUpTo(n) ==
    /\ phase = "populating"
    /\ calls # <<>>
    /\ BucketLen(Head(calls).chunk) <= n
    /\ new_leaves' = Append(new_leaves, Head(calls).chunk)
    /\ terminals' = Append(terminals, Head(calls).stem)
    /\ new_max_leaf_len' = AtLeastOf(new_max_leaf_len,
                                     BucketLen(Head(calls).chunk))
    /\ calls' = Tail(calls)
    /\ UNCHANGED <<source, phase, new_stems, actual_max_stem_level, top_level>>
PopulateLeafOverfull == PopulateLeafUpTo(B + 1)
PopulateLeafNotFull  == PopulateLeafUpTo(B - 1)

(* A chunk that fits becomes a leaf: write_leaf_from_sort_index. *)
PopulateLeaf ==
    /\ phase = "populating"
    /\ calls # <<>>
    /\ BucketLen(Head(calls).chunk) <= B
    /\ new_leaves' = Append(new_leaves, Head(calls).chunk)
    /\ terminals' = Append(terminals, Head(calls).stem)
    /\ new_max_leaf_len' = AtLeastOf(new_max_leaf_len,
                                     BucketLen(Head(calls).chunk))
    /\ calls' = Tail(calls)
    /\ UNCHANGED <<source, phase, new_stems, actual_max_stem_level, top_level>>

(* The calls for the two parts of a chunk. *)
LeftCall(call, part) ==
    [stem |-> LeftChild(call.stem), level |-> call.level + 1, chunk |-> part,
     capacity |-> LeftCapacity(call)]

RightCall(call, part) ==
    [stem |-> RightChild(call.stem), level |-> call.level + 1,
     chunk |-> Minus(call.chunk, part), capacity |-> RightCapacity(call)]

(* A longer chunk is split at a value and the two parts are populated, the *)
(* left one first.                                                         *)
PopulateSplit ==
    LET call == Head(calls)
        dim  == CallDim(call)
    IN
    /\ phase = "populating"
    /\ calls # <<>>
    /\ BucketLen(call.chunk) > B
    /\ Splittable(call.chunk, dim)
    /\ actual_max_stem_level' = AtLeastOf(actual_max_stem_level, call.level)
    /\ \E ideal \in {CallPivot(call)} :
       \E pivot \in {SplitValue(call.chunk, dim, ideal)} :
       \E part \in LeftParts(call.chunk, dim, pivot, ideal) :
          /\ new_stems' = [Grown(new_stems, call.stem, MaxValue)
                              EXCEPT ![call.stem] = pivot]
          /\ calls' = <<LeftCall(call, part), RightCall(call, part)>>
                      \o Tail(calls)
    /\ UNCHANGED <<source, phase, new_leaves, terminals, new_max_leaf_len,
                   top_level>>

(* update_pivot: every entry of the chunk has the same coordinate.  The    *)
(* error leaves the whole construction.                                    *)
PopulateUnsplittable ==
    LET call == Head(calls) IN
    /\ phase = "populating"
    /\ calls # <<>>
    /\ BucketLen(call.chunk) > B
    /\ ~Splittable(call.chunk, CallDim(call))
    /\ phase' = "unsplittable"
    /\ UNCHANGED <<source, calls, new_stems, new_leaves, terminals,
                   actual_max_stem_level, new_max_leaf_len, top_level>>

(* The outermost call has returned. *)
PopulateReturns ==
    /\ phase = "populating"
    /\ calls = <<>>
    /\ phase' = "built"
    /\ UNCHANGED <<source, calls, new_stems, new_leaves, terminals,
                   actual_max_stem_level, new_max_leaf_len, top_level>>

Populate == \/ PopulateLeaf
            \/ PopulateSplit
            \/ PopulateUnsplittable
            \/ PopulateReturns

(* mapped_stem_leaf_resolution_from_terminals: leaf k for the k-th         *)
(* terminal stem, 0 (None) for every other stem; a later entry overwrites  *)
(* an earlier one.                                                         *)
MappedFromTerminals(t) ==
    LET last(i) == CHOOSE k \in DOMAIN t :
                      t[k] = i /\ \A j \in DOMAIN t : t[j] = i => j <= k
        top == CHOOSE k \in DOMAIN t : \A j \in DOMAIN t : t[j] <= t[k]
    IN  [i \in 1 .. t[top] |->
            IF \E k \in DOMAIN t : t[k] = i THEN last(i) ELSE 0]

-----------------------------------------------------------------------------
(* The leaf a map gives a stem, 0 when the stem is interior or beyond it. *)
MappedLeaf(leaf_idx_map, stem) ==
    IF stem \in DOMAIN leaf_idx_map THEN leaf_idx_map[stem] ELSE 0

(* get_leaf_idx_mapped: from the root, right when the coordinate is not    *)
(* below the pivot, until a stem is mapped to a leaf or the levels run     *)
(* out.  0 where the code panics (no leaf there), or reads past the stems. *)
LeafIdx(p, stems, leaf_idx_map, max_level) ==
    LET visit[level \in 0 .. max_level + 1] ==
            IF level = 0 THEN RootIdx
            ELSE LET stem == visit[level - 1] IN
                 IF \/ MappedLeaf(leaf_idx_map, stem) # 0
                    \/ stem \notin DOMAIN stems
                 THEN stem
                 ELSE Child(stem, p[(level - 1) % K] >= stems[stem])
    IN  MappedLeaf(leaf_idx_map, visit[max_level + 1])

(* The leaves whose region, with its bounds, has p in it: where a query    *)
(* looks that goes both ways at a stem equal to the coordinate.            *)
Ways(stem, x, pivot) ==
    {c \in {LeftChild(stem), RightChild(stem)} :
        /\ c = LeftChild(stem)  => x <= pivot
        /\ c = RightChild(stem) => x >= pivot}

LeavesAround(p, stems, leaf_idx_map, max_level) ==
    LET visit[level \in 0 .. max_level + 1] ==
            IF level = 0 THEN {RootIdx}
            ELSE UNION {IF \/ MappedLeaf(leaf_idx_map, stem) # 0
                           \/ stem \notin DOMAIN stems
                        THEN {stem}
                        ELSE Ways(stem, p[(level - 1) % K], stems[stem]) :
                           stem \in visit[level - 1]}
    IN  {MappedLeaf(leaf_idx_map, stem) : stem \in visit[max_level + 1]}

-----------------------------------------------------------------------------
ConstructAny == \E src \in Sources : Construct(src)

BuildNext == ConstructAny \/ Populate

BuildSpec == /\ BuildInit
             /\ [][BuildNext]_build_vars
             /\ WF_build_vars(Populate)
=============================================================================
