-------------------------- MODULE SoftConstruction --------------------------
(***************************************************************************)
(* Building an immutable tree over Eytzinger stems, by one thread          *)
(* (SerialConstruction, populate_recursive_soft) or by rayon tasks that    *)
(* share the stems and the sort index (ParallelConstruction,               *)
(* partition_recursive_soft_parallel).                                     *)
(*                                                                         *)
(* On one thread the recursion is a stack of calls still to be made.  In   *)
(* parallel each call that has begun and not been joined is a frame; the   *)
(* two calls of a rayon::join are open at once, and their steps and those  *)
(* of the calls below them interleave in any order.  One step is the body  *)
(* of one call up to the calls it makes: it writes only to its own slices  *)
(* and to its own OnceLock, so a finer grain shows nothing more.           *)
(***************************************************************************)
EXTENDS Eytzinger, FiniteSets

CONSTANTS
    K,         \* number of dimensions
    B,         \* the bucket size
    MaxValue,  \* A::max_value(), the fill of an unwritten stem
    Sources,   \* the slices of points callers build trees from
    Refusals,  \* the sets of positions an item conversion may refuse
    Thresholds, \* the lengths from which callers want parallel construction
    SelectNth(_, _), \* select_nth_unstable_by, for given keys and an index
    SortUnstable(_)  \* sort_unstable_by, for given keys

(* Coordinates equal to max_value() are excluded, as in Buckets. *)
ASSUME SoftAssumption ==
    /\ K \in Nat \ {0}
    /\ B \in Nat \ {0}
    /\ MaxValue \in Int
    /\ Sources \subseteq Seq([0 .. K - 1 -> Int])
    /\ \A src \in Sources : \A i \in DOMAIN src : \A d \in 0 .. K - 1 :
          src[i][d] < MaxValue
    /\ Refusals \subseteq SUBSET Nat

(* with_threshold makes a threshold of 0 one of 1. *)
ASSUME ThresholdsAssumption == Thresholds \subseteq Nat \ {0}

(* What the library promises of its selection and its sort of a slice.     *)
(* Given the keys of the slice, they say for each slot which slot its      *)
(* entry comes from.  The selection puts the entry of the given index in   *)
(* place and splits the others at it, and says nothing of where, among     *)
(* those on one side, equal keys go.                                       *)
Rearranges(order, n) ==
    /\ order \in [1 .. n -> 1 .. n]
    /\ \A i, j \in 1 .. n : order[i] = order[j] => i = j

Partitions(order, keys, index) ==
    /\ \A i \in 1 .. index : keys[order[i]] <= keys[order[index + 1]]
    /\ \A i \in index + 1 .. Len(keys) :
          keys[order[i]] >= keys[order[index + 1]]

SliceLengths == UNION {1 .. Len(src) : src \in Sources}

Coordinates ==
    UNION {{src[i][d] : i \in DOMAIN src, d \in 0 .. K - 1} : src \in Sources}

ASSUME SelectionAssumption ==
    \A n \in SliceLengths : \A keys \in [1 .. n -> Coordinates] :
        /\ \A index \in 0 .. n - 1 :
              /\ Rearranges(SelectNth(keys, index), n)
              /\ Partitions(SelectNth(keys, index), keys, index)
        /\ Rearranges(SortUnstable(keys), n)
        /\ \A i, j \in 1 .. n :
              i <= j => keys[SortUnstable(keys)[i]] <= keys[SortUnstable(keys)[j]]

VARIABLES
    source,      \* the points
    refused,     \* the positions at which item_at fails
    threshold,   \* parallel_threshold; a serial build is one below it
    max_stem_level, \* the last level with stems, the same in every call
    phase,       \* "idle", then "single", "serial", or "partitioning" and
                 \* "writing", then "built" or "refused"
    sort_index,  \* the positions of the source, as they are being arranged
    stems,       \* the stems of the tree being built
    calls,       \* calls of populate_recursive_soft still to be made
    frames,      \* the calls of partition_recursive_soft_parallel, by stem
    locks,       \* parallel_stems: the OnceLocks that are set
    leaf_ranges, \* where in the sort index each leaf is
    leaves,      \* the leaves appended so far
    actual_max_stem_level,
    max_leaf_len,
    error        \* the position item_at failed at, 0 for none

call_vars   == <<source, refused, threshold, max_stem_level>>
task_vars   == <<frames, locks, leaf_ranges>>
result_vars == <<leaves, actual_max_stem_level, max_leaf_len, error>>

vars == <<call_vars, phase, sort_index, stems, calls, task_vars, result_vars>>

Init ==
    /\ source = <<>>
    /\ refused = {}
    /\ threshold = 1
    /\ max_stem_level = -1
    /\ phase = "idle"
    /\ sort_index = <<>>
    /\ stems = <<>>
    /\ calls = <<>>
    /\ frames = <<>>
    /\ locks = <<>>
    /\ leaf_ranges = <<>>
    /\ leaves = <<>>
    /\ actual_max_stem_level = -1
    /\ max_leaf_len = 0
    /\ error = 0

-----------------------------------------------------------------------------
LeafNodeCount(n) == (n + B - 1) \div B

(* From the root to the last leaf, rounded up to a multiple of eight. *)
StemCount(n) == NextMultipleOf(2 ^ (StemsDepth(LeafNodeCount(n)) + 1), 8) - 1

Coord(position, dim) == source[position][dim]

Lesser(m, n)  == IF m <= n THEN m ELSE n
Greater(m, n) == IF m >= n THEN m ELSE n

LeftBudgetUpTo(budget) == \* a variation: up to the budget, not below it
    2 ^ (CHOOSE e \in 0 .. budget : 2 ^ e <= budget /\ budget < 2 ^ (e + 1))

(* soft_left_leaf_budget: the largest power of two below the budget. *)
LeftBudget(budget) ==
    2 ^ (CHOOSE e \in 0 .. budget : 2 ^ e < budget /\ budget <= 2 ^ (e + 1))

IdealPivotRoundedDown(n, left, budget) == \* a variation: not rounded up
    IF n = 0 THEN 0
    ELSE Lesser(Greater((n * left) \div budget, 1), n)

(* soft_ideal_pivot *)
IdealPivot(n, left, budget) ==
    IF n = 0 THEN 0
    ELSE Lesser(Greater((n * left + budget - 1) \div budget, 1), n)

Keys(slice, dim) == [k \in DOMAIN slice |-> Coord(slice[k], dim)]

Reordered(slice, order) == [k \in DOMAIN slice |-> slice[order[k]]]

(* The slots next to slot index (from 0) that have the same key, in one    *)
(* run: where they start and where they end.                               *)
RunStart(keys, index) ==
    CHOOSE start \in 0 .. index :
        /\ \A i \in start + 1 .. index : keys[i] = keys[index + 1]
        /\ start > 0 => keys[start] # keys[index + 1]

RunEnd(keys, index) ==
    CHOOSE end \in index + 1 .. Len(keys) :
        /\ \A i \in index + 1 .. end : keys[i] = keys[index + 1]
        /\ end < Len(keys) => keys[end + 1] # keys[index + 1]

(* update_pivot: how it leaves a slice.  The selection comes first, and    *)
(* where the run of its pivot starts the slice, the sort of all of it.     *)
Arranged(slice, dim, init) ==
    LET selected == Reordered(slice, SelectNth(Keys(slice, dim), init)) IN
    IF RunStart(Keys(selected, dim), init) > 0 THEN selected
    ELSE Reordered(selected, SortUnstable(Keys(selected, dim)))

NudgedNever(slice, dim, init) == init \* a variation: inside a run

NudgedTooFar(slice, dim, init) == \* a variation: one slot beyond the run
    LET start == RunStart(Keys(slice, dim), init)
        end   == RunEnd(Keys(slice, dim), init)
    IN  IF start > 1 THEN start - 1 ELSE IF start > 0 THEN start ELSE end

(* And the pivot it gives: left to the start of the run, as far as its     *)
(* entries are next to each other, or where that is the start of the       *)
(* slice, right to its end.  A slice that is one run is not cut: the pivot *)
(* is its length.                                                          *)
Nudged(slice, dim, init) ==
    LET start == RunStart(Keys(slice, dim), init)
        end   == RunEnd(Keys(slice, dim), init)
    IN  IF start > 0 THEN start ELSE end

(* The arguments of a call: its stem, its slice of the sort index, its     *)
(* leaf budget and which leaf that begins with, and what is known to bound *)
(* its coordinates from above.                                             *)
RootCall(n) ==
    [stem |-> RootIdx, level |-> 0, offset |-> 0, len |-> n, leaf |-> 0,
     budget |-> 2 ^ StemsDepth(LeafNodeCount(n)),
     bounds |-> [d \in 0 .. K - 1 |-> MaxValue]]

Slice(c) == SubSeq(sort_index, c.offset + 1, c.offset + c.len)

IsLeafCall(c) == c.level > max_stem_level

(* What a call above the leaves computes: how it arranges its slice, where *)
(* it cuts it and the value its stem gets.  A slice that is not cut stores *)
(* its own upper bound.                                                    *)
BoundAsSentinel(c) == MaxValue \* a variation: the stem is left unwritten
OwnBound(c)        == c.bounds[c.level % K]

CallPivot(c) == IdealPivot(c.len, LeftBudget(c.budget), c.budget)

CallOrder(c) ==
    IF CallPivot(c) < c.len THEN Arranged(Slice(c), c.level % K, CallPivot(c))
    ELSE Slice(c)

Division(c, order) ==
    LET dim   == c.level % K
        ideal == CallPivot(c)
        pivot == IF ideal < c.len THEN Nudged(order, dim, ideal) ELSE ideal
    IN  [pivot |-> pivot,
         value |-> IF pivot < c.len THEN Coord(order[pivot + 1], dim)
                   ELSE OwnBound(c)]

LeftCall(c, division) ==
    [stem |-> LeftChild(c.stem), level |-> c.level + 1,
     offset |-> c.offset, len |-> division.pivot,
     leaf |-> c.leaf, budget |-> LeftBudget(c.budget),
     bounds |-> [c.bounds EXCEPT ![c.level % K] = division.value]]

RightCallFromStart(c, division) == \* a variation: the pivot is not added
    [stem |-> RightChild(c.stem), level |-> c.level + 1,
     offset |-> c.offset, len |-> c.len - division.pivot,
     leaf |-> c.leaf + LeftBudget(c.budget),
     budget |-> c.budget - LeftBudget(c.budget), bounds |-> c.bounds]

RightCall(c, division) ==
    [stem |-> RightChild(c.stem), level |-> c.level + 1,
     offset |-> c.offset + division.pivot, len |-> c.len - division.pivot,
     leaf |-> c.leaf + LeftBudget(c.budget),
     budget |-> c.budget - LeftBudget(c.budget), bounds |-> c.bounds]

(* The sort index after the slice of c has been arranged. *)
SortIndexWith(c, order) ==
    [k \in DOMAIN sort_index |->
        IF k - c.offset \in 1 .. c.len THEN order[k - c.offset]
        ELSE sort_index[k]]

(* write_leaf_from_sort_index: items are made one by one, and the first    *)
(* that cannot be made ends the construction.                              *)
FirstRefused(slice) ==
    CHOOSE k \in DOMAIN slice :
        slice[k] \in refused /\ \A j \in 1 .. k - 1 : slice[j] \notin refused

LeafWritten(slice) ==
    /\ \A k \in DOMAIN slice : slice[k] \notin refused
    /\ leaves' = Append(leaves, slice)
    /\ max_leaf_len' = Greater(max_leaf_len, Len(slice))
    /\ UNCHANGED <<phase, error>>

LeafRefused(slice) ==
    /\ \E k \in DOMAIN slice : slice[k] \in refused
    /\ error' = slice[FirstRefused(slice)]
    /\ max_leaf_len' = Greater(max_leaf_len, Len(slice))
    /\ phase' = "refused"
    /\ UNCHANGED leaves

WriteLeafUnchecked(slice) == LeafWritten(slice) \* a variation: no error

WriteLeaf(slice) == LeafWritten(slice) \/ LeafRefused(slice)

-----------------------------------------------------------------------------
Identity(n) == [i \in 1 .. n |-> i]

Called(c) == [call |-> c, pc |-> "called", pivot |-> 0, longest |-> 0]

(* The frames with those of the calls that are made. *)
WithCalls(fs, made) ==
    [j \in DOMAIN fs \cup {c.stem : c \in made} |->
        IF \E c \in made : c.stem = j
        THEN Called(CHOOSE c \in made : c.stem = j) ELSE fs[j]]

(* new_from_source_no_stems_with, in two steps: at most a bucket of       *)
(* entries becomes one leaf.                                               *)
ConstructNoStems ==
    LET n == Len(source') IN
    /\ LeafNodeCount(n) < 2
    /\ sort_index' = Identity(n)
    /\ phase' = "single"
    /\ UNCHANGED <<stems, calls, task_vars, result_vars>>

SingleLeaf ==
    /\ phase = "single"
    /\ \/ /\ refused = {}
          /\ leaves' = <<sort_index>>
          /\ max_leaf_len' = IF source = <<>> THEN 2 * B ELSE Len(source)
          /\ phase' = "built"
          /\ UNCHANGED error
       \/ /\ refused # {}
          /\ error' = sort_index[FirstRefused(sort_index)]
          /\ phase' = "refused"
          /\ UNCHANGED <<leaves, max_leaf_len>>
    /\ UNCHANGED <<call_vars, sort_index, stems, calls, task_vars,
                   actual_max_stem_level>>

(* The threshold is inclusive. *)
ShouldParallelize(n, parallel_threshold) == n >= parallel_threshold

(* new_from_source_with_index up to mode.populate, and the test there: a   *)
(* short source is built by the calling thread.                            *)
ConstructWithStems ==
    LET n == Len(source') IN
    /\ LeafNodeCount(n) >= 2
    /\ sort_index' = Identity(n)
    /\ stems' = [i \in 1 .. StemCount(n) |-> MaxValue]
    /\ \/ /\ ~ShouldParallelize(n, threshold')
          /\ phase' = "serial"
          /\ calls' = <<RootCall(n)>>
          /\ UNCHANGED task_vars
       \/ /\ ShouldParallelize(n, threshold')
          /\ phase' = "partitioning"
          /\ frames' = WithCalls(frames, {RootCall(n)})
          /\ leaf_ranges' = [k \in 1 .. RootCall(n).budget |-> <<0, 0>>]
          /\ UNCHANGED <<calls, locks>>
    /\ UNCHANGED result_vars

Construct ==
    /\ phase = "idle"
    /\ source' \in Sources
    /\ \E positions \in Refusals : refused' = positions \cap DOMAIN source'
    /\ threshold' \in Thresholds
    /\ max_stem_level' = StemsDepth(LeafNodeCount(Len(source'))) - 1
    /\ ConstructNoStems \/ ConstructWithStems

-----------------------------------------------------------------------------
(* populate_recursive_soft: a call beyond the stems writes a leaf. *)
PopulateLeaf ==
    /\ phase = "serial"
    /\ calls # <<>>
    /\ IsLeafCall(Head(calls))
    /\ WriteLeaf(Slice(Head(calls)))
    /\ calls' = Tail(calls)
    /\ UNCHANGED <<call_vars, sort_index, stems, task_vars,
                   actual_max_stem_level>>

(* Any other call writes its stem and goes left, then right. *)
PopulateSplit ==
    LET c == Head(calls) IN
    /\ phase = "serial"
    /\ calls # <<>>
    /\ ~IsLeafCall(c)
    /\ \E order \in {CallOrder(c)} : \E division \in {Division(c, order)} :
          /\ sort_index' = SortIndexWith(c, order)
          /\ stems' = [Grown(stems, c.stem, MaxValue)
                          EXCEPT ![c.stem] = division.value]
          /\ calls' = <<LeftCall(c, division), RightCall(c, division)>>
                      \o Tail(calls)
    /\ actual_max_stem_level' = Greater(actual_max_stem_level, c.level)
    /\ UNCHANGED <<call_vars, phase, task_vars, leaves, max_leaf_len, error>>

PopulateReturns ==
    /\ phase = "serial"
    /\ calls = <<>>
    /\ phase' = "built"
    /\ UNCHANGED <<call_vars, sort_index, stems, calls, task_vars, result_vars>>

-----------------------------------------------------------------------------
Returned(i) == i \in DOMAIN frames /\ frames[i].pc = "returned"

(* rayon::join from the threshold on; below it one call after the other. *)
Forks(c) == c.len >= threshold

(* A call beyond the stems notes where its leaf is. *)
TaskLeaf(i) ==
    LET c == frames[i].call IN
    /\ phase = "partitioning"
    /\ frames[i].pc = "called"
    /\ IsLeafCall(c)
    /\ leaf_ranges' = [leaf_ranges EXCEPT ![c.leaf + 1] = <<c.offset, c.len>>]
    /\ frames' = [frames EXCEPT ![i].pc = "returned", ![i].longest = c.len]
    /\ UNCHANGED <<call_vars, phase, sort_index, stems, calls, locks,
                   result_vars>>

(* Any other call arranges its slice, sets its OnceLock (which panics when *)
(* it is set already) and makes its calls.                                 *)
TaskSplit(i) ==
    LET c == frames[i].call IN
    /\ phase = "partitioning"
    /\ frames[i].pc = "called"
    /\ ~IsLeafCall(c)
    /\ c.stem \in DOMAIN stems
    /\ c.stem \notin DOMAIN locks
    /\ \E order \in {CallOrder(c)} : \E division \in {Division(c, order)} :
          LET left  == LeftCall(c, division)
              right == RightCall(c, division)
              waits == [frames EXCEPT ![i].pc = IF Forks(c) THEN "joining"
                                                ELSE "left",
                                      ![i].pivot = division.pivot]
          IN
          /\ sort_index' = SortIndexWith(c, order)
          /\ locks' = [s \in DOMAIN locks \cup {c.stem} |->
                          IF s = c.stem THEN division.value ELSE locks[s]]
          /\ frames' = WithCalls(waits, IF Forks(c) THEN {left, right}
                                        ELSE {left})
    /\ UNCHANGED <<call_vars, phase, stems, calls, leaf_ranges, result_vars>>

(* Not forked: the left call has returned, the right one is made. *)
TaskRight(i) ==
    LET c     == frames[i].call
        right == RightCall(c, [pivot |-> frames[i].pivot])
    IN
    /\ phase = "partitioning"
    /\ frames[i].pc = "left"
    /\ Returned(LeftChild(i))
    /\ frames' = WithCalls([frames EXCEPT ![i].pc = "joining"], {right})
    /\ UNCHANGED <<call_vars, phase, sort_index, stems, calls, locks,
                   leaf_ranges, result_vars>>

(* Both have returned: the longest of their leaves. *)
TaskJoin(i) ==
    LET children == {LeftChild(i), RightChild(i)} IN
    /\ phase = "partitioning"
    /\ frames[i].pc = "joining"
    /\ \A j \in children : Returned(j)
    /\ frames' = [j \in DOMAIN frames \ children |->
                     IF j # i THEN frames[j]
                     ELSE [frames[i] EXCEPT
                              !.pc = "returned",
                              !.longest = Greater(
                                  frames[LeftChild(i)].longest,
                                  frames[RightChild(i)].longest)]]
    /\ UNCHANGED <<call_vars, phase, sort_index, stems, calls, locks,
                   leaf_ranges, result_vars>>

Task == \/ \E i \in DOMAIN frames : TaskLeaf(i)
        \/ \E i \in DOMAIN frames : TaskRight(i)
        \/ \E i \in DOMAIN frames : TaskJoin(i)
        \/ \E i \in DOMAIN frames : TaskSplit(i)

(* populate_parallel_soft after the partition: the locks that were set     *)
(* become stems.                                                           *)
CollectStems ==
    /\ phase = "partitioning"
    /\ Returned(RootIdx)
    /\ stems' = [i \in DOMAIN stems |->
                    IF i \in DOMAIN locks THEN locks[i] ELSE stems[i]]
    /\ max_leaf_len' = frames[RootIdx].longest
    /\ actual_max_stem_level' = Greater(actual_max_stem_level, max_stem_level)
    /\ phase' = "writing"
    /\ UNCHANGED <<call_vars, sort_index, calls, task_vars, leaves, error>>

NextRange == LET range == leaf_ranges[Len(leaves) + 1] IN
             SubSeq(sort_index, range[1] + 1, range[1] + range[2])

(* The leaves are written by the calling thread, in their order. *)
WriteRange ==
    /\ phase = "writing"
    /\ Len(leaves) < Len(leaf_ranges)
    /\ WriteLeaf(NextRange)
    /\ UNCHANGED <<call_vars, sort_index, stems, calls, task_vars,
                   actual_max_stem_level>>

WriteReturns ==
    /\ phase = "writing"
    /\ Len(leaves) = Len(leaf_ranges)
    /\ phase' = "built"
    /\ UNCHANGED <<call_vars, sort_index, stems, calls, task_vars, result_vars>>

-----------------------------------------------------------------------------
(* The leaf that arithmetic gives for a point (get_leaf_idx): right when   *)
(* the coordinate is not below the stem, to the level the tree records,    *)
(* and then the stem without its top bit.                                  *)
LeafIdx(p) ==
    LET visit[level \in 0 .. actual_max_stem_level + 1] ==
            IF level = 0 THEN RootIdx
            ELSE Child(visit[level - 1],
                       p[(level - 1) % K] >= stems[visit[level - 1]])
    IN  visit[actual_max_stem_level + 1] - 2 ^ (actual_max_stem_level + 1)

-----------------------------------------------------------------------------
Serial   == PopulateLeaf \/ PopulateSplit \/ PopulateReturns
Parallel == Task \/ CollectStems \/ WriteRange \/ WriteReturns
Populate == SingleLeaf \/ Serial \/ Parallel

Next == Construct \/ Populate

(* Some thread of the pool can always go on: a join waits only for calls   *)
(* that it or another thread is making.                                    *)
Spec == Init /\ [][Next]_vars /\ WF_vars(Populate)
=============================================================================
