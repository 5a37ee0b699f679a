# A TLA+ development of kiddo's kd-tree

kiddo stores points of `K` coordinates with an item each and answers
nearest-neighbour and radius queries. This directory models what its
correctness depends on beyond the reach of unit tests: building a tree with
bounded leaves, changing it with `add`, `remove` and `replace_item`, building an
immutable tree by tasks that run in parallel, querying either kind of tree,
configuring a query and running a batch of it on a thread pool, and joining two
trees. The modules were written from the Rust sources under `src/src/`
(paths below are relative to that directory); each definition's lines are in
`PROJECT.json`, `map`.

## 1. The system

| Component | State | Operations | Talks to |
|---|---|---|---|
| Construction, hard buckets (`kd_tree/construction/mod.rs`) | stems, leaves, terminal stems, capacities handed down the recursion | `new_from_source_with`, `populate_recursive_hard`, `calc_pivot`, `update_pivot` | leaf strategy, stem strategy |
| Mutable tree (`kd_tree/construction/mod.rs`, `kd_tree/mod.rs`) | stems, map from terminal stems to leaves, leaves, `size`, `max_stem_level`, `max_leaf_len` | `add`, `remove`, `replace_item`, rebuild | construction, leaf strategy |
| VecOfArrays leaves (`leaf_strategy/vec_of_arrays.rs`, `mirror_select_nth_unstable_by.rs`) | arrays of `B` slots and a size for each leaf, a total size | append, add, remove, replace, split | the tree |
| Stem strategies (`stem_strategy/`) | a stem index and a level | traverse, branch, child indices | traversals |
| Exact queries, mapped leaves (`kd_tree/orchestrator/`, `kd_tree/query/`) | offsets, a stack of siblings, the best so far | nearest_one, nearest_n(_within), within | a borrowed tree, result collections, metrics |
| Exact queries, arithmetic leaves (the same files, `kd_tree/query_stack.rs`) | offsets, a stack of restore frames and one of far subtrees | the same, and approx_nearest_one | an immutable tree, Eytzinger or Donnelly stems |
| Query builder (`kd_tree/query/builder.rs`) | point, box, quantity, capacity, radius; family, space, projection and order in the type | methods that rebind it, execute | the queries above, scans of all entries |
| Result collections (`results/`) | the best `n` so far | add, threshold | queries |
| Soft-bucket construction (`construction/serial.rs`, `parallel.rs`, `shared.rs`) | write-once stems, disjoint leaf ranges | populate, rayon joins | leaf strategies |
| Batch executor (`kd_tree/query/batch.rs`) | a prototype builder, an executor | builder methods, execute, for_each | rayon, the query builder |
| Tree join (`kd_tree/query/tree/`) | a box, a stack and a sink for each walk, a frontier of pairs of subtrees, candidates of the nearest join | execute, for_each, count, nearest | two immutable trees, the executor's policy |
| Iterators (`kd_tree/iter.rs`) | position, a spilling stack | next | a borrowed tree |
| Item summaries (`kd_tree/item_summary.rs`) | one byte for each stem child | encode, filter | best_n_within |
| Donnelly stems (`stem_strategy/donnelly/`) | address, level, row in the block, leaf number | branch, descend by blocks | construction, queries, joins |
| SIMD kernels, serialization, huge pages | layout and arithmetic | | |

The hard behaviours are these. A tree is a data structure that three operations
keep consistent (a split edits stems, map, leaves and levels at once; a rebuild
replaces them all or, on an error, nothing), and every other operation finds a
leaf by the same descent. Construction hands capacities down a recursion while
repeated coordinates push the pivots away from where the capacities want them.
A split runs a quickselect on one coordinate and replays its moves on a mirror
array. A query prunes by distances it maintains incrementally, with state that
survives from one branch to the next. Nothing in these parts is concurrent: the
borrow checker gives a call the tree for itself. Concurrency lives in the
parallel construction, where tasks share the sort index and the stems, in the
batch executor, whose threads share a prototype, and in the tree join, whose
frontier is cut into tasks. Nothing is persisted, so there is no crash recovery.

What makes each component correct:

* construction: nothing lost, no leaf overfull or empty, every entry on the right
  side of every stem above its leaf, an end in every case;
* mutation: the tree is a multiset of entries whatever its shape, nothing but a
  construction ever puts an entry where its route does not lead, an error changes
  nothing, all counts agree;
* leaf split: separates by the coordinate, keeps points and items together, ends;
* queries: the answer of a linear scan;
* soft construction: the tree does not depend on the threads, pivots in key
  order, every entry on the right side of its stems, an error instead of half a
  tree;
* arithmetic queries: the two stacks stay in step, the distance carried is that
  of the offsets, the answer is that of a scan;
* query builder: a chain of calls in any order asks for what was said;
* batches: one answer for each query, as if it had been alone, in its place;
* join: each matching pair once, whatever the tasks; boxes that enclose.

`PROJECT.json`, `hazards`, lists the places where these can go wrong.

## 2. Modules

| Module | What it is |
|---|---|
| `Buckets` | entries, and the contents of a leaf as a bag of entries; what a split may choose, and what it may leave on each side |
| `Eytzinger` | the stem layout, and when a split asks for a rebuild |
| `HardConstruction` | building a tree with leaves of at most `B` entries |
| `ConstructionProperties` | what a build must get right |
| `PointStore` | the abstract specification: a multiset with add, remove, replace, load |
| `MutableKdTree` | the mutable tree; EXTENDS `HardConstruction`, whose steps it takes for a rebuild |
| `TreeProperties` | what the tree must get right, and its refinement of `PointStore` |
| `LeafSplit`, `LeafSplitProperties` | `split_leaf` and the mirrored quickselect on the arrays |
| `SoftTree` | the abstract specification of building an immutable tree: the tree as a function of the entries |
| `SoftConstruction`, `SoftProperties` | building it, on one thread or by rayon tasks; its refinement of `SoftTree` |
| `MappedQuery` | the backtracking query, interleaved with the calls of `MutableKdTree`, and what it must get right |
| `Metrics` | the metrics over integer coordinates, of points and of regions |
| `Donnelly` | the block layouts of stems, and the descents by whole blocks |
| `ArithmeticQuery`, `ArithmeticProperties` | queries on immutable trees, exact and approximate |
| `QueryBuilder` | the fluent builder and what its `execute` answers |
| `QueryBatch` | the abstract specification: one answer of its own for each query |
| `BatchExecutor`, `BatchProperties` | configuring and running a batch; its refinement of `QueryBatch` |
| `PairJoin` | the abstract specification: the matching pairs of two trees, their number, or the nearest |
| `JoinCursors`, `TreeJoin`, `JoinProperties` | subtrees and their pairs; the join on one thread or cut into tasks; its refinement of `PairJoin` |
| `Collections` | what a result collection of an exact query holds |
| `CommonTheorems`, `MetricTheorems` | theorems the proofs share: finite sets, counting, powers of two, the nearest of what was found; distances of points and of regions |
| `TreeProofs` | bags of entries, trees of stems and the leaves at them; construction and the mutable tree, its refinement included |
| `QueryProofs` | the exactness of queries on mutable trees |
| `SoftProofs` | building an immutable tree, on one thread or by tasks |
| `ArithmeticProofs` | the stacks and the exactness of arithmetic queries |
| `JoinProofs` | joins, their refinement included |
| `BatchProofs` | batches, their refinement included |
| `MCSlices` | a selection and a sort of a slice, as the library makes them, for TLC |
| `MCTrees`, `MC*` | immutable trees to ask, and instances for TLC |

### Construction

The recursion of `populate_recursive_hard` is the sequence `calls`; each step
takes the first one and either writes a leaf (`PopulateLeaf`), splits
(`PopulateSplit`, which writes the stem, grows the stem array and puts the two
halves in front), or fails (`PopulateUnsplittable`). The sort index, a slice of
positions into the source, is the bag of the entries it selects: a slice is
selected or sorted again before its order is read, so no later step can tell two
orders of it apart.

What a split leaves on each side does depend on the order, and is a choice of the
model. `update_pivot` selects the entry of the ideal pivot and then moves the pivot
to the left as long as the entry *next to it* is equal. A comment there says that
the selection leaves equal items adjacent; the standard library promises a
partition only. So the stem is `SplitValue` (the value at the wanted rank, or, where
that run starts the chunk and the code sorts all of it, the next larger one), and
the left part is any of `LeftParts`: everything below the stem, and any number of
the entries equal to it that fits before the pivot. The library of today makes use
of this freedom where the ideal pivot is the last slot: it swaps the first
greatest entry there and leaves the others anywhere (finding 3).

An entry equal to a stem may thus be on the left of it, while the descent for its
point goes right. `Ways` and `LeavesAround` are the descent that goes both ways at
equality; it is what exact queries do, whose far side is then at distance zero.
`FinishedTreeRoutes` says of every entry that the both-ways descent comes to its
leaf, and of every entry that shares no coordinate with another (`Tied`) that the
plain descent does.
`CalcPivot`, the capacities and the length of the initial stem array are taken
over as arithmetic. `MappedFromTerminals` is the map, `LeafIdx` the descent.

### The mutable tree

A call is issued (`Invoke`), descends one level a step, and ends at a leaf with
one of the actions named for what happens there. Stems and the map are
sequences from stem 1; leaf 0 stands for `None`. Where the code would read out
of bounds or panic there is no step: deadlock checking is on in all tree runs,
so reaching such a state (a descent beyond the stems, an append to a full leaf)
is an error, and `DescentReachesALeaf` names the first kind. A rebuild is a sequence of steps (collect
leaf by leaf, build, install or fail) although no caller sees between them,
because a failure in the middle must have no effect.

`ImplementsPointStore` is the refinement: under `contents <- TreeContents` each
step of the tree is a step of `PointStore` or leaves it alone. The store permits
an add to be refused only if a bucketful of entries share a coordinate. Its
variable `hidden` counts the copies of each entry that `remove` and `replace_item` do
not see: `Load`, and an add that rebuilds, may hide copies of entries that share a
coordinate with another (`MayBeHidden`), which is finding 3; every other step leaves
`hidden` alone, so that what an append, a split or a removal does is exact.

The tree model chooses any value `SplitValues` allows for a split of a leaf.
`LeafSplit` justifies this: for leaves of up to six slots the arrays give a
split among these (`SplitsAsABucket`). From seven on they do not (finding 1), and
`OrderedSplitAssumption` keeps the tree model to `B <= 6`; what it shows of the
tree holds for larger buckets only with the selection repaired.

### Building an immutable tree

`SoftConstruction` has both builders. On one thread the recursion is the stack
`calls`. In parallel every call of `partition_recursive_soft_parallel` that has
begun and not been joined is a frame, named by its stem, with a program counter:
`called`, `left` (below the threshold: the left call is running, the right one
comes next), `joining` (both are open) and `returned`. From the threshold on both
calls are open at once, so tasks interleave in every order a pool of any size can
produce; smaller pools produce some of them. A step is the body of one call up to
the calls it makes. It reads and writes only the call's slice of the sort index
and sets one OnceLock that no other step reads, so nothing is lost by taking it
whole; `TasksAreApart` and `TasksNeverPanic` check that this is so. Afterwards the
calling thread collects the stems and writes the leaves from their ranges
(`CollectStems`, `WriteRange`), and an item that cannot be made ends the build
(`LeafRefused`).

Here the sort index is an array, because the parallel builder finds its leaves by
offset. What the library does with a slice is a pair of constant operators,
`SelectNth` and `SortUnstable`, of which `SelectionAssumption` says what the library
promises: a rearrangement, a partition at the index, a sorted slice. They are
functions of the keys, because the library's selection and sort are
deterministic; everything proved holds for each such pair. For TLC they are those
of `MCSlices`, which swap as the library does where the index is the last or the
first slot. `Arranged` and `Nudged` are `update_pivot` on them: the selection, the scan
to the left over adjacent equal keys, and where that reaches the start, the sort
and the scan to the right. Eytzinger stems need no padding, so leaf budgets are
powers of two, and the code's cases for a budget of zero, or of one above the
leaves, do not arise (`TasksNeverPanic` includes that a leaf call has a budget of
one).

As in hard construction an entry may be left of a stem it equals.
`EntriesAreWithinTheirStems` says that every entry is on the right side of every
stem above it, equality allowed, and is routed to its leaf unless it shares a
coordinate. Without the exception it fails, for the reason of finding 3: with buckets
of one, three points of which two share the greatest coordinate are enough.

`SoftTree` says the same tree node by node: which entries are below each node, at
which of the places where two coordinates meet it is cut, and the least bound
from above for a node that is not cut. `ImplementsSoftTree` shows that the serial
and the parallel builder both produce it, and so the same tree.

### Queries

In `MappedQuery` a step is one pop, one level of a traversal or one leaf. `off`,
the stack frames and `rd` are the code's. A pop restores one axis only; the model
keeps that. `NothingPrunedWasNear` states exactness as an invariant: what was
collected, together with what lies below the stems still to visit, is at any
moment the answer of a scan. Coordinates are small integers, so that distances
are exact; rounding is not modelled.

`ArithmeticQuery` is the traversal for trees whose leaf number is the path. Every
level of a descent pushes a restore frame; where the far side may matter it says
so, and the far subtree goes on a second stack. A pop takes a frame, puts its
offset back on the axis before the last one, and enters the far subtree if there
is one and its distance does not prune it. Each of these is an action
(`DescendCut`, `DescendUncut`, `ProcessLeaf`, `PopRestoreOnly`, `PopPruned`,
`PopEntered`), named for the path through the loop. Here the offsets are exact
(`RdMatchesOff`), unlike those of `MappedQuery`, as long as the axis changes on
every level; finding 4 is a strategy where it does not.

Stems are in Eytzinger order or in the blocks of `Donnelly`. `Branch` is the step
of the traversal from a stem to a child; `BlockDescent` is what the leaf lookup of an
immutable tree does instead, line by line, recovering the leaf number from the
number of the last line. `Approximate` takes the second way to trees that were
laid out by the first, and `StoredPointsAreNear` compares them: a stored point is
found at distance zero, unless it is left of a stem it equals
(`LeftOfItsEqual`), where the approximate query, which goes one way, may miss it.
`IsBuilt`, what is known of a tree that is asked, allows equality on both sides of
a stem. The code's SIMD descents make the choices of a whole
block at once and then replay them through the same loop, so they have no action
of their own.

### The query builder and batches

`QueryBuilder` is a record of the builder's fields and of its type parameters.
`Offers` says which methods a state has (the traits), `Apply` what a method
makes of it: fields that `rebind` is given anew, and what its type arguments
keep or drop. `Answers` is what `execute` returns: where points are asked for it
scans all entries, and the scans are modelled step by step; otherwise it calls a
traversal, which is given by what it promises, a set of answers where ties leave
a choice.

`BatchExecutor` maps the methods over a prototype (`Configure`), decides
parallel or serial and the least length of a part, and hands the whole range to
rayon. Rayon is external: a range may be halved (`Split`) while both halves have
the least length, and a thread takes one (`Begin`) and works through it in order:
a copy of the prototype gets the point (`SetQueryPoint`), is executed, and the
answer goes to its place or to the visitor (`Deliver`). These are two steps, so
that threads interleave between them. `Collect` sorts the heaps of
`best_n_within`, and only those of `execute`.

`AskedIsAnswered` is stated from `said`, the calls the caller made, and not from
the builder, so a field lost in some order of the calls shows. Where a box is said and
then `approx`, it takes an answer in either space (section 5). `QueryBatch` is the
promise to one caller: an answer for each query as if it had been alone.

### Joining two trees

A walk keeps one box for each side, edited in place, and a stack of frames of two
kinds: the right half of a cut, and a bound to restore. A step looks at one pair
of subtrees (`Reject`, `Bulk`, `LeafPair`, `Descend`) or takes a frame
(`PopRestore`, `PopRight`). `Bulk` is the acceptance of a whole pair by its upper
bound. With a budget the frontier is cut first (`CutFrontier`), the task of the
highest score in two, by a subtree or by rows of a leaf; then each task is a walk
of its own, and walks interleave. `count` goes through `MaxCount`, `usize::MAX` in
the code, in one sink, in the sum of the sinks and in the product of two trees.
The nearest join is serial in the code whatever the executor, and so here.

`MinScore`, `TileLen` and `MaxCount` are 4096, 32 and `usize::MAX` in the code and
CONSTANTS here. `DescendPadding`, the step through a padding level that halves no
leaves, is in the model because it is in the code; no tree that construction makes
takes it, since `max_stem_level` counts the padding levels, and a padded root is
walked like any pivot that is not finite. `MCTrees` makes its trees with
`SoftTree`, whose implementation by the builders another run checks.

## 3. Runs

Every property is also checked against a mutated definition (`PROJECT.json`,
`mutants`; the operators commented "a variation") and must fail there.

| Run | Instance | Shows |
|---|---|---|
| `hard_construction` | every source of up to 7 entries on a 3x2 grid, `B = 2` | loss-freedom, leaf bounds, every entry within its stems and the untied ones routed, pivots inside chunks, termination |
| `tree_store` | three points in two dimensions of which two share a coordinate, two items, `B = 2`, at most 4 entries, sources of up to 3, sparsity factor 1 | reachability of every entry, descents, counts, errors without effect, every call returns, refinement of `PointStore` |
| `leaf_split` | every leaf of 2 to 6 slots over four coordinates | order, permutation, agreement with `Buckets`, progress |
| `query` | five points in general position, `B = 2`, at most 4 entries by adds or 6 by construction, sparsity factor 2, five queries | exactness, lower bounds, shape of the stack |
| `soft_construction` | every list of up to 3 points of four in two dimensions, in any order, and of 4 and 5 in falling order, `B = 1` (eight leaves, three levels of stems, some leaves empty), thresholds 1, 3 and 6, no item or two items refused | the tree is that of `SoftTree` in every order of the tasks, no panics, disjoint tasks, pivots in key order, entries within their stems, termination |
| `batch` | batches of none, one and three queries, three entries with a tie in points and one in items, every chain of calls with one radius, quantity and box, a serial executor and pools of two threads with and without static parts and a threshold | one run of each query, answers of its own, what was said is answered, nothing missing in `execute`, termination, refinement of `QueryBatch` |
| `tree_join` | 16 pairs of trees of up to four entries (an empty one, one leaf, coinciding points, an entry left of its equal, a padded root) with seven queries and three executors; 17 larger pairs, of up to 16 entries, with three queries on one thread | each pair once, boxes enclose, nothing nearer skipped, termination, refinement of `PairJoin` |
| `arithmetic_query` | 27 trees of up to 18 entries, `B` of 1 and 2, Eytzinger stems and blocks of 3, 4 and 5 levels, complete and incomplete, with padded roots; 60 exact queries and one approximate query at each of 77 points | exactness, offsets, stacks in step, block descents, termination |
| `leaf_split_seven`, `query_chebyshev`, `tree_ties`, `arithmetic_block_dim` | small instances | the findings of section 5 |

Why the bounds are enough to be interesting. Seven entries in buckets of two
make four leaves with a hole, three levels and every kind of nudge (a run at the
start, in the middle, the whole chunk), with repeated points. The sparsity
factor is 16 in the code and a CONSTANT here: with 1 or 2 rebuilds happen with so
few entries, the ones that succeed as well as the ones that fail, and after
removals leave empty leaves behind. Three entries, two of which share the greatest
coordinate, are the least for which a construction may leave an entry left of its
equal; four, with a rebuild among the calls, hide it from a call made later. Four coordinates over six slots give
every pattern of ties a partition distinguishes on leaves of that size; slices of
eight, where the pivot becomes a median of three, are beyond these instances.
Query points and radii are chosen so that an entry and a pivot lie exactly on
the radius.

Threshold 1 forks every call above the leaves whose chunk is not empty; 3 forks
the root and a child of it and then goes on serially; 6 is above every source and
gives the serial builder. Three levels are the least at which an axis recurs, so
that an upper bound handed down is used.

Three queries on two threads can be halved unevenly, and one thread can set a
point between the two steps of another. A chain of calls never needs an argument
twice, so one radius, quantity and box are enough to tell whether it got lost; a
quantity of 2 and a radius of 1 both cut off some of the three entries. In the
joins `MinScore` and `TileLen` are 1, so that trees of four entries are cut down
to single rows, and `MaxCount` is 10, below the 16 pairs of the largest of them.
Trees of 13 entries in buckets of two have three levels of stems, so that an axis
recurs in the path of a query; block heights of 3 and 4 with 16 and 32 leaves give
a second row of blocks, and an incomplete last one.

Bounds: `MaxSize` (no add is issued to a tree of that many entries), `MaxLen`
(the longest source), the sets of points, items, trees, calls and queries.
`CHECK_DEADLOCK FALSE` appears only in runs where a finished build, batch, join
or query stops.

Fairness: `WF(Populate)` and `WF(Work)`, and in `ArithmeticQuery` of `Next` once a
query was asked. In a parallel build, batch or join it says only that some task
of the pool goes on as long as one can; no single task is promised a turn. A call
runs on its caller's thread or on a pool it waits for, and takes no lock, so
nothing stops it once issued. There is no fairness on `Invoke`, on `Call` of a
batch, or on asking.

## 4. Proofs

All theorems hold for every dimension, set of points and items, list of queries
and other value of the constants, under the assumptions the modules name
(`PointsAssumption`, `BucketSizeAssumption`, `SourcesAssumption`,
`QueriesAssumption` and so on). Of the library's selection they assume what it
promises, a partition: the theorems about mutable trees hold for every part
`LeftParts` allows, those about immutable ones for every pair of operators that
meets `SelectionAssumption`. Four say less than everything:

* those of the mutable tree and its queries have `B <= 6`
  (`OrderedSplitAssumption`, because of finding 1);
* exactness of queries on mutable trees is for metrics that add up over the axes,
  `Metric # "Chebyshev"` (because of finding 2);
* exactness of arithmetic queries is for trees whose axis changes on every level,
  `TreesAlternate` (because of finding 4); TLC evaluates this for the trees of its
  run (`AlternatingAssumption`);
* `JoinImplementsPairJoin` assumes `FiniteNearest`: the nearest join is asked only
  where distances are below the infinity its candidates start with. Where none is,
  the code returns the default item it began with (`kd_tree/query/tree/nearest.rs:100`).
  TLC evaluates this for the calls of its run.

The modules share what is said once. `BucketLen`, the sums over leaves, the sinks
of walks and the distances over axes are folds, and statements about folds would
need an induction. They are proved by counting instead: a bucket of `n` entries has
`n` slots (`Slots`), the leaves of a tree have disjoint slots, and the cardinality of
a union follows from the library's theorems. Where a recursive function must be
followed all the way (the descents, `StemsUpFrom`, `Combined`), the argument is by a
least counterexample in the natural numbers.

### Construction (`TreeProofs`)

* `TypeCorrect`, `LeavesAlwaysFit`, `IdealPivotAlwaysInside`, from

      BuildInv == TypeOK /\ LeavesFit /\ (phase = "idle" => calls = <<>>)

  `TypeOK` is not inductive alone: a split stores the value `SplitValue` chooses,
  which is a coordinate of the chunk only if the position asked for lies inside
  it, and that needs a chunk longer than a bucket and a natural capacity.
  `LeavesFit` needs that both sides of a split hold something (`CallDivides`):
  `CalcPivotInside` (arithmetic on `calc_pivot`, for every right capacity, zero
  included) puts the rank inside the chunk, `SplitValueChosen` finds a coordinate
  there, `SplitValuesDivide` shows both sides occupied.
* `NothingIsLost`: leaves and pending chunks together hold the source. They are
  one sequence, `Laid`; a leaf moves its border (`BeginsWithAll`, `FirstMoved`), a
  split puts two buckets of the same sum in the place of one (`TwoForOne`).
* `FinishedTreesRoute`: the both-ways descent of a finished tree leads every entry
  to its leaf, the plain one every entry that is not tied to another. The inductive
  `RouteInv` says that at any moment leaves and pending chunks, at their stems
  `Nodes`, are already a tree, of whose entries the `Untied` ones are routed:

      Sited(Nodes, Laid, new_stems, actual_max_stem_level, Untied)

  `Sited` is: `Shape` (the stems written and those with a
  leaf are a binary tree, no stem both), `Within` (no deeper than the levels),
  every entry `Lies` at its leaf's stem (the closed region of that stem has it) and
  those of the last argument are `Routed` there, and `Cut` (each stem's value is the
  coordinate of some point that lies there, so it is inside the stem's region).
  `SitedSplit` shows that cutting any leaf in two keeps it, for any part that has
  everything below the value, nothing above it, and of the entries of the last
  argument none at it; `LeftPartsArePart` that `LeftParts` are such parts, because an
  entry equal to the stem is tied to the one in the slot of the pivot.

### The mutable tree (`TreeProofs`)

* `StoredEntriesAreAlwaysFound`, `EveryDescentReachesALeaf`, `SizesAlwaysAgree`,
  `NoErrorChangesTheTree`, `TreeImplementsStore`, all from `TreeInv`, which joins

  | Part | Says |
  |---|---|
  | `TreeTypeOK` | what the stems, the map and the leaves are |
  | `TreeHoused` | the leaves are `Sited` at stems (no entry known to be routed), and the map is what leads from those to them |
  | `SizesAgree` | the counts kept are those of the leaves |
  | `CallInv` | a descent is at a stem its point is routed to |
  | `CopyInv` | what a rebuild has collected is what the leaves before `next_leaf` hold |
  | `UnderConstruction` | a rebuild is of the tree with the new entry; it fails only where more than a bucket shares a coordinate |
  | `BuildInv`, `RouteInv`, `NothingLostOrDuplicated` | those of construction, whose steps a rebuild takes |

  A split of a leaf is again `SitedSplit`, with the map extended by one leaf;
  the end of a rebuild turns `RouteInv` into `TreeHoused`. That stored entries are
  found is not inductive by itself: an entry must also lie, level by level, in the
  regions of the stems above its leaf, and two stems must not share a leaf.
* `TreeImplementsStore` is the refinement `Spec => ImplementsPointStore`, step by
  step: `Invoke` is the store's `Invoke`; an append, a split and the install of a
  rebuild are its add; the failure of a rebuild is its refusal, which the store
  permits only for a bucketful of entries on one coordinate (`Crowded`); removals
  and replacements are its own; and a step of a descent, a collection or a
  rebuild changes nothing the store has. The store's `hidden` is the number of
  copies in leaves other than the routed one (`Hidden`). That an append, a split and
  a removal leave it alone is `LeafHidesNothing` and `SplitHidesNothing`: a split puts
  the copies of one entry on one side, the one their route leads to (`SplitMoves`,
  `HousedSplitSettles`). That what a rebuild hides is tied is `InstallHides`, from
  `RouteInv` at its end.

### Queries on a mutable tree (`QueryProofs`)

The first part is about one state of a tree and a stack: what is below a stem, how
far a region is. Regions are closed: an entry `Lies` below a stem if it is on the
right side of every stem above that or equal to it, which is all a construction
keeps to, and a query needs no more, because the far side of a stem that a
coordinate equals is at distance zero. What `NearestAmong` keeps is in `CommonTheorems`. The rest is about
the steps.

* `StackIsAlwaysOnePath` and `TraversalsEndAtLeaves`, for every metric, from

      WalkInv == TreeInv /\ QueryTypeOK /\ Waiting(...) /\ (qpc = "traverse" => Walking(...))

  the frames wait at stems of the tree, each deeper than the one before, with no
  leaf below two of them, and the traversal is at another. `TraversalsEndAtLeaves`
  says that the panic of `resolve_mapped_terminal_stem_idx` is never reached.
* `FramesAreAlwaysLowerBounds`, `QueriesAreExact` and `AnswersAreComplete`, for
  metrics that add up, from

      ExactInv == WalkInv /\ (the frames are Enclosed) /\ Collected /\ NothingPrunedWasNear

  Exactness has two difficulties. The first is that of the offsets only the one
  of a frame's own axis is put back, so that the others may be too large.
  `Framed` and `Ahead` give each frame, and the traversal, a region `ts[n]` with true
  offsets; the offsets the code has are never below those of the region, and a
  frame higher on the stack has a region within that of the ones below it on every
  axis but their own. When the code takes the old side out of the distance it
  takes out too much rather than too little, and the distance stays a lower
  bound (`RegionHalves`, `RegionIsFar`). Under Chebyshev the offsets are combined
  anew and not subtracted; there the argument fails, and so does the code.
  The second is that results are collected leaf by leaf with a bound that
  shrinks. `NearestAmong` is characterised by how many of the distances are up to each
  value (`UpTo`, `NearestByCount`); from that follow that collecting in two turns is
  collecting at once (`NearestOfBoth`) and that what is not nearer than the last of
  a full collection makes no difference (`FartherIsNotMissed`).
  `AnswersAreComplete` is the corollary for the caller: a finished query holds the
  `max_qty` nearest of all entries within the radius.

### Building an immutable tree (`SoftProofs`)

* `NoTaskPanics`, `OpenTasksAreApart`, `StemsInKeyOrder` and `BuiltTreesKeepWithin` follow
  from `SoftInv`, one conjunct for each phase, in which serial and parallel building
  share

      Halfway(open, written, pv, si)

  `open` is the calls begun or still to be made, `written` the stems that have a
  value, `pv` those values, `si` the sort index: the stack and the stems of a serial
  build, the frames and the locks of a parallel one. Of these it says

  | Part | Says |
  |---|---|
  | `Listing` | the sort index lists every position once |
  | `Sound` | of an open call: its entries are on the right side of every stem above it (`Way`), are below its bounds (`BelowBounds`), and its bounds lie between the stems above it (`BetweenAbove`) |
  | `Separate` | open calls are at stems apart, with slices apart |
  | `WrittenOK` | what is above a written stem is written, and its value lies between those (`InOrder`) |
  | `Reached` | a stem that is not written is at or below an open call |

  An entry is on the left of a value (`LeftSide`) if it is below it, or equal to it
  and sharing that coordinate with another entry. `Arranged` and `Nudged` give
  such a side whatever the selection does inside a partition: the entry in the slot
  of the pivot is another one of that coordinate (`DivisionDivides`).

  None of the four properties is inductive. That a finished tree routes says nothing
  before it is finished; that stems are in order needs the bounds of the calls that
  will write the next ones, which in turn are in order because an entry was routed
  there or because the call above had no cut. `SplitKeeps` shows that dividing any
  open call keeps `Halfway`, in whatever order calls are divided, so the threads
  need no further argument for it.
* The frames are another matter: `FramesOK` says that calls lie inside the ones above
  them and apart from all others (`Nested`), that what is above a frame waits for it
  (`MadeByWaiting`), and that a call to be made later is apart from the one running
  (`LeftOK`). From this `OpenTasksAreApart`, and that a lock is set once.
* The budget of a call is two to the number of levels below it (`Call`), so that the
  branches of the code for budgets of one and zero above the leaves are never
  taken, and a call beyond the stems has a budget of one (`NoTaskPanics`).
* `WayLeads` connects `Way` with `LeafIdx`, the descent that a lookup makes, for
  entries that share no coordinate.

### Arithmetic queries (`ArithmeticProofs`)

* `ContinuationsAlwaysMatch` for every metric, tree, query and number of axes, from

      IInv == Heights /\ Stacks /\ NotBegun /\ ContinuationsMatch

  and from it `FarIsThere`: the `expect` at `kd_tree/orchestrator/mod.rs:498` never
  panics. `TopsMatch` is the core: in step, a frame that says it has a far subtree
  is the one the top of the other stack belongs to.
* `RegionsAreKnown`, `QueriesAreExact` and `AnswersAreExact`, for every metric,
  Chebyshev included, from

      ExactInv == IInv /\ Asking /\ Framed /\ Descending /\ Apart /\ Collecting
                       /\ NothingPrunedWasNear

  `Framed`: there are offsets `offs`, one for each region on the path, such that
  each frame puts back those of the region above (`offs[p - 1]` from `offs[p]`, on the
  axis `(p - 1) % K`), and the distance kept with a far subtree is that of the far
  region at its level. `Descending`: the stem of a descent is `Inside` the region of
  `off`, that is, all its leaves' entries are off by at least as much on each axis, and
  `rd` is the distance of that region. `Apart`: no leaf is below two far subtrees, or
  below one and the descent.

  Unlike in a mutable tree the offsets are exact, because every frame is popped and
  puts back its own. But a pop infers its axis by counting down from the axis
  before (`dim = Len(restore) % K`), which is right only if levels alternate; this is
  where `TreesAlternate` is needed, and where finding 4 comes from. That a stem has
  its entries on the side of its cut comes from `IsBuilt`, which follows the paths to
  the leaves (`PathTo`, `PathTurns`) and numbers the leaves below a stem (`Under`,
  `UnderHalves`), for both layouts of stems. `RegionMoves` says that
  `rect_dist_after_update` is the distance of the region after the move. A descent may
  leave a region out because it is beyond the radius, a pop because it is beyond the
  last of a full collection; `LeavingOut` covers both.

### Joins (`JoinProofs`)

* `BoxesStayAround`, from

      JoinOK == InputOK /\ TasksOK /\ WalksOK /\ PhaseOK

  where a task is `Sound` work (its cursors are those of subtrees, its box encloses
  the entries below) and the stack of a walk `Unwinds`: undone frame by frame, the
  interval that is put back gives the box under which the frame was pushed. The box
  is edited in place, so this has to be known for the whole stack at once.
* `NothingNearerIsSkipped` adds `CandidatesOK`: the worst candidate of the left
  entries below a pair of subtrees bounds what is skipped there, and candidates only
  improve.
* `EveryPairIsFoundOnce` adds

      Whole == phase \in {"frontier", "running"} => IsABag(answer) /\ Apart /\ Ledger

  A pair of entries that match is at one place at most: in one task (`Apart`), and
  there below the current pair of subtrees or below one frame of the stack
  (`OncePlaced`). `Ledger`: the pairs found, over the answer and all sinks, are those
  that are at no place any more, each once, and the count is their number. A bulk
  acceptance adds the product of two subtrees, so counts are compared as
  cardinalities (`AreaOfOne` and the like), and sums over walks by bags.
* `JoinImplementsPairJoin`: `Spec => ImplementsPairJoin`. Asking is the promise's
  `Ask`; a delivery is an `Emit` of pairs that match and were not handed over, in any
  number; the end is a `Return` of every match, and of a count that is exact; a
  panic is one only where the matches are more than `MaxCount`, because the count at
  that moment is at most their number; every other step is a stutter.

### Batches (`BatchProofs`)

* `EveryQueryOnceTheorem` and `AnswersAreSingleTheorem`, from

      IInv == Ranged /\ OwnPoints /\ NothingYet /\ EveryQueryOnce /\ AnswersAreSingle

  `Ranged` says that parts are ranges of the batch and that an outcome holds at
  most one answer; `ChunkLenPositive` and `HalvesMeet` keep it when a part is
  halved. `OwnPoints` (the point a thread has set is that of its query) carries
  `AnswersAreSingle` over the step between setting the point and delivering,
  whatever other threads do. `NothingMissingTheorem` also needs `BuilderInv`: no chain
  of calls makes a prototype that cannot be executed. `BatchImplements`: the executor
  implements `QueryBatch`, whose `Configure`, `Deliver` and `Return` are the
  configuring calls, a delivery and the collection; halving, taking a part and
  setting a point are stutters.

### Not proved

Only model-checked, and not for a reason of principle: that the builders of
immutable trees compute one and the same tree (`ImplementsSoftTree`), the arrays of
the leaf split (`LeafSplitProperties`), what a configured query answers
(`AskedIsAnswered`), and that the descent by whole blocks finds the leaf a point is
stored in (`StoredPointsAreNear`). Out of the prover's reach is liveness
(`ConstructionEnds`, `CallsReturn`, `BatchEnds`, `JoinEnds`, `QueryEnds`). With `B`
above 6, under Chebyshev and for blocks split on one axis the theorems about
mutable trees and about exactness are not stated, because they are not true of the
code (findings 1, 2 and 4).

## 5. Where code and words disagree

1. `leaf_split_seven`: "Re-sort to ensure the entire array is sorted"
   (`leaf_strategy/vec_of_arrays.rs:538`) is not what a second quickselect does.
   With seven slots a leaf can be split so that entries are on the wrong side of
   the pivot and cannot be found again.
2. `query_chebyshev`: stale offsets of other axes make the Chebyshev distance of
   a region too large; `nearest_one` returns distance 3 where 2 is stored. For the
   same reason `rd - old_dist1` (`dist/distance_metric_core.rs:194`) can go below
   zero, which unsigned output types cannot hold; for signed and floating types
   and additive metrics it only yields a lower bound.
3. `tree_ties`: `update_pivot` counts on the selection to leave "any items that are
   equal to it" adjacent (`kd_tree/construction/mod.rs:1283`), which
   `select_nth_unstable_by` does not promise. At the last slot the library's
   selection only swaps the first greatest entry there. A tree with buckets of two built
   from three entries with first coordinates 2, 1, 2 gets the stem 2 with one of its
   equals on the left. `remove` of that entry, "Removes a point and associated item
   from the tree." (`:262`), goes right and leaves it there; so does `replace_item`.
   Exact queries find it, because they go both ways at distance zero.
   Immutable trees are cut by the same function, and there it is the descent of
   an approximate query that ends at another leaf than the entry's own.
   `examples/check-select-nth-unstable.rs:56` tests the assumption for one index far
   from the ends of long slices, and does not meet this case.
4. `arithmetic_block_dim`: the pops of an arithmetic query go back one axis at a
   time (`kd_tree/orchestrator/mod.rs:487`), also under the strategies that split a
   whole block on one axis (`stem_strategy/donnelly/unrolled_block_dim.rs:57`,
   `simd_descent.rs:78`). With eight points and the query (1, 0), `nearest_one`
   returns distance 5 where 4 is stored. The tests compare two trees of the same
   strategy (`kd_tree/query/best_n_within.rs:486`) and cannot see it.

Noticed, and not the subject of a run: `approx` rebinds a builder without its box
(`builder.rs:3734`). `periodic_boundary_condition` "Interprets subsequent queries using
periodic boundary conditions." (`builder.rs:3021`), but the list of what "Periodic
queries support" (`builder.rs:1309`) leaves `approx` out, and its return type is a
Cartesian builder. So `AskedIsAnswered` takes either space there, the same for the
whole batch; a caller who expects the box gets distances without it. The debug
assertion "left_capacity is zero - should never happen"
(`kd_tree/construction/mod.rs:1024`) fails for five entries on a 3x2 grid in buckets of
two, where nudged pivots have used up the capacity of a right child; a build without
debug assertions goes on, and what `hard_construction` checks holds. "It always leaves at
least `threads * multiplier` tasks available" (`kd_tree/query/batch.rs:391`) is
not so: nine queries on eight threads with a multiplier of one make parts of at
least two, at most four of them. The results of a batched `best_n_within` are
sorted by item only if items were not left out. `approx_nearest_one` of a point
routed to an empty leaf answers `max_value()` and a default item. `add` does not
keep up `max_leaf_len`. `FlatVec::append_leaf` leaves its `size` at zero;
`FromIterator` ignores its input; a tree whose nudged pivots make it deep may rebuild on each
add; coordinates equal to `max_value()` are not rejected (a TODO in the code;
`PointsAssumption` excludes them).

## 6. Not modelled

Most of the repository's lines have no behaviour of their own to model: the
SIMD kernels and the descents written out for each register width
(`stem_strategy/donnelly/simd_full/`, `dist/distance_metric_avx*.rs`, chunked leaf
views), the same builder methods repeated for each combination of type
parameters, the accessors repeated for archived trees, benchmark hooks, and unit
tests in the files themselves. The modules model one of each. So the map covers a
small share of the lines, and could only be widened by mapping copies.

Not modelled, and why:

* serialization, huge pages, prefetching: layouts and hints without a state that
  a step changes;
* floating-point rounding: distances are integers here, and exact;
* the images of `periodic.rs` and the bytes of `item_summary.rs` with their pruning
  of `best_n_within`: their answers are in `QueryBuilder`, their traversals are not;
* result heaps and sorted vectors: `NearestAmong` says what a collection of `n` holds;
* `WithinUnsortedIter`: the traversal of `MappedQuery` or `ArithmeticQuery`
  suspended after each entry;
* the historical stem strategies, earlier forms of the layouts in `Donnelly`;
* leaf strategies other than `VecOfArrays`, which only append.

What would come next: a refinement of `NearestAmong` by the heap; the periodic search
over its images; a proof of the refinement of `SoftTree`, and of the descents by
whole blocks.
