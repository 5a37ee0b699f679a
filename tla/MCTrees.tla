------------------------------ MODULE MCTrees ------------------------------
(* Immutable trees for TLC, as module SoftTree has them built. *)
EXTENDS Metrics, Donnelly, MCSlices

CONSTANT B \* the bucket size

Built(points, axes, bucket) ==
    INSTANCE SoftTree WITH
        K <- axes, B <- bucket, MaxValue <- Infinity, Sources <- {}, Refusals <- {},
        SelectNth <- Selection, SortUnstable <- InsertionSort,
        MaxStemSparsity <- 16, refused <- {}, outcome <- <<>>, source <- points

(* The same tree with its stems in blocks of bh levels. *)
LaidOut(t, bh) ==
    LET cursor[i \in DOMAIN t.stems] ==
            IF i = 1 THEN RootOf(bh) ELSE Branch(bh, cursor[i \div 2], i % 2)
        slots == {cursor[i].stem : i \in DOMAIN t.stems}
        at    == [s \in slots |-> CHOOSE i \in DOMAIN t.stems : cursor[i].stem = s]
    IN  [t EXCEPT
           !.block_height = bh,
           !.stems = [s \in 0 .. StemCount(bh, t.depth) - 1 |->
                         IF s \in slots THEN t.stems[at[s]] ELSE Infinity]]

(* A tree that splits on the axes in turn, each for dim_levels levels: as  *)
(* one of that many copies of each axis, with an axis for each level.      *)
AxisBlocks(points, dim_levels, bucket) ==
    LET axes   == K * dim_levels
        copied == [n \in DOMAIN points |->
                      [d \in 0 .. axes - 1 |-> points[n][d \div dim_levels]]]
        built  == Built(copied, axes, bucket)!Tree
    IN  [points |-> points, stems |-> built.stems,
         depth |-> Built(copied, axes, bucket)!Depth,
         leaves |-> built.leaves,
         max_stem_level |-> built.max_stem_level,
         max_leaf_len |-> built.max_leaf_len,
         dim_levels |-> dim_levels,
         block_height |-> 0]

(* With n levels of padding above the root, as for a stem strategy of      *)
(* blocks: the root is the leftmost stem below them.                       *)
Padded(tree, n) ==
    LET below(i) == CHOOSE l \in 0 .. tree.depth + n : 2 ^ l <= i /\ i < 2 ^ (l + 1)
        inner(i) == i - 2 ^ below(i) + 2 ^ (below(i) - n)
    IN  [tree EXCEPT
           !.depth = @ + n,
           !.max_stem_level = @ + n,
           !.stems = [i \in 1 .. 2 ^ (tree.depth + n) - 1 |->
                         IF below(i) >= n /\ i - 2 ^ below(i) < 2 ^ (below(i) - n)
                         THEN tree.stems[inner(i)] ELSE Infinity]]

(* A tree by how it is made: of which points, of how many levels for an    *)
(* axis, leaves of what size, with how much padding, and in which layout.  *)
Tree(points) ==
    [points |-> points, dim_levels |-> 1, bucket |-> B, padding |-> 0,
     block_height |-> 0]

Made(t) ==
    LET tree == Padded(AxisBlocks(t.points, t.dim_levels, t.bucket), t.padding)
    IN  IF t.block_height = 0 THEN tree ELSE LaidOut(tree, t.block_height)

InBlocks(t, bh) == [t EXCEPT !.block_height = bh]

(* The strategies that split a whole block on one axis. *)
BlockDim(points, bh) == [InBlocks(Tree(points), bh) EXCEPT !.dim_levels = bh]

-----------------------------------------------------------------------------
P(x, y) == [d \in 0 .. 1 |-> IF d = 0 THEN x ELSE y]

Empty   == Tree(<<>>)
Single  == Tree(<<P(1, 1)>>)
Spread  == Tree(<<P(0, 0), P(2, 0), P(0, 3), P(3, 3)>>)
Column  == [Tree(<<P(1, 0), P(1, 2), P(1, 3)>>) EXCEPT !.padding = 2]
Twins   == Tree(<<P(2, 2), P(2, 2), P(2, 2), P(0, 1)>>)
Tie     == Tree(<<P(2, 0), P(1, 3), P(2, 1)>>) \* with a 2 left of stem 2
Grid    == Tree([n \in 1 .. 16 |-> P(n % 4, (n - 1) \div 4)])

(* n points all over the plane. *)
Scattered(n, a, b) == Tree([k \in 1 .. n |-> P((a * k) % 11, (b * k) % 7)])

(* A leaf for each point. *)
Leafy(n, a, b) == [Scattered(n, a, b) EXCEPT !.bucket = 1]
=============================================================================
