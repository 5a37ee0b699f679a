--------------------------- MODULE SoftProperties ---------------------------
(* What building an immutable tree must get right, on any threads. *)
EXTENDS SoftConstruction

StemsUsed == 1 .. 2 ^ (max_stem_level + 1) - 1

(* A task never panics, in whatever order the tasks run: its stem has a    *)
(* OnceLock that no other task has set (the assertion in                   *)
(* partition_recursive_soft_parallel), and where its stems end its leaves  *)
(* are a single one (the debug assertion there).                           *)
TasksNeverPanic ==
    \A i \in DOMAIN frames :
        LET c == frames[i].call IN
        frames[i].pc = "called" =>
            IF IsLeafCall(c) THEN c.budget = 1
            ELSE c.stem \in DOMAIN stems \ DOMAIN locks

(* Tasks that may run at the same time own disjoint parts of the sort      *)
(* index and of the leaves, inside those of the call that made them.       *)
Parts(c) == (c.offset + 1) .. (c.offset + c.len)
Owned(c) == c.leaf .. (c.leaf + c.budget - 1)

OpenTasks == {i \in DOMAIN frames : frames[i].pc = "called"}

TasksAreApart ==
    \A i \in OpenTasks : \A j \in DOMAIN frames \ {i} :
        LET c == frames[i].call
            d == frames[j].call
            above == \E l \in 1 .. c.level : c.stem \div 2 ^ l = d.stem
        IN  IF above
            THEN Parts(c) \subseteq Parts(d) /\ Owned(c) \subseteq Owned(d)
            ELSE Parts(c) \cap Parts(d) = {} /\ Owned(c) \cap Owned(d) = {}

(* "keeps the pivots non-decreasing in key order" (populate_recursive_     *)
(* soft): along one axis, a stem lies between the stems that bound it from *)
(* the left and from the right, those of nodes that were not cut included. *)
(* The SIMD descent counts the pivots of a block that are not above the    *)
(* query, and needs this.                                                  *)
PivotsInKeyOrder ==
    phase = "built" =>
        \A i, a \in StemsUsed : \A l, m \in 0 .. max_stem_level :
            /\ 2 ^ l <= i /\ i < 2 ^ (l + 1)
            /\ 2 ^ m <= a /\ a < 2 ^ (m + 1)
            /\ m < l /\ l % K = m % K
            => /\ i \div 2 ^ (l - m - 1) = LeftChild(a)  => stems[i] <= stems[a]
               /\ i \div 2 ^ (l - m - 1) = RightChild(a) => stems[i] >= stems[a]

(* Every entry of a finished tree is on the right side of every stem above *)
(* its leaf, equality allowed on both, so that a query that goes both ways *)
(* at a stem equal to the coordinate finds it; and the descent that goes   *)
(* one way ends at its leaf, unless the entry shares a coordinate with     *)
(* another (update_pivot may put such an entry left of its equal).         *)
Within(p, node) ==
    \A l \in 0 .. actual_max_stem_level :
        LET below == node \div 2 ^ (actual_max_stem_level - l)
            stem  == stems[below \div 2]
        IN  IF below = LeftChild(below \div 2) THEN p[l % K] <= stem
            ELSE p[l % K] >= stem

SharesCoordinate(i) ==
    \E j \in DOMAIN source \ {i} : \E d \in 0 .. K - 1 :
        Coord(j, d) = Coord(i, d)

EntriesAreWithinTheirStems ==
    phase = "built" =>
        \A k \in DOMAIN leaves : \A j \in DOMAIN leaves[k] :
            LET i == leaves[k][j] IN
            /\ Within(source[i], 2 ^ (actual_max_stem_level + 1) + k - 1)
            /\ LeafIdx(source[i]) = k - 1 \/ SharesCoordinate(i)

(* However it is computed, and in whatever order the tasks run, the tree   *)
(* is the one SoftTree defines: the parallel tree is the serial one (the   *)
(* test parallel_soft_construction_matches_sequential_construction), an    *)
(* item that cannot be made yields an error and no tree, and which one is  *)
(* reported does not depend on the threads.                                *)
BuiltTree ==
    [stems          |-> SubSeq(stems, 1, Cardinality(StemsUsed)),
     leaves         |-> leaves,
     max_stem_level |-> actual_max_stem_level,
     max_leaf_len   |-> max_leaf_len]

Soft == INSTANCE SoftTree WITH
    outcome <- CASE phase = "built"   -> <<BuiltTree>>
                 [] phase = "refused" -> <<[item |-> error]>>
                 [] OTHER             -> <<>>

ImplementsSoftTree == Soft!Spec

(* Every construction ends: each split hands on fewer levels, and every    *)
(* join waits for calls that end.                                          *)
ConstructionEnds == phase # "idle" ~> phase \in {"built", "refused"}
=============================================================================
