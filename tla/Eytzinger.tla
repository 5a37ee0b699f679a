------------------------------ MODULE Eytzinger ------------------------------
(***************************************************************************)
(* The Eytzinger stem layout: the root is stem 1 and the children of stem  *)
(* i are stems 2i and 2i+1.  Slot 0 of the stem array is never used, so a  *)
(* vector indexed by stem is a sequence here: its element i is slot i, and *)
(* its length is the vector's length less one.                             *)
(***************************************************************************)
EXTENDS Integers, Sequences

CONSTANT MaxStemSparsity \* MAX_MUTABLE_STEM_SPARSITY_FACTOR, 16 in the code

ASSUME SparsityAssumption == MaxStemSparsity \in Nat \ {0}

RootIdx == 1

LeftChild(i)  == 2 * i
RightChild(i) == 2 * i + 1

Child(i, is_right) == IF is_right THEN RightChild(i) ELSE LeftChild(i)

(* usize::next_power_of_two, and the smallest multiple of m from n up. *)
NextPowerOfTwo(n) ==
    LET powers == {2 ^ e : e \in 0 .. n} IN
    CHOOSE p \in powers : p >= n /\ \A q \in powers : q >= n => p <= q

NextMultipleOf(n, m) == ((n + m - 1) \div m) * m

(* stems_depth: the levels above a full layer of that many leaves. *)
StemsDepth(leaf_node_count) ==
    CHOOSE d \in 0 .. leaf_node_count :
        2 ^ d = NextPowerOfTwo(leaf_node_count)

(* Vec::resize when the vector is too short; a longer one is kept. *)
Grown(s, len, fill) ==
    IF len <= Len(s) THEN s
    ELSE [i \in 1 .. len |-> IF i <= Len(s) THEN s[i] ELSE fill]

(* A split of the terminal stem i rebuilds the tree when the stem array    *)
(* would become too sparse for the number of leaves.  The second disjunct  *)
(* of the code, a right child beyond u32::MAX, is out of any bound here.   *)
SplitRequiresRebuild(i, leaf_count_after_split) ==
    RightChild(i) >=
        2 * NextPowerOfTwo(leaf_count_after_split) * MaxStemSparsity
=============================================================================
