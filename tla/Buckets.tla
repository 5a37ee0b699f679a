------------------------------- MODULE Buckets -------------------------------
(***************************************************************************)
(* The entries of a kd-tree and the contents of one bucket (a leaf, or a   *)
(* chunk of the source being laid out).                                    *)
(*                                                                         *)
(* A bucket is a multiset of entries: a function from entries to how often *)
(* each occurs.  The order of the slots of a leaf is left out, so where    *)
(* what a split does depends on it, the split may do whatever some order   *)
(* allows: see SplitValues for the split of a leaf (module LeafSplit       *)
(* models its arrays and says for which bucket sizes the split is one of   *)
(* those described here) and LeftParts for the one of the construction.    *)
(***************************************************************************)
EXTENDS Integers, FiniteSets

CONSTANTS
    K,        \* number of dimensions
    Points,   \* the points callers use: functions from 0 .. K-1 to coordinates
    Items,    \* the items callers use
    MaxValue  \* A::max_value(), the fill of an unwritten stem

(* Coordinates equal to max_value() are outside the contract: the TODO     *)
(* above KdTree::new_from_slice says they are not rejected yet, and        *)
(* traversal cannot tell such a pivot from an unwritten stem.              *)
ASSUME PointsAssumption ==
    /\ K \in Nat \ {0}
    /\ MaxValue \in Int
    /\ Points \subseteq [0 .. K - 1 -> Int]
    /\ \A p \in Points : \A d \in 0 .. K - 1 : p[d] < MaxValue
    /\ IsFiniteSet(Points)
    /\ IsFiniteSet(Items)

Entries == [point : Points, item : Items]
Bucket  == [Entries -> Nat]

EmptyBucket == [e \in Entries |-> 0]

(* The slots a bucket takes, one for each copy of each entry. *)
Slots(b) == UNION {{e} \X (1 .. b[e]) : e \in Entries}

BucketLen(b) == Cardinality(Slots(b))

Occupied(b) == {e \in Entries : b[e] > 0}

Plus(b, c)  == [e \in Entries |-> b[e] + c[e]]

MinusOneMore(b, c) == \* a variation: one slot of the rest is on no side
    LET rest == {e \in Entries : b[e] > c[e]}
        lost == CHOOSE e \in rest : TRUE
    IN  [e \in Entries |-> IF e = lost THEN b[e] - c[e] - 1 ELSE b[e] - c[e]]

Minus(b, c) == [e \in Entries |-> b[e] - c[e]]

(* add_to_leaf: one more copy of e. *)
With(b, e) == [b EXCEPT ![e] = @ + 1]

(* remove_from_leaf: every copy of e goes, not the first one only. *)
Without(b, e) == [b EXCEPT ![e] = 0]

(* replace_item_in_leaf: the first match keeps its slot and gets new. *)
Replaced(b, e, new) ==
    LET f == [e EXCEPT !.item = new] IN
    [g \in Entries |->
        b[g] - (IF g = e THEN 1 ELSE 0) + (IF g = f THEN 1 ELSE 0)]

(* The entries strictly below a value v, those at it, and those not below. *)
Below(b, dim, v)   == [e \in Entries |-> IF e.point[dim] < v THEN b[e] ELSE 0]
Level(b, dim, v)   == [e \in Entries |-> IF e.point[dim] = v THEN b[e] ELSE 0]
AtLeast(b, dim, v) == [e \in Entries |-> IF e.point[dim] >= v THEN b[e] ELSE 0]

(* An entry of b that shares a coordinate with another slot of b. *)
Tied(b, e) ==
    \E dim \in 0 .. K - 1 : BucketLen(Level(b, dim, e.point[dim])) >= 2

Coords(b, dim) == {e.point[dim] : e \in Occupied(b)}

(* The value in slot k (from 0) of the bucket sorted along dim. *)
ValueAtRank(b, dim, k) ==
    CHOOSE v \in Coords(b, dim) :
        /\ BucketLen(Below(b, dim, v)) <= k
        /\ k < BucketLen(Below(b, dim, v + 1))

(* A bucket whose entries share one coordinate cannot be split along it. *)
Splittable(b, dim) ==
    \E e, f \in Occupied(b) : e.point[dim] # f.point[dim]

(* The pivot values of a bucket whose ideal pivot is slot k: the value     *)
(* there, the pivot moving left to the start of its run of equal values;   *)
(* where that run starts the bucket, a larger value.  Which one depends on *)
(* how far the bucket is sorted.                                           *)
SplitValues(b, dim, k) ==
    LET v == ValueAtRank(b, dim, k) IN
    IF \E w \in Coords(b, dim) : w < v
    THEN {v}
    ELSE {w \in Coords(b, dim) : w > v}

(* The first of them, where it is sorted all the way. *)
SplitValue(b, dim, k) ==
    LET values == SplitValues(b, dim, k) IN
    CHOOSE v \in values : \A w \in values : v <= w

(* What update_pivot of the construction may leave on the left of its      *)
(* pivot, of value v.  It looks for entries equal to the one in slot k     *)
(* only as far as they are next to it, and select_nth_unstable_by promises *)
(* a partition: any number of the others may be anywhere in the k slots    *)
(* before it.  Only where the run starts the bucket is all of it sorted    *)
(* first.  (The library leaves such entries where k is the last slot: it   *)
(* then swaps the first greatest entry there and does nothing else.)       *)
LeftPart(b, dim, v, n) ==
    [e \in Entries |-> IF e \in DOMAIN n THEN n[e] ELSE Below(b, dim, v)[e]]

LeftParts(b, dim, v, k) ==
    LET tied  == {e \in Occupied(b) : e.point[dim] = v}
        below == BucketLen(Below(b, dim, v))
    IN  {Below(b, dim, v)} \cup
        {c \in {LeftPart(b, dim, v, n) : n \in [tied -> 0 .. k - below]} :
            /\ \A e \in tied : c[e] <= b[e]
            /\ BucketLen(c) <= k}
=============================================================================
