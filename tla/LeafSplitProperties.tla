------------------------- MODULE LeafSplitProperties -------------------------
(* What splitting a full leaf must get right. *)
EXTENDS LeafSplit

(* The leaf as a bucket of module Buckets: one dimension, one item. *)
Bkt == INSTANCE Buckets WITH
    K        <- 1,
    Points   <- [{0} -> Coordinates],
    Items    <- {"item"},
    MaxValue <- 1 + CHOOSE m \in Coordinates : \A c \in Coordinates : c <= m

AsBucket ==
    [e \in Bkt!Entries |->
        Cardinality({i \in DOMAIN leaf : leaf[i] = e.point[0]})]

(* The selections only permute: each entry of the leaf is in one slot, so  *)
(* that applying the mirror once moves every other coordinate and the item *)
(* along with it.  The cyclic exchanges of the partition copy elements one *)
(* over the other and would lose one where two offsets do not match.       *)
MirrorIsAPermutation ==
    /\ {slots[i].from : i \in DOMAIN slots} = DOMAIN leaf
    /\ \A i \in DOMAIN slots : leaf[slots[i].from] = slots[i].coord

(* "Ensure that if pivot index would result in items that share the same   *)
(* co-ordinate on the splitting dimension would end up on different sides  *)
(* of the split, that we move the pivot to prevent this": what stays is    *)
(* below the split value and what moves is not, so that the descent finds  *)
(* both; and both sides get something.                                     *)
SplitIsOrdered ==
    pc = "split" =>
        /\ pivot_idx \in 1 .. B - 1
        /\ \A i \in 0 .. pivot_idx - 1 : Coord(i) < split_val
        /\ \A i \in pivot_idx .. B - 1 : Coord(i) >= split_val

(* The split is one the model of the tree makes of the same bucket, and an *)
(* error is returned for the buckets it cannot split.                      *)
SplitsAsABucket ==
    /\ pc = "split" => /\ Bkt!Splittable(AsBucket, 0)
                       /\ split_val \in Bkt!SplitValues(AsBucket, 0, B \div 2)
    /\ pc = "unsplittable" => ~Bkt!Splittable(AsBucket, 0)

(* A selection ends: each round of its loop narrows the slice, the last    *)
(* one aside, and it keeps the index in it.                                *)
RoundsNarrow ==
    [][Selecting /\ pc' = pc => /\ lo' >= lo /\ hi' <= hi
                               /\ hi' - lo' < hi - lo
                               /\ lo' + index' = lo + index]_vars
=============================================================================
