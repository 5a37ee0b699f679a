--------------------------- MODULE MCMutableKdTree ---------------------------
(* Instances of MutableKdTree for TLC. *)
EXTENDS TreeProperties

CONSTANT MaxLen \* the longest source a tree is built from

(* Three points that differ along the first axis and of which two share a  *)
(* coordinate along the second.                                            *)
Pair(x, y) == [d \in 0 .. 1 |-> IF d = 0 THEN x ELSE y]
ThreePoints == {Pair(0, 0), Pair(1, 1), Pair(2, 0)}
TwoItems == {"item", "other"}

(* The bags of at most MaxLen entries, grown one entry at a time. *)
MCSources ==
    LET bags[n \in 0 .. MaxLen] ==
            IF n = 0 THEN {EmptyBucket}
            ELSE bags[n - 1] \cup
                 {With(b, e) : b \in bags[n - 1], e \in Entries}
    IN  bags[MaxLen]
=============================================================================
