------------------------- MODULE MCHardConstruction -------------------------
(* Instances of HardConstruction for TLC: every source of at most MaxLen   *)
(* entries over a small grid.                                              *)
EXTENDS ConstructionProperties

CONSTANT MaxLen \* the longest source

(* A grid of three by two points, and one item. *)
Grid3x2 == {p \in [0 .. 1 -> 0 .. 2] : p[1] < 2}
OneItem == {"item"}

(* The bags of at most MaxLen entries, grown one entry at a time. *)
MCSources ==
    LET bags[n \in 0 .. MaxLen] ==
            IF n = 0 THEN {EmptyBucket}
            ELSE bags[n - 1] \cup
                 {With(b, e) : b \in bags[n - 1], e \in Entries}
    IN  bags[MaxLen]
=============================================================================
