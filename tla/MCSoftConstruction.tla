------------------------- MODULE MCSoftConstruction -------------------------
(* Instances of SoftConstruction for TLC: every slice of a few points of a *)
(* small grid.                                                             *)
EXTENDS SoftProperties, MCSlices

CONSTANTS
    MaxLen,  \* the longest source
    AnyOrder \* up to this length in every order, from then on in one each

Pair(x, y) == [d \in 0 .. 1 |-> IF d = 0 THEN x ELSE y]

(* Points are numbered, and one order lists them by falling number. *)
GridPoint(n) == Pair(n % 3, n \div 3)

MCSources ==
    {[i \in DOMAIN s |-> GridPoint(s[i])] :
        s \in {s \in UNION {[1 .. n -> 0 .. 3] : n \in 0 .. MaxLen} :
                  \/ Len(s) <= AnyOrder
                  \/ \A i \in 1 .. Len(s) - 1 : s[i] >= s[i + 1]}}

NoneOrTwoRefused == {{}, {2, 3}}
=============================================================================
