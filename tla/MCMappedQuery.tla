--------------------------- MODULE MCMappedQuery ---------------------------
(* Instances of MappedQuery for TLC. *)
EXTENDS MappedQuery

Pair(x, y) == [d \in 0 .. 1 |-> IF d = 0 THEN x ELSE y]

OneItem == {"item"}

(* Beyond any distance, and more entries than any tree has. *)
Infinity  == 1000
Unlimited == 100

NearestOne(p) ==
    [point |-> p, max_qty |-> 1, radius |-> Infinity, exclusive |-> TRUE]
NearestN(p, n) ==
    [point |-> p, max_qty |-> n, radius |-> Infinity, exclusive |-> FALSE]
Within(p, r, strictly) ==
    [point |-> p, max_qty |-> Unlimited, radius |-> r, exclusive |-> strictly]

(* The points of a tree of six entries, and of a tree of seven: one point  *)
(* is there twice.                                                         *)
SixPoints   == {Pair(4, 3), Pair(4, 0), Pair(1, 1), Pair(3, 2), Pair(2, 5)}
SevenPoints == {Pair(1, 3), Pair(6, 1), Pair(3, 2), Pair(0, 2), Pair(7, 7),
                Pair(6, 3)}

Twice(p) == [e \in Entries |-> IF e.point = p THEN 2 ELSE 1]

SixEntries   == {Twice(Pair(4, 3))}
SevenEntries == {Twice(Pair(6, 3))}

SevenQuery == {NearestOne(Pair(5, 6))}

(* The entry at (4, 0) and a pivot of 4 are both just at the radius.       *)
SomeQueries ==
    {NearestOne(Pair(5, 5)), NearestOne(Pair(0, 4)), NearestN(Pair(2, 2), 3)}
    \cup {Within(Pair(2, 0), 4, strictly) : strictly \in BOOLEAN}
=============================================================================
