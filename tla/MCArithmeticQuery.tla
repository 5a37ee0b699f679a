------------------------- MODULE MCArithmeticQuery -------------------------
(* Instances of ArithmeticQuery for TLC. *)
EXTENDS ArithmeticProperties, MCTrees

CONSTANT Alternating \* whether the splits go from axis to axis

ASSUME AlternatingAssumption == Alternating <=> TreesAlternate

Query(p, max_qty, radius, exclusive) ==
    [point |-> p, max_qty |-> max_qty, radius |-> radius,
     exclusive |-> exclusive, approx |-> FALSE]

Approx(p) == [Query(p, 1, Infinity, TRUE) EXCEPT !.approx = TRUE]

(* More entries than any tree has. *)
Unlimited == 100

Points == {P(x, y) : x \in {-1, 2, 5, 10}, y \in {0, 3, 6}}

SomeQueries ==
    {Query(p, 1, Infinity, TRUE) : p \in Points} \cup
    {Query(p, 3, Infinity, FALSE) : p \in Points} \cup
    {Query(p, 2, 9, FALSE) : p \in Points} \cup
    {Query(p, Unlimited, 4, exclusive) : p \in Points, exclusive \in BOOLEAN} \cup
    {Approx(P(x, y)) : x \in 0 .. 10, y \in 0 .. 6}

(* Trees with a last block that is not complete, of a strategy that pads   *)
(* its root to whole blocks and of those that do not.                      *)
BlockLayouts ==
    {InBlocks(Leafy(11, 3, 2), 3), InBlocks(Leafy(18, 5, 3), 4),
     InBlocks([Scattered(13, 2, 3) EXCEPT !.padding = 2], 5),
     InBlocks([Twins EXCEPT !.padding = 2], 3)}

SomeTrees ==
    {Made(t) : t \in
        {Empty, Single, Spread, Column, Twins, Tie, Grid} \cup
        {Scattered(8, a, b) : a \in 2 .. 5, b \in 2 .. 4} \cup
        {Scattered(13, a, 3) : a \in 2 .. 5} \cup
        BlockLayouts}

-----------------------------------------------------------------------------
(* Trees of a strategy that splits a whole block on one axis: eight points *)
(* in one block of three levels, all cut on the first axis.                *)
OneBlock(y2, y3) ==
    BlockDim(<<P(0, 9), P(1, 9), P(2, y2), P(3, y3), P(4, 9), P(5, 9),
               P(6, 9), P(7, 9)>>, 3)

BlockTrees   == {Made(OneBlock(y2, y3)) : y2 \in 0 .. 2, y3 \in 0 .. 2}
BlockQueries == {Query(P(x, 0), 1, Infinity, TRUE) : x \in 0 .. 2}
=============================================================================
