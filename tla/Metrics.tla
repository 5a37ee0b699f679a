------------------------------- MODULE Metrics -------------------------------
(***************************************************************************)
(* The sealed distance metrics over K axes, as the queries of immutable    *)
(* trees use them: the share of one axis, the distance of all of them, and *)
(* the distance of a region one of whose sides has moved.                  *)
(***************************************************************************)
EXTENDS Integers

CONSTANTS
    K,        \* number of dimensions
    Infinity  \* O::INFINITY, the max_value() of the float axes, usize::MAX

ASSUME MetricAssumption == K \in Nat \ {0} /\ Infinity \in Nat

Dims == 0 .. K - 1

Lesser(m, n)  == IF m <= n THEN m ELSE n
Greater(m, n) == IF m >= n THEN m ELSE n

AbsDiff(a, b) == IF a < b THEN b - a ELSE a - b

(* DistanceMetricScalar of the sealed metrics. *)
Dist1(metric, a, b) ==
    IF metric = "squared_euclidean" THEN AbsDiff(a, b) * AbsDiff(a, b)
    ELSE AbsDiff(a, b)

Combine(metric, acc, c) ==
    IF metric = "chebyshev" THEN Greater(acc, c) ELSE acc + c

(* Of one component per dimension, the distance. *)
Combined(metric, component) ==
    LET upto[d \in 0 .. K] ==
            IF d = 0 THEN 0 ELSE Combine(metric, upto[d - 1], component[d - 1])
    IN  upto[K]

PointDist(metric, p, q) ==
    Combined(metric, [d \in Dims |-> Dist1(metric, p[d], q[d])])

(* rect_dist_from_off: of a region that is off by so much on each axis. *)
RegionDist(metric, off) ==
    Combined(metric, [d \in Dims |-> Dist1(metric, off[d], 0)])

RectDistAddedUp(metric, rd, off, dim, new_off) == \* a variation: the old side stays in
    rd + Dist1(metric, new_off, 0)

(* The same after one axis moved to new_off: additive metrics take out the *)
(* old share, Chebyshev takes the greatest of them all.                    *)
RectDistAfterUpdate(metric, rd, off, dim, new_off) ==
    IF metric = "chebyshev" THEN RegionDist(metric, [off EXCEPT ![dim] = new_off])
    ELSE (rd - Dist1(metric, off[dim], 0)) + Dist1(metric, new_off, 0)
=============================================================================
