--------------------------- MODULE MCBatchExecutor ---------------------------
(* Instances of BatchExecutor for TLC. *)
EXTENDS BatchProperties

Entry(p, n) == [point |-> p, item |-> n]

(* Two entries at one point, two of one item, on a circle of four. *)
ThreeEntries == <<Entry(1, 2), Entry(3, 1), Entry(1, 1)>>

SomeBatches == {<<>>, <<0>>, <<2, 0, 3>>}

Serial == [kind |-> "serial", threads |-> 1, multiplier |-> None,
           threshold |-> None]
Pool(threads, multiplier, threshold) ==
    [kind |-> "parallel", threads |-> threads, multiplier |-> multiplier,
     threshold |-> threshold]

SomeExecutors == {Serial, Pool(2, None, None), Pool(2, 1, 2)}
=============================================================================
