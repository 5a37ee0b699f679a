------------------------------ MODULE MCSlices ------------------------------
(* What the standard library does with a short slice of given keys: for    *)
(* each slot, the slot its entry comes from.  The sort is an insertion     *)
(* sort, and so is the selection, except of the last slot, into which the  *)
(* first greatest entry is swapped, and of the first one, likewise.        *)
EXTENDS Integers, Sequences, TLC

InsertionSort(keys) ==
    SortSeq([k \in 1 .. Len(keys) |-> k],
            LAMBDA i, j : \/ keys[i] < keys[j]
                          \/ keys[i] = keys[j] /\ i < j)

Swapped(n, i, j) ==
    [k \in 1 .. n |-> CASE k = i -> j [] k = j -> i [] OTHER -> k]

FirstOf(slots) == CHOOSE i \in slots : \A j \in slots : i <= j

Selection(keys, index) ==
    LET n        == Len(keys)
        greatest == {i \in 1 .. n : \A j \in 1 .. n : keys[j] <= keys[i]}
        least    == {i \in 1 .. n : \A j \in 1 .. n : keys[j] >= keys[i]}
    IN  CASE index = n - 1 -> Swapped(n, FirstOf(greatest), n)
          [] index = 0     -> Swapped(n, FirstOf(least), 1)
          [] OTHER         -> InsertionSort(keys)
=============================================================================
