----------------------------- MODULE Collections -----------------------------
(***************************************************************************)
(* What a result collection of the exact queries holds: the n smallest of  *)
(* the distances it was given.  A heap or a sorted vector of the code is   *)
(* the ascending sequence of its distances; an entry found is a record     *)
(* with a dist, and others with what tells it from the rest.               *)
(***************************************************************************)
EXTENDS Integers, Sequences, FiniteSets, Functions

Capped(n, bound) == IF n <= bound THEN n ELSE bound

(* How many are not beyond x, of the distances got and the entries found. *)
UpTo(got, found, x) ==
    Cardinality({i \in DOMAIN got : got[i] <= x})
        + Cardinality({e \in found : e.dist <= x})

(* What a collection of at most n entries holds, ascending, once those     *)
(* found were added to what it had got: the n smallest distances.  The     *)
(* i-th is the least that i of them do not exceed.                         *)
NearestAmong(n, got, found) ==
    LET dists == Range(got) \cup {e.dist : e \in found}
        upto  == [x \in dists |-> UpTo(got, found, x)]
    IN
    [i \in 1 .. Capped(n, Len(got) + Cardinality(found)) |->
        CHOOSE x \in dists :
            /\ upto[x] >= i
            /\ \A y \in dists : upto[y] >= i => x <= y]
=============================================================================
