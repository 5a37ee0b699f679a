----------------------------- MODULE QueryBatch -----------------------------
(***************************************************************************)
(* What a batch of queries promises: one answer for every query, each one  *)
(* that the single query could have returned, whatever the order they are  *)
(* found in.  outcome[i] lists what was delivered for the i-th query.      *)
(***************************************************************************)
EXTENDS Functions

CONSTANT Answers(_) \* what the single query of a builder may return

VARIABLES prototype, queries, phase, outcome

vars == <<prototype, queries, phase, outcome>>

Init ==
    /\ phase = "configuring"
    /\ outcome = [i \in DOMAIN queries |-> <<>>]

Configure ==
    /\ phase = "configuring"
    /\ phase' \in {"configuring", "running"}
    /\ UNCHANGED <<queries, outcome>>

Single(i) == [prototype EXCEPT !.query = queries[i]]

Deliver(i) ==
    /\ phase = "running"
    /\ outcome[i] = <<>>
    /\ \E a \in Answers(Single(i)) : outcome' = [outcome EXCEPT ![i] = <<a>>]
    /\ UNCHANGED <<prototype, queries, phase>>

(* The same results in some order. *)
Reordered(a) ==
    {[k \in DOMAIN a |-> a[p[k]]] : p \in Bijection(DOMAIN a, DOMAIN a)}

(* The groups may be put in another order as they are handed over, but     *)
(* nothing is added, dropped or changed.                                   *)
Return ==
    /\ phase = "running"
    /\ \A i \in DOMAIN queries : outcome[i] # <<>>
    /\ phase' = "done"
    /\ DOMAIN outcome' = DOMAIN queries
    /\ \A i \in DOMAIN queries :
          /\ outcome'[i] = <<outcome'[i][1]>>
          /\ outcome'[i][1] \in Reordered(outcome[i][1])
    /\ UNCHANGED <<prototype, queries>>

Next == Configure \/ (\E i \in DOMAIN queries : Deliver(i)) \/ Return

Spec == Init /\ [][Next]_vars
=============================================================================
