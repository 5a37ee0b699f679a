----------------------------- MODULE MCTreeJoin -----------------------------
(* Instances of TreeJoin for TLC: trees of module MCTrees, and joins of them. *)
EXTENDS JoinProperties, MCTrees

Lefts  == {Scattered(5, a, 2) : a \in 2 .. 5}
Rights == {Scattered(5, a, 4) : a \in 6 .. 9}

Query(terminal, metric, radius, exclusive, distances) ==
    [terminal |-> terminal, metric |-> metric, radius |-> radius,
     exclusive |-> exclusive, distances |-> distances]

Queries ==
    {Query("execute", "squared_euclidean", 4, FALSE, TRUE),
     Query("execute", "manhattan", 3, FALSE, FALSE),
     Query("for_each", "chebyshev", 2, TRUE, FALSE),
     Query("count", "manhattan", 3, FALSE, FALSE),
     Query("count", "squared_euclidean", 13, TRUE, FALSE),
     Query("count", "chebyshev", Infinity, FALSE, FALSE),
     Query("nearest", "manhattan", 0, FALSE, TRUE)}

SerialQueries ==
    {Query("execute", "squared_euclidean", 1, FALSE, FALSE),
     Query("for_each", "chebyshev", 2, TRUE, TRUE),
     Query("nearest", "squared_euclidean", 0, FALSE, TRUE)}

Serial == [kind |-> "serial", threads |-> 1, multiplier |-> None,
           threshold |-> None]
Pool(threads, multiplier, threshold) ==
    [kind |-> "parallel", threads |-> threads, multiplier |-> multiplier,
     threshold |-> threshold]

(* Small trees on every executor, larger ones by one thread. *)
Asked ==
    [trees : [left : {Empty, Single, Tie, Twins},
              right : {Empty, Column, Spread, Twins}],
     query : Queries,
     executor : {Serial, Pool(2, 1, None), Pool(1, 4, 2)}]
    \cup
    [trees : [left : {Grid}, right : {Grid}] \cup
             [left : Lefts, right : Rights],
     query : SerialQueries,
     executor : {Pool(1, None, 20)}]

(* The trees of those calls, each made once. *)
Forest ==
    [t \in {call.trees[s] : call \in Asked, s \in Sides} |-> Made(t)]

SomeCalls ==
    {[call EXCEPT !.trees = [s \in Sides |-> Forest[@[s]]]] : call \in Asked}

ASSUME NearestAssumption == FiniteNearest
=============================================================================
