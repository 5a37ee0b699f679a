---------------------------- MODULE BatchExecutor ----------------------------
(***************************************************************************)
(* A batch of queries: the caller configures a builder as for a single     *)
(* query, and execute or for_each runs a copy of it for every query point, *)
(* in the calling thread or on the threads of a rayon pool.                *)
(*                                                                         *)
(* Rayon is modelled from what the code asks of it: a range of indices may *)
(* be halved while its halves have the minimal length, and a range that is *)
(* begun is worked off in order by one thread.  When it is halved and in   *)
(* which order the parts are begun is the scheduler's choice.              *)
(***************************************************************************)
EXTENDS QueryBuilder

CONSTANTS
    Batches,   \* the lists of query points a caller may pass
    Executors, \* records of kind, threads, multiplier and threshold
    MaxStaticChunkQueries

(* A pool has a thread, and a multiplier is a NonZeroUsize. *)
ASSUME BatchAssumption ==
    /\ Batches \subseteq Seq(Nat)
    /\ Executors \subseteq [kind : {"serial", "parallel"}, threads : Nat \ {0},
                           multiplier : {None} \cup (Nat \ {0}),
                           threshold : {None} \cup Nat]
    /\ MaxStaticChunkQueries \in Nat \ {0}

VARIABLES
    prototype, \* BatchQueryBuilder::prototype
    queries, executor,
    said,      \* the calls made on the builder, the last of two opposites
    phase,     \* "configuring", "running", "done"
    in_place,  \* for_each, whose answers go to the visitor as they are
    waiting,   \* ranges not begun: [first, end]
    running,   \* ranges begun: [at, end, point], None before set_query_point
    outcome    \* for each query, what was delivered for it

client_vars == <<prototype, queries, said>>
vars == <<client_vars, executor, phase, in_place, waiting, running, outcome>>

Size == Len(queries)

Init ==
    /\ queries \in Batches
    /\ prototype = Root(IF queries = <<>> THEN None ELSE queries[1])
    /\ executor \in Executors
    /\ said = {}
    /\ phase = "configuring"
    /\ in_place = FALSE
    /\ waiting = {}
    /\ running = {}
    /\ outcome = [i \in 1 .. Size |-> <<>>]

-----------------------------------------------------------------------------
(* What was said before, but for what the call takes back. *)
Retracted(call) ==
    {c \in said : c.op \in {"with", "without"} /\ call.op \in {"with", "without"}
                  /\ c.field = call.field}

(* A method of the batch builder maps the prototype by the method of the   *)
(* same name.                                                              *)
Configure(call) ==
    /\ phase = "configuring"
    /\ Offers(prototype, call)
    /\ prototype' = Apply(prototype, call)
    /\ said' = (said \ Retracted(call)) \cup {call}
    /\ UNCHANGED <<queries, executor, phase, in_place, waiting, running,
                   outcome>>

-----------------------------------------------------------------------------
IsParallel ==
    /\ executor.kind = "parallel"
    /\ executor.threshold = None \/ Size >= executor.threshold

StaticChunkLen ==
    LET chunks == executor.threads * executor.multiplier
        share  == (Size + chunks - 1) \div chunks
    IN  IF executor.multiplier = None \/ share < 1 THEN 1
        ELSE IF share > MaxStaticChunkQueries THEN MaxStaticChunkQueries
        ELSE share

Threads == IF IsParallel THEN executor.threads ELSE 1

Whole == [first |-> 1, end |-> Size]

(* execute and for_each.  An empty batch has no prototype to copy. *)
Execute(visiting) ==
    /\ phase = "configuring"
    /\ prototype.family # "root"
    /\ in_place' = visiting
    /\ phase' = "running"
    /\ waiting' = IF queries = <<>> THEN {} ELSE {Whole}
    /\ UNCHANGED <<client_vars, executor, running, outcome>>

Length(t) == t.end - t.first + 1

HalvesOverlapping(t) == \* a variation: the middle in both
    LET mid == t.first + Length(t) \div 2
    IN  {[first |-> t.first, end |-> mid], [first |-> mid, end |-> t.end]}

Halves(t) ==
    LET mid == t.first + Length(t) \div 2
    IN  {[first |-> t.first, end |-> mid - 1], [first |-> mid, end |-> t.end]}

Split(t) ==
    /\ IsParallel
    /\ Length(t) \div 2 >= StaticChunkLen
    /\ waiting' = (waiting \ {t}) \cup Halves(t)
    /\ UNCHANGED <<client_vars, executor, phase, in_place, running, outcome>>

Begin(t) ==
    /\ Cardinality(running) < Threads
    /\ waiting' = waiting \ {t}
    /\ running' = running \cup
                     {[at |-> t.first, end |-> t.end, point |-> None]}
    /\ UNCHANGED <<client_vars, executor, phase, in_place, outcome>>

-----------------------------------------------------------------------------
(* run: a copy of the prototype is given the point, ... *)
SetQueryPoint(r) ==
    /\ r.point = None
    /\ running' = (running \ {r}) \cup {[r EXCEPT !.point = queries[r.at]]}
    /\ UNCHANGED <<client_vars, executor, phase, in_place, waiting, outcome>>

PointedAt(point) == [prototype EXCEPT !.query = point]

BuilderShared(r) == \* a variation: the point the last thread has set
    PointedAt((CHOOSE x \in running : x.point # None
                  /\ \A y \in running : y.point # None => y.at <= x.at).point)

Builder(r) == PointedAt(r.point)

Step(r) ==
    IF r.at = r.end THEN {}
    ELSE {[at |-> r.at + 1, end |-> r.end, point |-> None]}

DeliverAgain(r) == \* a variation: an answer does not end the query
    /\ r.point # None
    /\ \E a \in Answers(Builder(r)) :
          outcome' = [outcome EXCEPT ![r.at] = <<a>>]
    /\ UNCHANGED <<client_vars, executor, phase, in_place, waiting, running>>

(* ... and executed; the answer goes to the slot, or to the visitor with   *)
(* the index, of the query.                                                *)
Deliver(r) ==
    /\ r.point # None
    /\ \E a \in Answers(Builder(r)) :
          outcome' = [outcome EXCEPT ![r.at] = Append(@, a)]
    /\ running' = (running \ {r}) \cup Step(r)
    /\ UNCHANGED <<client_vars, executor, phase, in_place, waiting>>

(* The order of BestQueryResultItem on what the results keep. *)
Better(x, y) ==
    x.item < y.item \/ (x.item = y.item /\ x.distance < y.distance)

(* into_sorted_vec: the heap in order, equal ones in anybody's order. *)
Collected(a) ==
    {b \in Reordered(a) :
        \A k, l \in DOMAIN b : k < l => ~Better(b[l], b[k])}

(* collect_batch: the heaps of best_n_within become sorted vectors. *)
Collect ==
    /\ waiting = {}
    /\ running = {}
    /\ phase' = "done"
    /\ \/ /\ in_place \/ prototype.family # "best_n_within"
          /\ UNCHANGED outcome
       \/ /\ ~in_place /\ prototype.family = "best_n_within"
          /\ \E sorted \in [1 .. Size -> UNION {Collected(outcome[i][1]) :
                                                i \in 1 .. Size}] :
                /\ \A i \in 1 .. Size : sorted[i] \in Collected(outcome[i][1])
                /\ outcome' = [i \in 1 .. Size |-> <<sorted[i]>>]
    /\ UNCHANGED <<client_vars, executor, in_place, waiting, running>>

-----------------------------------------------------------------------------
Call == (\E call \in Calls : Configure(call)) \/ \E v \in BOOLEAN : Execute(v)

Work ==
    /\ phase = "running"
    /\ \/ \E t \in waiting : Split(t) \/ Begin(t)
       \/ \E r \in running : SetQueryPoint(r) \/ Deliver(r)
       \/ Collect

Next == Call \/ Work

(* The pool has a thread, and a thread that has work does it. *)
Spec == Init /\ [][Next]_vars /\ WF_vars(Work)
=============================================================================
