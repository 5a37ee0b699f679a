--------------------------- MODULE BatchProperties ---------------------------
(* What a batch of queries must get right. *)
EXTENDS BatchExecutor

WaitingApart ==
    \A t, u \in waiting : t = u \/ t.end < u.first \/ u.end < t.first

RunningApart ==
    \A r, s \in running : r = s \/ r.end < s.at \/ s.end < r.at

WaitingApartFromRunning ==
    \A t \in waiting, r \in running : t.end < r.at \/ r.end < t.first

ToBeRun(i) ==
    \/ \E t \in waiting : t.first <= i /\ i <= t.end
    \/ \E r \in running : r.at <= i /\ i <= r.end

AnsweredOnce ==
    phase # "configuring" =>
        \A i \in 1 .. Size :
            IF ToBeRun(i) THEN outcome[i] = <<>> ELSE Len(outcome[i]) = 1

(* Every query is in exactly one place: answered, or in one range that is  *)
(* waiting, or in the part not worked off of one that is running.  None is *)
(* left out and none is run twice, however the range was halved.           *)
EveryQueryOnce ==
    /\ WaitingApart
    /\ RunningApart
    /\ WaitingApartFromRunning
    /\ AnsweredOnce

(* An answer is one the query would have had alone: the builder it came    *)
(* from had the point of that query and of no other, whatever the other    *)
(* threads were doing between the copy and the search.                     *)
AnswersAreSingle ==
    phase = "running" =>
        \A i \in 1 .. Size :
            outcome[i] # <<>> =>
                outcome[i][1] \in Answers(PointedAt(queries[i]))

-----------------------------------------------------------------------------
(* The query as its documentation describes it, from the calls made alone. *)
Said(op) == \E c \in said : c.op = op
Call1(op) == CHOOSE c \in said : c.op = op

Keeps(field) ==
    IF field = "point" THEN [op |-> "with", field |-> "point"] \in said
    ELSE [op |-> "without", field |-> field] \notin said

(* The periods in which distances may be meant, 0 for none.  Of an         *)
(* approximate query made from a periodic one the documentation leaves it  *)
(* open: "Interprets subsequent queries using periodic boundary            *)
(* conditions" (builder.rs:3021) includes it, the list of what "Periodic   *)
(* queries support" (builder.rs:1309) does not.                            *)
Periods ==
    LET boxes == {c.box : c \in {d \in said :
                                  d.op = "periodic_boundary_condition"}}
    IN  IF boxes = {} \/ Said("approx") THEN boxes \cup {0} ELSE boxes

Apart(i, q, period) ==
    LET p == Entries[i].point
        d == IF p < q THEN q - p ELSE p - q
    IN  IF 0 < period /\ period < 2 * d THEN period - d ELSE d

Inside(i, q, period) ==
    \A c \in said : c.op \in {"within", "best_n_within"} =>
        \/ Apart(i, q, period) < c.radius
        \/ Apart(i, q, period) = c.radius /\ ~Said("exclusive_boundaries")

Before(i, j, q, period) ==
    LET nearer == Apart(i, q, period) < Apart(j, q, period) IN
    IF Said("best_n_within")
    THEN \/ Entries[i].item < Entries[j].item
         \/ Entries[i].item = Entries[j].item /\ nearer
    ELSE nearer

AtMost ==
    CASE Said("nearest_n")     -> Call1("nearest_n").n
      [] Said("best_n_within") -> Call1("best_n_within").n
      [] Said("nearest_one")   -> 1
      [] OTHER                 -> Len(Entries)

(* The entries an answer to the query q lists. *)
AskedFor(s, q, period) ==
    LET S == {i \in DOMAIN Entries : Inside(i, q, period)}
        T == Range(s)
    IN  /\ IsInjective(s)
        /\ Said("approx") => Len(s) = 1
        /\ ~Said("approx") \/ Keeps("point") =>
              /\ T \subseteq S
              /\ Cardinality(T) =
                    IF Cardinality(S) < AtMost THEN Cardinality(S) ELSE AtMost
              /\ \A i \in T, j \in S \ T : ~Before(j, i, q, period)
        /\ ~Said("unsorted") /\ ~Said("best_n_within") =>
              \A k, l \in DOMAIN s : k < l => ~Before(s[l], s[k], q, period)

(* What the answer keeps of the entry i; 0 is the entry of an empty leaf. *)
Kept(i, q, period) ==
    [item |-> IF ~Keeps("item") THEN None
              ELSE IF i = 0 THEN Absent ELSE Entries[i].item,
     distance |-> IF ~Keeps("distance") THEN None
                  ELSE IF i = 0 THEN Infinity
                  ELSE Apart(i, q, period),
     point |-> IF ~Keeps("point") THEN None
               ELSE IF i = 0 THEN Absent ELSE Entries[i].point]

AnsweredAsSaid(a, q, period) ==
    /\ \E s \in [DOMAIN a -> {0} \cup DOMAIN Entries] :
          /\ AskedFor(s, q, period)
          /\ \/ a = [k \in DOMAIN a |-> Kept(s[k], q, period)]
             \/ /\ Said("best_n_within")
                /\ Range(a) = {Kept(s[k], q, period) : k \in DOMAIN s}
    /\ Said("best_n_within") /\ ~in_place =>
          \A k, l \in DOMAIN a : k < l => ~Better(a[l], a[k])

(* However the builder was configured, in whatever order, and whatever     *)
(* path execute takes for it, a finished batch holds for every query an    *)
(* answer to what the caller said: as many entries as asked for, the right *)
(* ones, in the order and with the fields asked for, the distances all of  *)
(* one space.                                                              *)
AskedIsAnswered ==
    phase = "done" =>
        \E period \in Periods : \A i \in 1 .. Size :
            AnsweredAsSaid(outcome[i][1], queries[i], period)

(* "periodic builder missing box size" and "max_qty missing": no order of  *)
(* the calls a builder offers leads to a query without what it needs.      *)
NothingMissing == phase # "configuring" => Executable(prototype)

-----------------------------------------------------------------------------
Abstract == INSTANCE QueryBatch

(* The tasks of a batch implement the promise of module QueryBatch: every  *)
(* query is answered once, as if it had been the only one.                 *)
ImplementsQueryBatch == Abstract!Spec

(* A batch ends: halving stops and every range is worked off. *)
BatchEnds == phase = "running" ~> phase = "done"
=============================================================================
