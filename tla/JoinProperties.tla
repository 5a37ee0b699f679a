--------------------------- MODULE JoinProperties ---------------------------
(* What a query of a tree against a tree must get right. *)
EXTENDS TreeJoin

Entry(s) == DOMAIN trees[s].points

IsMatch(i, j) == Accepts(query, EntryDist(trees, query.metric, i, j))

(* The work a walk has still to do. *)
Pending(k) ==
    LET walk == walks[k]
        far(f) == [left |-> f.left, right |-> f.right, rows |-> walk.work.rows]
    IN  {far(walk.stack[n]) : n \in {n \in DOMAIN walk.stack :
                                        walk.stack[n].kind = "right"}}
        \cup IF walk.pc # "visit" THEN {}
             ELSE {[left |-> walk.work.left, right |-> walk.work.right,
                    rows |-> walk.work.rows]}

Holds(w, i, j) ==
    /\ i \in Below(trees.left, w.left, w.rows.left)
    /\ j \in Below(trees.right, w.right, w.rows.right)

UnbegunTasks == IF phase = "frontier" THEN DOMAIN tasks ELSE waiting

(* How often the pair of i and j is still to be looked at, how often it    *)
(* has been handed to a sink, and how many pairs have been counted.        *)
ToBeFound(i, j) ==
    Cardinality({k \in UnbegunTasks : Holds(tasks[k], i, j)}) +
    Cardinality({kw \in UNION {{k} \X Pending(k) : k \in DOMAIN walks} :
                    Holds(kw[2], i, j)})

Copies(pair, bag) == IF BagIn(pair, bag) THEN bag[pair] ELSE 0

HasBeenFound(i, j) ==
    Copies(PairOf(i, j), answer)
      + SumFunction([k \in DOMAIN walks |-> Copies(PairOf(i, j), walks[k].sink)])

Counted == SumFunction([k \in DOMAIN walks |-> walks[k].counted])

(* However the frontier was cut and whatever the threads have done, a pair *)
(* within the radius has been found once or is in one place that will be   *)
(* looked at, a subtree pair of one task or frame; another is not found.   *)
EveryPairOnce ==
    phase \in {"frontier", "running"} =>
        LET all     == Entry("left") \X Entry("right")
            matches == {x \in all : IsMatch(x[1], x[2])}
        IN  IF query.terminal = "count"
            THEN /\ \A x \in matches : ToBeFound(x[1], x[2]) \in {0, 1}
                 /\ Counted + Cardinality({x \in matches :
                                              ToBeFound(x[1], x[2]) = 1})
                       = Cardinality(matches)
            ELSE \A x \in all :
                    IF x \in matches
                    THEN ToBeFound(x[1], x[2]) + HasBeenFound(x[1], x[2]) = 1
                    ELSE HasBeenFound(x[1], x[2]) = 0

(* The boxes of the work that is next are around the entries below it,     *)
(* after any number of descents and restorations.                          *)
Encloses(w) ==
    \A s \in Sides, d \in Dims : \A i \in Below(trees[s], w[s], w.rows[s]) :
        LET b == w.bounds[s][d] IN
        b.min <= trees[s].points[i][d] /\ trees[s].points[i][d] <= b.max

BoxesEnclose ==
    /\ \A k \in DOMAIN tasks : Encloses(tasks[k])
    /\ \A k \in DOMAIN walks : walks[k].pc = "visit" => Encloses(walks[k].work)

(* An entry of the right tree that is nearer than a candidate is among the *)
(* work left: nothing nearer has been skipped.                             *)
NearerIsToCome ==
    phase = "nearest" =>
        \A i \in Entry("left"), j \in Entry("right") :
            EntryDist(trees, query.metric, i, j) < candidates[i].distance =>
                \E k \in DOMAIN tasks : Holds(tasks[k], i, j)

-----------------------------------------------------------------------------
(* No distance of a nearest query is as great as the one its candidates    *)
(* start with: an entry so far from every other would keep R::Item's       *)
(* default.                                                                *)
FiniteNearest ==
    \A c \in Calls : c.query.terminal = "nearest" =>
        \A i \in DOMAIN c.trees.left.points, j \in DOMAIN c.trees.right.points :
            EntryDist(c.trees, c.query.metric, i, j) < Infinity

AbstractPhase ==
    IF phase \in {"frontier", "running", "nearest"} THEN "working" ELSE phase

Abstract == INSTANCE PairJoin WITH phase <- AbstractPhase

(* The tasks, walks and candidates implement the promise of PairJoin: all  *)
(* pairs and no others, each once, or their exact number or a panic when   *)
(* it exceeds usize::MAX, or the nearest entries.                          *)
ImplementsPairJoin == Abstract!Spec

(* A query ends: the frontier stops being cut and every walk runs out of   *)
(* frames.                                                                 *)
JoinEnds ==
    phase \in {"frontier", "running", "nearest"} ~> phase \in {"done", "panicked"}
=============================================================================
