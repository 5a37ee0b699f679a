------------------------------ MODULE TreeJoin ------------------------------
(***************************************************************************)
(* Queries of one immutable tree against another (KdTree::query_tree): the *)
(* radius join, on the calling thread or cut into tasks for a rayon pool,  *)
(* and the nearest entry of the right tree for each of the left.           *)
(*                                                                         *)
(* A walk of a task is one step per subtree pair looked at and one per     *)
(* frame taken from its stack; the walks of a pool interleave.  Trees are  *)
(* not changed, and a walk has its own stack and sink.                     *)
(***************************************************************************)
EXTENDS JoinCursors, SequencesExt

CONSTANTS
    Calls,     \* what may be asked: the trees, left and right; the query, of
               \* terminal, metric, radius, exclusive and distances; and the
               \* executor, of kind, threads, multiplier and threshold
    MinScore,  \* the score above which a task may be cut, 4096 in the code
    TileLen,   \* the rows tasks are cut at multiples of, 32 in the code
    MaxCount   \* usize::MAX, as far as counting goes

ASSUME TaskAssumption ==
    /\ MinScore \in Nat \ {0}
    /\ TileLen \in Nat \ {0}
    /\ MaxCount \in Nat
    /\ \A c \in Calls : /\ c.query.radius \in Nat
                        /\ c.query.terminal = "nearest" => c.query.distances

(* What is joined are trees as they are built. *)
ASSUME TreesAssumption ==
    \A c \in Calls : \A s \in Sides : IsBuilt(c.trees[s])

(* A distance is one of its type: Infinity, if it is too great. *)
ASSUME DistancesAssumption ==
    \A c \in Calls :
        \A i \in DOMAIN c.trees.left.points, j \in DOMAIN c.trees.right.points :
            EntryDist(c.trees, c.query.metric, i, j) <= Infinity

None == -1 \* a multiplier or a threshold not set, a distance left out

VARIABLES
    trees, query, executor,
    phase,      \* "idle", then "frontier", "running", or "nearest", then
                \* "done" or "panicked"
    tasks,      \* the frontier; in a nearest query the stack of work
    waiting,    \* the tasks no thread has begun, by their index
    walks,      \* for each task that is walked its work, stack and sink
    answer,     \* the bag of pairs that have been handed over
    total,      \* of a count, what the tasks that ended have counted
    candidates  \* for each entry of the left tree its nearest one so far

input_vars == <<trees, query, executor>>
vars == <<input_vars, phase, tasks, waiting, walks, answer, total, candidates>>

Init ==
    /\ \E c \in Calls : trees = c.trees /\ query = c.query
                      /\ executor = c.executor
    /\ phase = "idle"
    /\ tasks = <<>>
    /\ waiting = {}
    /\ walks = <<>>
    /\ answer = EmptyBag
    /\ total = 0
    /\ candidates = <<>>

-----------------------------------------------------------------------------
(* is_parallel, for the size of the left tree, and join_task_budget.  On   *)
(* one thread the root is the only task.                                   *)
IsParallel ==
    /\ executor.kind = "parallel"
    /\ executor.threshold = None
       \/ TreeSize(trees.left) >= executor.threshold

Budget ==
    IF ~IsParallel THEN 1
    ELSE Greater(executor.threads *
                    (IF executor.multiplier = None THEN 8
                     ELSE executor.multiplier), 1)

Threads == IF IsParallel THEN executor.threads ELSE 1

SomeTreeEmpty == TreeSize(trees.left) = 0 \/ TreeSize(trees.right) = 0

(* An inclusive radius without end: count has no need to look. *)
CountsAll ==
    /\ query.terminal = "count"
    /\ ~query.exclusive
    /\ query.radius = Infinity

AnswerEmpty ==
    /\ phase = "idle"
    /\ SomeTreeEmpty
    /\ phase' = "done"
    /\ UNCHANGED <<input_vars, tasks, waiting, walks, answer, total,
                   candidates>>

CountAll ==
    LET product == TreeSize(trees.left) * TreeSize(trees.right) IN
    /\ phase = "idle"
    /\ ~SomeTreeEmpty
    /\ CountsAll
    /\ IF product > MaxCount
       THEN phase' = "panicked" /\ UNCHANGED total
       ELSE phase' = "done" /\ total' = product
    /\ UNCHANGED <<input_vars, tasks, waiting, walks, answer, candidates>>

Join ==
    /\ phase = "idle"
    /\ ~SomeTreeEmpty
    /\ ~CountsAll
    /\ query.terminal # "nearest"
    /\ tasks' = <<RootWork(trees)>>
    /\ phase' = "frontier"
    /\ UNCHANGED <<input_vars, waiting, walks, answer, total, candidates>>

-----------------------------------------------------------------------------
(* frontier: the task with the most pairs below it, as far as leaf lengths *)
(* are known, is cut in two until there are tasks enough.                  *)
Rows(w, s) ==
    IF AtLeaf(w[s])
    THEN Greater(Lesser(LeafLen(trees[s], w[s].start), w.rows[s].end)
                    - w.rows[s].start, 0)
    ELSE Lesser(Span(w[s]) * trees[s].max_leaf_len, TreeSize(trees[s]))

Score(w) == Rows(w, "left") * Rows(w, "right")

Cuttable == {k \in DOMAIN tasks : Score(tasks[k]) > MinScore}

(* max_by_key returns the last of equals. *)
IsBest(k) ==
    \A j \in Cuttable :
        \/ Score(tasks[j]) < Score(tasks[k])
        \/ Score(tasks[j]) = Score(tasks[k]) /\ j <= k

NextTile(n) == ((n + TileLen - 1) \div TileLen) * TileLen

LeafHalvesApart(w) == \* a variation: the row they are cut at in neither
    LET ends == [s \in Sides |->
                    [w.rows[s] EXCEPT
                        !.end = Lesser(@, LeafLen(trees[s], w[s].start))]]
        len(s) == ends[s].end - ends[s].start
        s   == IF len("right") > len("left") THEN "right" ELSE "left"
        mid == ends[s].start
                  + Lesser(NextTile(len(s) \div 2), len(s) - 1)
    IN  <<[w EXCEPT !.rows = [ends EXCEPT ![s].end = mid]],
          [w EXCEPT !.rows = [ends EXCEPT ![s].start = mid + 1]]>>

(* A pair of leaves is cut between rows of the longer leaf, at a multiple  *)
(* of a tile from its first where that leaves something on both sides.     *)
LeafHalves(w) ==
    LET ends == [s \in Sides |->
                    [w.rows[s] EXCEPT
                        !.end = Lesser(@, LeafLen(trees[s], w[s].start))]]
        len(s) == ends[s].end - ends[s].start
        s   == IF len("right") > len("left") THEN "right" ELSE "left"
        mid == ends[s].start
                  + Lesser(NextTile(len(s) \div 2), len(s) - 1)
    IN  <<[w EXCEPT !.rows = [ends EXCEPT ![s].end = mid]],
          [w EXCEPT !.rows = [ends EXCEPT ![s].start = mid]]>>

Halves(w) ==
    IF BothAtLeaf(w) THEN LeafHalves(w)
    ELSE IF IsPadding(trees, w) THEN <<Unpadded(w)>>
    ELSE IF ~Finite(Pivot(trees, w)) THEN <<NearHalf(trees, w)>>
    ELSE <<NearHalf(trees, w), FarHalf(trees, w)>>

Kept(w) == SomeLeaves(w) /\ ~Rejected(query, w.bounds)

IfKept(w) == IF Kept(w) THEN <<w>> ELSE <<>>

KeptHalves(w) ==
    LET halves == Halves(w) IN
    IF Rejected(query, w.bounds) THEN <<>>
    ELSE IF Len(halves) = 1 THEN IfKept(halves[1])
    ELSE IfKept(halves[1]) \o IfKept(halves[2])

SwapRemoved(s, k) ==
    [j \in 1 .. Len(s) - 1 |-> IF j = k THEN s[Len(s)] ELSE s[j]]

CutFrontier ==
    /\ phase = "frontier"
    /\ Len(tasks) < Budget
    /\ \E k \in Cuttable :
          /\ IsBest(k)
          /\ tasks' = SwapRemoved(tasks, k) \o KeptHalves(tasks[k])
    /\ UNCHANGED <<input_vars, phase, waiting, walks, answer, total,
                   candidates>>

FrontierDone ==
    /\ phase = "frontier"
    /\ Len(tasks) >= Budget \/ Cuttable = {}
    /\ waiting' = DOMAIN tasks
    /\ phase' = "running"
    /\ UNCHANGED <<input_vars, tasks, walks, answer, total, candidates>>

-----------------------------------------------------------------------------
(* walk: a thread of the pool takes a task, ... *)
Begin(k) ==
    /\ phase = "running"
    /\ k \in waiting
    /\ Cardinality({j \in DOMAIN walks : walks[j].pc # "ended"}) < Threads
    /\ waiting' = waiting \ {k}
    /\ walks' = [j \in DOMAIN walks \cup {k} |->
                    IF j # k THEN walks[j]
                    ELSE [pc |-> "visit", work |-> tasks[k], stack |-> <<>>,
                          sink |-> EmptyBag, counted |-> 0]]
    /\ UNCHANGED <<input_vars, phase, tasks, answer, total, candidates>>

Distances == query.distances /\ query.terminal # "count"

PairOf(i, j) ==
    [left |-> i, right |-> j,
     distance |-> IF Distances THEN EntryDist(trees, query.metric, i, j)
                  ELSE None]

Rest == <<input_vars, tasks, waiting, total, candidates>>

(* ... and gives its sink the pairs it finds. *)
Emit(k, ij) ==
    LET found == SetToBag({PairOf(x[1], x[2]) : x \in ij})
        count == walks[k].counted + Cardinality(ij)
        next  == [walks[k] EXCEPT !.pc = "pop"]
    IN
    \/ /\ query.terminal = "execute"
       /\ walks' = [walks EXCEPT ![k] = [next EXCEPT !.sink = @ (+) found]]
       /\ UNCHANGED <<phase, answer, Rest>>
    \/ /\ query.terminal = "for_each"
       /\ walks' = [walks EXCEPT ![k] = next]
       /\ answer' = answer (+) found
       /\ UNCHANGED <<phase, Rest>>
    \/ /\ query.terminal = "count"
       /\ count <= MaxCount
       /\ walks' = [walks EXCEPT ![k] = [next EXCEPT !.counted = count]]
       /\ UNCHANGED <<phase, answer, Rest>>
    \/ /\ query.terminal = "count"
       /\ count > MaxCount
       /\ phase' = "panicked"
       /\ UNCHANGED <<walks, answer, Rest>>

Visits(k) == phase = "running" /\ k \in DOMAIN walks /\ walks[k].pc = "visit"

(* Whole subtrees whose farthest entries are within the radius. *)
IsAccepted(w) == ~Distances /\ Accepts(query, Upper(w.bounds, query.metric))

Reject(k) ==
    /\ Visits(k)
    /\ ~Kept(walks[k].work)
    /\ walks' = [walks EXCEPT ![k].pc = "pop"]
    /\ UNCHANGED <<phase, answer, Rest>>

Bulk(k) ==
    LET w == walks[k].work IN
    /\ Visits(k)
    /\ Kept(w)
    /\ IsAccepted(w)
    /\ Emit(k, Below(trees.left, w.left, w.rows.left)
                  \X Below(trees.right, w.right, w.rows.right))

LeafPair(k) ==
    LET w == walks[k].work IN
    /\ Visits(k)
    /\ Kept(w)
    /\ ~IsAccepted(w)
    /\ BothAtLeaf(w)
    /\ Emit(k, {ij \in RowsOf(trees.left, w.left.start, w.rows.left)
                         \X RowsOf(trees.right, w.right.start, w.rows.right) :
                   Accepts(query,
                           EntryDist(trees, query.metric, ij[1], ij[2]))})

(* Frame::Right: the half that is left for later, and the interval the     *)
(* near half narrows.                                                      *)
RightFrame(w) ==
    LET s   == Side(w)
        far == [w EXCEPT ![s] = SplitRight(@)]
    IN  [kind |-> "right", left |-> far.left, right |-> far.right, side |-> s,
         dim |-> Dim(w), bound |-> w.bounds[s][Dim(w)],
         pivot |-> Pivot(trees, w)]

Descend(k) ==
    LET w == walks[k].work IN
    /\ Visits(k)
    /\ Kept(w)
    /\ ~IsAccepted(w)
    /\ ~BothAtLeaf(w)
    /\ walks' = [walks EXCEPT
          ![k].work  = IF IsPadding(trees, w) THEN Unpadded(w)
                       ELSE NearHalf(trees, w),
          ![k].stack = IF Finite(Pivot(trees, w))
                       THEN Append(@, RightFrame(w)) ELSE @]
    /\ UNCHANGED <<phase, answer, Rest>>

Pops(k) ==
    /\ phase = "running"
    /\ k \in DOMAIN walks
    /\ walks[k].pc = "pop"
    /\ UNCHANGED <<phase, answer, Rest>>

Top(k) == Last(walks[k].stack)

PopRestorePeeked(k) == \* a variation: the frame stays on the stack
    /\ Pops(k)
    /\ walks[k].stack # <<>>
    /\ Top(k).kind = "restore"
    /\ walks' = [walks EXCEPT
          ![k].work.bounds[Top(k).side][Top(k).dim] = Top(k).bound]

(* Frame::Restore puts back the interval as it was above both halves. *)
PopRestore(k) ==
    /\ Pops(k)
    /\ walks[k].stack # <<>>
    /\ Top(k).kind = "restore"
    /\ walks' = [walks EXCEPT
          ![k].work.bounds[Top(k).side][Top(k).dim] = Top(k).bound,
          ![k].stack = Front(@)]

Restore(f) == [kind |-> "restore", side |-> f.side, dim |-> f.dim,
               bound |-> f.bound]

(* The half that was left, as it is taken up. *)
Resumed(w, f) ==
    [w EXCEPT !.left = f.left, !.right = f.right,
              !.bounds[f.side][f.dim] = [min |-> Greater(f.pivot, f.bound.min),
                                         max |-> f.bound.max]]

PopRightUnrestored(k) == \* a variation: nothing puts the interval back
    /\ Pops(k)
    /\ walks[k].stack # <<>>
    /\ Top(k).kind = "right"
    /\ walks' = [walks EXCEPT
          ![k].pc = "visit",
          ![k].work = Resumed(@, Top(k)),
          ![k].stack = Front(@)]

PopRight(k) ==
    /\ Pops(k)
    /\ walks[k].stack # <<>>
    /\ Top(k).kind = "right"
    /\ walks' = [walks EXCEPT
          ![k].pc = "visit",
          ![k].work = Resumed(@, Top(k)),
          ![k].stack = Append(Front(@), Restore(Top(k)))]

WalkEnds(k) ==
    /\ Pops(k)
    /\ walks[k].stack = <<>>
    /\ walks' = [walks EXCEPT ![k].pc = "ended"]

(* The chunks of the tasks are put together, or their counts added up. *)
Return ==
    LET sum == SumFunction([k \in DOMAIN walks |-> walks[k].counted]) IN
    /\ phase = "running"
    /\ waiting = {}
    /\ \A k \in DOMAIN walks : walks[k].pc = "ended"
    /\ IF sum > MaxCount
       THEN phase' = "panicked" /\ UNCHANGED <<answer, total>>
       ELSE /\ phase' = "done"
            /\ answer' = FoldSet(LAMBDA k, b : b (+) walks[k].sink, answer,
                                 DOMAIN walks)
            /\ total' = sum
    /\ UNCHANGED <<input_vars, tasks, waiting, walks, candidates>>

-----------------------------------------------------------------------------
(* nearest::execute *)
Nearest ==
    /\ phase = "idle"
    /\ ~SomeTreeEmpty
    /\ query.terminal = "nearest"
    /\ tasks' = <<RootWork(trees)>>
    /\ candidates' = [i \in DOMAIN trees.left.points |->
                         [right |-> 0, distance |-> Infinity]]
    /\ phase' = "nearest"
    /\ UNCHANGED <<input_vars, waiting, walks, answer, total>>

Distant(w) == {candidates[i].distance : i \in Below(trees.left, w.left, AllRows)}

CandidateLower(w) == Min({Infinity} \cup Distant(w)) \* a variation: the best

CandidateUpper(w) == Max({0} \cup Distant(w))

(* A subtree pair that cannot improve the worst candidate of its left. *)
Hopeless(w) ==
    \/ ~SomeLeaves(w)
    \/ Lower(w.bounds, query.metric) >= CandidateUpper(w)

(* The entries of a leaf of the right tree in their order; only a nearer   *)
(* one replaces a candidate, so that the first of the nearest stays.       *)
Improved(i, leaf) ==
    LET rows   == trees.right.leaves[leaf + 1]
        far(r) == EntryDist(trees, query.metric, i, rows[r])
        nearer == {r \in DOMAIN rows : far(r) < candidates[i].distance}
        first  == CHOOSE r \in nearer : \A q \in nearer :
                      far(r) <= far(q) /\ (r <= q \/ far(r) < far(q))
    IN  IF nearer = {} THEN candidates[i]
        ELSE [right |-> rows[first], distance |-> far(first)]

NearestSkip ==
    /\ phase = "nearest"
    /\ tasks # <<>>
    /\ Hopeless(Last(tasks))
    /\ tasks' = Front(tasks)
    /\ UNCHANGED <<input_vars, phase, waiting, walks, answer, total,
                   candidates>>

NearestLeaf ==
    /\ phase = "nearest"
    /\ tasks # <<>>
    /\ ~Hopeless(Last(tasks))
    /\ BothAtLeaf(Last(tasks))
    /\ tasks' = Front(tasks)
    /\ candidates' =
          LET w == Last(tasks) IN
          [i \in DOMAIN candidates |->
              IF i \in RowsOf(trees.left, w.left.start, AllRows)
              THEN Improved(i, w.right.start) ELSE candidates[i]]
    /\ UNCHANGED <<input_vars, phase, waiting, walks, answer, total>>

(* The far half is looked at first. *)
NearestDescend ==
    /\ phase = "nearest"
    /\ tasks # <<>>
    /\ ~Hopeless(Last(tasks))
    /\ ~BothAtLeaf(Last(tasks))
    /\ tasks' = Front(tasks) \o Halves(Last(tasks))
    /\ UNCHANGED <<input_vars, phase, waiting, walks, answer, total,
                   candidates>>

NearestReturn ==
    /\ phase = "nearest"
    /\ tasks = <<>>
    /\ answer' = SetToBag({[left |-> i, right |-> candidates[i].right,
                            distance |-> candidates[i].distance] :
                               i \in DOMAIN candidates})
    /\ phase' = "done"
    /\ UNCHANGED <<input_vars, tasks, waiting, walks, total, candidates>>

-----------------------------------------------------------------------------
Execute == AnswerEmpty \/ CountAll \/ Join \/ Nearest

Walk(k) ==
    \/ Begin(k) \/ Reject(k) \/ Bulk(k) \/ LeafPair(k) \/ Descend(k)
    \/ PopRestore(k) \/ PopRight(k) \/ WalkEnds(k)

Work ==
    \/ CutFrontier \/ FrontierDone
    \/ \E k \in DOMAIN tasks : Walk(k)
    \/ Return
    \/ NearestSkip \/ NearestLeaf \/ NearestDescend \/ NearestReturn

Next == Execute \/ Work

(* A call that is made runs to its end, on the threads there are. *)
Spec == Init /\ [][Next]_vars /\ WF_vars(Work)
=============================================================================
