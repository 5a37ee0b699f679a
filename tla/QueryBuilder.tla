---------------------------- MODULE QueryBuilder ----------------------------
(***************************************************************************)
(* The fluent query builder and what its execute returns.  A builder is a  *)
(* record: the fields of the Rust struct, and its type parameters (Family, *)
(* Space, Projection, SORTED, EXCLUSIVE), which decide which methods it    *)
(* has.  Entries are numbered in the order KdTreeIter yields them, and     *)
(* their points have one axis.                                             *)
(*                                                                         *)
(* Whether an entry is found by a traversal of the tree (module            *)
(* MappedQuery), by a search of the periodic images or by a scan of all    *)
(* entries depends on the builder; only the scans, which are in the same   *)
(* file, are given step by step here, the others by what they promise.     *)
(***************************************************************************)
EXTENDS Integers, SequencesExt

CONSTANTS
    Entries,              \* what the tree stores: a sequence of [point, item]
    Radii, Quantities, Boxes, \* the arguments the methods are called with
    Infinity              \* D::Output::max_value()

(* Quantities and boxes are never zero (NonZeroUsize; a box of no size has *)
(* no points), and distances are unsigned here.                            *)
ASSUME ArgumentsAssumption ==
    /\ Radii \subseteq Nat
    /\ Quantities \subseteq Nat \ {0}
    /\ Boxes \subseteq Nat \ {0}
    /\ Infinity \in Nat

None   == -1 \* an Option that is None, or a field of a result left out
Absent == 0  \* T::default() and the coordinates of a point nobody asked for

-----------------------------------------------------------------------------
(* KdTree::query *)
Root(query) ==
    [query |-> query, box_size |-> None, max_qty |-> None,
     result_capacity |-> None, radius |-> None,
     family |-> "root", space |-> "cartesian",
     wants |-> {"item", "distance"}, sorted |-> TRUE, exclusive |-> FALSE]

(* The methods that choose what to search for reset everything but the     *)
(* point, the capacity and, in a periodic space, the box.                  *)
Select(b, family, qty, radius) ==
    [b EXCEPT !.family = family, !.max_qty = qty, !.radius = radius,
              !.wants = {"item", "distance"},
              !.sorted = TRUE, !.exclusive = FALSE]

PeriodicBoundaryCondition(b, box) ==
    [Select(b, "root", None, None)
        EXCEPT !.space = "periodic", !.box_size = box]

AddRadiusAnew(b, r) == \* a variation: rebound without the quantity
    [b EXCEPT !.family = "nearest_n_within", !.radius = r,
              !.max_qty = None, !.exclusive = FALSE]

AddRadius(b, r) ==
    [b EXCEPT !.family = "nearest_n_within", !.radius = r,
              !.exclusive = FALSE]

(* approx leaves the periodic space, whose box it drops. *)
Approx(b) ==
    [b EXCEPT !.family = "approx_nearest_one", !.space = "cartesian",
              !.box_size = None]

UnsortedBounds(b) == \* a variation: rebound with the default boundaries
    [b EXCEPT !.sorted = FALSE, !.exclusive = FALSE]

Unsorted(b) == [b EXCEPT !.sorted = FALSE]

ExclusiveBoundaries(b) == [b EXCEPT !.exclusive = TRUE]

WithResultCapacity(b, n) == [b EXCEPT !.result_capacity = n]

Including(b, field) == [b EXCEPT !.wants = @ \cup {field}]
Excluding(b, field) == [b EXCEPT !.wants = @ \ {field}]

-----------------------------------------------------------------------------
Plural    == {"nearest_n", "nearest_n_within", "within"}
Bounded   == {"nearest_n_within", "within", "best_n_within"}
Fields    == {"item", "distance", "point"}

Calls ==
    [op : {"nearest_one", "approx", "unsorted", "exclusive_boundaries"}] \cup
    [op : {"nearest_n", "with_result_capacity"}, n : Quantities] \cup
    [op : {"within"}, radius : Radii] \cup
    [op : {"best_n_within"}, radius : Radii, n : Quantities] \cup
    [op : {"periodic_boundary_condition"}, box : Boxes] \cup
    [op : {"with", "without"}, field : Fields]

(* Whether the type of b has the method: the traits it implements. *)
Offers(b, call) ==
    CASE call.op = "periodic_boundary_condition" ->
            b.family = "root" /\ b.space = "cartesian"
      [] call.op \in {"nearest_one", "nearest_n"} -> b.family = "root"
      [] call.op = "within" -> b.family \in {"root", "nearest_n"}
      [] call.op = "best_n_within" ->
            b.family = "root" /\ b.space = "cartesian"
      [] call.op = "approx" -> b.family = "nearest_one"
      [] call.op = "unsorted" -> b.family \in Plural /\ b.sorted
      [] call.op = "exclusive_boundaries" -> b.family \in Bounded
      [] call.op = "with_result_capacity" -> b.family = "within"
      [] call.op = "with" /\ call.field = "point" ->
            b.family # "root" /\ b.space = "cartesian"
      [] OTHER -> b.family # "root"

Apply(b, call) ==
    CASE call.op = "periodic_boundary_condition" ->
            PeriodicBoundaryCondition(b, call.box)
      [] call.op = "nearest_one" -> Select(b, "nearest_one", None, Infinity)
      [] call.op = "nearest_n" -> Select(b, "nearest_n", call.n, Infinity)
      [] call.op = "within" /\ b.family = "root" ->
            Select(b, "within", None, call.radius)
      [] call.op = "within" /\ b.family # "root" -> AddRadius(b, call.radius)
      [] call.op = "best_n_within" ->
            Select(b, "best_n_within", call.n, call.radius)
      [] call.op = "approx" -> Approx(b)
      [] call.op = "unsorted" -> Unsorted(b)
      [] call.op = "exclusive_boundaries" -> ExclusiveBoundaries(b)
      [] call.op = "with_result_capacity" -> WithResultCapacity(b, call.n)
      [] call.op = "with" -> Including(b, call.field)
      [] call.op = "without" -> Excluding(b, call.field)

-----------------------------------------------------------------------------
(* The distance between two points of a periodic space, the shortest of    *)
(* the images'; points lie in the box.                                     *)
Wrapped(d, box) == IF box - d < d THEN box - d ELSE d

Distance(b, i) ==
    LET p == Entries[i].point
        d == IF p < b.query THEN b.query - p ELSE p - b.query
    IN  IF b.space = "periodic" THEN Wrapped(d, b.box_size) ELSE d

(* boundary_accepts *)
Accepts(b, d) == IF b.exclusive THEN d < b.radius ELSE d <= b.radius

Accepted(b) == {i \in DOMAIN Entries : Accepts(b, Distance(b, i))}

NearerOf(b, i, j) == Distance(b, i) < Distance(b, j)

(* The order of BestQueryResultItem and FullBest: the item, then the       *)
(* distance.                                                               *)
BetterOf(b, i, j) ==
    \/ Entries[i].item < Entries[j].item
    \/ Entries[i].item = Entries[j].item /\ NearerOf(b, i, j)

(* The subsets of S with the n first, or all when there are no more. *)
Firsts(S, n, Before(_, _)) ==
    {T \in SUBSET S :
        /\ Cardinality(T) = IF Cardinality(S) < n THEN Cardinality(S) ELSE n
        /\ \A i \in T, j \in S \ T : ~Before(j, i)}

(* The ways to list S so that nothing comes after what it precedes. *)
Lists(S, Before(_, _)) ==
    {s \in SetToSeqs(S) :
        \A k, l \in DOMAIN s : k < l => ~Before(s[l], s[k])}

Unordered(i, j) == FALSE

-----------------------------------------------------------------------------
(* The scans, for results with points.  The first of the nearest entries,  *)
(* 0 when there is none.                                                   *)
ScanNearestOne(b) ==
    LET Nearer(best, i) ==
            IF best = 0 \/ NearerOf(b, i, best) THEN i ELSE best
    IN  FoldLeft(Nearer, 0, [i \in DOMAIN Entries |-> i])

(* sort_unstable, whose order among equals is anybody's, and truncate. *)
ScanNearestResults(b, S, qty, sorted) ==
    IF sorted \/ qty # None
    THEN {SubSeq(s, 1, IF qty = None \/ qty > Len(s) THEN Len(s) ELSE qty) :
             s \in Lists(S, LAMBDA i, j : NearerOf(b, i, j))}
    ELSE {SetToSortSeq(S, <)}

(* The heap: of its max_qty entries the last is replaced by any before it. *)
ScanBestResults(b, S, n) ==
    LET Offer(heap, i) ==
            IF Cardinality(heap) < n THEN heap \cup {i}
            ELSE LET peek == CHOOSE j \in heap :
                                 \A k \in heap : ~BetterOf(b, j, k)
                 IN  IF BetterOf(b, i, peek) THEN (heap \ {peek}) \cup {i}
                     ELSE heap
    IN  FoldLeft(Offer, {}, SetToSortSeq(S, <))

-----------------------------------------------------------------------------
(* The entries of the answers execute may return, as sequences of entry    *)
(* numbers; 0 is the entry an empty tree, or an empty leaf, answers with.  *)
WantsPoints(b) == "point" \in b.wants

Nearest(b) ==
    IF Entries = <<>> THEN {0}
    ELSE {i \in DOMAIN Entries : \A j \in DOMAIN Entries : ~NearerOf(b, j, i)}

OneFound(b) ==
    CASE WantsPoints(b) -> {<<ScanNearestOne(b)>>}
      [] b.family = "approx_nearest_one" /\ ~WantsPoints(b) ->
            {<<i>> : i \in {0} \cup DOMAIN Entries}
      [] OTHER -> {<<i>> : i \in Nearest(b)}

Searched(b) ==
    LET S == Accepted(b)
        chosen == IF b.max_qty = None THEN {S}
                  ELSE Firsts(S, b.max_qty, LAMBDA i, j : NearerOf(b, i, j))
        (* a periodic nearest_n passes TRUE for SORTED *)
        in_order == \/ b.sorted
                    \/ b.space = "periodic" /\ b.family = "nearest_n"
    IN  UNION {IF in_order THEN Lists(T, LAMBDA i, j : NearerOf(b, i, j))
               ELSE Lists(T, Unordered) : T \in chosen}

ManyFound(b) ==
    IF WantsPoints(b) /\ (b.sorted \/ b.family # "within")
    THEN ScanNearestResults(b, Accepted(b), b.max_qty, b.sorted)
    ELSE Searched(b)

(* A heap, whose order is not told: here the order of the entries. *)
BestFound(b) ==
    IF WantsPoints(b)
    THEN {SetToSortSeq(ScanBestResults(b, Accepted(b), b.max_qty), <)}
    ELSE {SetToSortSeq(T, <) :
             T \in Firsts(Accepted(b), b.max_qty,
                          LAMBDA i, j : BetterOf(b, i, j))}

Found(b) ==
    CASE b.family \in {"nearest_one", "approx_nearest_one"} -> OneFound(b)
      [] b.family \in Plural -> ManyFound(b)
      [] b.family = "best_n_within" -> BestFound(b)

(* Of an entry, what the result keeps. *)
Projected(b, i) ==
    [item |-> IF "item" \notin b.wants THEN None
              ELSE IF i = 0 THEN Absent ELSE Entries[i].item,
     distance |-> IF "distance" \notin b.wants THEN None
                  ELSE IF i = 0 THEN Infinity ELSE Distance(b, i),
     point |-> IF ~WantsPoints(b) THEN None
               ELSE IF i = 0 THEN Absent ELSE Entries[i].point]

Answers(b) ==
    {[k \in DOMAIN s |-> Projected(b, s[k])] : s \in Found(b)}

(* The same results in some order. *)
Reordered(a) ==
    {[k \in DOMAIN a |-> a[p[k]]] : p \in Bijection(DOMAIN a, DOMAIN a)}

(* The unwraps of execute. *)
Executable(b) ==
    /\ b.family # "root"
    /\ b.space = "periodic" => b.box_size # None
    /\ b.family \in {"nearest_n", "nearest_n_within", "best_n_within"}
          => b.max_qty # None
=============================================================================
