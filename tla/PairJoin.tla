------------------------------ MODULE PairJoin ------------------------------
(***************************************************************************)
(* What a join of two trees promises: every pair of entries within the     *)
(* radius, once and in any order, or the number of them; or for every      *)
(* entry of the left tree a nearest entry of the right one.                *)
(***************************************************************************)
EXTENDS JoinCursors, Bags

CONSTANT MaxCount \* usize::MAX

VARIABLES
    trees, query, phase,
    answer,  \* a bag of pairs
    total    \* what count has counted

vars == <<trees, query, phase, answer, total>>

Entry(s) == DOMAIN trees[s].points

PairOf(i, j) ==
    [left |-> i, right |-> j,
     distance |-> IF query.distances THEN EntryDist(trees, query.metric, i, j)
                  ELSE -1]

Matching ==
    {ij \in Entry("left") \X Entry("right") :
        Accepts(query, EntryDist(trees, query.metric, ij[1], ij[2]))}

Pairs == {PairOf(ij[1], ij[2]) : ij \in Matching}

NearestOf(i) ==
    {j \in Entry("right") : \A k \in Entry("right") :
        EntryDist(trees, query.metric, i, j)
           <= EntryDist(trees, query.metric, i, k)}

(* One pair for each entry of the left tree, none if the right is empty. *)
IsNearest(b) ==
    IF Entry("right") = {} THEN b = EmptyBag
    ELSE /\ \A p \in DOMAIN b : /\ b[p] = 1
                                /\ p.right \in NearestOf(p.left)
                                /\ p = PairOf(p.left, p.right)
         /\ {p.left : p \in DOMAIN b} = Entry("left")
         /\ Cardinality(DOMAIN b) = Cardinality(Entry("left"))

IsAnswer ==
    CASE query.terminal = "count"   -> total = Cardinality(Matching)
      [] query.terminal = "nearest" -> IsNearest(answer)
      [] OTHER                      -> answer = SetToBag(Pairs)

Init ==
    /\ phase = "idle"
    /\ answer = EmptyBag
    /\ total = 0

Ask ==
    /\ phase = "idle"
    /\ \/ phase' = "working" /\ answer' = EmptyBag /\ total' = 0
       \/ phase' = "done" /\ IsAnswer'

(* for_each hands the pairs over while it works. *)
Emit ==
    /\ phase = "working"
    /\ query.terminal = "for_each"
    /\ answer' # answer
    /\ answer \sqsubseteq answer'
    /\ answer' \sqsubseteq SetToBag(Pairs)
    /\ UNCHANGED <<trees, query, phase, total>>

Return ==
    /\ phase = "working"
    /\ phase' = "done"
    /\ UNCHANGED <<trees, query>>
    /\ IsAnswer'

(* count panics, but only when there are too many pairs. *)
Panic ==
    /\ phase \in {"idle", "working"}
    /\ phase' = "panicked"
    /\ query'.terminal = "count"
    /\ (Cardinality(Matching) > MaxCount)'

Next == Ask \/ Emit \/ Return \/ Panic

Spec == Init /\ [][Next]_vars
=============================================================================
