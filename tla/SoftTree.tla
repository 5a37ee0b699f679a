------------------------------ MODULE SoftTree ------------------------------
(***************************************************************************)
(* What building an immutable tree promises (BucketLimitType::Soft, the    *)
(* leaf strategies FlatVec and VecOfArenas): a full tree whose depth the   *)
(* number of entries alone decides, each node cut where two different      *)
(* coordinates meet: at its middle, the last such place before it, or the  *)
(* first one after it.                                                     *)
(*                                                                         *)
(* The tree is a function of the entries, stated node by node.  How it is  *)
(* computed, by one thread or by many, is the matter of SoftConstruction.  *)
(***************************************************************************)
EXTENDS Eytzinger, FiniteSets

CONSTANTS
    K,         \* number of dimensions
    B,         \* the bucket size
    MaxValue,  \* A::max_value()
    Sources,   \* the slices of points callers build trees from
    Refusals,  \* the sets of positions an item conversion may refuse
    SelectNth(_, _), \* how the library selects the entry of an index
    SortUnstable(_)  \* and how it sorts, for given keys

VARIABLES
    source,   \* the points of the construction under way
    refused,  \* the positions whose item cannot be made
    outcome   \* <<>>, or one record: the tree, or the item refused

store_vars == <<source, refused, outcome>>

-----------------------------------------------------------------------------
Depth == StemsDepth((Len(source) + B - 1) \div B)

Stems == 1 .. 2 ^ Depth - 1
Nodes == 1 .. 2 ^ (Depth + 1) - 1

LevelOf(i) == CHOOSE l \in 0 .. Depth : 2 ^ l <= i /\ i < 2 ^ (l + 1)
DimOf(i)   == LevelOf(i) % K

(* The chunk of a node is the sequence of its entries, each the position   *)
(* in the source; its middle is the slot after half of them.               *)
Half(c) == (Len(c) + 1) \div 2

Values(c, dim) == [k \in DOMAIN c |-> source[c[k]][dim]]

(* f(x), for which TLC evaluates x once. *)
Of(f(_), x) == CHOOSE y \in {f(v) : v \in {x}} : TRUE

Permuted(c, order) == Of(LAMBDA o : [k \in DOMAIN c |-> c[o[k]]], order)

Selected(c, dim) ==
    Permuted(c, Of(LAMBDA keys : SelectNth(keys, Half(c)), Values(c, dim)))

Sorted(c, dim) == Permuted(c, Of(SortUnstable, Values(c, dim)))

(* The slots up to the middle whose value is not that at the middle, and   *)
(* those after it that such a value follows.                               *)
CutsBefore(c, dim) ==
    {k \in 1 .. Half(c) : source[c[k]][dim] # source[c[Half(c) + 1]][dim]}

CutsAfter(c, dim) ==
    {k \in Half(c) + 1 .. Len(c) - 1 :
        source[c[k + 1]][dim] # source[c[Half(c) + 1]][dim]}

CutAt(c, n) == [left |-> SubSeq(c, 1, n), right |-> SubSeq(c, n + 1, Len(c))]

(* A chunk is cut as it is selected, at the last slot before the middle;   *)
(* if there is none, as it is then sorted, at the first one after the      *)
(* middle.  A chunk without any goes left as a whole.                      *)
PartsSorted(c, dim) ==
    LET cuts == CutsAfter(c, dim) \cup {Len(c)} IN
    CutAt(c, CHOOSE k \in cuts : \A j \in cuts : k <= j)

PartsSelected(c, dim) ==
    LET cuts == CutsBefore(c, dim) IN
    IF cuts = {} THEN Of(LAMBDA s : PartsSorted(s, dim), Sorted(c, dim))
    ELSE CutAt(c, CHOOSE k \in cuts : \A j \in cuts : j <= k)

Parts(c, dim) ==
    IF Half(c) = Len(c) THEN CutAt(c, Len(c))
    ELSE Of(LAMBDA s : PartsSelected(s, dim), Selected(c, dim))

(* The entries below each node. *)
Chunk ==
    LET chunk[i \in Nodes] ==
            IF i = RootIdx THEN [p \in DOMAIN source |-> p]
            ELSE LET parent == i \div 2
                     parts  == Of(LAMBDA c : Parts(c, DimOf(parent)), chunk[parent])
                 IN  IF i = LeftChild(parent) THEN parts.left ELSE parts.right
    IN  [i \in Nodes |-> chunk[i]]

(* The stems that have node i on their left. *)
LeftAncestors(i) ==
    {a \in Stems : /\ LevelOf(a) < LevelOf(i)
                   /\ i \div 2 ^ (LevelOf(i) - LevelOf(a) - 1) = LeftChild(a)}

(* A cut chunk, given the chunk of each node: its value is that of its     *)
(* first entry on the right.                                               *)
CutStems(chunk) == {a \in Stems : chunk[RightChild(a)] # <<>>}

Cut(chunk, a) == source[chunk[RightChild(a)][1]][DimOf(a)]

(* The value of each stem: its cut, or for a chunk without one the least   *)
(* value that bounds the node from above.                                  *)
StemValue(chunk, i) ==
    IF i \in CutStems(chunk) THEN Cut(chunk, i)
    ELSE LET bounds == {MaxValue} \cup
                 {Cut(chunk, a) : a \in {a \in LeftAncestors(i) \cap CutStems(chunk) :
                                             DimOf(a) = DimOf(i)}}
         IN  CHOOSE v \in bounds : \A w \in bounds : v <= w

LeavesOf(chunk) == [k \in 1 .. 2 ^ Depth |-> chunk[2 ^ Depth + k - 1]]

Leaves == LeavesOf(Chunk)

(* max_leaf_len of a tree without entries is a guess. *)
TreeOf(chunk) ==
    LET sizes == {Len(chunk[i]) : i \in Nodes \ Stems} IN
    [stems          |-> [i \in Stems |-> StemValue(chunk, i)],
     leaves         |-> LeavesOf(chunk),
     max_stem_level |-> Depth - 1,
     max_leaf_len   |-> IF source = <<>> THEN 2 * B
                        ELSE CHOOSE n \in sizes : \A m \in sizes : m <= n]

Tree == Of(TreeOf, Chunk)

-----------------------------------------------------------------------------
Init ==
    /\ source = <<>>
    /\ refused = {}
    /\ outcome = <<>>

Begin ==
    /\ source = <<>>
    /\ outcome = <<>>
    /\ source' \in Sources
    /\ \E positions \in Refusals : refused' = positions \cap DOMAIN source'
    /\ UNCHANGED outcome

Finish ==
    /\ outcome = <<>> /\ outcome' # <<>>
    /\ refused = {}
    /\ outcome' = <<Tree>>
    /\ UNCHANGED <<source, refused>>

(* Items are made in the order of the leaves and of their slots: the first *)
(* that cannot be made is reported.                                        *)
RefusedIn(leaf) == {j \in DOMAIN leaf : leaf[j] \in refused}

Refuse ==
    /\ outcome = <<>> /\ outcome' # <<>>
    /\ \E leaves \in {Leaves} : \E k \in DOMAIN leaves :
          /\ \A j \in 1 .. k - 1 : RefusedIn(leaves[j]) = {}
          /\ \E j \in RefusedIn(leaves[k]) :
                /\ \A i \in RefusedIn(leaves[k]) : j <= i
                /\ outcome' = <<[item |-> leaves[k][j]]>>
    /\ UNCHANGED <<source, refused>>

Next == Begin \/ Finish \/ Refuse

Spec == Init /\ [][Next]_store_vars
=============================================================================
