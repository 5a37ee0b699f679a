------------------------------ MODULE LeafSplit ------------------------------
(***************************************************************************)
(* VecOfArrays::split_leaf on the arrays themselves: which entries of a    *)
(* full leaf go to the new leaf, and at which pivot value.  The model of   *)
(* the tree describes a split by the bucket alone (SplitValue in module    *)
(* Buckets); that is right as far as the two selections below order the    *)
(* leaf.                                                                   *)
(*                                                                         *)
(* mirror_select_nth_unstable_by is a quickselect over target, with every  *)
(* move repeated on mirror: a slot here holds an element of target and the *)
(* one of mirror beside it.  Slots are numbered from 0.  The blocks of the *)
(* partition hold 128 elements each and a leaf fewer than 50, so that one  *)
(* round over two blocks does it and pivots are chosen without the median  *)
(* of medians.                                                             *)
(***************************************************************************)
EXTENDS Integers, Sequences, SequencesExt

CONSTANTS
    BucketSizes, \* the bucket sizes to consider
    Coordinates  \* the coordinates of entries on the dimension of the split

ASSUME BucketSizesAssumption == BucketSizes \subseteq 2 .. 49
ASSUME CoordinatesAssumption == Coordinates \subseteq Int

VARIABLES
    leaf,       \* content_points[split_dim] as it was before the split
    slots,      \* the column and the mirror: [coord, from] in each slot
    pc,         \* "select", "nudge_left", "select_again", "nudge_right",
                \* "split" or "unsplittable"
    lo, hi,     \* the slice the selection has narrowed target to
    index,      \* the index to select, from the start of the slice
    pred,       \* at most the one pivot the slice is known not to be below
    pivot_idx, split_val

vars == <<leaf, slots, pc, lo, hi, index, pred, pivot_idx, split_val>>
select_vars == <<lo, hi, index, pred>>

B == Cardinality(DOMAIN leaf)

Coord(i) == slots[i].coord

-----------------------------------------------------------------------------
Swapped(s, i, j) == [s EXCEPT ![i] = s[j], ![j] = s[i]]

(* The swaps of ps[n] and qs[n] for each n, one after the other. *)
SwapAll(s, ps, qs) ==
    FoldLeftDomain(LAMBDA t, n : Swapped(t, ps[n], qs[n]), s, ps)

Ascending(S)  == SetToSortSeq(S, LAMBDA i, j : i < j)
Descending(S) == SetToSortSeq(S, LAMBDA i, j : i > j)

Lesser(m, n)  == IF m <= n THEN m ELSE n

(* choose_pivot: near the middle, or from eight elements on the median of  *)
(* three.  Fewer swaps than MAX_SWAPS, so the slice is never reversed.     *)
ChoosePivot(s, l, h) ==
    LET quarter == (h - l) \div 4
        sort2(t, m, n) == IF s[t[n]].coord < s[t[m]].coord
                          THEN Swapped(t, m, n) ELSE t
        three == <<l + quarter, l + quarter * 2, l + quarter * 3>>
    IN  IF h - l < 8 THEN three[2]
        ELSE sort2(sort2(sort2(three, 1, 2), 2, 3), 1, 2)[2]

EqualsOnly(equal) == Len(equal) \* a variation: without the pivot
EqualsAndPivot(equal) == Len(equal) + 1

(* mirror_partition_equal, after the pivot was put in front: each element  *)
(* above it from the left changes places with the last one not above it.   *)
PartitionEqual(s, l, h) ==
    LET above == Ascending({i \in l + 1 .. h - 1 : s[l].coord < s[i].coord})
        equal == Descending({i \in l + 1 .. h - 1 : ~(s[l].coord < s[i].coord)})
        crossed == {n \in DOMAIN above \cap DOMAIN equal : above[n] < equal[n]}
        swaps == [n \in 1 .. Cardinality(crossed) |-> above[n]]
    IN  [slots |-> SwapAll(s, swaps, equal), mid |-> EqualsAndPivot(equal)]

(* In the exchange, slot n on the right takes what was in slot CycleNext    *)
(* on the left; what is left over is taken from the outermost in.          *)
CycleNextOpen(n, count) == \* a variation: the cycle is not closed
    IF n < count THEN n + 1 ELSE n
CycleNext(n, count) == (n % count) + 1

LeftOver(offsets, count) == Reverse(SubSeq(offsets, count + 1, Len(offsets)))

(* mirror_partition_in_blocks on l .. h-1 around the coordinate p: the     *)
(* elements on the wrong side of the middle are exchanged in one cycle,    *)
(* those left over on one side are swapped with the ones at the boundary.  *)
PartitionInBlocks(s, l, h, p) ==
    LET middle == l + (h - l) \div 2
        left   == Ascending({i \in l .. middle - 1 : ~(s[i].coord < p)})
        right  == Descending({i \in middle .. h - 1 : s[i].coord < p})
        count  == Lesser(Len(left), Len(right))
        cycled == [i \in DOMAIN s |->
                      IF \E n \in 1 .. count : left[n] = i
                      THEN s[right[CHOOSE n \in 1 .. count : left[n] = i]]
                      ELSE IF \E n \in 1 .. count : right[n] = i
                      THEN s[left[CycleNext(CHOOSE n \in 1 .. count :
                                                right[n] = i, count)]]
                      ELSE s[i]]
        rest_left  == LeftOver(left, count)
        rest_right == LeftOver(right, count)
    IN  IF rest_left # <<>>
        THEN SwapAll(cycled, rest_left,
                     [n \in DOMAIN rest_left |-> middle - n])
        ELSE SwapAll(cycled, rest_right,
                     [n \in DOMAIN rest_right |-> middle + n - 1])

(* mirror_partition around the slot at: elements below its coordinate in   *)
(* front, then the pivot itself, then the rest.                            *)
Partition(s, l, h, at) ==
    LET t == Swapped(s, l, at)
        p == t[l].coord
        below == {i \in l + 1 .. h - 1 : t[i].coord < p}
        notbelow == (l + 1 .. h - 1) \ below
        start == CHOOSE i \in l + 1 .. h :
                    /\ i = h \/ i \in notbelow
                    /\ \A j \in l + 1 .. i - 1 : j \in below
        end   == CHOOSE i \in start .. h :
                    /\ i = start \/ i - 1 \in below
                    /\ \A j \in i .. h - 1 : j \in notbelow
        mid   == l + Cardinality(below)
    IN  [slots |-> Swapped(PartitionInBlocks(t, start, end, p), l, mid),
         mid   |-> Cardinality(below)]

-----------------------------------------------------------------------------
Init ==
    /\ leaf \in UNION {[0 .. b - 1 -> Coordinates] : b \in BucketSizes}
    /\ slots = [i \in DOMAIN leaf |-> [coord |-> leaf[i], from |-> i]]
    /\ pc = "select"
    /\ lo = 0
    /\ hi = B
    /\ index = B \div 2
    /\ pred = {}
    /\ pivot_idx = B \div 2
    /\ split_val = leaf[0] \* not read before it is set

Selecting == pc \in {"select", "select_again"}

(* The first selection is followed by a look at its slot. *)
Selected ==
    /\ \/ /\ pc = "select"
          /\ pc' = "nudge_left"
          /\ split_val' = slots'[pivot_idx].coord
       \/ /\ pc = "select_again"
          /\ pc' = "nudge_right"
          /\ UNCHANGED split_val
    /\ UNCHANGED select_vars

(* One round of mirror_partition_at_index_loop whose pivot is not above    *)
(* the one left of the slice: everything equal to it goes to the front.    *)
SelectEqual ==
    LET at == ChoosePivot(slots, lo, hi)
        r  == PartitionEqual(Swapped(slots, lo, at), lo, hi)
    IN
    /\ Selecting
    /\ \E p \in pred : ~(p < Coord(at))
    /\ slots' = r.slots
    /\ \/ r.mid > index /\ Selected
       \/ /\ r.mid <= index
          /\ lo' = lo + r.mid
          /\ index' = index - r.mid
          /\ pred' = {}
          /\ UNCHANGED <<pc, hi, split_val>>
    /\ UNCHANGED <<leaf, pivot_idx>>

(* The index from the start of what is beyond the pivot. *)
IndexAfter(mid) == index - mid - 1

(* Any other round: partition, and go on with the side the index is on. *)
SelectPartition ==
    LET at == ChoosePivot(slots, lo, hi)
        r  == Partition(slots, lo, hi, at)
    IN
    /\ Selecting
    /\ \A p \in pred : p < Coord(at)
    /\ slots' = r.slots
    /\ \/ /\ r.mid < index
          /\ lo' = lo + r.mid + 1
          /\ index' = IndexAfter(r.mid)
          /\ pred' = {r.slots[lo + r.mid].coord}
          /\ UNCHANGED <<pc, hi, split_val>>
       \/ /\ r.mid > index
          /\ hi' = lo + r.mid
          /\ UNCHANGED <<pc, lo, index, pred, split_val>>
       \/ r.mid = index /\ Selected
    /\ UNCHANGED <<leaf, pivot_idx>>

RunStartHere(i) == i \* a variation: the pivot does not move

(* The first slot of the run of split_val that ends at slot i. *)
RunStart(i) == CHOOSE k \in 0 .. i :
                  /\ \A j \in k .. i - 1 : Coord(j) = split_val
                  /\ k = 0 \/ Coord(k - 1) # split_val

(* Move the pivot left to the start of its run of equal coordinates.  A    *)
(* run that starts the bucket calls for a second selection, meant to order *)
(* the whole bucket, of the last slot.                                     *)
NudgeLeft ==
    /\ pc = "nudge_left"
    /\ \/ /\ RunStart(pivot_idx) > 0
          /\ pivot_idx' = RunStart(pivot_idx)
          /\ pc' = "split"
          /\ UNCHANGED select_vars
       \/ /\ RunStart(pivot_idx) = 0
          /\ pc' = "select_again"
          /\ lo' = 0
          /\ hi' = B
          /\ index' = B - 1
          /\ pred' = {}
          /\ UNCHANGED pivot_idx
    /\ UNCHANGED <<leaf, slots, split_val>>

(* Move the pivot right to the first slot with another coordinate. *)
NudgeRight ==
    LET beyond == {i \in pivot_idx .. B - 1 : Coord(i) # split_val} IN
    /\ pc = "nudge_right"
    /\ \/ /\ beyond # {}
          /\ pivot_idx' = CHOOSE i \in beyond : \A j \in beyond : i <= j
          /\ split_val' = Coord(pivot_idx')
          /\ pc' = "split"
       \/ /\ beyond = {}
          /\ pc' = "unsplittable"
          /\ UNCHANGED <<pivot_idx, split_val>>
    /\ UNCHANGED <<leaf, slots, select_vars>>

-----------------------------------------------------------------------------
(* The split is over: a stop anywhere else is a deadlock. *)
Terminating == pc \in {"split", "unsplittable"} /\ UNCHANGED vars

Next == \/ SelectEqual \/ SelectPartition
        \/ NudgeLeft \/ NudgeRight
        \/ Terminating

Spec == Init /\ [][Next]_vars
=============================================================================
