-------------------------- MODULE ArithmeticProofs --------------------------
(***************************************************************************)
(* Queries on an immutable tree, for every metric, tree, query and number  *)
(* of axes: the continuation stacks are read in step and never exceed the  *)
(* levels of the tree, the distance kept for a region is the distance of   *)
(* that region, and a query that is not approximate prunes nothing that    *)
(* belongs to its answer.                                                  *)
(***************************************************************************)
EXTENDS ArithmeticProperties, MetricTheorems

(* A sequence, of whatever its elements are: the distances in the frames   *)
(* are folds over the axes, whose type no step depends on.                 *)
IsSeq(s) == s \in Seq({s[n] : n \in DOMAIN s})

(* The inductive invariant: what ContinuationsMatch says needs the height  *)
(* of the tree to be one, the stacks to be sequences, and both to be empty *)
(* until a query begins.                                                   *)
Heights ==
    /\ tree.max_stem_level \in Int
    /\ tree.max_stem_level >= -1
    /\ cursor.level \in Nat

Stacks == IsSeq(restore) /\ IsSeq(far)

NotBegun ==
    pc \in {"idle", "start"} =>
        restore = <<>> /\ far = <<>> /\ cursor.level = 0

IInv == Heights /\ Stacks /\ NotBegun /\ ContinuationsMatch

-----------------------------------------------------------------------------
LEMMA SeqIsSeq == ASSUME NEW S, NEW s \in Seq(S) PROVE IsSeq(s)
<1> DEFINE R == {s[n] : n \in DOMAIN s}
<1>1. /\ Len(s) \in Nat /\ DOMAIN s = 1 .. Len(s)
      /\ s \in [1 .. Len(s) -> S]
  OBVIOUS
<1>2. s \in [1 .. Len(s) -> R]
  BY <1>1
<1>3. s \in Seq(R)
  BY <1>1, <1>2, SMTT(30)
<1> QED BY <1>3 DEF IsSeq

LEMMA IsSeqLen ==
  ASSUME NEW s, IsSeq(s) PROVE Len(s) \in Nat /\ DOMAIN s = 1 .. Len(s)
BY DEF IsSeq

LEMMA AppendedSeq ==
  ASSUME NEW s, NEW e, IsSeq(s)
  PROVE  LET t == Append(s, e) IN
         /\ IsSeq(t)
         /\ Len(t) = Len(s) + 1
         /\ DOMAIN t = 1 .. Len(s) + 1
         /\ \A n \in 1 .. Len(s) : t[n] = s[n]
         /\ t[Len(s) + 1] = e
<1> DEFINE S == {s[n] : n \in DOMAIN s} \cup {e}
           t == Append(s, e)
<1>1. s \in Seq(S)
  <2>1. /\ Len(s) \in Nat /\ s \in [1 .. Len(s) -> S]
    BY DEF IsSeq
  <2> QED BY <2>1
<1>2. e \in S
  OBVIOUS
<1> HIDE DEF S
<1>3. t \in Seq(S) /\ Len(t) = Len(s) + 1
  BY <1>1, <1>2
<1>4. DOMAIN t = 1 .. Len(s) + 1 /\ \A n \in 1 .. Len(s) : t[n] = s[n]
  BY <1>1, <1>2
<1>5. t[Len(s) + 1] = e
  BY <1>1, <1>2
<1> QED BY <1>3, <1>4, <1>5, SeqIsSeq

LEMMA PoppedSeq ==
  ASSUME NEW s, IsSeq(s), s # <<>>
  PROVE  /\ IsSeq(Popped(s))
         /\ Len(s) \in Nat \ {0}
         /\ Len(Popped(s)) = Len(s) - 1
         /\ DOMAIN Popped(s) = 1 .. Len(s) - 1
         /\ \A n \in 1 .. Len(s) - 1 : Popped(s)[n] = s[n]
<1> DEFINE S == {s[n] : n \in DOMAIN s}
<1>1. s \in Seq(S) /\ Len(s) \in Nat /\ Len(s) # 0
  BY DEF IsSeq
<1> HIDE DEF S
<1>2. /\ Popped(s) \in Seq(S)
      /\ Len(Popped(s)) = Len(s) - 1
      /\ \A n \in 1 .. Len(s) - 1 : Popped(s)[n] = s[n]
  <2> DEFINE m == Len(s) - 1
  <2>1. m \in Nat /\ \A i \in 1 .. m : s[i] \in S
    BY <1>1
  <2>2. Popped(s) = SubSeq(s, 1, m)
    BY DEF Popped
  <2> HIDE DEF m
  <2>3. /\ SubSeq(s, 1, m) \in Seq(S)
        /\ Len(SubSeq(s, 1, m)) = IF 1 <= m THEN m - 1 + 1 ELSE 0
        /\ \A n \in 1 .. m - 1 + 1 : SubSeq(s, 1, m)[n] = s[1 + n - 1]
    BY <2>1, SubSeqProperties
  <2>4. Len(Popped(s)) = m /\ \A n \in 1 .. m : Popped(s)[n] = s[n]
    BY <2>1, <2>2, <2>3
  <2> QED BY <2>2, <2>3, <2>4 DEF m
<1> QED BY <1>1, <1>2, SeqIsSeq

-----------------------------------------------------------------------------
LEMMA InitIInv == ASSUME Init PROVE IInv
<1>1. IsSeq(<<>>) /\ Len(<<>>) = 0 /\ DOMAIN <<>> = {}
  BY DEF IsSeq
<1>2. cursor.level = 0
  BY DEF Init, Root, RootIn, RootOf
<1> QED BY <1>1, <1>2 DEF Init, NoTree, IInv, Heights, Stacks, NotBegun,
                         ContinuationsMatch

(* Trees have a height. *)
LEMMA BuiltHeights ==
  \A t \in Trees : t.max_stem_level \in Int /\ t.max_stem_level >= -1
<1> SUFFICES ASSUME NEW t \in Trees
             PROVE  t.max_stem_level \in Int /\ t.max_stem_level >= -1
  OBVIOUS
<1>1. IsBuilt(t)
  BY ArithmeticAssumption
<1>2. QED
  BY <1>1 DEF IsBuilt

LEMMA AskStep == ASSUME IInv, Ask PROVE IInv'
<1>1. IsSeq(<<>>) /\ Len(<<>>) = 0 /\ DOMAIN <<>> = {}
  BY DEF IsSeq
<1>2. tree' \in Trees /\ pc' = "start" /\ restore' = <<>> /\ far' = <<>>
      /\ cursor' = cursor /\ cursor.level = 0
  BY DEF Ask, IInv, NotBegun
<1>3. tree'.max_stem_level \in Int /\ tree'.max_stem_level >= -1
  BY <1>2, BuiltHeights
<1> QED BY <1>1, <1>2, <1>3 DEF IInv, Heights, Stacks, NotBegun,
                               ContinuationsMatch

(* The steps that leave the stacks and the tree alone. *)
LEMMA AskedEmptyStep == ASSUME IInv, AskedEmpty PROVE IInv'
BY DEF AskedEmpty, IInv, Heights, Stacks, NotBegun, ContinuationsMatch

LEMMA ApproximateStep == ASSUME IInv, Approximate PROVE IInv'
BY DEF Approximate, IInv, Heights, Stacks, NotBegun, ContinuationsMatch

LEMMA BeginStep == ASSUME IInv, Begin PROVE IInv'
<1>1. Len(<<>>) = 0
  OBVIOUS
<1>2. cursor'.level = 0
  BY DEF Begin, Root, RootIn, RootOf
<1> QED BY <1>1, <1>2 DEF Begin, IInv, Heights, Stacks, NotBegun,
                         ContinuationsMatch

(* A child is a level below, in either layout. *)
LEMMA ChildLevel ==
  ASSUME NEW c, NEW side PROVE ChildOf(c, side).level = c.level + 1
BY DEF ChildOf, ChildIn, Branch

LEMMA ProcessLeafStep == ASSUME IInv, ProcessLeaf PROVE IInv'
BY DEF ProcessLeaf, IInv, Heights, Stacks, NotBegun, ContinuationsMatch

LEMMA ReturnStep == ASSUME IInv, Return PROVE IInv'
BY DEF Return, IInv, Heights, Stacks, NotBegun, ContinuationsMatch

-----------------------------------------------------------------------------
(* A descent, with or without a far subtree: the new frame is the one of   *)
(* the level it leaves, deeper than any far subtree noted before.          *)
LEMMA DescendCutStep == ASSUME IInv, DescendCut PROVE IInv'
<1> DEFINE frame == Top(restore')
           noted == Top(far')
<1>1. /\ pc = "descend" /\ pc' = pc /\ tree' = tree
      /\ cursor.level <= tree.max_stem_level
      /\ cursor'.level = cursor.level + 1
  BY ChildLevel DEF DescendCut
<1>2. \E f \in {WithFar(off[StemDim(cursor.level)]),
               RestoreOnly(off[StemDim(cursor.level)])} :
         /\ restore' = Append(restore, f)
         /\ \/ ~f.has_far /\ far' = far
            \/ f.has_far /\ \E g : /\ far' = Append(far, g)
                                  /\ FarLevel(g) = cursor.level + 1
  BY ChildLevel DEF DescendCut, WithFar, RestoreOnly, FarLevel
<1>3. PICK f : /\ restore' = Append(restore, f)
               /\ \/ ~f.has_far /\ far' = far
                  \/ f.has_far /\ \E g : /\ far' = Append(far, g)
                                        /\ FarLevel(g) = cursor.level + 1
  BY <1>2
<1> DEFINE n == Len(restore)
<1>4. /\ n \in Nat /\ DOMAIN restore = 1 .. n /\ n = cursor.level
      /\ IsSeq(restore) /\ IsSeq(far)
  BY <1>1, IsSeqLen DEF IInv, Stacks, ContinuationsMatch
<1>5. /\ IsSeq(restore') /\ Len(restore') = n + 1
      /\ DOMAIN restore' = 1 .. n + 1
      /\ \A i \in 1 .. n : restore'[i] = restore[i]
      /\ restore'[n + 1] = f
  BY <1>3, <1>4, AppendedSeq
<1>6. Heights' /\ NotBegun'
  BY <1>1 DEF IInv, Heights, NotBegun
<1>7. Len(restore') <= tree'.max_stem_level + 1 /\ Len(restore') = cursor'.level
  BY <1>1, <1>4, <1>5 DEF IInv, Heights
<1>8. CASE ~f.has_far /\ far' = far
  <2>1. IsSeq(far')
    BY <1>4, <1>8
  <2> HIDE DEF n
  <2>2. ContinuationsMatch'
    BY <1>4, <1>5, <1>7, <1>8 DEF IInv, ContinuationsMatch
  <2> QED BY <1>5, <1>6, <2>1, <2>2 DEF IInv, Stacks
<1>9. CASE f.has_far /\ \E g : /\ far' = Append(far, g)
                             /\ FarLevel(g) = cursor.level + 1
  <2>1. PICK g : far' = Append(far, g) /\ FarLevel(g) = cursor.level + 1
    BY <1>9
  <2> DEFINE m == Len(far)
  <2>2. m \in Nat /\ DOMAIN far = 1 .. m
    BY <1>4, IsSeqLen
  <2>3. /\ IsSeq(far') /\ DOMAIN far' = 1 .. m + 1
        /\ \A i \in 1 .. m : far'[i] = far[i]
        /\ far'[m + 1] = g
    BY <1>4, <2>1, AppendedSeq
  <2>4. FarLevel(g) = n + 1
    BY <1>4, <2>1
  <2> HIDE DEF n, m
  <2>5. \A i \in DOMAIN far' : /\ FarLevel(far'[i]) \in DOMAIN restore'
                               /\ restore'[FarLevel(far'[i])].has_far
    <3> TAKE i \in DOMAIN far'
    <3>1. CASE i \in 1 .. m
      BY <1>4, <1>5, <2>2, <2>3, <3>1 DEF IInv, ContinuationsMatch
    <3>2. CASE i = m + 1
      BY <1>4, <1>5, <1>9, <2>3, <2>4, <3>2
    <3> QED BY <2>2, <2>3, <3>1, <3>2
  <2>6. \A i, j \in DOMAIN far' : i < j => FarLevel(far'[i]) < FarLevel(far'[j])
    <3> SUFFICES ASSUME NEW i \in 1 .. m + 1, NEW j \in 1 .. m + 1, i < j
                 PROVE  FarLevel(far'[i]) < FarLevel(far'[j])
      BY <2>3
    <3>1. i \in 1 .. m /\ FarLevel(far'[i]) = FarLevel(far[i])
      BY <2>2, <2>3
    <3>2. FarLevel(far[i]) \in 1 .. n
      BY <1>4, <2>2, <3>1 DEF IInv, ContinuationsMatch
    <3>3. CASE j = m + 1
      BY <1>4, <2>3, <2>4, <3>1, <3>2, <3>3
    <3>4. CASE j \in 1 .. m
      BY <2>2, <2>3, <3>1, <3>4 DEF IInv, ContinuationsMatch
    <3> QED BY <2>2, <3>3, <3>4
  <2>7. \A p \in DOMAIN restore' :
           restore'[p].has_far => \E i \in DOMAIN far' : FarLevel(far'[i]) = p
    <3> SUFFICES ASSUME NEW p \in 1 .. n + 1, restore'[p].has_far
                 PROVE  \E i \in DOMAIN far' : FarLevel(far'[i]) = p
      BY <1>5
    <3>1. CASE p = n + 1
      BY <2>2, <2>3, <2>4, <3>1
    <3>2. CASE p \in 1 .. n
      <4>1. restore[p].has_far /\ p \in DOMAIN restore
        BY <1>4, <1>5, <3>2
      <4>2. PICK i \in 1 .. m : FarLevel(far[i]) = p
        BY <2>2, <4>1 DEF IInv, ContinuationsMatch
      <4> QED BY <2>2, <2>3, <4>2
    <3> QED BY <1>4, <3>1, <3>2
  <2>8. ContinuationsMatch'
    BY <1>7, <2>5, <2>6, <2>7 DEF ContinuationsMatch
  <2> QED BY <1>5, <1>6, <2>3, <2>8 DEF IInv, Stacks
<1> QED BY <1>3, <1>8, <1>9

LEMMA DescendUncutStep == ASSUME IInv, DescendUncut PROVE IInv'
<1>1. /\ pc = "descend" /\ pc' = pc /\ tree' = tree /\ far' = far
      /\ cursor.level <= tree.max_stem_level
      /\ cursor'.level = cursor.level + 1
  BY ChildLevel DEF DescendUncut
<1>2. PICK f : restore' = Append(restore, f) /\ ~f.has_far
  BY DEF DescendUncut, RestoreOnly
<1> DEFINE n == Len(restore)
<1>4. /\ n \in Nat /\ DOMAIN restore = 1 .. n /\ n = cursor.level
      /\ IsSeq(restore) /\ IsSeq(far)
  BY <1>1, IsSeqLen DEF IInv, Stacks, ContinuationsMatch
<1>5. /\ IsSeq(restore') /\ Len(restore') = n + 1
      /\ DOMAIN restore' = 1 .. n + 1
      /\ \A i \in 1 .. n : restore'[i] = restore[i]
      /\ restore'[n + 1] = f
  BY <1>2, <1>4, AppendedSeq
<1>6. Heights' /\ NotBegun' /\ Stacks'
  BY <1>1, <1>4, <1>5 DEF IInv, Heights, NotBegun, Stacks
<1>7. Len(restore') <= tree'.max_stem_level + 1 /\ Len(restore') = cursor'.level
  BY <1>1, <1>4, <1>5 DEF IInv, Heights
<1> HIDE DEF n
<1>8. ContinuationsMatch'
  BY <1>1, <1>2, <1>4, <1>5, <1>7 DEF IInv, ContinuationsMatch
<1> QED BY <1>6, <1>8 DEF IInv

-----------------------------------------------------------------------------
(* A frame that has a far subtree has the one on top of the far stack.     *)
LEMMA TopsMatch ==
  ASSUME IInv, restore # <<>>, Top(restore).has_far
  PROVE  /\ far # <<>>
         /\ FarLevel(Top(far)) = Len(restore)
<1> DEFINE n == Len(restore)
           m == Len(far)
<1>1. /\ n \in Nat \ {0} /\ DOMAIN restore = 1 .. n
      /\ m \in Nat /\ DOMAIN far = 1 .. m
  BY IsSeqLen, PoppedSeq DEF IInv, Stacks
<1>2. restore[n].has_far
  BY DEF Top
<1> HIDE DEF n, m
<1>3. PICK i \in 1 .. m : FarLevel(far[i]) = n
  BY <1>1, <1>2 DEF IInv, ContinuationsMatch
<1>4. FarLevel(far[m]) \in 1 .. n
  BY <1>1, <1>3 DEF IInv, ContinuationsMatch
<1>5. i = m
  <2> SUFFICES ASSUME i < m PROVE FALSE
    BY <1>1, <1>3
  <2>1. FarLevel(far[i]) < FarLevel(far[m])
    BY <1>1, <1>3 DEF IInv, ContinuationsMatch
  <2> QED BY <1>1, <1>3, <1>4, <2>1
<1>6. Len(<<>>) = 0
  OBVIOUS
<1> QED BY <1>1, <1>3, <1>5, <1>6 DEF Top, m, n

(* Without its last frame, one that has no far subtree or whose far        *)
(* subtree goes with it, the rest of the stacks match.                     *)
LEMMA PopRestoreOnlyStep == ASSUME IInv, PopRestoreOnly PROVE IInv'
<1>1. /\ pc = "pop" /\ pc' = pc /\ tree' = tree /\ far' = far
      /\ cursor' = cursor
      /\ restore # <<>> /\ ~Top(restore).has_far
      /\ restore' = Popped(restore)
  BY DEF PopRestoreOnly
<1> DEFINE n == Len(restore)
<1>2. /\ n \in Nat \ {0} /\ DOMAIN restore = 1 .. n
      /\ IsSeq(restore) /\ IsSeq(far)
      /\ IsSeq(restore') /\ Len(restore') = n - 1
      /\ DOMAIN restore' = 1 .. n - 1
      /\ \A i \in 1 .. n - 1 : restore'[i] = restore[i]
  BY <1>1, IsSeqLen, PoppedSeq DEF IInv, Stacks
<1>3. ~restore[n].has_far
  BY <1>1 DEF Top
<1>4. Heights' /\ NotBegun' /\ Stacks'
  BY <1>1, <1>2 DEF IInv, Heights, NotBegun, Stacks
<1>5. Len(restore') <= tree'.max_stem_level + 1
  BY <1>1, <1>2 DEF IInv, Heights, ContinuationsMatch
<1> HIDE DEF n
<1>6. \A i \in DOMAIN far' : /\ FarLevel(far'[i]) \in DOMAIN restore'
                             /\ restore'[FarLevel(far'[i])].has_far
  <2> SUFFICES ASSUME NEW i \in DOMAIN far
               PROVE  /\ FarLevel(far[i]) \in 1 .. n - 1
                      /\ restore'[FarLevel(far[i])].has_far
    BY <1>1, <1>2
  <2>1. FarLevel(far[i]) \in 1 .. n /\ restore[FarLevel(far[i])].has_far
    BY <1>2 DEF IInv, ContinuationsMatch
  <2>2. FarLevel(far[i]) # n
    BY <1>3, <2>1
  <2> QED BY <1>2, <2>1, <2>2
<1>7. ContinuationsMatch'
  BY <1>1, <1>2, <1>5, <1>6 DEF IInv, ContinuationsMatch
<1> QED BY <1>4, <1>7 DEF IInv

LEMMA PopPrunedStep == ASSUME IInv, PopPruned PROVE IInv'
<1>1. /\ pc = "pop" /\ pc' = pc /\ tree' = tree /\ cursor' = cursor
      /\ restore # <<>> /\ Top(restore).has_far
      /\ restore' = Popped(restore) /\ far' = Popped(far)
  BY DEF PopPruned
<1> DEFINE n == Len(restore)
           m == Len(far)
<1>2. /\ n \in Nat \ {0} /\ DOMAIN restore = 1 .. n
      /\ IsSeq(restore') /\ Len(restore') = n - 1
      /\ DOMAIN restore' = 1 .. n - 1
      /\ \A i \in 1 .. n - 1 : restore'[i] = restore[i]
  BY <1>1, IsSeqLen, PoppedSeq DEF IInv, Stacks
<1>3. /\ m \in Nat \ {0} /\ DOMAIN far = 1 .. m
      /\ IsSeq(far') /\ DOMAIN far' = 1 .. m - 1
      /\ \A i \in 1 .. m - 1 : far'[i] = far[i]
      /\ FarLevel(far[m]) = n
  BY <1>1, IsSeqLen, PoppedSeq, TopsMatch DEF IInv, Stacks, Top
<1>4. Heights' /\ NotBegun' /\ Stacks'
  BY <1>1, <1>2, <1>3 DEF IInv, Heights, NotBegun, Stacks
<1>5. Len(restore') <= tree'.max_stem_level + 1
  BY <1>1, <1>2 DEF IInv, Heights, ContinuationsMatch
<1> HIDE DEF n, m
<1>6. \A i \in DOMAIN far' : /\ FarLevel(far'[i]) \in DOMAIN restore'
                             /\ restore'[FarLevel(far'[i])].has_far
  <2> SUFFICES ASSUME NEW i \in 1 .. m - 1
               PROVE  /\ FarLevel(far[i]) \in 1 .. n - 1
                      /\ restore'[FarLevel(far[i])].has_far
    BY <1>2, <1>3
  <2> i \in DOMAIN far
    BY <1>3
  <2>1. FarLevel(far[i]) \in 1 .. n /\ restore[FarLevel(far[i])].has_far
    BY <1>2 DEF IInv, ContinuationsMatch
  <2>2. FarLevel(far[i]) < FarLevel(far[m])
    BY <1>3 DEF IInv, ContinuationsMatch
  <2> QED BY <1>2, <1>3, <2>1, <2>2
<1>7. \A i, j \in DOMAIN far' : i < j => FarLevel(far'[i]) < FarLevel(far'[j])
  BY <1>3 DEF IInv, ContinuationsMatch
<1>8. \A p \in DOMAIN restore' :
         restore'[p].has_far => \E i \in DOMAIN far' : FarLevel(far'[i]) = p
  <2> SUFFICES ASSUME NEW p \in 1 .. n - 1, restore[p].has_far
               PROVE  \E i \in 1 .. m - 1 : FarLevel(far'[i]) = p
    BY <1>2, <1>3
  <2>1. PICK i \in 1 .. m : FarLevel(far[i]) = p
    BY <1>2, <1>3 DEF IInv, ContinuationsMatch
  <2>2. i # m
    BY <1>2, <1>3, <2>1
  <2> QED BY <1>3, <2>1, <2>2
<1>9. ContinuationsMatch'
  BY <1>1, <1>5, <1>6, <1>7, <1>8 DEF ContinuationsMatch
<1> QED BY <1>4, <1>9 DEF IInv

(* The frame stays, and no longer says it has a far subtree. *)
LEMMA PopEnteredStep == ASSUME IInv, PopEntered PROVE IInv'
<1>1. /\ pc = "pop" /\ pc' = "descend" /\ tree' = tree
      /\ cursor'.level = FarLevel(Top(far))
      /\ restore # <<>> /\ Top(restore).has_far
      /\ far' = Popped(far)
  BY DEF PopEntered, FarEntered, FarLevel
<1>2. PICK f : restore' = Append(Popped(restore), f) /\ ~f.has_far
  BY DEF PopEntered, RestoreOnly
<1> DEFINE n == Len(restore)
           m == Len(far)
<1>3. /\ n \in Nat \ {0} /\ DOMAIN restore = 1 .. n
      /\ IsSeq(Popped(restore)) /\ Len(Popped(restore)) = n - 1
      /\ \A i \in 1 .. n - 1 : Popped(restore)[i] = restore[i]
  BY <1>1, IsSeqLen, PoppedSeq DEF IInv, Stacks
<1>4. /\ IsSeq(restore') /\ Len(restore') = n
      /\ DOMAIN restore' = 1 .. n
      /\ \A i \in 1 .. n - 1 : restore'[i] = restore[i]
      /\ restore'[n] = f
  <2> HIDE DEF n
  <2>1. /\ IsSeq(restore') /\ Len(restore') = (n - 1) + 1
        /\ DOMAIN restore' = 1 .. (n - 1) + 1
        /\ \A i \in 1 .. n - 1 : restore'[i] = Popped(restore)[i]
        /\ restore'[(n - 1) + 1] = f
    BY <1>2, <1>3, AppendedSeq
  <2>2. (n - 1) + 1 = n
    BY <1>3
  <2> QED BY <1>3, <2>1, <2>2
<1>5. /\ m \in Nat \ {0} /\ DOMAIN far = 1 .. m
      /\ IsSeq(far') /\ DOMAIN far' = 1 .. m - 1
      /\ \A i \in 1 .. m - 1 : far'[i] = far[i]
      /\ FarLevel(far[m]) = n
      /\ cursor'.level = n
  BY <1>1, IsSeqLen, PoppedSeq, TopsMatch DEF IInv, Stacks, Top
<1>6. Heights' /\ NotBegun' /\ Stacks'
  BY <1>1, <1>3, <1>4, <1>5 DEF IInv, Heights, NotBegun, Stacks
<1>7. Len(restore') <= tree'.max_stem_level + 1 /\ Len(restore') = cursor'.level
  BY <1>1, <1>3, <1>4, <1>5 DEF IInv, Heights, ContinuationsMatch
<1> HIDE DEF n, m
<1>8. \A i \in DOMAIN far' : /\ FarLevel(far'[i]) \in DOMAIN restore'
                             /\ restore'[FarLevel(far'[i])].has_far
  <2> SUFFICES ASSUME NEW i \in 1 .. m - 1
               PROVE  /\ FarLevel(far[i]) \in 1 .. n
                      /\ restore'[FarLevel(far[i])].has_far
    BY <1>4, <1>5
  <2> i \in DOMAIN far
    BY <1>5
  <2>1. FarLevel(far[i]) \in 1 .. n /\ restore[FarLevel(far[i])].has_far
    BY <1>3 DEF IInv, ContinuationsMatch
  <2>2. FarLevel(far[i]) < FarLevel(far[m])
    BY <1>5 DEF IInv, ContinuationsMatch
  <2> QED BY <1>3, <1>4, <1>5, <2>1, <2>2
<1>9. \A i, j \in DOMAIN far' : i < j => FarLevel(far'[i]) < FarLevel(far'[j])
  BY <1>5 DEF IInv, ContinuationsMatch
<1>10. \A p \in DOMAIN restore' :
         restore'[p].has_far => \E i \in DOMAIN far' : FarLevel(far'[i]) = p
  <2> SUFFICES ASSUME NEW p \in 1 .. n, restore'[p].has_far
               PROVE  \E i \in 1 .. m - 1 : FarLevel(far'[i]) = p
    BY <1>4, <1>5
  <2>1. p \in 1 .. n - 1 /\ restore[p].has_far
    BY <1>2, <1>3, <1>4
  <2>2. PICK i \in 1 .. m : FarLevel(far[i]) = p
    BY <1>3, <1>5, <2>1 DEF IInv, ContinuationsMatch
  <2>3. i # m
    BY <1>3, <1>5, <2>1, <2>2
  <2> QED BY <1>5, <2>2, <2>3
<1>11. ContinuationsMatch'
  BY <1>7, <1>8, <1>9, <1>10 DEF ContinuationsMatch
<1> QED BY <1>6, <1>11 DEF IInv

-----------------------------------------------------------------------------
LEMMA NextStep == ASSUME IInv, [Next]_vars PROVE IInv'
<1>1. CASE UNCHANGED vars
  BY <1>1 DEF vars, IInv, Heights, Stacks, NotBegun, ContinuationsMatch
<1>2. CASE Next
  BY <1>2, AskStep, AskedEmptyStep, ApproximateStep, BeginStep, DescendCutStep,
     DescendUncutStep, ProcessLeafStep, PopRestoreOnlyStep, PopPrunedStep,
     PopEnteredStep, ReturnStep DEF Next
<1> QED BY <1>1, <1>2

(* The steps of a query keep the invariant. *)
THEOREM Invariance == Spec => []IInv
BY InitIInv, NextStep, PTL DEF Spec

(* The two stacks of arithmetic_query_with_scratch_impl are read in step:  *)
(* no more restore frames than levels, which their fixed capacity is for   *)
(* and only a debug assertion checks, and one far subtree for each frame   *)
(* that says it has one, in the same order; for every tree and query.      *)
THEOREM ContinuationsAlwaysMatch == Spec => []ContinuationsMatch
<1>1. IInv => ContinuationsMatch
  BY DEF IInv
<1> QED BY <1>1, Invariance, PTL

(* "scalar continuation far stack underflow" never happens: where a frame  *)
(* that is popped has a far subtree, the far stack holds one, whose root   *)
(* is a level below the stem the frame was left at.                        *)
THEOREM FarIsThere ==
  Spec => [](pc = "pop" /\ restore # <<>> /\ Top(restore).has_far
                => far # <<>> /\ FarLevel(Top(far)) = Len(restore))
<1>1. IInv => (pc = "pop" /\ restore # <<>> /\ Top(restore).has_far
                 => far # <<>> /\ FarLevel(Top(far)) = Len(restore))
  BY TopsMatch
<1> QED BY <1>1, Invariance, PTL
-----------------------------------------------------------------------------
(* A query begins in a region around its point, which is at no distance.   *)
LEMMA NowhereOff ==
    ASSUME NEW metric
    PROVE  NoOff \in [Dims -> Nat] /\ RegionDist(metric, NoOff) = 0
<1> DEFINE f == [d \in Dims |-> Dist1(metric, NoOff[d], 0)]
<1>1. NoOff \in [Dims -> Nat] /\ \A d \in Dims : NoOff[d] = 0
  BY DEF NoOff
<1>2. Dist1(metric, 0, 0) = 0
  BY DEF Dist1, AbsDiff
<1>3. f \in [Dims -> Nat] /\ \A d \in Dims : f[d] = 0
  BY <1>1, <1>2
<1> HIDE DEF f
<1>4. Combined(metric, f) = 0
  BY <1>3, CombinedZero
<1>5. QED
  BY <1>1, <1>4 DEF RegionDist, f

-----------------------------------------------------------------------------
(* The stems of a tree and the leaves below them.                          *)

Levels(t) == t.max_stem_level + 1

(* What a cursor of either layout has. *)
CursorOf(t, c) ==
    /\ c.level \in 0 .. Levels(t)
    /\ LeafIdxIn(t, c) \in Nat
    /\ t.block_height = 0 => c.stem \in Int

LEMMA BuiltLevels == ASSUME NEW t, IsBuilt(t) PROVE Levels(t) \in Nat
BY DEF IsBuilt, Levels

LEMMA CursorAtRoot ==
    ASSUME NEW t, IsBuilt(t)
    PROVE  /\ CursorOf(t, RootIn(t)) /\ RootIn(t).level = 0
           /\ LeafIdxIn(t, RootIn(t)) = 0
<1>1. Levels(t) \in Nat /\ 2 ^ 0 = 1
  BY BuiltLevels, PowerZero
<1>2. QED
  BY <1>1 DEF CursorOf, RootIn, RootOf, LeafIdxIn

(* The children of a stem have the leaf numbers below its own.             *)
LEMMA ChildCursor ==
    ASSUME NEW t, IsBuilt(t), NEW c, CursorOf(t, c), c.level < Levels(t),
           NEW side \in {0, 1}
    PROVE  LET child == ChildIn(t, c, side) IN
           /\ CursorOf(t, child) /\ child.level = c.level + 1
           /\ LeafIdxIn(t, child) = 2 * LeafIdxIn(t, c) + side
<1> DEFINE child == ChildIn(t, c, side)
           n == c.level
<1>1. Levels(t) \in Nat /\ n \in Nat /\ n < Levels(t)
      /\ LeafIdxIn(t, c) \in Nat
  BY BuiltLevels DEF CursorOf
<1>2. child.level = n + 1
  BY DEF ChildIn, Branch
<1>3. LeafIdxIn(t, child) = 2 * LeafIdxIn(t, c) + side
  <2>1. CASE t.block_height = 0
    <3>1. child.stem = 2 * c.stem + side /\ c.stem \in Int
      BY <2>1 DEF ChildIn, CursorOf
    <3>3. LeafIdxIn(t, c) = c.stem - 2 ^ n
      BY <2>1 DEF LeafIdxIn
    <3>4. 2 ^ (n + 1) = 2 * 2 ^ n /\ 2 ^ n \in Nat
      BY <1>1, PowerDoubles, PowerType
    <3> HIDE DEF n, child
    <3>2. LeafIdxIn(t, child) = child.stem - 2 ^ child.level
      BY <2>1 DEF LeafIdxIn
    <3>5. LeafIdxIn(t, child) = (2 * c.stem + side) - 2 * 2 ^ n
      BY <1>2, <3>1, <3>2, <3>4
    <3>6. QED
      BY <3>1, <3>3, <3>4, <3>5
  <2>2. CASE t.block_height # 0
    BY <2>2 DEF ChildIn, Branch, LeafIdxIn
  <2>3. QED
    BY <2>1, <2>2
<1>4. t.block_height = 0 => child.stem \in Int
  BY DEF ChildIn, CursorOf
<1> HIDE DEF n, child
<1>5. CursorOf(t, child)
  BY <1>1, <1>2, <1>3, <1>4 DEF CursorOf
<1>6. QED
  BY <1>2, <1>3, <1>5 DEF n, child

LEMMA UnderRange ==
    ASSUME NEW t, IsBuilt(t), NEW c, CursorOf(t, c)
    PROVE  LET w == 2 ^ (Levels(t) - c.level)
               i == LeafIdxIn(t, c)
           IN  /\ w \in Nat /\ w >= 1 /\ i \in Nat
               /\ Under(t, c) = i * w .. i * w + w - 1
<1>1. Levels(t) - c.level \in Nat /\ LeafIdxIn(t, c) \in Nat
  BY BuiltLevels DEF CursorOf
<1> DEFINE w == 2 ^ (Levels(t) - c.level)
           i == LeafIdxIn(t, c)
<1>2. w \in Nat /\ Levels(t) - c.level < w
  BY <1>1, PowerType
<1>3. Under(t, c) = i * w .. i * w + w - 1
  <2>1. t.max_stem_level + 1 - c.level = Levels(t) - c.level
    <3>1. t.max_stem_level \in Int
      BY DEF IsBuilt
    <3>2. c.level \in Int
      BY BuiltLevels DEF CursorOf
    <3>3. QED
      BY <3>1, <3>2 DEF Levels
  <2>2. QED
    BY <2>1 DEF Under
<1>4. w >= 1
  <2> HIDE DEF w
  <2> QED
    BY <1>1, <1>2
<1>5. QED
  BY <1>1, <1>2, <1>3, <1>4

(* Half of the leaves below a stem are on its left, half on its right.     *)
LEMMA UnderHalves ==
    ASSUME NEW t, IsBuilt(t), NEW c, CursorOf(t, c), c.level < Levels(t)
    PROVE  LET left  == Under(t, ChildIn(t, c, 0))
               right == Under(t, ChildIn(t, c, 1))
           IN  /\ Under(t, c) = left \cup right
               /\ left \cap right = {}
               /\ \A k \in right : \E j \in left : j < k
<1> DEFINE l == ChildIn(t, c, 0)
           r == ChildIn(t, c, 1)
           i == LeafIdxIn(t, c)
           w == 2 ^ (Levels(t) - c.level - 1)
<1>1. /\ CursorOf(t, l) /\ l.level = c.level + 1 /\ LeafIdxIn(t, l) = 2 * i
      /\ CursorOf(t, r) /\ r.level = c.level + 1 /\ LeafIdxIn(t, r) = 2 * i + 1
      /\ i \in Nat
  <2>1. 0 \in {0, 1} /\ 1 \in {0, 1} /\ i \in Nat
    BY DEF CursorOf
  <2>2. 2 * i + 0 = 2 * i
    BY <2>1
  <2>3. QED
    BY <2>1, <2>2, ChildCursor
<1>2. /\ Levels(t) - c.level \in Nat \ {0}
      /\ Levels(t) - (c.level + 1) = Levels(t) - c.level - 1
  BY BuiltLevels DEF CursorOf
<1>3. 2 ^ (Levels(t) - c.level) = 2 * w
  BY <1>2, PowerTwice
<1>4. /\ Under(t, l) = (2 * i) * w .. (2 * i) * w + w - 1
      /\ Under(t, r) = (2 * i + 1) * w .. (2 * i + 1) * w + w - 1
      /\ Under(t, c) = i * (2 * w) .. i * (2 * w) + 2 * w - 1
      /\ w \in Nat /\ w >= 1
  BY <1>1, <1>2, <1>3, UnderRange
<1> HIDE DEF l, r, i, w
<1>5. PICK m \in Nat : m = i * w
  BY <1>1, <1>4
<1>6. (2 * i) * w = 2 * m /\ (2 * i + 1) * w = 2 * m + w /\ i * (2 * w) = 2 * m
  BY <1>1, <1>4, <1>5
<1>7. /\ Under(t, l) = 2 * m .. 2 * m + w - 1
      /\ Under(t, r) = 2 * m + w .. 2 * m + w + w - 1
      /\ Under(t, c) = 2 * m .. 2 * m + 2 * w - 1
  BY <1>4, <1>6
<1> DEFINE a == 2 * m
<1>8. a \in Nat /\ w \in Nat /\ w >= 1
      /\ Under(t, l) = a .. a + w - 1
      /\ Under(t, r) = a + w .. a + w + w - 1
      /\ Under(t, c) = a .. a + 2 * w - 1
  BY <1>4, <1>7
<1> HIDE DEF a
<1>9. /\ Under(t, c) = Under(t, l) \cup Under(t, r)
      /\ Under(t, l) \cap Under(t, r) = {}
      /\ \A k \in Under(t, r) : \E j \in Under(t, l) : j < k
  <2> DEFINE A == a .. a + w - 1
             C == a + w .. a + w + w - 1
  <2>1. a .. a + 2 * w - 1 = A \cup C
    BY <1>8
  <2>2. A \cap C = {}
    BY <1>8
  <2>3. \A k \in C : a \in A /\ a < k
    BY <1>8
  <2> HIDE DEF A, C
  <2>4. Under(t, c) = A \cup C /\ Under(t, l) = A /\ Under(t, r) = C
    BY <1>8, <2>1 DEF A, C
  <2>5. QED
    BY <2>1, <2>2, <2>3, <2>4
<1>10. QED
  BY <1>9 DEF l, r

-----------------------------------------------------------------------------
(* The path to a leaf. *)

Turn(t, c, k) == IF k \in Under(t, ChildIn(t, c, 1)) THEN ChildIn(t, c, 1)
                 ELSE ChildIn(t, c, 0)

(* What PathTo goes through, up to the level n. *)
Walks(t, k, n, u) ==
    u = [level \in 0 .. n |->
            IF level = 0 THEN RootIn(t) ELSE Turn(t, u[level - 1], k)]

LEMMA WalkExists ==
    ASSUME NEW t, NEW k
    PROVE  \A n \in Nat : \E u : Walks(t, k, n, u)
<1> DEFINE bad == {n \in Nat : ~\E u : Walks(t, k, n, u)}
<1>1. SUFFICES ASSUME bad # {} PROVE FALSE
  OBVIOUS
<1>2. bad \in SUBSET Nat
  OBVIOUS
<1>3. PICK n \in bad : \A m \in bad : n <= m
  <2> HIDE DEF bad
  <2> QED
    BY <1>1, <1>2, LeastNatural
<1>4. n \in Nat /\ ~\E u : Walks(t, k, n, u)
  OBVIOUS
<1>5. CASE n = 0
  <2>1. Walks(t, k, 0, [level \in 0 .. 0 |-> RootIn(t)])
    BY DEF Walks
  <2>2. QED
    BY <1>4, <1>5, <2>1
<1>6. CASE n # 0
  <2>1. n - 1 \in Nat /\ ~(n <= n - 1)
    BY <1>4, <1>6
  <2>2. PICK u : Walks(t, k, n - 1, u)
    BY <1>3, <2>1
  <2> DEFINE v == [l \in 0 .. n |-> IF l = n THEN Turn(t, u[n - 1], k) ELSE u[l]]
  <2>3. \A l \in 0 .. n - 1 :
           u[l] = IF l = 0 THEN RootIn(t) ELSE Turn(t, u[l - 1], k)
    BY <2>2 DEF Walks
  <2>4. \A l \in 0 .. n :
           v[l] = IF l = 0 THEN RootIn(t) ELSE Turn(t, v[l - 1], k)
    <3> TAKE l \in 0 .. n
    <3>1. CASE l = n
      <4>1. v[l] = Turn(t, u[n - 1], k) /\ v[n - 1] = u[n - 1]
        BY <1>4, <1>6, <3>1
      <4> HIDE DEF v
      <4>2. QED
        BY <4>1, <3>1, <1>6
    <3>2. CASE l = 0
      BY <3>2, <2>3, <1>4, <1>6
    <3>3. CASE l # n /\ l # 0
      <4>1. l \in 0 .. n - 1 /\ l - 1 \in 0 .. n /\ l - 1 # n
        BY <1>4, <3>3
      <4>2. v[l] = u[l] /\ v[l - 1] = u[l - 1]
        BY <4>1, <3>3
      <4> HIDE DEF v
      <4>3. QED
        BY <4>1, <4>2, <2>3, <3>3
    <3>4. QED
      BY <3>1, <3>2, <3>3
  <2>5. Walks(t, k, n, v)
    <3>1. v = [l \in 0 .. n |-> v[l]]
      OBVIOUS
    <3> HIDE DEF v
    <3>2. QED
      BY <3>1, <2>4 DEF Walks
  <2>6. QED
    BY <2>5, <1>4
<1>7. QED
  BY <1>5, <1>6

(* A path begins at the root and turns to where the leaf is. *)
LEMMA PathTurns ==
    ASSUME NEW t, IsBuilt(t), NEW k
    PROVE  /\ PathTo(t, k)[0] = RootIn(t)
           /\ \A level \in 0 .. Levels(t) - 1 :
                 PathTo(t, k)[level + 1] = Turn(t, PathTo(t, k)[level], k)
<1> DEFINE Good(u) == Walks(t, k, Levels(t), u)
<1>1. Levels(t) \in Nat
  BY BuiltLevels
<1>2. \E u : Good(u)
  BY <1>1, WalkExists
<1>3. Good(CHOOSE u : Good(u))
  <2> HIDE DEF Good
  <2> QED
    BY <1>2
<1>4. PathTo(t, k) = CHOOSE u : Good(u)
  BY Zenon DEF PathTo, Walks, Turn, Levels
<1>5. Walks(t, k, Levels(t), PathTo(t, k))
  <2>1. Good(PathTo(t, k))
    <3> HIDE DEF Good
    <3> QED
      BY <1>3, <1>4
  <2>2. QED
    BY <2>1
<1> DEFINE p == PathTo(t, k)
           n == Levels(t)
<1> HIDE DEF p, n
<1>6. \A level \in 0 .. n :
         p[level] = IF level = 0 THEN RootIn(t) ELSE Turn(t, p[level - 1], k)
  <2>1. p = [level \in 0 .. n |->
               IF level = 0 THEN RootIn(t) ELSE Turn(t, p[level - 1], k)]
    BY <1>5 DEF Walks, p, n
  <2>2. QED
    BY <2>1
<1>7. n \in Nat
  BY <1>1 DEF n
<1>8. p[0] = RootIn(t)
  BY <1>6, <1>7
<1>9. \A level \in 0 .. n - 1 : p[level + 1] = Turn(t, p[level], k)
  <2> TAKE level \in 0 .. n - 1
  <2>1. level + 1 \in 0 .. n /\ level + 1 # 0 /\ (level + 1) - 1 = level
    BY <1>7
  <2>2. QED
    BY <2>1, <1>6
<1>10. QED
  BY <1>8, <1>9 DEF p, n
-----------------------------------------------------------------------------
(* What IsBuilt says, for a stem and the leaves below it. *)

Node(t, c) ==
    /\ CursorOf(t, c)
    /\ Under(t, c) \subseteq 0 .. 2 ^ Levels(t) - 1
    /\ \A k \in Under(t, c) : PathTo(t, k)[c.level] = c

HasLeaf(t, c) == \E leaf \in Under(t, c) : leaf < Len(t.leaves)

LEMMA RootNode ==
    ASSUME NEW t, IsBuilt(t)
    PROVE  /\ Node(t, RootIn(t))
           /\ Under(t, RootIn(t)) = 0 .. 2 ^ Levels(t) - 1
<1> DEFINE c == RootIn(t)
           w == 2 ^ Levels(t)
<1>1. Levels(t) \in Nat /\ CursorOf(t, c) /\ c.level = 0 /\ LeafIdxIn(t, c) = 0
  BY BuiltLevels, CursorAtRoot
<1>2. Levels(t) - c.level = Levels(t)
  BY <1>1
<1>3. w \in Nat
  BY <1>1, PowerType
<1>4. Under(t, c) = 0 * w .. 0 * w + w - 1
  <2>1. /\ 2 ^ (Levels(t) - c.level) = w
        /\ Under(t, c) =
             LeafIdxIn(t, c) * 2 ^ (Levels(t) - c.level)
             .. LeafIdxIn(t, c) * 2 ^ (Levels(t) - c.level)
                + 2 ^ (Levels(t) - c.level) - 1
    BY <1>1, <1>2, UnderRange
  <2>2. QED
    BY <2>1, <1>1
<1>5. \A k \in Under(t, c) : PathTo(t, k)[c.level] = c
  BY <1>1, PathTurns
<1> HIDE DEF w, c
<1>6. Under(t, c) = 0 .. w - 1
  BY <1>3, <1>4
<1>7. QED
  BY <1>1, <1>5, <1>6 DEF Node, w, c

LEMMA ChildNode ==
    ASSUME NEW t, IsBuilt(t), NEW c, Node(t, c), c.level < Levels(t),
           NEW side \in {0, 1}
    PROVE  Node(t, ChildIn(t, c, side))
<1> DEFINE l == ChildIn(t, c, 0)
           r == ChildIn(t, c, 1)
           child == ChildIn(t, c, side)
<1>1. CursorOf(t, c)
  BY DEF Node
<1>2. /\ Under(t, c) = Under(t, l) \cup Under(t, r)
      /\ Under(t, l) \cap Under(t, r) = {}
  BY <1>1, UnderHalves
<1>3. CursorOf(t, child) /\ child.level = c.level + 1
  BY <1>1, ChildCursor
<1>4. \/ side = 0 /\ child = l
      \/ side = 1 /\ child = r
  OBVIOUS
<1>5. c.level \in 0 .. Levels(t) - 1
  BY <1>1, BuiltLevels DEF CursorOf
<1>6. ASSUME NEW k \in Under(t, child)
      PROVE  PathTo(t, k)[child.level] = child
  <2>1. k \in Under(t, c)
    BY <1>2, <1>4
  <2>2. PathTo(t, k)[c.level] = c
    BY <2>1 DEF Node
  <2>3. PathTo(t, k)[c.level + 1] = Turn(t, c, k)
    BY <1>5, <2>2, PathTurns
  <2>4. Turn(t, c, k) = child
    <3>1. CASE side = 0
      <4>1. k \notin Under(t, r)
        BY <1>2, <1>4, <3>1
      <4>2. QED
        BY <3>1, <4>1 DEF Turn
    <3>2. CASE side = 1
      BY <3>2, <1>4 DEF Turn
    <3>3. QED
      BY <3>1, <3>2
  <2>5. QED
    BY <1>3, <2>3, <2>4
<1>7. Under(t, child) \subseteq 0 .. 2 ^ Levels(t) - 1
  BY <1>2, <1>4 DEF Node
<1> HIDE DEF child
<1>8. Node(t, child)
  BY <1>3, <1>6, <1>7 DEF Node
<1>9. QED
  BY <1>8 DEF child

(* There is a pivot at a stem, and a leaf on the right of one that cuts.   *)
LEMMA NodePivot ==
    ASSUME NEW t, IsBuilt(t), NEW c, Node(t, c), c.level < Levels(t)
    PROVE  /\ t.stems[c.stem] \in Int
           /\ t.stems[c.stem] < Infinity => HasLeaf(t, ChildIn(t, c, 1))
           /\ \A k \in Under(t, c) : k < Len(t.leaves) =>
                 \A n \in DOMAIN t.leaves[k + 1] :
                    LET x == t.points[t.leaves[k + 1][n]][DimOf(t, c.level)]
                    IN  IF k \in Under(t, ChildIn(t, c, 1))
                        THEN x >= t.stems[c.stem] ELSE x <= t.stems[c.stem]
<1>1. CursorOf(t, c)
  BY DEF Node
<1>2. c.level \in 0 .. Levels(t) - 1
  BY <1>1, BuiltLevels DEF CursorOf
<1>3. Under(t, c) # {}
  <2> DEFINE w == 2 ^ (Levels(t) - c.level)
             i == LeafIdxIn(t, c)
  <2>1. w \in Nat /\ w >= 1 /\ i \in Nat /\ Under(t, c) = i * w .. i * w + w - 1
    BY <1>1, UnderRange
  <2> HIDE DEF w, i
  <2>2. i * w \in Nat
    BY <2>1
  <2>3. i * w \in Under(t, c)
    BY <2>1, <2>2
  <2>4. QED
    BY <2>3
<1>4. \A k \in Under(t, c) : /\ k \in 0 .. 2 ^ Levels(t) - 1
                             /\ PathTo(t, k)[c.level] = c
  BY DEF Node
<1>5. \A k \in 0 .. 2 ^ Levels(t) - 1 : \A level \in 0 .. Levels(t) - 1 :
        LET stem  == PathTo(t, k)[level]
            right == Under(t, ChildIn(t, stem, 1))
            pivot == t.stems[stem.stem]
        IN
        /\ pivot \in Int
        /\ pivot < Infinity => \E leaf \in right : leaf < Len(t.leaves)
        /\ k < Len(t.leaves) =>
              \A n \in DOMAIN t.leaves[k + 1] :
                 LET x == t.points[t.leaves[k + 1][n]][DimOf(t, level)]
                 IN  IF k \in right THEN x >= pivot ELSE x <= pivot
  BY DEF IsBuilt, Levels
<1>6. \A k \in Under(t, c) :
        LET right == Under(t, ChildIn(t, c, 1))
            pivot == t.stems[c.stem]
        IN
        /\ pivot \in Int
        /\ pivot < Infinity => \E leaf \in right : leaf < Len(t.leaves)
        /\ k < Len(t.leaves) =>
              \A n \in DOMAIN t.leaves[k + 1] :
                 LET x == t.points[t.leaves[k + 1][n]][DimOf(t, c.level)]
                 IN  IF k \in right THEN x >= pivot ELSE x <= pivot
  <2> TAKE k \in Under(t, c)
  <2>1. k \in 0 .. 2 ^ Levels(t) - 1 /\ PathTo(t, k)[c.level] = c
    BY <1>4
  <2>2. QED
    BY <2>1, <1>2, <1>5
<1>7. QED
  BY <1>3, <1>6 DEF HasLeaf

(* A leaf below a stem leaves one on its left. *)
LEMMA LeftHasLeaf ==
    ASSUME NEW t, IsBuilt(t), NEW c, Node(t, c), c.level < Levels(t), HasLeaf(t, c)
    PROVE  HasLeaf(t, ChildIn(t, c, 0))
<1> DEFINE l == ChildIn(t, c, 0)
           r == ChildIn(t, c, 1)
<1>1. CursorOf(t, c)
  BY DEF Node
<1>2. /\ Under(t, c) = Under(t, l) \cup Under(t, r)
      /\ \A k \in Under(t, r) : \E j \in Under(t, l) : j < k
  BY <1>1, UnderHalves
<1>3. PICK k \in Under(t, c) : k < Len(t.leaves)
  BY DEF HasLeaf
<1>4. Len(t.leaves) \in Nat
  BY DEF IsBuilt
<1>5. CASE k \in Under(t, l)
  BY <1>3, <1>5 DEF HasLeaf
<1>6. CASE k \in Under(t, r)
  <2>1. PICK j \in Under(t, l) : j < k
    BY <1>2, <1>6
  <2>2. Under(t, c) \subseteq 0 .. 2 ^ Levels(t) - 1
    BY DEF Node
  <2> HIDE DEF l, r
  <2>3. j \in Int /\ k \in Int
    BY <1>2, <1>3, <2>1, <2>2
  <2>4. j < Len(t.leaves)
    BY <1>3, <1>4, <2>1, <2>3
  <2>5. QED
    BY <2>4 DEF HasLeaf, l
<1>7. QED
  BY <1>2, <1>3, <1>5, <1>6

(* At the bottom, a stem is a leaf. *)
LEMMA NodeIsLeaf ==
    ASSUME NEW t, IsBuilt(t), NEW c, Node(t, c), c.level = Levels(t)
    PROVE  Under(t, c) = {LeafIdxIn(t, c)}
<1> DEFINE w == 2 ^ (Levels(t) - c.level)
           i == LeafIdxIn(t, c)
<1>1. i \in Nat /\ Under(t, c) = i * w .. i * w + w - 1
  BY UnderRange DEF Node
<1>2. Levels(t) - c.level = 0
  BY BuiltLevels
<1>3. w = 1
  BY <1>2, PowerZero
<1> HIDE DEF w, i
<1>4. Under(t, c) = i .. i
  BY <1>1, <1>3
<1>5. QED
  BY <1>1, <1>4 DEF i

(* The entries in a leaf are points a descent can tell apart. *)
LEMMA EntryPoint ==
    ASSUME NEW t, IsBuilt(t), NEW k \in 0 .. Len(t.leaves) - 1,
           NEW n \in DOMAIN t.leaves[k + 1]
    PROVE  /\ t.leaves[k + 1][n] \in DOMAIN t.points
           /\ t.points[t.leaves[k + 1][n]] \in [Dims -> 1 - Infinity .. Infinity - 1]
           /\ t.points[t.leaves[k + 1][n]] \in [Dims -> Int]
<1>1. /\ t.points \in Seq([Dims -> 1 - Infinity .. Infinity - 1])
      /\ t.leaves \in Seq(Seq(DOMAIN t.points))
  BY DEF IsBuilt
<1>2. k + 1 \in 1 .. Len(t.leaves)
  BY <1>1
<1>3. t.leaves[k + 1] \in Seq(DOMAIN t.points)
  BY <1>1, <1>2
<1>4. t.leaves[k + 1][n] \in DOMAIN t.points
  BY <1>3
<1>5. t.points[t.leaves[k + 1][n]] \in [Dims -> 1 - Infinity .. Infinity - 1]
  <2> DEFINE S == [Dims -> 1 - Infinity .. Infinity - 1]
  <2>1. t.points \in Seq(S)
    BY <1>1
  <2> HIDE DEF S
  <2>2. t.points[t.leaves[k + 1][n]] \in S
    BY <2>1, <1>4
  <2>3. QED
    BY <2>2 DEF S
<1>6. 1 - Infinity .. Infinity - 1 \subseteq Int
  BY MetricAssumption
<1>7. QED
  BY <1>4, <1>5, <1>6
-----------------------------------------------------------------------------
(* The entries below the stems, for the query that is asked. *)

IsQuery(q) ==
    /\ q.point \in [Dims -> Int]
    /\ q.max_qty \in Nat \ {0}
    /\ q.radius \in Nat
    /\ q.exclusive \in BOOLEAN

Going == IsBuilt(tree) /\ IsQuery(query)

(* What has been collected is what a collection may hold. *)
Collected ==
    /\ results \in Seq(Int)
    /\ Ascending(results)
    /\ Len(results) <= query.max_qty

(* The n nearest, once all that are within the radius in the leaves ks     *)
(* were collected too.                                                     *)
Finally(ks) ==
    NearestAmong(query.max_qty, results, Accepted(ks, query.radius))

LEMMA AskedIsGoing ==
    /\ \A t \in Trees : IsBuilt(t)
    /\ \A q \in Queries : IsQuery(q)
<1>1. \A t \in Trees : IsBuilt(t)
  BY ArithmeticAssumption
<1>2. ASSUME NEW q \in Queries PROVE IsQuery(q)
  BY <1>2, ArithmeticAssumption DEF IsQuery
<1>3. QED
  BY <1>1, <1>2

LEMMA LeavesBelowType ==
    ASSUME Going, NEW c, Node(tree, c)
    PROVE  LeavesBelow(c) \subseteq AllLeaves
<1>1. Len(tree.leaves) \in Nat
  BY DEF Going, IsBuilt
<1>2. Under(tree, c) \subseteq Nat
  <2>1. Under(tree, c) \subseteq 0 .. 2 ^ Levels(tree) - 1
    BY DEF Node
  <2>2. QED
    BY <2>1
<1>3. QED
  BY <1>1, <1>2 DEF LeavesBelow, AllLeaves

LEMMA MeasuredType ==
    ASSUME Going, NEW ks \in SUBSET AllLeaves
    PROVE  /\ IsFiniteSet(Measured(ks))
           /\ \A e \in Measured(ks) : e.dist \in Nat
<1> DEFINE row(k, n) == [leaf |-> k, row |-> n,
                         dist |-> PointDist(Metric, tree.points[tree.leaves[k + 1][n]],
                                            query.point)]
           rows(k) == {row(k, n) : n \in DOMAIN tree.leaves[k + 1]}
           all == {rows(k) : k \in ks}
<1>1. Measured(ks) = UNION all
  BY DEF Measured
<1>2. /\ Len(tree.leaves) \in Nat
      /\ tree.leaves \in Seq(Seq(DOMAIN tree.points))
  BY DEF Going, IsBuilt
<1>3. ks \subseteq 0 .. Len(tree.leaves) - 1
  BY DEF AllLeaves
<1>4. ASSUME NEW k \in ks PROVE IsFiniteSet(rows(k))
  <2>1. k + 1 \in DOMAIN tree.leaves
    BY <1>2, <1>3
  <2>2. tree.leaves[k + 1] \in Seq(DOMAIN tree.points)
    BY <1>2, <2>1
  <2> DEFINE D == DOMAIN tree.leaves[k + 1]
             f == [n \in D |-> row(k, n)]
  <2>3. IsFiniteSet(D)
    <3>1. D = 1 .. Len(tree.leaves[k + 1]) /\ Len(tree.leaves[k + 1]) \in Nat
      BY <2>2
    <3>2. QED
      BY <3>1, FS_Interval
  <2>4. f \in [D -> rows(k)] /\ \A e \in rows(k) : \E n \in D : f[n] = e
    OBVIOUS
  <2> HIDE DEF D, f, rows
  <2>5. QED
    BY <2>3, <2>4, FiniteImage
<1>5. IsFiniteSet(ks)
  <2>1. IsFiniteSet(0 .. Len(tree.leaves) - 1)
    BY <1>2, FS_Interval
  <2>2. QED
    BY <2>1, <1>3, FS_Subset
<1>6. IsFiniteSet(all)
  <2> DEFINE f == [k \in ks |-> rows(k)]
  <2>1. f \in [ks -> all] /\ \A s \in all : \E k \in ks : f[k] = s
    OBVIOUS
  <2> HIDE DEF f, all
  <2>2. QED
    BY <2>1, <1>5, FiniteImage
<1>7. IsFiniteSet(UNION all)
  <2>1. \A s \in all : IsFiniteSet(s)
    BY <1>4
  <2> HIDE DEF all
  <2>2. QED
    BY <2>1, <1>6, FS_UNION
<1>8. ASSUME NEW k \in ks, NEW n \in DOMAIN tree.leaves[k + 1]
      PROVE  row(k, n).dist \in Nat
  <2>1. k \in 0 .. Len(tree.leaves) - 1
    BY <1>3
  <2>2. tree.points[tree.leaves[k + 1][n]] \in [Dims -> Int]
    BY <2>1, EntryPoint DEF Going
  <2>3. query.point \in [Dims -> Int]
    BY DEF Going, IsQuery
  <2>4. QED
    BY <2>2, <2>3, PointDistType
<1>9. \A e \in UNION all : e.dist \in Nat
  BY <1>8
<1>10. QED
  BY <1>1, <1>7, <1>9

LEMMA AcceptedType ==
    ASSUME Going, NEW ks \in SUBSET AllLeaves, NEW b, NEW got \in Seq(Int)
    PROVE  IsCollection(got, Accepted(ks, b))
<1>1. IsFiniteSet(Accepted(ks, b))
  BY MeasuredType, FS_Subset DEF Accepted
<1>2. \A e \in Accepted(ks, b) : e.dist \in Int
  BY MeasuredType DEF Accepted
<1>3. QED
  BY <1>1, <1>2 DEF IsCollection

(* The entries of leaves are those of some and those of the others.        *)
LEMMA MeasuredApart ==
    ASSUME NEW ks, NEW ls
    PROVE  /\ Measured(ks \cup ls) = Measured(ks) \cup Measured(ls)
           /\ ks \cap ls = {} => Measured(ks) \cap Measured(ls) = {}
<1> DEFINE row(k, n) == [leaf |-> k, row |-> n,
                         dist |-> PointDist(Metric, tree.points[tree.leaves[k + 1][n]],
                                            query.point)]
           rows(k) == {row(k, n) : n \in DOMAIN tree.leaves[k + 1]}
<1>1. \A js : Measured(js) = UNION {rows(k) : k \in js}
  BY DEF Measured
<1>2. \A k : \A e \in rows(k) : e.leaf = k
  OBVIOUS
<1> HIDE DEF rows
<1>3. \A js : \A e : e \in Measured(js) <=> \E k \in js : e \in rows(k)
  BY <1>1
<1>4. QED
  BY <1>2, <1>3

LEMMA AcceptedApart ==
    ASSUME NEW ks, NEW ls, NEW b
    PROVE  Accepted(ks \cup ls, b) = Accepted(ks, b) \cup Accepted(ls, b)
BY MeasuredApart DEF Accepted

(* What max_dist leaves out of what is within the radius is no nearer than *)
(* the last of max_qty collected.                                          *)
LEMMA MaxDistBounds ==
    ASSUME Going, Collected
    PROVE  /\ MaxDist \in Int
           /\ \A x \in Int : Accepts(x, MaxDist) => Accepts(x, query.radius)
           /\ \A x \in Int :
                 Accepts(x, query.radius) /\ ~Accepts(x, MaxDist) =>
                 Len(results) = query.max_qty /\ results[query.max_qty] <= x
<1>1. /\ query.max_qty \in Nat \ {0} /\ query.radius \in Nat
      /\ query.exclusive \in BOOLEAN /\ results \in Seq(Int)
  BY DEF Going, IsQuery, Collected
<1>2. CASE Len(results) = query.max_qty
  <2>1. results[query.max_qty] \in Int
    BY <1>1, <1>2
  <2>2. MaxDist = Lesser(results[query.max_qty], query.radius)
    BY <1>2 DEF MaxDist
  <2>3. QED
    BY <1>1, <1>2, <2>1, <2>2 DEF Lesser, Accepts
<1>3. CASE Len(results) # query.max_qty
  BY <1>1, <1>3 DEF MaxDist
<1>4. QED
  BY <1>2, <1>3

(* Leaves all of whose entries max_dist leaves out make no difference.     *)
LEMMA LeavingOut ==
    ASSUME Going, Collected, NEW ks \in SUBSET AllLeaves, NEW fewer \in SUBSET ks,
           \A e \in Measured(ks \ fewer) : ~Accepts(e.dist, MaxDist)
    PROVE  Finally(fewer) = Finally(ks)
<1> DEFINE n == query.max_qty
           found == Accepted(ks, query.radius)
           less == Accepted(fewer, query.radius)
<1>1. n \in Nat \ {0}
  BY DEF Going, IsQuery
<1>2. IsCollection(results, found) /\ Ascending(results)
  BY AcceptedType DEF Collected
<1>3. Measured(ks) = Measured(fewer) \cup Measured(ks \ fewer)
  <2>1. ks = fewer \cup (ks \ fewer)
    OBVIOUS
  <2>2. QED
    BY <2>1, MeasuredApart
<1>4. less \in SUBSET found
  BY <1>3 DEF Accepted
<1>5. ASSUME NEW s \in found \ less
      PROVE  Len(results) = n /\ results[n] <= s.dist
  <2>1. s \in Measured(ks) /\ Accepts(s.dist, query.radius)
    BY DEF Accepted
  <2>2. s \in Measured(ks \ fewer)
    BY <2>1, <1>3 DEF Accepted
  <2>3. s.dist \in Int
    BY <2>1, MeasuredType
  <2>4. QED
    BY <2>1, <2>2, <2>3, MaxDistBounds
<1> HIDE DEF n, found, less
<1>6. NearestAmong(n, results, less) = NearestAmong(n, results, found)
  BY <1>1, <1>2, <1>4, <1>5, FartherIsNotMissed
<1>7. QED
  BY <1>6 DEF Finally, n, found, less

(* A leaf that is looked into is done with. *)
LEMMA LeafCollected ==
    ASSUME Going, Collected, NEW k \in AllLeaves, NEW rest \in SUBSET AllLeaves,
           k \notin rest
    PROVE  LET r == NearestAmong(query.max_qty, results, Accepted({k}, MaxDist)) IN
           /\ r \in Seq(Int) /\ Ascending(r) /\ Len(r) <= query.max_qty
           /\ NearestAmong(query.max_qty, r, Accepted(rest, query.radius))
                 = Finally({k} \cup rest)
<1> DEFINE n == query.max_qty
           here == Accepted({k}, MaxDist)
           others == Accepted(rest, query.radius)
           found == Accepted({k} \cup rest, query.radius)
           r == NearestAmong(n, results, here)
<1>1. n \in Nat \ {0} /\ results \in Seq(Int) /\ Ascending(results)
  BY DEF Going, IsQuery, Collected
<1>2. {k} \in SUBSET AllLeaves /\ {k} \cup rest \in SUBSET AllLeaves
  OBVIOUS
<1>3. /\ IsCollection(results, here) /\ IsCollection(results, others)
      /\ IsCollection(results, found)
  BY <1>1, <1>2, AcceptedType
<1>4. Ranks(r, n, results, here)
  BY <1>1, <1>3, NearestRanks
<1> HIDE DEF r, n
<1>5. r \in Seq(Int) /\ Ascending(r) /\ Len(r) <= n
  <2> HIDE DEF here
  <2> QED
    BY <1>1, <1>3, <1>4, RanksAscend DEF Ascending
<1>6. here \cap others = {}
  <2>1. Measured({k}) \cap Measured(rest) = {}
    <3>1. {k} \cap rest = {}
      OBVIOUS
    <3>2. QED
      BY <3>1, MeasuredApart
  <2>2. QED
    BY <2>1 DEF Accepted
<1>7. NearestAmong(n, r, others) = NearestAmong(n, results, here \cup others)
  <2> HIDE DEF here, others
  <2> QED
    BY <1>1, <1>3, <1>6, NearestOfBoth DEF r
<1>8. here \cup others \in SUBSET found
  <2>1. ASSUME NEW e \in here PROVE e \in Accepted({k}, query.radius)
    <3>1. e \in Measured({k}) /\ e.dist \in Int /\ Accepts(e.dist, MaxDist)
      BY <1>2, MeasuredType DEF Accepted
    <3>2. QED
      BY <3>1, MaxDistBounds DEF Accepted
  <2>2. found = Accepted({k}, query.radius) \cup others
    BY AcceptedApart
  <2> HIDE DEF here, others, found
  <2>3. QED
    BY <2>1, <2>2
<1>9. ASSUME NEW s \in found \ (here \cup others)
      PROVE  Len(results) = n /\ results[n] <= s.dist
  <2>1. s \in Accepted({k}, query.radius)
    <3>1. found = Accepted({k}, query.radius) \cup others
      BY AcceptedApart
    <3> HIDE DEF here, others, found
    <3>2. QED
      BY <3>1
  <2>2. s \in Measured({k}) /\ Accepts(s.dist, query.radius) /\ s.dist \in Int
    BY <2>1, <1>2, MeasuredType DEF Accepted
  <2>3. ~Accepts(s.dist, MaxDist)
    BY <2>2 DEF Accepted
  <2>4. QED
    BY <2>2, <2>3, MaxDistBounds DEF n
<1> HIDE DEF here, others, found
<1>10. NearestAmong(n, results, here \cup others) = NearestAmong(n, results, found)
  BY <1>1, <1>3, <1>8, <1>9, FartherIsNotMissed
<1>11. QED
  BY <1>5, <1>7, <1>10 DEF Finally, n, r, here, others, found
-----------------------------------------------------------------------------
(* Regions: an offset on each axis that no entry below a stem is within.   *)

Beyond(ks, o) ==
    \A k \in ks : \A n \in DOMAIN tree.leaves[k + 1] : \A d \in Dims :
        o[d] <= AbsDiff(tree.points[tree.leaves[k + 1][n]][d], query.point[d])

Inside(c, o) ==
    /\ Node(tree, c)
    /\ HasLeaf(tree, c)
    /\ Beyond(LeavesBelow(c), o)

(* What max_dist leaves out of a region, it leaves out of the entries in it. *)
LEMMA RegionLeftOut ==
    ASSUME Going, NEW c, NEW o \in [Dims -> Nat], Inside(c, o), NEW b \in Int
    PROVE  /\ ~Accepts(RegionDist(Metric, o), b) =>
                 \A e \in Measured(LeavesBelow(c)) : ~Accepts(e.dist, b)
           /\ RegionDist(Metric, o) > b =>
                 \A e \in Measured(LeavesBelow(c)) : ~Accepts(e.dist, b)
<1> DEFINE ks == LeavesBelow(c)
<1>1. ks \in SUBSET AllLeaves
  BY LeavesBelowType DEF Inside
<1>2. RegionDist(Metric, o) \in Nat
  BY RegionDistType
<1>3. ASSUME NEW e \in Measured(ks)
      PROVE  e.dist \in Nat /\ RegionDist(Metric, o) <= e.dist
  <2>0. PICK k \in ks : \E n \in DOMAIN tree.leaves[k + 1] :
           e.dist = PointDist(Metric, tree.points[tree.leaves[k + 1][n]], query.point)
    BY DEF Measured
  <2>1. PICK n \in DOMAIN tree.leaves[k + 1] :
           e.dist = PointDist(Metric, tree.points[tree.leaves[k + 1][n]], query.point)
    BY <2>0
  <2>2. k \in 0 .. Len(tree.leaves) - 1
    BY <1>1 DEF AllLeaves
  <2> DEFINE p == tree.points[tree.leaves[k + 1][n]]
  <2>3. p \in [Dims -> Int]
    BY <2>2, EntryPoint DEF Going
  <2>4. query.point \in [Dims -> Int]
    BY DEF Going, IsQuery
  <2>5. \A d \in Dims : o[d] <= AbsDiff(p[d], query.point[d])
    BY DEF Inside, Beyond
  <2> HIDE DEF p
  <2>6. RegionDist(Metric, o) <= PointDist(Metric, p, query.point)
    BY <2>3, <2>4, <2>5, RegionIsFar
  <2>7. e.dist \in Nat
    BY <1>1, MeasuredType
  <2>8. QED
    BY <2>1, <2>6, <2>7 DEF p
<1> HIDE DEF ks
<1>4. query.exclusive \in BOOLEAN
  BY DEF Going, IsQuery
<1>5. \A x \in Int : RegionDist(Metric, o) <= x =>
         /\ ~Accepts(RegionDist(Metric, o), b) => ~Accepts(x, b)
         /\ RegionDist(Metric, o) > b => ~Accepts(x, b)
  BY <1>2, <1>4 DEF Accepts
<1>6. QED
  BY <1>3, <1>5 DEF ks

(* The leaves below a stem are on its left and on its right, apart.        *)
LEMMA LeavesOfChildren ==
    ASSUME Going, NEW c, Node(tree, c), c.level < Levels(tree)
    PROVE  LET l == LeavesBelow(ChildIn(tree, c, 0))
               r == LeavesBelow(ChildIn(tree, c, 1))
           IN  LeavesBelow(c) = l \cup r /\ l \cap r = {}
<1>1. /\ Under(tree, c) = Under(tree, ChildIn(tree, c, 0))
                              \cup Under(tree, ChildIn(tree, c, 1))
      /\ Under(tree, ChildIn(tree, c, 0)) \cap Under(tree, ChildIn(tree, c, 1)) = {}
  BY UnderHalves DEF Going, Node
<1>2. QED
  BY <1>1 DEF LeavesBelow

(* The children of a stem that cuts: the one on the side of the query is   *)
(* in the region of the stem, the other in it and beyond the cut.          *)
LEMMA CutRegions ==
    ASSUME Going, NEW c, NEW o \in [Dims -> Nat], Inside(c, o),
           c.level < Levels(tree), tree.stems[c.stem] < Infinity,
           DimOf(tree, c.level) \in Dims
    PROVE  LET d     == DimOf(tree, c.level)
               pivot == tree.stems[c.stem]
               coord == query.point[d]
               side  == IF coord >= pivot THEN 1 ELSE 0
               there == [o EXCEPT ![d] = AbsDiff(coord, pivot)]
           IN  /\ AbsDiff(coord, pivot) \in Nat
               /\ Inside(ChildIn(tree, c, side), o)
               /\ Inside(ChildIn(tree, c, 1 - side), there)
<1> DEFINE d     == DimOf(tree, c.level)
           pivot == tree.stems[c.stem]
           coord == query.point[d]
           side  == IF coord >= pivot THEN 1 ELSE 0
           there == [o EXCEPT ![d] = AbsDiff(coord, pivot)]
           near  == ChildIn(tree, c, side)
           other == ChildIn(tree, c, 1 - side)
<1>1. Node(tree, c) /\ HasLeaf(tree, c) /\ Beyond(LeavesBelow(c), o)
      /\ IsBuilt(tree) /\ query.point \in [Dims -> Int]
  BY DEF Inside, Going, IsQuery
<1>2. pivot \in Int /\ coord \in Int /\ AbsDiff(coord, pivot) \in Nat
  <2>1. pivot \in Int
    BY <1>1, NodePivot
  <2>2. coord \in Int
    BY <1>1
  <2> HIDE DEF pivot, coord
  <2>3. QED
    BY <2>1, <2>2 DEF AbsDiff
<1>3. side \in {0, 1} /\ 1 - side \in {0, 1}
  OBVIOUS
<1>4. Node(tree, near) /\ Node(tree, other)
  BY <1>1, <1>3, ChildNode
<1>5. HasLeaf(tree, ChildIn(tree, c, 0)) /\ HasLeaf(tree, ChildIn(tree, c, 1))
  BY <1>1, NodePivot, LeftHasLeaf
<1>6. HasLeaf(tree, near) /\ HasLeaf(tree, other)
  BY <1>3, <1>5
<1>7. /\ LeavesBelow(near) \subseteq LeavesBelow(c)
      /\ LeavesBelow(other) \subseteq LeavesBelow(c)
  BY <1>1, <1>3, LeavesOfChildren
<1>8. Beyond(LeavesBelow(near), o)
  BY <1>1, <1>7 DEF Beyond
<1>9. ASSUME NEW k \in LeavesBelow(other), NEW n \in DOMAIN tree.leaves[k + 1],
             NEW a \in Dims
      PROVE  there[a] <= AbsDiff(tree.points[tree.leaves[k + 1][n]][a], query.point[a])
  <2> DEFINE p == tree.points[tree.leaves[k + 1][n]]
  <2>1. o[a] <= AbsDiff(p[a], query.point[a])
    BY <1>1, <1>7 DEF Beyond
  <2>2. CASE a # d
    BY <2>1, <2>2
  <2>3. CASE a = d
    <3>1. k \in AllLeaves /\ k \in Under(tree, c) /\ k < Len(tree.leaves)
          /\ k \in Under(tree, other)
      BY <1>1, <1>7, LeavesBelowType DEF LeavesBelow
    <3>2. p \in [Dims -> Int]
      BY <1>1, <3>1, EntryPoint DEF AllLeaves
    <3>3. IF k \in Under(tree, ChildIn(tree, c, 1)) THEN p[d] >= pivot
          ELSE p[d] <= pivot
      BY <1>1, <3>1, NodePivot
    <3>4. IF coord >= pivot THEN p[d] <= pivot ELSE p[d] >= pivot
      <4>1. CASE coord >= pivot
        <5>1. other = ChildIn(tree, c, 0)
          BY <4>1
        <5>2. Under(tree, ChildIn(tree, c, 0))
                 \cap Under(tree, ChildIn(tree, c, 1)) = {}
          BY <1>1, UnderHalves DEF Node
        <5>3. k \notin Under(tree, ChildIn(tree, c, 1))
          BY <3>1, <5>1, <5>2
        <5>4. QED
          BY <3>3, <4>1, <5>3
      <4>2. CASE ~(coord >= pivot)
        <5>1. other = ChildIn(tree, c, 1)
          BY <4>2
        <5>2. QED
          BY <3>1, <3>3, <4>2, <5>1
      <4>3. QED
        BY <4>1, <4>2
    <3>5. there[a] = AbsDiff(coord, pivot)
      BY <2>3
    <3>6. p[d] \in Int /\ p[a] = p[d] /\ query.point[a] = coord
      BY <2>3, <3>2
    <3> HIDE DEF p, pivot, coord, there, d
    <3>7. there[a] <= AbsDiff(p[a], query.point[a])
      BY <1>2, <3>4, <3>5, <3>6 DEF AbsDiff
    <3>8. QED
      BY <3>7 DEF p, there
  <2>4. QED
    BY <2>2, <2>3
<1>10. Beyond(LeavesBelow(other), there)
  BY <1>9 DEF Beyond
<1> HIDE DEF there, near, other
<1>11. Inside(near, o) /\ Inside(other, there)
  BY <1>4, <1>6, <1>8, <1>10 DEF Inside
<1>12. QED
  BY <1>2, <1>11 DEF there, near, other

(* Where a stem does not cut, all entries below it are on its left.        *)
LEMMA UncutRegion ==
    ASSUME Going, NEW c, NEW o, Inside(c, o), c.level < Levels(tree),
           ~(tree.stems[c.stem] < Infinity), DimOf(tree, c.level) \in Dims
    PROVE  LET left == ChildIn(tree, c, 0) IN
           /\ Inside(left, o)
           /\ LeavesBelow(left) \subseteq LeavesBelow(c)
           /\ Measured(LeavesBelow(c) \ LeavesBelow(left)) = {}
<1> DEFINE d     == DimOf(tree, c.level)
           pivot == tree.stems[c.stem]
           left  == ChildIn(tree, c, 0)
           right == ChildIn(tree, c, 1)
<1>1. Node(tree, c) /\ HasLeaf(tree, c) /\ Beyond(LeavesBelow(c), o)
      /\ IsBuilt(tree)
  BY DEF Inside, Going
<1>2. Node(tree, left) /\ HasLeaf(tree, left)
  BY <1>1, ChildNode, LeftHasLeaf
<1>3. LeavesBelow(c) = LeavesBelow(left) \cup LeavesBelow(right)
  BY <1>1, LeavesOfChildren
<1>4. Beyond(LeavesBelow(left), o)
  BY <1>1, <1>3 DEF Beyond
<1>5. ASSUME NEW k \in LeavesBelow(right), NEW n \in DOMAIN tree.leaves[k + 1]
      PROVE  FALSE
  <2> DEFINE p == tree.points[tree.leaves[k + 1][n]]
  <2>1. k \in AllLeaves /\ k \in Under(tree, c) /\ k < Len(tree.leaves)
        /\ k \in Under(tree, right)
    BY <1>1, <1>3, LeavesBelowType DEF LeavesBelow
  <2>2. p \in [Dims -> 1 - Infinity .. Infinity - 1]
    BY <1>1, <2>1, EntryPoint DEF AllLeaves
  <2>3. p[d] >= pivot /\ pivot \in Int
    BY <1>1, <2>1, NodePivot
  <2>4. p[d] \in 1 - Infinity .. Infinity - 1 /\ Infinity \in Int
    BY <2>2, MetricAssumption
  <2> HIDE DEF p, d, pivot
  <2>5. ~(pivot < Infinity)
    BY DEF pivot
  <2>6. QED
    BY <2>3, <2>4, <2>5
<1>6. Measured(LeavesBelow(c) \ LeavesBelow(left)) = {}
  <2>1. LeavesBelow(c) \ LeavesBelow(left) \subseteq LeavesBelow(right)
    BY <1>3
  <2>2. QED
    BY <1>5, <2>1 DEF Measured
<1> HIDE DEF left
<1>7. QED
  BY <1>2, <1>3, <1>4, <1>6 DEF Inside, left
-----------------------------------------------------------------------------
(* The offsets of the regions on the path, from the root to the region the *)
(* query is in, and of the far subtrees beside it.                         *)

FarRegion(offs, f) ==
    [offs[FarLevel(f)] EXCEPT ![(FarLevel(f) - 1) % K] = f.far_off]

Framing(offs, o, frames, fars) ==
    /\ offs \in [0 .. Len(frames) -> [Dims -> Nat]]
    /\ o = offs[Len(frames)]
    /\ \A p \in 1 .. Len(frames) :
          offs[p - 1] = [offs[p] EXCEPT ![(p - 1) % K] = frames[p].old_off]
    /\ \A n \in DOMAIN fars :
          /\ fars[n].far_off \in Nat
          /\ fars[n].rd = RegionDist(Metric, FarRegion(offs, fars[n]))
          /\ Inside(fars[n].state, FarRegion(offs, fars[n]))

(* The far subtrees are those of the first n levels. *)
Within(fars, n) == \A i \in DOMAIN fars : FarLevel(fars[i]) \in 1 .. n

LEMMA AxisOfLevel == \A n \in Nat : n % K \in Dims
BY MetricAssumption DEF Dims

LEMMA FramingType ==
    ASSUME NEW offs, NEW o, NEW frames, IsSeq(frames), NEW fars,
           Framing(offs, o, frames, fars)
    PROVE  o \in [Dims -> Nat]
<1> DEFINE n == Len(frames)
<1>1. n \in Nat
  BY IsSeqLen
<1>2. offs \in [0 .. n -> [Dims -> Nat]] /\ o = offs[n]
  BY DEF Framing
<1> HIDE DEF n
<1>3. QED
  BY <1>1, <1>2

(* One level down, in the same region. *)
LEMMA FramingDown ==
    ASSUME NEW offs, NEW o, NEW frames, IsSeq(frames), NEW fars,
           Framing(offs, o, frames, fars), Within(fars, Len(frames)),
           NEW e, e.old_off = o[Len(frames) % K]
    PROVE  \E offs2 : /\ Framing(offs2, o, Append(frames, e), fars)
                      /\ offs2[Len(frames) + 1] = o
<1> DEFINE n == Len(frames)
           frames2 == Append(frames, e)
           offs2 == [p \in 0 .. n + 1 |-> IF p = n + 1 THEN o ELSE offs[p]]
<1>1. n \in Nat /\ n % K \in Dims
  BY IsSeqLen, AxisOfLevel
<1>2. /\ Len(frames2) = n + 1
      /\ \A p \in 1 .. n : frames2[p] = frames[p]
      /\ frames2[n + 1] = e
  BY AppendedSeq
<1>3. offs \in [0 .. n -> [Dims -> Nat]] /\ o = offs[n] /\ o \in [Dims -> Nat]
  BY FramingType DEF Framing
<1>4. \A p \in 1 .. n :
         offs[p - 1] = [offs[p] EXCEPT ![(p - 1) % K] = frames[p].old_off]
  BY DEF Framing
<1>5. \A i \in DOMAIN fars :
         /\ FarLevel(fars[i]) \in 1 .. n
         /\ fars[i].far_off \in Nat
         /\ fars[i].rd = RegionDist(Metric, FarRegion(offs, fars[i]))
         /\ Inside(fars[i].state, FarRegion(offs, fars[i]))
  BY DEF Framing, Within
<1>6. /\ \A p \in 0 .. n : offs2[p] = offs[p]
      /\ offs2[n + 1] = o
  BY <1>1
<1>7. offs2 \in [0 .. n + 1 -> [Dims -> Nat]]
  BY <1>1, <1>3
<1>8. e.old_off = o[n % K]
  OBVIOUS
<1> HIDE DEF offs2, frames2, n
<1>9. ASSUME NEW p \in 1 .. n + 1
      PROVE  offs2[p - 1] = [offs2[p] EXCEPT ![(p - 1) % K] = frames2[p].old_off]
  <2>1. CASE p \in 1 .. n
    <3>1. offs2[p - 1] = offs[p - 1] /\ offs2[p] = offs[p] /\ frames2[p] = frames[p]
      BY <1>1, <1>2, <1>6, <2>1
    <3>2. QED
      BY <1>4, <2>1, <3>1
  <2>2. CASE p = n + 1
    <3>1. offs2[p - 1] = o /\ offs2[p] = o /\ frames2[p] = e /\ p - 1 = n
      BY <1>1, <1>2, <1>3, <1>6, <2>2
    <3>2. o = [o EXCEPT ![n % K] = o[n % K]]
      BY <1>1, <1>3
    <3>3. QED
      BY <1>8, <3>1, <3>2
  <2>3. QED
    BY <1>1, <2>1, <2>2
<1>10. \A i \in DOMAIN fars : FarRegion(offs2, fars[i]) = FarRegion(offs, fars[i])
  <2> TAKE i \in DOMAIN fars
  <2>1. offs2[FarLevel(fars[i])] = offs[FarLevel(fars[i])]
    BY <1>1, <1>5, <1>6
  <2>2. QED
    BY <2>1 DEF FarRegion
<1>11. Framing(offs2, o, frames2, fars)
  BY <1>2, <1>5, <1>6, <1>7, <1>9, <1>10 DEF Framing
<1>12. QED
  BY <1>6, <1>11 DEF frames2, n

(* A far subtree that is noted. *)
LEMMA FramingNoted ==
    ASSUME NEW offs, NEW o, NEW frames, NEW fars, IsSeq(fars),
           Framing(offs, o, frames, fars), NEW g, g.far_off \in Nat,
           g.rd = RegionDist(Metric, FarRegion(offs, g)),
           Inside(g.state, FarRegion(offs, g))
    PROVE  Framing(offs, o, frames, Append(fars, g))
<1> DEFINE m == Len(fars)
           fars2 == Append(fars, g)
<1>1. /\ m \in Nat /\ DOMAIN fars = 1 .. m /\ DOMAIN fars2 = 1 .. m + 1
      /\ \A i \in 1 .. m : fars2[i] = fars[i]
      /\ fars2[m + 1] = g
  BY IsSeqLen, AppendedSeq
<1> HIDE DEF fars2, m
<1>2. ASSUME NEW i \in DOMAIN fars2
      PROVE  /\ fars2[i].far_off \in Nat
             /\ fars2[i].rd = RegionDist(Metric, FarRegion(offs, fars2[i]))
             /\ Inside(fars2[i].state, FarRegion(offs, fars2[i]))
  <2>1. CASE i = m + 1
    <3>1. fars2[i] = g
      BY <1>1, <2>1
    <3>2. QED
      BY <3>1
  <2>2. CASE i \in 1 .. m
    <3>1. fars2[i] = fars[i] /\ i \in DOMAIN fars
      BY <1>1, <2>2
    <3>2. QED
      BY <3>1 DEF Framing
  <2>3. QED
    BY <1>1, <2>1, <2>2
<1>3. Framing(offs, o, frames, fars2)
  BY <1>2 DEF Framing
<1>4. QED
  BY <1>3 DEF fars2

(* Fewer far subtrees. *)
LEMMA FramingForgotten ==
    ASSUME NEW offs, NEW o, NEW frames, NEW fars, IsSeq(fars), fars # <<>>,
           Framing(offs, o, frames, fars)
    PROVE  Framing(offs, o, frames, Popped(fars))
<1> DEFINE fars2 == Popped(fars)
<1>1. \A i \in DOMAIN fars2 : i \in DOMAIN fars /\ fars2[i] = fars[i]
  <2> DEFINE m == Len(fars)
  <2>1. /\ m \in Nat /\ DOMAIN fars = 1 .. m /\ DOMAIN fars2 = 1 .. m - 1
        /\ \A i \in 1 .. m - 1 : fars2[i] = fars[i]
    BY PoppedSeq, IsSeqLen
  <2> HIDE DEF fars2, m
  <2>2. QED
    BY <2>1
<1> HIDE DEF fars2
<1>2. Framing(offs, o, frames, fars2)
  BY <1>1 DEF Framing
<1>3. QED
  BY <1>2 DEF fars2

(* One level up: the offset is put back. *)
LEMMA FramingUp ==
    ASSUME NEW offs, NEW o, NEW frames, IsSeq(frames), frames # <<>>, NEW fars,
           Framing(offs, o, frames, fars), Within(fars, Len(frames) - 1)
    PROVE  \E offs2 : Framing(offs2,
                              [o EXCEPT ![(Len(frames) - 1) % K] = Top(frames).old_off],
                              Popped(frames), fars)
<1> DEFINE n == Len(frames)
           frames2 == Popped(frames)
           offs2 == [p \in 0 .. n - 1 |-> offs[p]]
           o2 == [o EXCEPT ![(n - 1) % K] = frames[n].old_off]
<1>1. /\ n \in Nat \ {0} /\ Len(frames2) = n - 1
      /\ \A p \in 1 .. n - 1 : frames2[p] = frames[p]
  BY PoppedSeq
<1>2. offs \in [0 .. n -> [Dims -> Nat]] /\ o = offs[n]
  BY DEF Framing
<1>3. \A p \in 1 .. n :
         offs[p - 1] = [offs[p] EXCEPT ![(p - 1) % K] = frames[p].old_off]
  BY DEF Framing
<1>4. \A i \in DOMAIN fars :
         /\ FarLevel(fars[i]) \in 1 .. n - 1
         /\ fars[i].far_off \in Nat
         /\ fars[i].rd = RegionDist(Metric, FarRegion(offs, fars[i]))
         /\ Inside(fars[i].state, FarRegion(offs, fars[i]))
  BY DEF Framing, Within
<1>5. o2 = offs[n - 1]
  <2>1. n \in 1 .. n
    BY <1>1
  <2> HIDE DEF n
  <2>2. offs[n - 1] = [offs[n] EXCEPT ![(n - 1) % K] = frames[n].old_off]
    BY <1>3, <2>1
  <2>3. QED
    BY <1>2, <2>2
<1>6. offs2 \in [0 .. n - 1 -> [Dims -> Nat]]
      /\ \A p \in 0 .. n - 1 : offs2[p] = offs[p]
  BY <1>1, <1>2
<1> HIDE DEF offs2, frames2, n, o2
<1>7. \A p \in 1 .. n - 1 :
         offs2[p - 1] = [offs2[p] EXCEPT ![(p - 1) % K] = frames2[p].old_off]
  <2> TAKE p \in 1 .. n - 1
  <2>1. offs2[p - 1] = offs[p - 1] /\ offs2[p] = offs[p] /\ frames2[p] = frames[p]
    BY <1>1, <1>6
  <2>2. p \in 1 .. n
    BY <1>1
  <2>3. QED
    BY <1>3, <2>1, <2>2
<1>8. \A i \in DOMAIN fars : FarRegion(offs2, fars[i]) = FarRegion(offs, fars[i])
  <2> TAKE i \in DOMAIN fars
  <2>1. offs2[FarLevel(fars[i])] = offs[FarLevel(fars[i])]
    BY <1>1, <1>4, <1>6
  <2>2. QED
    BY <2>1 DEF FarRegion
<1>9. o2 = offs2[n - 1]
  BY <1>1, <1>5, <1>6
<1>10. Framing(offs2, o2, frames2, fars)
  BY <1>1, <1>4, <1>6, <1>7, <1>8, <1>9 DEF Framing
<1>11. QED
  BY <1>10 DEF o2, frames2, n, Top

(* Into the far subtree of the last frame, in whose place a frame remains  *)
(* that puts back the same offset.                                         *)
LEMMA FramingEntered ==
    ASSUME NEW offs, NEW o, NEW frames, IsSeq(frames), frames # <<>>, NEW fars,
           Framing(offs, o, frames, fars), Within(fars, Len(frames) - 1),
           NEW x \in Nat, NEW e, e.old_off = Top(frames).old_off
    PROVE  \E offs2 : Framing(offs2, [o EXCEPT ![(Len(frames) - 1) % K] = x],
                              Append(Popped(frames), e), fars)
<1> DEFINE n == Len(frames)
           frames2 == Append(Popped(frames), e)
           o2 == [o EXCEPT ![(n - 1) % K] = x]
           offs2 == [p \in 0 .. n |-> IF p = n THEN o2 ELSE offs[p]]
<1>1. /\ n \in Nat \ {0}
      /\ Len(frames2) = n
      /\ \A p \in 1 .. n - 1 : frames2[p] = frames[p]
      /\ frames2[n].old_off = frames[n].old_off
  <2>1. /\ IsSeq(Popped(frames)) /\ n \in Nat \ {0}
        /\ Len(Popped(frames)) = n - 1
        /\ \A p \in 1 .. n - 1 : Popped(frames)[p] = frames[p]
    BY PoppedSeq
  <2>2. e.old_off = frames[n].old_off
    BY DEF Top
  <2> HIDE DEF n
  <2>3. /\ Len(frames2) = (n - 1) + 1
        /\ \A p \in 1 .. n - 1 : frames2[p] = Popped(frames)[p]
        /\ frames2[(n - 1) + 1] = e
    BY <2>1, AppendedSeq
  <2>4. (n - 1) + 1 = n
    BY <2>1
  <2>5. QED
    BY <2>1, <2>2, <2>3, <2>4
<1>2. offs \in [0 .. n -> [Dims -> Nat]] /\ o = offs[n] /\ o \in [Dims -> Nat]
  BY FramingType DEF Framing
<1>3. \A p \in 1 .. n :
         offs[p - 1] = [offs[p] EXCEPT ![(p - 1) % K] = frames[p].old_off]
  BY DEF Framing
<1>4. \A i \in DOMAIN fars :
         /\ FarLevel(fars[i]) \in 1 .. n - 1
         /\ fars[i].far_off \in Nat
         /\ fars[i].rd = RegionDist(Metric, FarRegion(offs, fars[i]))
         /\ Inside(fars[i].state, FarRegion(offs, fars[i]))
  BY DEF Framing, Within
<1>5. (n - 1) % K \in Dims
  <2> HIDE DEF n
  <2>1. n - 1 \in Nat
    BY <1>1
  <2>2. QED
    BY <2>1, AxisOfLevel
<1>6. o2 \in [Dims -> Nat]
  BY <1>2, <1>5
<1>7. offs[n - 1] = [o2 EXCEPT ![(n - 1) % K] = frames[n].old_off]
  <2>1. offs[n - 1] = [o EXCEPT ![(n - 1) % K] = frames[n].old_off]
    <3>1. n \in 1 .. n
      BY <1>1
    <3> HIDE DEF n
    <3>2. QED
      BY <1>2, <1>3, <3>1
  <2> HIDE DEF n
  <2>2. QED
    BY <2>1, <1>2, <1>5
<1> HIDE DEF o2
<1>8. /\ offs2 \in [0 .. n -> [Dims -> Nat]]
      /\ \A p \in 0 .. n - 1 : offs2[p] = offs[p]
      /\ offs2[n] = o2
  BY <1>1, <1>2, <1>6
<1> HIDE DEF offs2, frames2, n
<1>9. ASSUME NEW p \in 1 .. n
      PROVE  offs2[p - 1] = [offs2[p] EXCEPT ![(p - 1) % K] = frames2[p].old_off]
  <2>1. CASE p = n
    <3>1. offs2[p - 1] = offs[n - 1]
      BY <1>1, <1>8, <2>1
    <3>2. QED
      BY <1>1, <1>7, <1>8, <2>1, <3>1
  <2>2. CASE p \in 1 .. n - 1
    <3>1. offs2[p - 1] = offs[p - 1] /\ offs2[p] = offs[p] /\ frames2[p] = frames[p]
      BY <1>1, <1>8, <2>2
    <3>2. QED
      BY <1>3, <3>1
  <2>3. QED
    BY <1>1, <2>1, <2>2
<1>10. \A i \in DOMAIN fars : FarRegion(offs2, fars[i]) = FarRegion(offs, fars[i])
  <2> TAKE i \in DOMAIN fars
  <2>1. offs2[FarLevel(fars[i])] = offs[FarLevel(fars[i])]
    BY <1>1, <1>4, <1>8
  <2>2. QED
    BY <2>1 DEF FarRegion
<1>11. Framing(offs2, o2, frames2, fars)
  BY <1>1, <1>4, <1>8, <1>9, <1>10 DEF Framing
<1>12. QED
  BY <1>11 DEF o2, frames2, n
-----------------------------------------------------------------------------
(* The far subtrees are disjoint. *)

FarLeaves(fars) == UNION {LeavesBelow(fars[n].state) : n \in DOMAIN fars}

Separate(fars) ==
    \A m, n \in DOMAIN fars :
        m # n => LeavesBelow(fars[m].state) \cap LeavesBelow(fars[n].state) = {}

LEMMA FarLeavesNoted ==
    ASSUME NEW fars, IsSeq(fars), NEW g
    PROVE  /\ FarLeaves(Append(fars, g)) = FarLeaves(fars) \cup LeavesBelow(g.state)
           /\ Separate(fars) /\ LeavesBelow(g.state) \cap FarLeaves(fars) = {}
                 => Separate(Append(fars, g))
<1> DEFINE m == Len(fars)
           fars2 == Append(fars, g)
           below(f) == LeavesBelow(f.state)
<1>1. /\ m \in Nat /\ DOMAIN fars = 1 .. m /\ DOMAIN fars2 = 1 .. m + 1
      /\ \A i \in 1 .. m : fars2[i] = fars[i]
      /\ fars2[m + 1] = g
  BY IsSeqLen, AppendedSeq
<1>2. FarLeaves(fars2) = UNION {below(fars2[i]) : i \in DOMAIN fars2}
      /\ FarLeaves(fars) = UNION {below(fars[i]) : i \in DOMAIN fars}
  BY DEF FarLeaves
<1>3. /\ Separate(fars) <=> \A i, j \in DOMAIN fars :
            i # j => below(fars[i]) \cap below(fars[j]) = {}
      /\ Separate(fars2) <=> \A i, j \in DOMAIN fars2 :
            i # j => below(fars2[i]) \cap below(fars2[j]) = {}
  BY DEF Separate
<1> HIDE DEF fars2, m, below
<1>4. DOMAIN fars2 = DOMAIN fars \cup {m + 1} /\ m + 1 \notin DOMAIN fars
  BY <1>1
<1>5. FarLeaves(fars2) = FarLeaves(fars) \cup below(g)
  BY <1>1, <1>2, <1>4
<1>6. ASSUME Separate(fars), below(g) \cap FarLeaves(fars) = {}
      PROVE  Separate(fars2)
  <2>1. \A i \in DOMAIN fars : below(fars[i]) \cap below(g) = {}
    BY <1>2, <1>6
  <2>2. QED
    BY <1>1, <1>3, <1>4, <1>6, <2>1
<1>7. QED
  BY <1>5, <1>6 DEF fars2, below

LEMMA FarLeavesPopped ==
    ASSUME NEW fars, IsSeq(fars), fars # <<>>
    PROVE  /\ FarLeaves(fars) = FarLeaves(Popped(fars)) \cup LeavesBelow(Top(fars).state)
           /\ Separate(fars) =>
                 /\ Separate(Popped(fars))
                 /\ LeavesBelow(Top(fars).state) \cap FarLeaves(Popped(fars)) = {}
<1> DEFINE m == Len(fars)
           fars2 == Popped(fars)
           below(f) == LeavesBelow(f.state)
<1>1. /\ m \in Nat \ {0} /\ DOMAIN fars = 1 .. m /\ DOMAIN fars2 = 1 .. m - 1
      /\ \A i \in 1 .. m - 1 : fars2[i] = fars[i]
      /\ Top(fars) = fars[m]
  BY IsSeqLen, PoppedSeq DEF Top
<1>2. FarLeaves(fars2) = UNION {below(fars2[i]) : i \in DOMAIN fars2}
      /\ FarLeaves(fars) = UNION {below(fars[i]) : i \in DOMAIN fars}
  BY DEF FarLeaves
<1>3. /\ Separate(fars) <=> \A i, j \in DOMAIN fars :
            i # j => below(fars[i]) \cap below(fars[j]) = {}
      /\ Separate(fars2) <=> \A i, j \in DOMAIN fars2 :
            i # j => below(fars2[i]) \cap below(fars2[j]) = {}
  BY DEF Separate
<1> HIDE DEF fars2, m, below
<1>4. /\ DOMAIN fars = DOMAIN fars2 \cup {m} /\ m \notin DOMAIN fars2
      /\ \A i \in DOMAIN fars2 : fars2[i] = fars[i]
  BY <1>1
<1>5. FarLeaves(fars) = FarLeaves(fars2) \cup below(fars[m])
  BY <1>2, <1>4
<1>6. ASSUME Separate(fars)
      PROVE  Separate(fars2) /\ below(fars[m]) \cap FarLeaves(fars2) = {}
  <2>1. \A i \in DOMAIN fars2 : below(fars2[i]) \cap below(fars[m]) = {}
    BY <1>3, <1>4, <1>6
  <2>2. Separate(fars2)
    BY <1>3, <1>4, <1>6
  <2>3. QED
    BY <1>2, <2>1, <2>2
<1>7. QED
  BY <1>1, <1>5, <1>6 DEF fars2, below

LEMMA FarLeavesType ==
    ASSUME Going, NEW offs, NEW o, NEW frames, NEW fars, Framing(offs, o, frames, fars)
    PROVE  FarLeaves(fars) \subseteq AllLeaves
<1>1. ASSUME NEW n \in DOMAIN fars
      PROVE  LeavesBelow(fars[n].state) \subseteq AllLeaves
  BY LeavesBelowType DEF Framing, Inside
<1>2. QED
  BY <1>1 DEF FarLeaves

-----------------------------------------------------------------------------
(* The inductive invariant of an exact query. *)

(* What is asked, and what nothing has changed before the query begins.    *)
Asking ==
    /\ pc # "idle" => tree \in Trees /\ query \in Queries
    /\ pc \in {"idle", "start"} => off = NoOff /\ rd = 0 /\ results = <<>>
    /\ pc \in {"descend", "pop"} => ~query.approx
    /\ pc = "done" => far = <<>>
    /\ pc = "pop" => dim = Len(restore) % K

Framed == \E offs : Framing(offs, off, restore, far)

(* A descent is in a region it has the distance of, apart from the far     *)
(* subtrees.                                                               *)
Descent(o, r, c, fars) ==
    /\ Inside(c, o)
    /\ r = RegionDist(Metric, o)
    /\ LeavesBelow(c) \cap FarLeaves(fars) = {}

Descending == pc = "descend" => Descent(off, rd, cursor, far)

Apart == Separate(far)

Collecting == pc # "idle" /\ ~query.approx => Collected

ExactInv ==
    /\ IInv
    /\ Asking
    /\ Framed
    /\ Descending
    /\ Apart
    /\ Collecting
    /\ NothingPrunedWasNear

Here(p, c) == IF p = "start" THEN LeavesBelow(Root)
              ELSE IF p = "descend" THEN LeavesBelow(c) ELSE {}

PendingIsKnown == PendingLeaves = FarLeaves(far) \cup Here(pc, cursor)

LEMMA PendingIs == PendingIsKnown
<1> USE DEF PendingIsKnown
<1>1. CASE pc = "start"
  BY <1>1 DEF PendingLeaves, Pending, FarLeaves, Here
<1>2. CASE pc = "descend"
  BY <1>2 DEF PendingLeaves, Pending, FarLeaves, Here
<1>3. CASE pc # "start" /\ pc # "descend"
  BY <1>3 DEF PendingLeaves, Pending, FarLeaves, Here
<1>4. QED
  BY <1>1, <1>2, <1>3

LEMMA AskedGoing ==
    ASSUME Asking, pc # "idle"
    PROVE  Going
BY AskedIsGoing DEF Asking, Going

(* What a step of a query has to keep. *)
LEMMA Carried ==
    ASSUME tree' = tree, query' = query
    PROVE  /\ (\E offs : Framing(offs, off', restore', far')) => Framed'
           /\ Separate(far') => Apart'
           /\ (pc' = "descend" => Descent(off', rd', cursor', far')) => Descending'
           /\ Here(pc, cursor)' = Here(pc', cursor')
           /\ FarLeaves(far)' = FarLeaves(far')
           /\ AllLeaves' = AllLeaves
           /\ \A ks, b : Accepted(ks, b)' = Accepted(ks, b)
<1>1. \A c : LeavesBelow(c)' = LeavesBelow(c)
  BY DEF LeavesBelow
<1>2. (\E offs : Framing(offs, off', restore', far')) => Framed'
  <2>1. SUFFICES ASSUME NEW offs, Framing(offs, off', restore', far')
                 PROVE  Framed'
    OBVIOUS
  <2>2. \A n \in DOMAIN far' : Inside(far'[n].state, FarRegion(offs, far'[n]))
    BY <2>1 DEF Framing
  <2>3. \A n \in DOMAIN far' : Inside(far[n].state, FarRegion(offs, far[n]))'
    BY <2>2 DEF Inside, Beyond, LeavesBelow
  <2>4. Framing(offs, off, restore, far)'
    BY <2>1, <2>3 DEF Framing
  <2>5. QED
    BY <2>4 DEF Framed
<1>3. Separate(far') => Apart'
  BY DEF Separate, Apart, LeavesBelow
<1>4. (pc' = "descend" => Descent(off', rd', cursor', far')) => Descending'
  BY DEF Descending, Descent, Inside, Beyond, LeavesBelow, FarLeaves
<1>5. Here(pc, cursor)' = Here(pc', cursor')
  BY DEF Here, LeavesBelow, Root
<1>6. FarLeaves(far)' = FarLeaves(far')
  BY DEF FarLeaves, LeavesBelow
<1>7. AllLeaves' = AllLeaves
  BY DEF AllLeaves
<1>8. \A ks, b : Accepted(ks, b)' = Accepted(ks, b)
  BY DEF Accepted, Measured, Accepts
<1>9. QED
  BY <1>2, <1>3, <1>4, <1>5, <1>6, <1>7, <1>8
-----------------------------------------------------------------------------
(* The steps of a query. *)

(* A step that loses nothing leaves the query exact.                       *)
LEMMA ExactCarried ==
    ASSUME tree' = tree, query' = query, pc # "idle", NothingPrunedWasNear,
           ~query.approx =>
              NearestAmong(query.max_qty, results',
                           Accepted(FarLeaves(far') \cup Here(pc', cursor'),
                                    query.radius))
                 = Finally(FarLeaves(far) \cup Here(pc, cursor))
    PROVE  NothingPrunedWasNear'
<1>1. PendingLeaves = FarLeaves(far) \cup Here(pc, cursor)
  BY PendingIs DEF PendingIsKnown
<1>2. PendingLeaves' = FarLeaves(far') \cup Here(pc', cursor')
  <2>1. PendingIsKnown'
    BY PendingIs, PTL
  <2>2. PendingLeaves' = FarLeaves(far)' \cup Here(pc, cursor)'
    BY <2>1 DEF PendingIsKnown
  <2>3. QED
    BY <2>2, Carried
<1>3. ~query.approx =>
         Finally(PendingLeaves)
            = NearestAmong(query.max_qty, <<>>, Accepted(AllLeaves, query.radius))
  BY DEF NothingPrunedWasNear, Finally
<1>4. ~query.approx =>
         NearestAmong(query.max_qty, results', Accepted(PendingLeaves', query.radius))
            = NearestAmong(query.max_qty, <<>>, Accepted(AllLeaves, query.radius))
  BY <1>1, <1>2, <1>3
<1>5. /\ Accepted(PendingLeaves, query.radius)' = Accepted(PendingLeaves', query.radius)
      /\ Accepted(AllLeaves, query.radius)' = Accepted(AllLeaves, query.radius)
  BY DEF Accepted, Measured, Accepts, AllLeaves
<1>6. QED
  BY <1>4, <1>5 DEF NothingPrunedWasNear

(* No frame, no far subtree, nowhere off. *)
LEMMA FramingStarts == \E offs : Framing(offs, NoOff, <<>>, <<>>)
<1> DEFINE offs == [p \in 0 .. 0 |-> NoOff]
<1>1. Len(<<>>) = 0 /\ DOMAIN <<>> = {}
  OBVIOUS
<1>2. offs \in [0 .. 0 -> [Dims -> Nat]] /\ offs[0] = NoOff
  BY NowhereOff
<1> HIDE DEF offs
<1>3. Framing(offs, NoOff, <<>>, <<>>)
  BY <1>1, <1>2 DEF Framing
<1>4. QED
  BY <1>3

RootCovers == Going => LeavesBelow(Root) = AllLeaves

LEMMA RootCovered == RootCovers
<1> SUFFICES ASSUME Going PROVE LeavesBelow(Root) = AllLeaves
  BY DEF RootCovers
<1>1. Under(tree, Root) = 0 .. 2 ^ Levels(tree) - 1
  BY RootNode DEF Going, Root
<1>2. Len(tree.leaves) \in Nat /\ Len(tree.leaves) <= 2 ^ (tree.max_stem_level + 1)
  BY DEF Going, IsBuilt
<1>3. Levels(tree) \in Nat
  BY BuiltLevels DEF Going
<1>4. 2 ^ Levels(tree) \in Nat
  BY <1>3, PowerType
<1> DEFINE w == 2 ^ Levels(tree)
<1>5. w \in Nat /\ Len(tree.leaves) <= w
  BY <1>2, <1>4 DEF Levels
<1> HIDE DEF w
<1>6. Under(tree, Root) = 0 .. w - 1
  BY <1>1 DEF w
<1>7. QED
  BY <1>2, <1>5, <1>6 DEF LeavesBelow, AllLeaves

(* With no far subtree, what is left is where the query is. *)
LEMMA NothingFar == FarLeaves(<<>>) = {} /\ Separate(<<>>)
BY DEF FarLeaves, Separate

LEMMA NothingCollected ==
    ASSUME NEW n \in Nat PROVE <<>> \in Seq(Int) /\ Ascending(<<>>) /\ Len(<<>>) <= n
BY DEF Ascending

LEMMA InitExact == ASSUME Init PROVE ExactInv
<1>1. /\ pc = "idle" /\ off = NoOff /\ rd = 0 /\ results = <<>>
      /\ restore = <<>> /\ far = <<>>
  BY DEF Init
<1>2. IInv
  BY InitIInv
<1>3. Asking /\ Descending /\ Collecting /\ NothingPrunedWasNear
  BY <1>1 DEF Asking, Descending, Collecting, NothingPrunedWasNear
<1>4. Framed
  BY <1>1, FramingStarts DEF Framed
<1>5. Apart
  BY <1>1, NothingFar DEF Apart
<1>6. QED
  BY <1>2, <1>3, <1>4, <1>5 DEF ExactInv

LEMMA AskExact == ASSUME ExactInv, Ask PROVE ExactInv'
<1>1. /\ pc = "idle" /\ off = NoOff /\ rd = 0 /\ results = <<>>
      /\ restore = <<>> /\ far = <<>>
  BY DEF Ask, ExactInv, IInv, NotBegun, Asking
<1>2. /\ pc' = "start" /\ tree' \in Trees /\ query' \in Queries
      /\ off' = NoOff /\ rd' = 0 /\ results' = <<>> /\ restore' = <<>> /\ far' = <<>>
  BY <1>1 DEF Ask
<1>3. IInv'
  BY AskStep DEF ExactInv
<1>4. Asking'
  BY <1>2 DEF Asking
<1>5. Framed'
  <2>1. PICK offs : Framing(offs, NoOff, <<>>, <<>>)
    BY FramingStarts
  <2>2. DOMAIN <<>> = {}
    OBVIOUS
  <2>3. Framing(offs, off, restore, far)'
    BY <1>2, <2>1, <2>2 DEF Framing
  <2>4. QED
    BY <2>3 DEF Framed
<1>6. Descending'
  BY <1>2 DEF Descending
<1>7. Apart'
  BY <1>2 DEF Apart, Separate
<1>8. Going'
  BY <1>2, AskedIsGoing DEF Going
<1>9. Collecting'
  <2>1. query'.max_qty \in Nat
    BY <1>8 DEF Going, IsQuery
  <2>2. <<>> \in Seq(Int) /\ Ascending(<<>>) /\ Len(<<>>) <= query'.max_qty
    BY <2>1, NothingCollected
  <2>3. QED
    BY <1>2, <2>2 DEF Collecting, Collected
<1>10. NothingPrunedWasNear'
  <2>1. PendingIsKnown' /\ RootCovers'
    BY PendingIs, RootCovered, PTL
  <2>2. LeavesBelow(Root)' = AllLeaves'
    BY <2>1, <1>8 DEF RootCovers
  <2>3. Here(pc, cursor)' = LeavesBelow(Root)'
    BY <1>2 DEF Here
  <2>4. FarLeaves(far)' = {}
    BY <1>2 DEF FarLeaves
  <2>5. PendingLeaves' = AllLeaves'
    BY <2>1, <2>2, <2>3, <2>4 DEF PendingIsKnown
  <2>6. QED
    BY <1>2, <2>5 DEF NothingPrunedWasNear
<1>11. QED
  BY <1>3, <1>4, <1>5, <1>6, <1>7, <1>9, <1>10 DEF ExactInv

(* The invariant, of a query that goes on with the same tree. *)
LEMMA GoesOn ==
    ASSUME ExactInv, tree' = tree, query' = query, pc # "idle", pc' # "idle",
           IInv', Asking',
           \E offs : Framing(offs, off', restore', far'),
           Separate(far'),
           pc' = "descend" => Descent(off', rd', cursor', far'),
           ~query.approx =>
              /\ results' \in Seq(Int) /\ Ascending(results')
              /\ Len(results') <= query.max_qty
              /\ NearestAmong(query.max_qty, results',
                              Accepted(FarLeaves(far') \cup Here(pc', cursor'),
                                       query.radius))
                    = Finally(FarLeaves(far) \cup Here(pc, cursor))
    PROVE  ExactInv'
<1>1. Framed' /\ Apart' /\ Descending'
  BY Carried
<1>2. NothingPrunedWasNear'
  BY ExactCarried DEF ExactInv
<1>3. Collecting'
  BY DEF Collecting, Collected
<1>4. QED
  BY <1>1, <1>2, <1>3 DEF ExactInv

LEMMA AskedEmptyExact == ASSUME ExactInv, AskedEmpty PROVE ExactInv'
<1>1. /\ pc = "start" /\ pc' = "done" /\ tree.points = <<>>
      /\ tree' = tree /\ query' = query /\ off' = off /\ rd' = rd
      /\ results' = results /\ restore' = restore /\ far' = far
  BY DEF AskedEmpty
<1>2. /\ restore = <<>> /\ far = <<>> /\ off = NoOff /\ results = <<>>
      /\ tree \in Trees /\ query \in Queries
  BY <1>1 DEF ExactInv, IInv, NotBegun, Asking
<1>3. Going
  BY <1>1, AskedGoing DEF ExactInv
<1>4. IInv'
  BY AskedEmptyStep DEF ExactInv
<1>5. Asking'
  BY <1>1, <1>2 DEF Asking
<1>6. \E offs : Framing(offs, off', restore', far')
  BY <1>1, <1>2, FramingStarts
<1>7. Separate(far')
  BY <1>1, <1>2, NothingFar
<1>8. Measured(AllLeaves) = {} /\ Measured({}) = {}
  <2>1. tree.leaves \in Seq(Seq(DOMAIN tree.points))
    BY <1>3 DEF Going, IsBuilt
  <2>2. \A k \in AllLeaves : DOMAIN tree.leaves[k + 1] = {}
    <3> TAKE k \in AllLeaves
    <3>1. k + 1 \in 1 .. Len(tree.leaves)
      BY <2>1 DEF AllLeaves
    <3>2. tree.leaves[k + 1] \in Seq(DOMAIN tree.points)
      BY <2>1, <3>1
    <3>3. DOMAIN tree.points = {}
      BY <1>1
    <3>4. QED
      BY <3>2, <3>3
  <2>3. QED
    BY <2>2 DEF Measured
<1>9. FarLeaves(far) = {} /\ FarLeaves(far') = {}
      /\ Here(pc, cursor) = AllLeaves /\ Here(pc', cursor') = {}
  BY <1>1, <1>2, <1>3, NothingFar, RootCovered DEF Here, RootCovers
<1>10. Accepted(FarLeaves(far') \cup Here(pc', cursor'), query.radius) = {}
       /\ Accepted(FarLeaves(far) \cup Here(pc, cursor), query.radius) = {}
  BY <1>8, <1>9 DEF Accepted
<1>11. /\ results' \in Seq(Int) /\ Ascending(results')
       /\ Len(results') <= query.max_qty
  <2>1. query.max_qty \in Nat
    BY <1>3 DEF Going, IsQuery
  <2>2. QED
    BY <1>1, <1>2, <2>1, NothingCollected
<1>12. NearestAmong(query.max_qty, results',
                    Accepted(FarLeaves(far') \cup Here(pc', cursor'), query.radius))
          = Finally(FarLeaves(far) \cup Here(pc, cursor))
  BY <1>1, <1>10 DEF Finally
<1>13. QED
  BY <1>1, <1>4, <1>5, <1>6, <1>7, <1>11, <1>12, GoesOn

LEMMA ApproximateExact == ASSUME ExactInv, Approximate PROVE ExactInv'
<1>1. /\ pc = "start" /\ pc' = "done" /\ query.approx
      /\ tree' = tree /\ query' = query /\ off' = off /\ rd' = rd
      /\ restore' = restore /\ far' = far
  BY DEF Approximate
<1>2. /\ restore = <<>> /\ far = <<>> /\ off = NoOff
      /\ tree \in Trees /\ query \in Queries
  BY <1>1 DEF ExactInv, IInv, NotBegun, Asking
<1>3. IInv'
  BY ApproximateStep DEF ExactInv
<1>4. Asking'
  BY <1>1, <1>2 DEF Asking
<1>5. \E offs : Framing(offs, off', restore', far')
  BY <1>1, <1>2, FramingStarts
<1>6. Separate(far')
  BY <1>1, <1>2, NothingFar
<1>7. QED
  BY <1>1, <1>3, <1>4, <1>5, <1>6, GoesOn

(* The descent begins in a region that is everywhere. *)
LEMMA BeginExact == ASSUME ExactInv, Begin PROVE ExactInv'
<1>1. /\ pc = "start" /\ pc' = "descend" /\ tree.points # <<>> /\ ~query.approx
      /\ tree' = tree /\ query' = query /\ off' = off /\ rd' = rd
      /\ results' = results /\ restore' = restore /\ far' = far
      /\ cursor' = Root
  BY DEF Begin
<1>2. /\ restore = <<>> /\ far = <<>> /\ off = NoOff /\ results = <<>> /\ rd = 0
      /\ tree \in Trees /\ query \in Queries
  BY <1>1 DEF ExactInv, IInv, NotBegun, Asking
<1>3. Going
  BY <1>1, AskedGoing DEF ExactInv
<1>4. IInv'
  BY BeginStep DEF ExactInv
<1>5. Asking'
  BY <1>1, <1>2 DEF Asking
<1>6. \E offs : Framing(offs, off', restore', far')
  BY <1>1, <1>2, FramingStarts
<1>7. Separate(far')
  BY <1>1, <1>2, NothingFar
<1>8. LeavesBelow(Root) = AllLeaves
  BY <1>3, RootCovered DEF RootCovers
<1>9. Inside(Root, NoOff)
  <2>1. Node(tree, Root)
    BY <1>3, RootNode DEF Going, Root
  <2>2. 0 \in AllLeaves
    BY <1>1, <1>3 DEF Going, IsBuilt, AllLeaves
  <2>3. HasLeaf(tree, Root)
    BY <1>8, <2>2 DEF HasLeaf, LeavesBelow
  <2>4. ASSUME NEW k \in AllLeaves, NEW n \in DOMAIN tree.leaves[k + 1],
               NEW d \in Dims
        PROVE  NoOff[d] <= AbsDiff(tree.points[tree.leaves[k + 1][n]][d],
                                   query.point[d])
    <3>1. tree.points[tree.leaves[k + 1][n]] \in [Dims -> Int]
      BY <1>3, EntryPoint DEF Going, AllLeaves
    <3>2. query.point \in [Dims -> Int]
      BY <1>3 DEF Going, IsQuery
    <3>3. NoOff[d] = 0
      BY DEF NoOff
    <3> DEFINE x == tree.points[tree.leaves[k + 1][n]][d]
    <3>4. x \in Int /\ query.point[d] \in Int
      BY <3>1, <3>2
    <3> HIDE DEF x
    <3>5. 0 <= AbsDiff(x, query.point[d])
      BY <3>4 DEF AbsDiff
    <3>6. QED
      BY <3>3, <3>5 DEF x
  <2>5. Beyond(LeavesBelow(Root), NoOff)
    BY <1>8, <2>4 DEF Beyond
  <2>6. QED
    BY <2>1, <2>3, <2>5 DEF Inside
<1>10. Descent(off', rd', cursor', far')
  <2>1. FarLeaves(far') = {}
    BY <1>1, <1>2, NothingFar
  <2>2. QED
    BY <1>1, <1>2, <1>9, <2>1, NowhereOff DEF Descent
<1>11. /\ results' \in Seq(Int) /\ Ascending(results')
       /\ Len(results') <= query.max_qty
  <2>1. query.max_qty \in Nat
    BY <1>3 DEF Going, IsQuery
  <2>2. QED
    BY <1>1, <1>2, <2>1, NothingCollected
<1>12. NearestAmong(query.max_qty, results',
                    Accepted(FarLeaves(far') \cup Here(pc', cursor'), query.radius))
          = Finally(FarLeaves(far) \cup Here(pc, cursor))
  BY <1>1 DEF Finally, Here
<1>13. QED
  BY <1>1, <1>4, <1>5, <1>6, <1>7, <1>10, <1>11, <1>12, GoesOn

-----------------------------------------------------------------------------
(* Where a descent is. *)
LEMMA DescentPlace ==
    ASSUME TreesAlternate, ExactInv, pc = "descend"
    PROVE  /\ Going /\ Collected /\ ~query.approx
           /\ Inside(cursor, off) /\ off \in [Dims -> Nat]
           /\ rd = RegionDist(Metric, off)
           /\ LeavesBelow(cursor) \cap FarLeaves(far) = {}
           /\ IsSeq(restore) /\ IsSeq(far) /\ Separate(far)
           /\ Within(far, Len(restore))
           /\ Len(restore) = cursor.level /\ cursor.level \in Nat
           /\ tree.max_stem_level \in Int
           /\ DimOf(tree, cursor.level) = Len(restore) % K
           /\ Len(restore) % K \in Dims
           /\ FarLeaves(far) \in SUBSET AllLeaves
           /\ LeavesBelow(cursor) \in SUBSET AllLeaves
<1>1. Going /\ ~query.approx /\ tree \in Trees
  BY AskedGoing DEF ExactInv, Asking
<1>2. Collected
  BY <1>1 DEF ExactInv, Collecting
<1>3. /\ Inside(cursor, off) /\ rd = RegionDist(Metric, off)
      /\ LeavesBelow(cursor) \cap FarLeaves(far) = {}
  BY DEF ExactInv, Descending, Descent
<1>4. /\ IsSeq(restore) /\ IsSeq(far) /\ Separate(far)
      /\ Len(restore) = cursor.level
      /\ tree.max_stem_level \in Int
  BY DEF ExactInv, IInv, Stacks, Heights, Apart, ContinuationsMatch
<1>5. Len(restore) \in Nat /\ DOMAIN restore = 1 .. Len(restore)
  BY <1>4, IsSeqLen
<1>6. Within(far, Len(restore))
  BY <1>5 DEF ExactInv, IInv, ContinuationsMatch, Within
<1>7. PICK offs : Framing(offs, off, restore, far)
  BY DEF ExactInv, Framed
<1>8. off \in [Dims -> Nat]
  BY <1>4, <1>7, FramingType
<1>9. cursor.level \in 0 .. tree.max_stem_level + 1
  BY <1>3 DEF Inside, Node, CursorOf, Levels
<1>10. DimOf(tree, cursor.level) = cursor.level % K
  BY <1>1, <1>9 DEF TreesAlternate
<1>11. Len(restore) % K \in Dims
  BY <1>5, AxisOfLevel
<1>12. FarLeaves(far) \in SUBSET AllLeaves /\ LeavesBelow(cursor) \in SUBSET AllLeaves
  BY <1>1, <1>3, <1>7, FarLeavesType, LeavesBelowType DEF Inside
<1>13. QED
  BY <1>1, <1>2, <1>3, <1>4, <1>5, <1>6, <1>8, <1>10, <1>11, <1>12

(* Down, past a cut: the far child is noted, or what is below it is beyond *)
(* what max_dist accepts.                                                  *)
LEMMA DescendCutExact ==
    ASSUME TreesAlternate, ExactInv, DescendCut PROVE ExactInv'
<1> DEFINE n       == Len(restore)
           d       == DimOf(tree, cursor.level)
           coord   == query.point[d]
           pivot   == tree.stems[cursor.stem]
           side    == IF coord >= pivot THEN 1 ELSE 0
           new_off == AbsDiff(coord, pivot)
           rd_far  == RectDistAfterUpdate(Metric, rd, off, d, new_off)
           near    == ChildIn(tree, cursor, side)
           other   == ChildIn(tree, cursor, 1 - side)
           there   == [off EXCEPT ![d] = new_off]
           noted   == [state |-> other, far_off |-> new_off, rd |-> rd_far]
           worth_it == checked => rd_far <= MaxDist
<1>1. /\ pc = "descend" /\ pc' = "descend"
      /\ cursor.level <= tree.max_stem_level /\ pivot < Infinity
      /\ tree' = tree /\ query' = query /\ off' = off /\ rd' = rd
      /\ results' = results
      /\ cursor' = near
      /\ restore' = Append(restore, IF worth_it THEN WithFar(off[d])
                                    ELSE RestoreOnly(off[d]))
      /\ far' = IF worth_it THEN Append(far, noted) ELSE far
  BY DEF DescendCut, IsCut, Pivot, Coord, StemDim, ChildOf
<1>2. /\ Going /\ Collected /\ ~query.approx
      /\ Inside(cursor, off) /\ off \in [Dims -> Nat]
      /\ rd = RegionDist(Metric, off)
      /\ LeavesBelow(cursor) \cap FarLeaves(far) = {}
      /\ IsSeq(restore) /\ IsSeq(far) /\ Separate(far)
      /\ Within(far, n)
      /\ n = cursor.level /\ cursor.level \in Nat
      /\ tree.max_stem_level \in Int
      /\ d = n % K /\ d \in Dims
      /\ FarLeaves(far) \in SUBSET AllLeaves
      /\ LeavesBelow(cursor) \in SUBSET AllLeaves
  BY <1>1, DescentPlace
<1>3. cursor.level < Levels(tree)
  BY <1>1, <1>2 DEF Levels
<1>4. new_off \in Nat /\ Inside(near, off) /\ Inside(other, there)
  BY <1>1, <1>2, <1>3, CutRegions
<1>5. /\ LeavesBelow(cursor) = LeavesBelow(near) \cup LeavesBelow(other)
      /\ LeavesBelow(near) \cap LeavesBelow(other) = {}
      /\ other.level = n + 1
  <2>1. \/ side = 0 /\ 1 - side = 1
        \/ side = 1 /\ 1 - side = 0
    OBVIOUS
  <2>2. LET l == LeavesBelow(ChildIn(tree, cursor, 0))
            r == LeavesBelow(ChildIn(tree, cursor, 1))
        IN  LeavesBelow(cursor) = l \cup r /\ l \cap r = {}
    BY <1>2, <1>3, LeavesOfChildren DEF Inside
  <2>3. \A x : ChildIn(tree, cursor, x).level = cursor.level + 1
    BY DEF ChildIn, Branch
  <2> HIDE DEF side
  <2>4. QED
    BY <1>2, <2>1, <2>2, <2>3
<1>6. rd_far = RegionDist(Metric, there)
  <2>1. off \in [Dims -> Nat] /\ d \in Dims /\ new_off \in Nat
    BY <1>2, <1>4
  <2> HIDE DEF d, new_off
  <2>2. RectDistAfterUpdate(Metric, RegionDist(Metric, off), off, d, new_off)
           = RegionDist(Metric, [off EXCEPT ![d] = new_off])
    <3>1. \A o \in [Dims -> Nat] : \A a \in Dims : \A m \in Nat :
             RectDistAfterUpdate(Metric, RegionDist(Metric, o), o, a, m)
                = RegionDist(Metric, [o EXCEPT ![a] = m])
      BY RegionMoves, Zenon
    <3>2. QED
      BY <2>1, <3>1, Zenon
  <2>3. QED
    BY <1>2, <2>2
<1>7. there \in [Dims -> Nat]
  BY <1>2, <1>4
<1>8. IInv'
  BY DescendCutStep DEF ExactInv
<1>9. Asking'
  BY <1>1 DEF ExactInv, Asking
<1>10. PICK e : /\ restore' = Append(restore, e)
                /\ e.old_off = off[d]
  BY <1>1 DEF WithFar, RestoreOnly
<1>11. PICK offs2 : /\ Framing(offs2, off, restore', far)
                    /\ offs2[n + 1] = off
  <2>1. PICK offs : Framing(offs, off, restore, far)
    BY DEF ExactInv, Framed
  <2>2. e.old_off = off[n % K]
    BY <1>2, <1>10
  <2>3. \E offs2 : /\ Framing(offs2, off, Append(restore, e), far)
                   /\ offs2[Len(restore) + 1] = off
    BY <1>2, <2>1, <2>2, FramingDown
  <2>4. QED
    BY <1>10, <2>3
<1>12. /\ results' \in Seq(Int) /\ Ascending(results')
       /\ Len(results') <= query.max_qty
  BY <1>1, <1>2 DEF Collected
<1>13. Here(pc, cursor) = LeavesBelow(cursor) /\ Here(pc', cursor') = LeavesBelow(near)
  BY <1>1 DEF Here
<1> HIDE DEF side, new_off, rd_far, near, other, there, coord, pivot, n, d, worth_it
<1>14. CASE worth_it
  <2>1. far' = Append(far, noted)
    BY <1>1, <1>14
  <2>2. /\ noted.far_off = new_off /\ noted.rd = rd_far /\ noted.state = other
        /\ FarLevel(noted) = n + 1
    BY <1>5 DEF FarLevel
  <2> HIDE DEF noted
  <2>3. FarRegion(offs2, noted) = there
    <3>1. (n + 1) - 1 = n
      BY <1>2
    <3>2. FarRegion(offs2, noted) = [off EXCEPT ![n % K] = new_off]
      BY <1>11, <2>2, <3>1 DEF FarRegion
    <3>3. QED
      BY <1>2, <3>2 DEF there
  <2>4. Framing(offs2, off, restore', Append(far, noted))
    BY <1>2, <1>4, <1>6, <1>11, <2>2, <2>3, FramingNoted
  <2>5. /\ FarLeaves(far') = FarLeaves(far) \cup LeavesBelow(other)
        /\ Separate(far')
    <3>1. LeavesBelow(noted.state) \cap FarLeaves(far) = {}
      BY <1>2, <1>5, <2>2
    <3>2. QED
      BY <1>2, <2>1, <2>2, <3>1, FarLeavesNoted
  <2>6. Descent(off', rd', cursor', far')
    <3>1. LeavesBelow(near) \cap FarLeaves(far') = {}
      BY <1>2, <1>5, <2>5
    <3>2. QED
      BY <1>1, <1>2, <1>4, <3>1 DEF Descent
  <2>7. FarLeaves(far') \cup Here(pc', cursor') = FarLeaves(far) \cup Here(pc, cursor)
    BY <1>5, <1>13, <2>5
  <2>8. \E offs : Framing(offs, off', restore', far')
    BY <1>1, <2>1, <2>4
  <2>9. NearestAmong(query.max_qty, results',
                     Accepted(FarLeaves(far') \cup Here(pc', cursor'), query.radius))
           = Finally(FarLeaves(far) \cup Here(pc, cursor))
    BY <1>1, <2>7 DEF Finally
  <2>10. QED
    BY <1>1, <1>8, <1>9, <1>12, <2>5, <2>6, <2>8, <2>9, GoesOn
<1>15. CASE ~worth_it
  <2>1. far' = far
    BY <1>1, <1>15
  <2>2. rd_far > MaxDist /\ MaxDist \in Int
    <3>1. ~(rd_far <= MaxDist)
      BY <1>15 DEF worth_it
    <3>2. rd_far \in Nat /\ MaxDist \in Int
      BY <1>2, <1>6, <1>7, RegionDistType, MaxDistBounds
    <3>3. QED
      BY <3>1, <3>2
  <2>3. \A x \in Measured(LeavesBelow(other)) : ~Accepts(x.dist, MaxDist)
    BY <1>2, <1>4, <1>6, <1>7, <2>2, RegionLeftOut
  <2> DEFINE ks == FarLeaves(far) \cup LeavesBelow(cursor)
             fewer == FarLeaves(far) \cup LeavesBelow(near)
  <2>4. ks \in SUBSET AllLeaves /\ fewer \in SUBSET ks
        /\ ks \ fewer \subseteq LeavesBelow(other)
    BY <1>2, <1>5
  <2>5. \A x \in Measured(ks \ fewer) : ~Accepts(x.dist, MaxDist)
    <3>1. LeavesBelow(other) = (ks \ fewer) \cup LeavesBelow(other)
      BY <2>4
    <3> HIDE DEF ks, fewer
    <3>2. Measured(LeavesBelow(other))
             = Measured(ks \ fewer) \cup Measured(LeavesBelow(other))
      BY <3>1, MeasuredApart
    <3>3. QED
      BY <2>3, <3>2
  <2>6. Finally(fewer) = Finally(ks)
    <3> HIDE DEF ks, fewer
    <3> QED
      BY <1>2, <2>4, <2>5, LeavingOut
  <2>7. NearestAmong(query.max_qty, results',
                     Accepted(FarLeaves(far') \cup Here(pc', cursor'), query.radius))
           = Finally(FarLeaves(far) \cup Here(pc, cursor))
    BY <1>1, <1>13, <2>1, <2>6 DEF Finally
  <2>8. Descent(off', rd', cursor', far')
    <3>1. LeavesBelow(near) \cap FarLeaves(far') = {}
      BY <1>2, <1>5, <2>1
    <3>2. QED
      BY <1>1, <1>2, <1>4, <3>1 DEF Descent
  <2>9. (\E offs : Framing(offs, off', restore', far')) /\ Separate(far')
    BY <1>1, <1>2, <1>11, <2>1
  <2>10. QED
    BY <1>1, <1>8, <1>9, <1>12, <2>7, <2>8, <2>9, GoesOn
<1>16. QED
  BY <1>14, <1>15

(* Down, where there is no cut: nothing is on the right. *)
LEMMA DescendUncutExact ==
    ASSUME TreesAlternate, ExactInv, DescendUncut PROVE ExactInv'
<1> DEFINE n    == Len(restore)
           d    == DimOf(tree, cursor.level)
           left == ChildIn(tree, cursor, 0)
           e    == RestoreOnly(off[d])
<1>1. /\ pc = "descend" /\ pc' = "descend"
      /\ cursor.level <= tree.max_stem_level
      /\ ~(tree.stems[cursor.stem] < Infinity)
      /\ tree' = tree /\ query' = query /\ off' = off /\ rd' = rd
      /\ results' = results
      /\ cursor' = left
      /\ restore' = Append(restore, e)
      /\ far' = far
  BY DEF DescendUncut, IsCut, Pivot, StemDim, ChildOf
<1>2. /\ Going /\ Collected /\ ~query.approx
      /\ Inside(cursor, off) /\ off \in [Dims -> Nat]
      /\ rd = RegionDist(Metric, off)
      /\ LeavesBelow(cursor) \cap FarLeaves(far) = {}
      /\ IsSeq(restore) /\ IsSeq(far) /\ Separate(far)
      /\ Within(far, n)
      /\ n = cursor.level /\ cursor.level \in Nat
      /\ tree.max_stem_level \in Int
      /\ d = n % K /\ d \in Dims
      /\ FarLeaves(far) \in SUBSET AllLeaves
      /\ LeavesBelow(cursor) \in SUBSET AllLeaves
  BY <1>1, DescentPlace
<1>3. cursor.level < Levels(tree)
  BY <1>1, <1>2 DEF Levels
<1>4. /\ Inside(left, off)
      /\ LeavesBelow(left) \subseteq LeavesBelow(cursor)
      /\ Measured(LeavesBelow(cursor) \ LeavesBelow(left)) = {}
  BY <1>1, <1>2, <1>3, UncutRegion
<1>5. IInv'
  BY DescendUncutStep DEF ExactInv
<1>6. Asking'
  BY <1>1 DEF ExactInv, Asking
<1>7. \E offs : Framing(offs, off', restore', far')
  <2>1. PICK offs : Framing(offs, off, restore, far)
    BY DEF ExactInv, Framed
  <2>2. e.old_off = off[n % K]
    BY <1>2 DEF RestoreOnly
  <2> HIDE DEF e
  <2>3. \E offs2 : /\ Framing(offs2, off, Append(restore, e), far)
                   /\ offs2[Len(restore) + 1] = off
    BY <1>2, <2>1, <2>2, FramingDown
  <2>4. QED
    BY <1>1, <2>3
<1>8. /\ results' \in Seq(Int) /\ Ascending(results')
      /\ Len(results') <= query.max_qty
  BY <1>1, <1>2 DEF Collected
<1> HIDE DEF n, d, left, e
<1>9. Here(pc, cursor) = LeavesBelow(cursor) /\ Here(pc', cursor') = LeavesBelow(left)
  BY <1>1 DEF Here
<1>10. Descent(off', rd', cursor', far')
  <2>1. LeavesBelow(left) \cap FarLeaves(far') = {}
    BY <1>1, <1>2, <1>4
  <2>2. QED
    BY <1>1, <1>2, <1>4, <2>1 DEF Descent
<1>11. NearestAmong(query.max_qty, results',
                    Accepted(FarLeaves(far') \cup Here(pc', cursor'), query.radius))
          = Finally(FarLeaves(far) \cup Here(pc, cursor))
  <2> DEFINE ks == FarLeaves(far) \cup LeavesBelow(cursor)
             fewer == FarLeaves(far) \cup LeavesBelow(left)
             rest == LeavesBelow(cursor) \ LeavesBelow(left)
  <2>1. ks \in SUBSET AllLeaves /\ fewer \in SUBSET ks /\ ks \ fewer \subseteq rest
    BY <1>2, <1>4
  <2>2. \A x \in Measured(ks \ fewer) : ~Accepts(x.dist, MaxDist)
    <3>1. rest = (ks \ fewer) \cup rest
      BY <2>1
    <3>2. Measured(rest) = {}
      BY <1>4
    <3> HIDE DEF ks, fewer, rest
    <3>3. Measured(rest) = Measured(ks \ fewer) \cup Measured(rest)
      BY <3>1, MeasuredApart
    <3>4. QED
      BY <3>2, <3>3
  <2>3. Finally(fewer) = Finally(ks)
    <3> HIDE DEF ks, fewer
    <3> QED
      BY <1>2, <2>1, <2>2, LeavingOut
  <2>4. QED
    BY <1>1, <1>9, <2>3 DEF Finally
<1>12. Separate(far')
  BY <1>1, <1>2
<1>13. QED
  BY <1>1, <1>5, <1>6, <1>7, <1>8, <1>10, <1>11, <1>12, GoesOn

(* The leaf is collected from, and the pops begin at its level. *)
LEMMA ProcessLeafExact ==
    ASSUME TreesAlternate, ExactInv, ProcessLeaf PROVE ExactInv'
<1> DEFINE k == LeafIdxIn(tree, cursor)
<1>1. /\ pc = "descend" /\ pc' = "pop"
      /\ cursor.level > tree.max_stem_level
      /\ tree' = tree /\ query' = query /\ off' = off /\ rd' = rd
      /\ results' = NearestAmong(query.max_qty, results, Accepted({k}, MaxDist))
      /\ dim' = DimOf(tree, cursor.level)
      /\ restore' = restore /\ far' = far
  BY DEF ProcessLeaf, LeafIdx, StemDim
<1>2. /\ Going /\ Collected /\ ~query.approx
      /\ Inside(cursor, off)
      /\ LeavesBelow(cursor) \cap FarLeaves(far) = {}
      /\ Separate(far)
      /\ Len(restore) = cursor.level /\ cursor.level \in Nat
      /\ tree.max_stem_level \in Int
      /\ DimOf(tree, cursor.level) = Len(restore) % K
      /\ FarLeaves(far) \in SUBSET AllLeaves
      /\ LeavesBelow(cursor) \in SUBSET AllLeaves
  BY <1>1, DescentPlace
<1>3. cursor.level = Levels(tree)
  <2>1. cursor.level \in 0 .. Levels(tree)
    BY <1>2 DEF Inside, Node, CursorOf
  <2>2. QED
    BY <1>1, <1>2, <2>1 DEF Levels
<1>4. LeavesBelow(cursor) = {k}
  <2>1. Under(tree, cursor) = {k}
    BY <1>2, <1>3, NodeIsLeaf DEF Inside, Going
  <2>2. HasLeaf(tree, cursor)
    BY <1>2 DEF Inside
  <2> HIDE DEF k
  <2>3. QED
    BY <2>1, <2>2 DEF HasLeaf, LeavesBelow
<1> HIDE DEF k
<1>5. k \in AllLeaves /\ k \notin FarLeaves(far)
  BY <1>2, <1>4
<1>6. /\ results' \in Seq(Int) /\ Ascending(results')
      /\ Len(results') <= query.max_qty
      /\ NearestAmong(query.max_qty, results',
                      Accepted(FarLeaves(far), query.radius))
            = Finally({k} \cup FarLeaves(far))
  BY <1>1, <1>2, <1>5, LeafCollected
<1>7. IInv'
  BY ProcessLeafStep DEF ExactInv
<1>8. Asking'
  BY <1>1, <1>2 DEF ExactInv, Asking
<1>9. (\E offs : Framing(offs, off', restore', far')) /\ Separate(far')
  BY <1>1, <1>2 DEF ExactInv, Framed
<1>10. NearestAmong(query.max_qty, results',
                    Accepted(FarLeaves(far') \cup Here(pc', cursor'), query.radius))
          = Finally(FarLeaves(far) \cup Here(pc, cursor))
  <2>1. FarLeaves(far') \cup Here(pc', cursor') = FarLeaves(far)
    BY <1>1 DEF Here
  <2>2. FarLeaves(far) \cup Here(pc, cursor) = {k} \cup FarLeaves(far)
    BY <1>1, <1>4 DEF Here
  <2>3. QED
    BY <1>6, <2>1, <2>2
<1>11. QED
  BY <1>1, <1>6, <1>7, <1>8, <1>9, <1>10, GoesOn

-----------------------------------------------------------------------------
(* Where a pop is. *)
LEMMA PopPlace ==
    ASSUME ExactInv, pc = "pop", restore # <<>>
    PROVE  /\ Going /\ Collected /\ ~query.approx
           /\ IsSeq(restore) /\ IsSeq(far) /\ Separate(far)
           /\ Len(restore) \in Nat \ {0} /\ DOMAIN restore = 1 .. Len(restore)
           /\ RestoreDim = (Len(restore) - 1) % K
           /\ FarLeaves(far) \in SUBSET AllLeaves
           /\ \E offs : Framing(offs, off, restore, far)
<1>1. Going /\ ~query.approx /\ dim = Len(restore) % K
  BY AskedGoing DEF ExactInv, Asking
<1>2. Collected
  BY <1>1 DEF ExactInv, Collecting
<1>3. IsSeq(restore) /\ IsSeq(far) /\ Separate(far)
  BY DEF ExactInv, IInv, Stacks, Apart
<1>4. Len(restore) \in Nat \ {0} /\ DOMAIN restore = 1 .. Len(restore)
  BY <1>3, IsSeqLen, PoppedSeq
<1>5. RestoreDim = (Len(restore) - 1) % K
  <2> DEFINE n == Len(restore)
  <2>1. n \in Nat \ {0} /\ K \in Nat \ {0} /\ dim = n % K
    BY <1>1, <1>4, MetricAssumption
  <2> HIDE DEF n
  <2>2. (n - 1) % K = IF n % K = 0 THEN K - 1 ELSE (n % K) - 1
    <3> DEFINE q == n \div K
               r == n % K
    <3>1. q \in Int /\ r \in 0 .. K - 1 /\ n = K * q + r
      BY <2>1
    <3> HIDE DEF q, r
    <3>2. CASE r = 0
      <4> DEFINE p == q - 1
                 k == K - 1
      <4>1. n - 1 = K * p + k /\ p \in Int /\ k \in 0 .. K - 1
        BY <2>1, <3>1, <3>2
      <4> HIDE DEF p
      <4>2. (n - 1) % K = k
        <5> HIDE DEF k
        <5>1. \A m \in Int : m = K * p + k => m % K = k
          BY <2>1, <4>1
        <5>2. QED
          BY <2>1, <4>1, <5>1
      <4>3. n % K = 0
        BY <3>2 DEF r
      <4>4. QED
        BY <4>2, <4>3
    <3>3. CASE r # 0
      <4> DEFINE k == r - 1
      <4>1. n - 1 = K * q + k /\ q \in Int /\ k \in 0 .. K - 1
        BY <2>1, <3>1, <3>3
      <4>2. (n - 1) % K = k
        <5> HIDE DEF k
        <5>1. \A m \in Int : m = K * q + k => m % K = k
          BY <2>1, <4>1
        <5>2. QED
          BY <2>1, <4>1, <5>1
      <4>3. QED
        BY <3>3, <4>2 DEF r
    <3>4. QED
      BY <3>2, <3>3
  <2>3. QED
    BY <2>1, <2>2 DEF RestoreDim, n
<1>6. PICK offs : Framing(offs, off, restore, far)
  BY DEF ExactInv, Framed
<1>7. FarLeaves(far) \in SUBSET AllLeaves
  BY <1>1, <1>6, FarLeavesType
<1>8. QED
  BY <1>1, <1>2, <1>3, <1>4, <1>5, <1>6, <1>7

(* The far subtrees of the frames below the top one. *)
LEMMA WithinPopped ==
    ASSUME IInv, restore # <<>>
    PROVE  /\ ~Top(restore).has_far => Within(far, Len(restore) - 1)
           /\ Top(restore).has_far =>
                 /\ far # <<>> /\ FarLevel(Top(far)) = Len(restore)
                 /\ Within(Popped(far), Len(restore) - 1)
<1> DEFINE n == Len(restore)
           m == Len(far)
<1>1. /\ IsSeq(restore) /\ IsSeq(far)
      /\ n \in Nat \ {0} /\ DOMAIN restore = 1 .. n
      /\ m \in Nat /\ DOMAIN far = 1 .. m
      /\ Top(restore) = restore[n]
  BY IsSeqLen, PoppedSeq DEF IInv, Stacks, Top
<1>2. \A i \in 1 .. m : FarLevel(far[i]) \in 1 .. n /\ restore[FarLevel(far[i])].has_far
  BY <1>1 DEF IInv, ContinuationsMatch
<1>3. \A i, j \in 1 .. m : i < j => FarLevel(far[i]) < FarLevel(far[j])
  BY <1>1 DEF IInv, ContinuationsMatch
<1>4. ASSUME ~Top(restore).has_far PROVE Within(far, n - 1)
  <2> HIDE DEF n, m
  <2>1. ASSUME NEW i \in 1 .. m PROVE FarLevel(far[i]) \in 1 .. n - 1
    <3>1. FarLevel(far[i]) # n
      BY <1>1, <1>2, <1>4
    <3>2. QED
      BY <1>1, <1>2, <3>1
  <2>2. QED
    BY <1>1, <2>1 DEF Within
<1>5. ASSUME Top(restore).has_far
      PROVE  /\ far # <<>> /\ FarLevel(Top(far)) = n
             /\ Within(Popped(far), n - 1)
  <2>1. far # <<>> /\ FarLevel(Top(far)) = n
    BY <1>5, TopsMatch
  <2>2. /\ DOMAIN Popped(far) = 1 .. m - 1 /\ m \in Nat \ {0}
        /\ \A i \in 1 .. m - 1 : Popped(far)[i] = far[i]
    BY <1>1, <2>1, PoppedSeq
  <2>3. FarLevel(far[m]) = n
    BY <2>1 DEF Top
  <2> HIDE DEF n, m
  <2>4. ASSUME NEW i \in 1 .. m - 1 PROVE FarLevel(far[i]) \in 1 .. n - 1
    <3>1. i \in 1 .. m /\ m \in 1 .. m /\ i < m
      BY <2>2
    <3>2. FarLevel(far[i]) < n /\ FarLevel(far[i]) \in 1 .. n
      BY <1>2, <1>3, <2>3, <3>1
    <3>3. QED
      BY <1>1, <3>2
  <2>5. Within(Popped(far), n - 1)
    BY <2>2, <2>4 DEF Within
  <2>6. QED
    BY <2>1, <2>5
<1>6. QED
  BY <1>4, <1>5

(* Up one level, the axis is the one before. *)
LEMMA AxisUp ==
    ASSUME NEW n \in Nat \ {0} PROVE (n - 1) % K \in Dims
<1>1. n - 1 \in Nat
  OBVIOUS
<1>2. QED
  BY <1>1, AxisOfLevel

LEMMA PopRestoreOnlyExact == ASSUME ExactInv, PopRestoreOnly PROVE ExactInv'
<1> DEFINE n == Len(restore)
<1>1. /\ pc = "pop" /\ pc' = "pop" /\ restore # <<>> /\ ~Top(restore).has_far
      /\ tree' = tree /\ query' = query /\ rd' = rd /\ results' = results
      /\ far' = far /\ restore' = Popped(restore) /\ dim' = RestoreDim
      /\ off' = [off EXCEPT ![RestoreDim] = Top(restore).old_off]
  BY DEF PopRestoreOnly
<1>2. /\ Going /\ Collected /\ ~query.approx
      /\ IsSeq(restore) /\ IsSeq(far) /\ Separate(far)
      /\ n \in Nat \ {0}
      /\ RestoreDim = (n - 1) % K
      /\ \E offs : Framing(offs, off, restore, far)
  BY <1>1, PopPlace
<1>3. Within(far, n - 1)
  BY <1>1, WithinPopped DEF ExactInv
<1>4. IInv'
  BY PopRestoreOnlyStep DEF ExactInv
<1>5. Len(restore') = n - 1
  BY <1>1, <1>2, PoppedSeq
<1>6. Asking'
  BY <1>1, <1>2, <1>5 DEF ExactInv, Asking
<1>7. \E offs : Framing(offs, off', restore', far')
  <2>1. PICK offs : Framing(offs, off, restore, far)
    BY <1>2
  <2>2. \E offs2 : Framing(offs2, [off EXCEPT ![(n - 1) % K] = Top(restore).old_off],
                           Popped(restore), far)
    BY <1>1, <1>2, <1>3, <2>1, FramingUp
  <2>3. QED
    BY <1>1, <1>2, <2>2
<1>8. /\ results' \in Seq(Int) /\ Ascending(results')
      /\ Len(results') <= query.max_qty
  BY <1>1, <1>2 DEF Collected
<1>9. NearestAmong(query.max_qty, results',
                   Accepted(FarLeaves(far') \cup Here(pc', cursor'), query.radius))
         = Finally(FarLeaves(far) \cup Here(pc, cursor))
  BY <1>1 DEF Here, Finally
<1>10. Separate(far')
  BY <1>1, <1>2
<1>11. QED
  BY <1>1, <1>4, <1>6, <1>7, <1>8, <1>9, <1>10, GoesOn

(* The far subtree is beyond what is collected by now. *)
LEMMA PopPrunedExact == ASSUME ExactInv, PopPruned PROVE ExactInv'
<1> DEFINE n == Len(restore)
           g == Top(far)
<1>1. /\ pc = "pop" /\ pc' = "pop" /\ restore # <<>> /\ Top(restore).has_far
      /\ far # <<>> /\ ~Accepts(g.rd, MaxDist)
      /\ tree' = tree /\ query' = query /\ rd' = rd /\ results' = results
      /\ far' = Popped(far) /\ restore' = Popped(restore) /\ dim' = RestoreDim
      /\ off' = [off EXCEPT ![RestoreDim] = Top(restore).old_off]
  BY DEF PopPruned, Prunes
<1>2. /\ Going /\ Collected /\ ~query.approx
      /\ IsSeq(restore) /\ IsSeq(far) /\ Separate(far)
      /\ n \in Nat \ {0}
      /\ RestoreDim = (n - 1) % K
      /\ FarLeaves(far) \in SUBSET AllLeaves
      /\ \E offs : Framing(offs, off, restore, far)
  BY <1>1, PopPlace
<1>3. Within(far', n - 1) /\ FarLevel(g) = n
  BY <1>1, WithinPopped DEF ExactInv
<1>4. IInv'
  BY PopPrunedStep DEF ExactInv
<1>5. Len(restore') = n - 1
  BY <1>1, <1>2, PoppedSeq
<1>6. Asking'
  BY <1>1, <1>2, <1>5 DEF ExactInv, Asking
<1>7. PICK offs : Framing(offs, off, restore, far)
  BY <1>2
<1>8. \E offs2 : Framing(offs2, off', restore', far')
  <2>1. Framing(offs, off, restore, far')
    BY <1>1, <1>2, <1>7, FramingForgotten
  <2>2. \E offs2 : Framing(offs2, [off EXCEPT ![(n - 1) % K] = Top(restore).old_off],
                           Popped(restore), far')
    BY <1>1, <1>2, <1>3, <2>1, FramingUp
  <2>3. QED
    BY <1>1, <1>2, <2>2
<1>9. /\ results' \in Seq(Int) /\ Ascending(results')
      /\ Len(results') <= query.max_qty
  BY <1>1, <1>2 DEF Collected
<1>10. /\ FarLeaves(far) = FarLeaves(far') \cup LeavesBelow(g.state)
       /\ Separate(far')
  BY <1>1, <1>2, FarLeavesPopped
<1>11. /\ g.rd = RegionDist(Metric, FarRegion(offs, g))
       /\ Inside(g.state, FarRegion(offs, g))
       /\ FarRegion(offs, g) \in [Dims -> Nat]
  <2> DEFINE m == Len(far)
  <2>1. m \in DOMAIN far /\ g = far[m]
    <3>1. m \in Nat \ {0} /\ DOMAIN far = 1 .. m
      BY <1>1, <1>2, IsSeqLen, PoppedSeq
    <3>2. g = far[m]
      BY DEF Top
    <3> HIDE DEF m
    <3>3. QED
      BY <3>1, <3>2
  <2>2. offs[n] \in [Dims -> Nat] /\ (n - 1) % K \in Dims /\ g.far_off \in Nat
    <3>1. g.far_off \in Nat
      BY <1>7, <2>1 DEF Framing
    <3>2. offs \in [0 .. n -> [Dims -> Nat]]
      BY <1>7 DEF Framing
    <3> HIDE DEF n, g
    <3>3. QED
      BY <1>2, <3>1, <3>2, AxisUp
  <2>3. FarRegion(offs, g) \in [Dims -> Nat]
    <3>1. FarRegion(offs, g) = [offs[n] EXCEPT ![(n - 1) % K] = g.far_off]
      BY <1>3 DEF FarRegion
    <3> HIDE DEF n, g
    <3>2. QED
      BY <2>2, <3>1
  <2>4. QED
    BY <1>7, <2>1, <2>3 DEF Framing
<1> HIDE DEF n, g
<1>12. Finally(FarLeaves(far')) = Finally(FarLeaves(far))
  <2>1. MaxDist \in Int
    BY <1>2, MaxDistBounds
  <2>2. \A x \in Measured(LeavesBelow(g.state)) : ~Accepts(x.dist, MaxDist)
    BY <1>1, <1>2, <1>11, <2>1, RegionLeftOut
  <2> DEFINE ks == FarLeaves(far)
             fewer == FarLeaves(far')
             below == LeavesBelow(g.state)
  <2> HIDE DEF ks, fewer, below
  <2>3. ks \in SUBSET AllLeaves /\ fewer \in SUBSET ks
        /\ below = (ks \ fewer) \cup below
    BY <1>2, <1>10 DEF ks, fewer, below
  <2>4. Measured(below) = Measured(ks \ fewer) \cup Measured(below)
    BY <2>3, MeasuredApart
  <2>5. \A x \in Measured(ks \ fewer) : ~Accepts(x.dist, MaxDist)
    BY <2>2, <2>4 DEF below
  <2>6. Finally(fewer) = Finally(ks)
    BY <1>2, <2>3, <2>5, LeavingOut
  <2>7. QED
    BY <2>6 DEF ks, fewer
<1>13. NearestAmong(query.max_qty, results',
                    Accepted(FarLeaves(far') \cup Here(pc', cursor'), query.radius))
          = Finally(FarLeaves(far) \cup Here(pc, cursor))
  <2>1. FarLeaves(far') \cup Here(pc', cursor') = FarLeaves(far')
        /\ FarLeaves(far) \cup Here(pc, cursor) = FarLeaves(far)
    BY <1>1 DEF Here
  <2>2. NearestAmong(query.max_qty, results', Accepted(FarLeaves(far'), query.radius))
           = Finally(FarLeaves(far'))
    BY <1>1 DEF Finally
  <2>3. QED
    BY <1>12, <2>1, <2>2
<1>14. QED
  BY <1>1, <1>4, <1>6, <1>8, <1>9, <1>10, <1>13, GoesOn

(* Into the far subtree, whose region is the query's from here on.         *)
LEMMA PopEnteredExact == ASSUME ExactInv, PopEntered PROVE ExactInv'
<1> DEFINE n == Len(restore)
           g == Top(far)
           e == RestoreOnly(Top(restore).old_off)
<1>1. /\ pc = "pop" /\ pc' = "descend" /\ restore # <<>> /\ Top(restore).has_far
      /\ far # <<>>
      /\ tree' = tree /\ query' = query /\ results' = results
      /\ rd' = g.rd /\ cursor' = g.state
      /\ far' = Popped(far) /\ restore' = Append(Popped(restore), e)
      /\ off' = [off EXCEPT ![RestoreDim] = g.far_off]
  BY DEF PopEntered, FarEntered
<1>2. /\ Going /\ Collected /\ ~query.approx
      /\ IsSeq(restore) /\ IsSeq(far) /\ Separate(far)
      /\ n \in Nat \ {0}
      /\ RestoreDim = (n - 1) % K
      /\ FarLeaves(far) \in SUBSET AllLeaves
      /\ \E offs : Framing(offs, off, restore, far)
  BY <1>1, PopPlace
<1>3. Within(far', n - 1) /\ FarLevel(g) = n
  BY <1>1, WithinPopped DEF ExactInv
<1>4. IInv'
  BY PopEnteredStep DEF ExactInv
<1>5. Asking'
  BY <1>1, <1>2 DEF ExactInv, Asking
<1>6. PICK offs : Framing(offs, off, restore, far)
  BY <1>2
<1>7. /\ g.rd = RegionDist(Metric, FarRegion(offs, g))
      /\ Inside(g.state, FarRegion(offs, g))
      /\ g.far_off \in Nat
      /\ FarRegion(offs, g) = off'
  <2> DEFINE m == Len(far)
  <2>1. m \in DOMAIN far /\ g = far[m]
    <3>1. m \in Nat \ {0} /\ DOMAIN far = 1 .. m
      BY <1>1, <1>2, IsSeqLen, PoppedSeq
    <3>2. g = far[m]
      BY DEF Top
    <3> HIDE DEF m
    <3>3. QED
      BY <3>1, <3>2
  <2>2. off = offs[n]
    BY <1>6 DEF Framing
  <2>3. FarRegion(offs, g) = [offs[n] EXCEPT ![(n - 1) % K] = g.far_off]
    BY <1>3 DEF FarRegion
  <2>4. FarRegion(offs, g) = off'
    BY <1>1, <1>2, <2>2, <2>3
  <2>5. QED
    BY <1>6, <2>1, <2>4 DEF Framing
<1>8. \E offs2 : Framing(offs2, off', restore', far')
  <2>1. Framing(offs, off, restore, far')
    BY <1>1, <1>2, <1>6, FramingForgotten
  <2>2. e.old_off = Top(restore).old_off
    BY DEF RestoreOnly
  <2> HIDE DEF e, g
  <2>3. \E offs2 : Framing(offs2, [off EXCEPT ![(n - 1) % K] = g.far_off],
                           Append(Popped(restore), e), far')
    BY <1>1, <1>2, <1>3, <1>7, <2>1, <2>2, FramingEntered
  <2>4. QED
    BY <1>1, <1>2, <2>3
<1>9. /\ results' \in Seq(Int) /\ Ascending(results')
      /\ Len(results') <= query.max_qty
  BY <1>1, <1>2 DEF Collected
<1>10. /\ FarLeaves(far) = FarLeaves(far') \cup LeavesBelow(g.state)
       /\ Separate(far')
       /\ LeavesBelow(g.state) \cap FarLeaves(far') = {}
  BY <1>1, <1>2, FarLeavesPopped
<1> HIDE DEF n, g, e
<1>11. Descent(off', rd', cursor', far')
  BY <1>1, <1>7, <1>10 DEF Descent
<1>12. NearestAmong(query.max_qty, results',
                    Accepted(FarLeaves(far') \cup Here(pc', cursor'), query.radius))
          = Finally(FarLeaves(far) \cup Here(pc, cursor))
  <2>1. FarLeaves(far') \cup Here(pc', cursor') = FarLeaves(far) \cup Here(pc, cursor)
    BY <1>1, <1>10 DEF Here
  <2>2. QED
    BY <1>1, <2>1 DEF Finally
<1>13. QED
  BY <1>1, <1>4, <1>5, <1>8, <1>9, <1>10, <1>11, <1>12, GoesOn

LEMMA ReturnExact == ASSUME ExactInv, Return PROVE ExactInv'
<1>1. /\ pc = "pop" /\ pc' = "done" /\ restore = <<>>
      /\ tree' = tree /\ query' = query /\ off' = off /\ rd' = rd
      /\ results' = results /\ restore' = restore /\ far' = far
  BY DEF Return
<1>2. Going /\ ~query.approx
  BY <1>1, AskedGoing DEF ExactInv, Asking
<1>3. Collected
  BY <1>1, <1>2 DEF ExactInv, Collecting
<1>4. far = <<>>
  <2>1. DOMAIN restore = {} /\ IsSeq(far)
    BY <1>1 DEF ExactInv, IInv, Stacks
  <2>2. DOMAIN far = {}
    BY <2>1 DEF ExactInv, IInv, ContinuationsMatch
  <2>3. Len(far) \in Nat /\ DOMAIN far = 1 .. Len(far)
    BY <2>1, IsSeqLen
  <2>4. Len(far) = 0
    <3> DEFINE m == Len(far)
    <3>1. m \in Nat /\ 1 .. m = {}
      BY <2>2, <2>3
    <3> HIDE DEF m
    <3>2. m = 0
      BY <3>1
    <3>3. QED
      BY <3>2 DEF m
  <2>5. QED
    BY <2>1, <2>4 DEF IsSeq
<1>5. IInv'
  BY ReturnStep DEF ExactInv
<1>6. Asking'
  BY <1>1, <1>4 DEF ExactInv, Asking
<1>7. (\E offs : Framing(offs, off', restore', far')) /\ Separate(far')
  BY <1>1 DEF ExactInv, Framed, Apart
<1>8. /\ results' \in Seq(Int) /\ Ascending(results')
      /\ Len(results') <= query.max_qty
  BY <1>1, <1>3 DEF Collected
<1>9. NearestAmong(query.max_qty, results',
                   Accepted(FarLeaves(far') \cup Here(pc', cursor'), query.radius))
         = Finally(FarLeaves(far) \cup Here(pc, cursor))
  BY <1>1 DEF Here, Finally
<1>10. QED
  BY <1>1, <1>5, <1>6, <1>7, <1>8, <1>9, GoesOn

-----------------------------------------------------------------------------
LEMMA ExactStep ==
    ASSUME TreesAlternate, ExactInv, [Next]_vars PROVE ExactInv'
<1>1. CASE UNCHANGED vars
  <2>1. /\ tree' = tree /\ query' = query /\ pc' = pc /\ off' = off
        /\ restore' = restore /\ far' = far /\ cursor' = cursor /\ dim' = dim
        /\ rd' = rd /\ results' = results
    BY <1>1 DEF vars
  <2>2. IInv'
    BY <1>1, NextStep DEF ExactInv
  <2>3. Asking'
    BY <2>1 DEF ExactInv, Asking
  <2>4. CASE pc = "idle"
    <3>1. Framed' /\ Apart'
      BY <2>1, Carried DEF ExactInv, Framed, Apart
    <3>2. Descending' /\ Collecting' /\ NothingPrunedWasNear'
      BY <2>1, <2>4 DEF Descending, Collecting, NothingPrunedWasNear
    <3>3. QED
      BY <2>2, <2>3, <3>1, <3>2 DEF ExactInv
  <2>5. CASE pc # "idle"
    <3>1. (\E offs : Framing(offs, off', restore', far')) /\ Separate(far')
      BY <2>1 DEF ExactInv, Framed, Apart
    <3>2. pc' = "descend" => Descent(off', rd', cursor', far')
      BY <2>1 DEF ExactInv, Descending
    <3>3. ~query.approx =>
             /\ results' \in Seq(Int) /\ Ascending(results')
             /\ Len(results') <= query.max_qty
             /\ NearestAmong(query.max_qty, results',
                             Accepted(FarLeaves(far') \cup Here(pc', cursor'),
                                      query.radius))
                   = Finally(FarLeaves(far) \cup Here(pc, cursor))
      BY <2>1, <2>5 DEF ExactInv, Collecting, Collected, Finally
    <3>4. QED
      BY <2>1, <2>2, <2>3, <2>5, <3>1, <3>2, <3>3, GoesOn
  <2>6. QED
    BY <2>4, <2>5
<1>2. CASE Next
  BY <1>2, AskExact, AskedEmptyExact, ApproximateExact, BeginExact,
     DescendCutExact, DescendUncutExact, ProcessLeafExact, PopRestoreOnlyExact,
     PopPrunedExact, PopEnteredExact, ReturnExact DEF Next
<1>3. QED
  BY <1>1, <1>2

(* For trees whose splits go from axis to axis, level by level:            *)
(* every pop puts its offset back on the axis it was taken from, so that   *)
(* the distance a descent goes on with is the one of the region it is in.  *)
THEOREM RegionsAreKnown ==
    ASSUME TreesAlternate PROVE Spec => []RdMatchesOff
<1>1. ExactInv => RdMatchesOff
  BY DEF ExactInv, Descending, Descent, RdMatchesOff
<1>2. ExactInv /\ [Next]_vars => ExactInv'
  BY ExactStep
<1>3. QED
  BY <1>1, <1>2, InitExact, PTL DEF Spec

(* No subtree that is pruned, by a descent that leaves no frame for it or  *)
(* by a pop, holds an entry the answer needs: with what is below the stems *)
(* still to be looked at, the collection is at each moment exact.          *)
THEOREM QueriesAreExact ==
    ASSUME TreesAlternate PROVE Spec => []NothingPrunedWasNear
<1>1. ExactInv => NothingPrunedWasNear
  BY DEF ExactInv
<1>2. ExactInv /\ [Next]_vars => ExactInv'
  BY ExactStep
<1>3. QED
  BY <1>1, <1>2, InitExact, PTL DEF Spec

(* A query that returned has the n nearest of all it was to accept.        *)
AnswerIsExact ==
    pc = "done" /\ ~query.approx =>
        results = NearestAmong(query.max_qty, <<>>, Accepted(AllLeaves, query.radius))

THEOREM AnswersAreExact ==
    ASSUME TreesAlternate PROVE Spec => []AnswerIsExact
<1>1. ExactInv => AnswerIsExact
  <2>1. SUFFICES ASSUME ExactInv, pc = "done", ~query.approx
                 PROVE  results = NearestAmong(query.max_qty, <<>>,
                                               Accepted(AllLeaves, query.radius))
    BY DEF AnswerIsExact
  <2>2. Going /\ Collected /\ far = <<>>
    BY <2>1, AskedGoing DEF ExactInv, Asking, Collecting
  <2>3. PendingLeaves = {}
    <3>1. PendingLeaves = FarLeaves(far) \cup Here(pc, cursor)
      BY PendingIs DEF PendingIsKnown
    <3>2. QED
      BY <2>1, <2>2, <3>1, NothingFar DEF Here
  <2>4. Accepted(PendingLeaves, query.radius) = {}
    BY <2>3 DEF Accepted, Measured
  <2>5. NearestAmong(query.max_qty, results, {}) = results
    <3>1. query.max_qty \in Nat
      BY <2>2 DEF Going, IsQuery
    <3>2. QED
      BY <2>2, <3>1, NothingMore DEF Collected
  <2>6. QED
    BY <2>1, <2>4, <2>5 DEF ExactInv, NothingPrunedWasNear
<1>2. ExactInv /\ [Next]_vars => ExactInv'
  BY ExactStep
<1>3. QED
  BY <1>1, <1>2, InitExact, PTL DEF Spec
=============================================================================
