----------------------------- MODULE SoftProofs -----------------------------
(***************************************************************************)
(* Building an immutable tree, for every source, bucket size and threshold,*)
(* every interleaving of the tasks, and every selection and sort that keep *)
(* the promises of the library's: the tasks do not get in each other's     *)
(* way, the pivots are in order, and every entry is on the right side of   *)
(* the stems above its leaf.                                               *)
(***************************************************************************)
EXTENDS SoftProperties, CommonTheorems

-----------------------------------------------------------------------------
(* Finite sets of numbers.                                                 *)

(* A set of positions that with each has all before it is an interval.     *)
LEMMA InitialSegment ==
    ASSUME NEW n \in Nat, NEW S \in SUBSET (1 .. n),
           \A i \in S : \A j \in 1 .. n : j <= i => j \in S
    PROVE  Cardinality(S) \in 0 .. n /\ S = 1 .. Cardinality(S)
<1>1. IsFiniteSet(S) /\ S \in SUBSET Int
  <2>1. IsFiniteSet(1 .. n)
    BY FS_Interval
  <2>2. \A i \in 1 .. n : i \in Int
    OBVIOUS
  <2>3. IsFiniteSet(S)
    BY <2>1, FS_Subset
  <2>4. QED
    BY <2>2, <2>3
<1>2. CASE S = {}
  <2>1. Cardinality(S) = 0
    BY <1>2, FS_EmptySet
  <2>2. QED
    BY <1>2, <2>1
<1>3. CASE S # {}
  <2>1. PICK g \in S : \A i \in S : i <= g
    BY <1>1, <1>3, GreatestMember
  <2>2. g \in 1 .. n
    BY <2>1
  <2>5. S = 1 .. g
    <3>1. \A i \in S : i \in 1 .. g
      BY <2>1
    <3>2. \A i \in 1 .. g : i \in S
      BY <2>1, <2>2
    <3>3. QED
      BY <3>1, <3>2
  <2>3. Cardinality(1 .. g) = g
    <3>1. Cardinality(1 .. g) = g - 1 + 1
      BY <2>2, FS_Interval
    <3>2. QED
      BY <3>1, <2>2
  <2>4. QED
    BY <2>2, <2>5, <2>3
<1>4. QED
  BY <1>2, <1>3

-----------------------------------------------------------------------------
(* The order of the exponents is that of the powers.                       *)
LEMMA PowerOrder ==
    ASSUME NEW m \in Nat, NEW n \in Nat, 2 ^ m < 2 ^ n
    PROVE  m < n
<1>1. n <= m => 2 ^ n <= 2 ^ m
  BY PowerGrows
<1>2. 2 ^ m \in Nat /\ 2 ^ n \in Nat
  BY PowerType
<1>3. QED
  BY <1>1, <1>2

(* soft_left_leaf_budget takes half of a power of two.                     *)
LEMMA HalfBudget ==
    ASSUME NEW n \in Nat \ {0}
    PROVE  LeftBudget(2 ^ n) = 2 ^ (n - 1)
<1> DEFINE b == 2 ^ n
           Fits(e) == 2 ^ e < b /\ b <= 2 ^ (e + 1)
<1>1. n - 1 \in Nat /\ (n - 1) + 1 = n
  OBVIOUS
<1>2. 2 ^ (n - 1) \in Nat /\ n - 1 < 2 ^ (n - 1) /\ b \in Nat /\ n < b
  BY <1>1, PowerType
<1>3. b = 2 * 2 ^ (n - 1)
  BY PowerTwice
<1>4. n - 1 \in 0 .. b /\ Fits(n - 1)
  BY <1>1, <1>2, <1>3
<1>5. ASSUME NEW e \in 0 .. b, Fits(e) PROVE e = n - 1
  <2>1. e \in Nat /\ e + 1 \in Nat /\ 2 ^ (e + 1) \in Nat /\ 2 ^ e \in Nat
    BY <1>2, PowerType
  <2>2. e < n
    BY <1>5, <2>1, PowerOrder
  <2>3. n <= e + 1
    <3>1. e + 1 <= n - 1 => 2 ^ (e + 1) <= 2 ^ (n - 1)
      BY <1>1, <2>1, PowerGrows
    <3>2. 0 < 2 ^ (n - 1)
      BY <1>1, <1>2
    <3>3. QED
      BY <3>1, <3>2, <1>2, <1>3, <1>5, <2>1
  <2>4. QED
    BY <2>1, <2>2, <2>3
<1>6. (CHOOSE e \in 0 .. b : Fits(e)) = n - 1
  <2> HIDE DEF Fits, b
  <2> QED
    BY <1>4, <1>5
<1>7. QED
  BY <1>6 DEF LeftBudget

-----------------------------------------------------------------------------
(* The stems.                                                              *)

(* The stem n levels above stem i, the level of a stem, and what is at or  *)
(* below a stem.                                                           *)
Up(i, n)    == i \div 2 ^ n
At(i, l)    == 2 ^ l <= i /\ i < 2 ^ (l + 1)
Under(i, j) == \E n \in Nat : Up(i, n) = j

LEMMA UpType ==
    ASSUME NEW i \in Nat, NEW n \in Nat
    PROVE  /\ Up(i, n) \in Nat /\ Up(i, n) <= i
           /\ 2 ^ n * Up(i, n) <= i /\ i < 2 ^ n * Up(i, n) + 2 ^ n
<1>1. 2 ^ n \in Nat \ {0}
  BY PowerType
<1>2. \A p \in Nat \ {0} : /\ i \div p \in Nat /\ i \div p <= i
                           /\ p * (i \div p) <= i /\ i < p * (i \div p) + p
  <2> TAKE p \in Nat \ {0}
  <2> DEFINE q == i \div p
  <2>1. q \in Int /\ p * q <= i /\ i < p * q + p
    OBVIOUS
  <2>2. q >= 0
    OBVIOUS
  <2> HIDE DEF q
  <2>3. q <= p * q
    BY <2>1, <2>2
  <2>4. p * q \in Int
    BY <2>1
  <2>5. q <= i
    BY <2>1, <2>3, <2>4
  <2> QED
    BY <2>1, <2>2, <2>5 DEF q
<1>3. QED
  BY <1>1, <1>2 DEF Up

LEMMA UpZero == ASSUME NEW i \in Nat PROVE Up(i, 0) = i
<1>1. i \div 1 = i
  OBVIOUS
<1>2. QED
  BY <1>1, PowerZero DEF Up

LEMMA UpNext ==
    ASSUME NEW i \in Nat, NEW n \in Nat
    PROVE  Up(i, n + 1) = Up(i, n) \div 2
<1>1. 2 ^ n \in Nat \ {0} /\ 2 ^ (n + 1) = 2 * 2 ^ n
  BY PowerType, PowerDoubles
<1>2. \A p \in Nat \ {0} : i \div (2 * p) = (i \div p) \div 2
  <2> TAKE p \in Nat \ {0}
  <2> DEFINE q == i \div p
             h == q \div 2
  <2>1. q \in Int /\ p * q <= i /\ i < p * q + p
    OBVIOUS
  <2>2. h \in Int /\ (q = 2 * h \/ q = 2 * h + 1)
    BY <2>1
  <2> HIDE DEF q, h
  <2>3. (2 * p) * h <= i /\ i < (2 * p) * h + (2 * p)
    <3>1. p * h \in Int /\ (2 * p) * h = 2 * (p * h)
      BY <2>2
    <3>2. CASE q = 2 * h
      <4>1. p * q = 2 * (p * h)
        BY <3>2, <2>2
      <4>2. QED
        BY <4>1, <3>1, <2>1
    <3>3. CASE q = 2 * h + 1
      <4>1. p * q = 2 * (p * h) + p
        BY <3>3, <2>2
      <4>2. QED
        BY <4>1, <3>1, <2>1
    <3>4. QED
      BY <3>2, <3>3, <2>2
  <2>4. i \div (2 * p) = h
    <3> DEFINE m == 2 * p
    <3>1. m \in Nat \ {0}
      OBVIOUS
    <3>2. m * h <= i /\ i < m * h + m
      BY <2>3
    <3> HIDE DEF m
    <3>3. i \div m = h
      BY <3>1, <3>2, <2>2
    <3>4. QED
      BY <3>3 DEF m
  <2> QED
    BY <2>4 DEF h, q
<1>3. QED
  BY <1>1, <1>2 DEF Up

LEMMA UpChild ==
    ASSUME NEW i \in Nat, NEW n \in Nat
    PROVE  /\ Up(LeftChild(i), n + 1) = Up(i, n)
           /\ Up(RightChild(i), n + 1) = Up(i, n)
<1>1. 2 ^ n \in Nat \ {0} /\ 2 ^ (n + 1) = 2 * 2 ^ n
  BY PowerType, PowerDoubles
<1>2. \A p \in Nat \ {0} : /\ (2 * i) \div (2 * p) = i \div p
                           /\ (2 * i + 1) \div (2 * p) = i \div p
  <2> TAKE p \in Nat \ {0}
  <2> DEFINE q == i \div p
             m == 2 * p
  <2>1. q \in Int /\ p * q <= i /\ i < p * q + p
    OBVIOUS
  <2>2. m \in Nat \ {0}
    OBVIOUS
  <2>3. m * q = 2 * (p * q) /\ p * q \in Int
    BY <2>1
  <2>4. m * q <= 2 * i /\ 2 * i + 1 < m * q + m
    <3> HIDE DEF q
    <3> QED
      BY <2>1, <2>3
  <2> HIDE DEF q, m
  <2>5. (2 * i) \div m = q /\ (2 * i + 1) \div m = q
    BY <2>1, <2>2, <2>4
  <2> QED
    BY <2>5 DEF q, m
<1>3. QED
  BY <1>1, <1>2 DEF Up, LeftChild, RightChild

(* A stem has one level.                                                   *)
LEMMA LevelOnly ==
    ASSUME NEW i \in Nat, NEW l \in Nat, NEW m \in Nat, At(i, l), At(i, m)
    PROVE  l = m
<1>1. \A a, b \in Nat : At(i, a) /\ At(i, b) => ~(a < b)
  <2> SUFFICES ASSUME NEW a \in Nat, NEW b \in Nat, At(i, a), At(i, b), a < b
               PROVE  FALSE
    OBVIOUS
  <2>1. 2 ^ (a + 1) <= 2 ^ b /\ 2 ^ (a + 1) \in Nat /\ 2 ^ b \in Nat
    BY PowerGrows, PowerType
  <2>2. QED
    BY <2>1 DEF At
<1>2. QED
  BY <1>1

LEMMA LevelExists ==
    ASSUME NEW i \in Nat \ {0}
    PROVE  \E l \in Nat : At(i, l)
<1> DEFINE S == {n \in Nat : i < 2 ^ n}
<1>1. i \in S
  BY PowerType
<1>2. PICK m \in S : \A n \in S : m <= n
  BY <1>1, LeastNatural
<1>3. m # 0
  <2>1. SUFFICES ASSUME m = 0 PROVE FALSE
    OBVIOUS
  <2>2. i < 2 ^ 0
    BY <2>1, <1>2
  <2>3. QED
    BY <2>2, PowerZero
<1>4. m - 1 \in Nat /\ (m - 1) + 1 = m /\ m - 1 \notin S
  BY <1>2, <1>3
<1>5. 2 ^ (m - 1) <= i
  BY <1>4, PowerType
<1>6. QED
  BY <1>2, <1>4, <1>5 DEF At

LEMMA LevelOfChild ==
    ASSUME NEW i \in Nat, NEW l \in Nat, At(i, l)
    PROVE  At(LeftChild(i), l + 1) /\ At(RightChild(i), l + 1)
<1>1. /\ 2 ^ (l + 1) = 2 * 2 ^ l /\ 2 ^ ((l + 1) + 1) = 2 * 2 ^ (l + 1)
      /\ 2 ^ l \in Nat
  BY PowerDoubles, PowerType
<1>2. QED
  BY <1>1 DEF At, LeftChild, RightChild

LEMMA LevelOfRoot == At(RootIdx, 0)
<1>1. 2 ^ (0 + 1) = 2 * 2 ^ 0
  BY PowerDoubles
<1>2. QED
  BY <1>1, PowerZero DEF At, RootIdx

(* The level of a stem is how far it is below the root.                    *)
LEMMA UpToRoot ==
    ASSUME NEW i \in Nat, NEW l \in Nat, At(i, l)
    PROVE  Up(i, l) = RootIdx /\ \A n \in Nat : n > l => Up(i, n) = 0
<1>1. 2 ^ l \in Nat \ {0} /\ 2 ^ (l + 1) = 2 * 2 ^ l
  BY PowerType, PowerDoubles
<1>2. \A p \in Nat \ {0} : p <= i /\ i < 2 * p => i \div p = 1
  OBVIOUS
<1>3. Up(i, l) = 1
  BY <1>1, <1>2 DEF At, Up
<1>4. ASSUME NEW n \in Nat, n > l PROVE Up(i, n) = 0
  <2>1. 2 ^ (l + 1) <= 2 ^ n /\ 2 ^ n \in Nat \ {0} /\ 2 ^ (l + 1) \in Nat
    BY <1>4, PowerGrows, PowerType
  <2>2. i < 2 ^ n
    BY <2>1 DEF At
  <2>3. \A p \in Nat \ {0} : i < p => i \div p = 0
    OBVIOUS
  <2>4. QED
    BY <2>1, <2>2, <2>3 DEF Up
<1>5. QED
  BY <1>3, <1>4 DEF RootIdx

LEMMA UnderItself == ASSUME NEW i \in Nat PROVE Under(i, i)
  BY UpZero DEF Under

LEMMA UnderSmaller ==
    ASSUME NEW i \in Nat, NEW j, Under(i, j)
    PROVE  j \in Nat /\ j <= i
  BY UpType DEF Under

LEMMA UnderRoot ==
    ASSUME NEW i \in Nat \ {0}
    PROVE  Under(i, RootIdx)
  BY LevelExists, UpToRoot DEF Under

(* What a child is under, but for itself, its parent is under.             *)
LEMMA ChildUnder ==
    ASSUME NEW i \in Nat, NEW j
    PROVE  /\ Under(LeftChild(i), j) <=> j = LeftChild(i) \/ Under(i, j)
           /\ Under(RightChild(i), j) <=> j = RightChild(i) \/ Under(i, j)
<1>1. ASSUME NEW c \in {LeftChild(i), RightChild(i)}
      PROVE  Under(c, j) <=> j = c \/ Under(i, j)
  <2>1. c \in Nat
    BY <1>1 DEF LeftChild, RightChild
  <2>2. \A n \in Nat : Up(c, n + 1) = Up(i, n)
    BY <1>1, UpChild
  <2>3. ASSUME NEW n \in Nat, Up(c, n) = j PROVE j = c \/ Under(i, j)
    <3>1. CASE n = 0
      BY <3>1, <2>1, <2>3, UpZero
    <3>2. CASE n # 0
      <4>1. n - 1 \in Nat /\ (n - 1) + 1 = n
        BY <3>2
      <4>2. Up(i, n - 1) = j
        BY <4>1, <2>2, <2>3
      <4>3. QED
        BY <4>1, <4>2 DEF Under
    <3>3. QED
      BY <3>1, <3>2
  <2>4. ASSUME NEW n \in Nat, Up(i, n) = j PROVE Under(c, j)
    BY <2>2, <2>4 DEF Under
  <2>5. j = c => Under(c, j)
    BY <2>1, UnderItself
  <2>6. QED
    BY <2>3, <2>4, <2>5 DEF Under
<1>2. QED
  BY <1>1

(* What is under a child is under its parent; what is under a stem is it,  *)
(* or under one of its children.                                           *)
LEMMA UnderChild ==
    ASSUME NEW i \in Nat, NEW j \in Nat
    PROVE  /\ Under(i, LeftChild(j)) => Under(i, j)
           /\ Under(i, RightChild(j)) => Under(i, j)
           /\ Under(i, j) => \/ i = j
                             \/ Under(i, LeftChild(j))
                             \/ Under(i, RightChild(j))
<1>1. \A n \in Nat : Up(i, n) \in {LeftChild(j), RightChild(j)}
                        => Up(i, n + 1) = j
  <2>1. LeftChild(j) \div 2 = j /\ RightChild(j) \div 2 = j
    BY DEF LeftChild, RightChild
  <2>2. QED
    BY <2>1, UpNext
<1>2. ASSUME NEW n \in Nat, Up(i, n) = j, i # j
      PROVE  Under(i, LeftChild(j)) \/ Under(i, RightChild(j))
  <2>1. n # 0
    BY <1>2, UpZero
  <2>2. n - 1 \in Nat /\ (n - 1) + 1 = n
    BY <2>1
  <2>3. Up(i, n - 1) \in Nat /\ Up(i, n - 1) \div 2 = j
    BY <1>2, <2>2, UpNext, UpType
  <2>4. Up(i, n - 1) \in {LeftChild(j), RightChild(j)}
    BY <2>3 DEF LeftChild, RightChild
  <2>5. QED
    BY <2>2, <2>4 DEF Under
<1>3. QED
  BY <1>1, <1>2 DEF Under

-----------------------------------------------------------------------------
(* The layout.                                                             *)

LEMMA NextPowerOfTwoType ==
    ASSUME NEW n \in Nat
    PROVE  /\ \E e \in 0 .. n : NextPowerOfTwo(n) = 2 ^ e
           /\ NextPowerOfTwo(n) >= n
           /\ n < 2 => NextPowerOfTwo(n) <= 1
<1> DEFINE powers == {2 ^ e : e \in 0 .. n}
           enough == {p \in powers : p >= n}
<1>1. powers \in SUBSET Nat
  BY PowerType
<1>2. 2 ^ n \in enough
  BY PowerType
<1>3. PICK p \in enough : \A q \in enough : p <= q
  <2>1. enough \in SUBSET Nat
    BY <1>1
  <2> HIDE DEF enough
  <2>2. QED
    BY <2>1, <1>2, LeastNatural
<1>4. p \in powers /\ p >= n /\ \A q \in powers : q >= n => p <= q
  BY <1>3
<1>5. /\ NextPowerOfTwo(n) \in powers /\ NextPowerOfTwo(n) >= n
      /\ \A q \in powers : q >= n => NextPowerOfTwo(n) <= q
  <2> HIDE DEF powers
  <2> QED
    BY <1>4 DEF NextPowerOfTwo, powers
<1>6. n < 2 => 1 \in powers /\ 1 >= n
  <2>1. 2 ^ 0 \in powers
    <3>1. 0 \in 0 .. n
      OBVIOUS
    <3>2. QED
      BY <3>1, Zenon
  <2> HIDE DEF powers
  <2>2. QED
    BY <2>1, PowerZero
<1>7. QED
  BY <1>5, <1>6

LEMMA StemsDepthType ==
    ASSUME NEW n \in Nat
    PROVE  /\ StemsDepth(n) \in Nat
           /\ n < 2 => StemsDepth(n) = 0
           /\ n >= 2 => StemsDepth(n) >= 1
<1>1. PICK e \in 0 .. n : NextPowerOfTwo(n) = 2 ^ e
  BY NextPowerOfTwoType
<1>2. StemsDepth(n) \in 0 .. n /\ 2 ^ StemsDepth(n) = NextPowerOfTwo(n)
  BY <1>1 DEF StemsDepth
<1>3. 2 ^ StemsDepth(n) >= n
  BY <1>2, NextPowerOfTwoType
<1>4. n >= 2 => StemsDepth(n) # 0
  <2>1. SUFFICES ASSUME StemsDepth(n) = 0 PROVE ~(n >= 2)
    OBVIOUS
  <2>2. 2 ^ 0 >= n
    BY <2>1, <1>3
  <2>3. QED
    BY <2>2, PowerZero
<1>5. n < 2 => StemsDepth(n) = 0
  <2>1. n < 2 => 2 ^ StemsDepth(n) <= 1
    BY <1>2, NextPowerOfTwoType
  <2>2. 2 ^ StemsDepth(n) \in Nat /\ StemsDepth(n) < 2 ^ StemsDepth(n)
    BY <1>2, PowerType
  <2>3. QED
    BY <1>2, <2>1, <2>2
<1>6. QED
  BY <1>2, <1>4, <1>5

LEMMA LeafNodeCountType ==
    ASSUME NEW n \in Nat
    PROVE  LeafNodeCount(n) \in Nat
<1>1. B \in Nat \ {0}
  BY SoftAssumption
<1>2. n + B - 1 \in Nat
  BY <1>1
<1>3. QED
  BY <1>1, <1>2 DEF LeafNodeCount

(* The stems of the tree fit the array of stems.                           *)
LEMMA StemCountFits ==
    ASSUME NEW n \in Nat
    PROVE  /\ StemCount(n) \in Nat
           /\ 2 ^ StemsDepth(LeafNodeCount(n)) <= StemCount(n)
<1> DEFINE d == StemsDepth(LeafNodeCount(n))
           a == 2 ^ (d + 1)
           q == (a + 8 - 1) \div 8
<1>1. d \in Nat
  BY LeafNodeCountType, StemsDepthType
<1>2. 2 ^ d \in Nat \ {0} /\ a = 2 * 2 ^ d /\ a \in Nat
  <2> HIDE DEF d
  <2> QED
    BY <1>1, PowerType, PowerDoubles
<1> HIDE DEF a, d
<1>3. q * 8 >= a /\ q * 8 \in Nat
  BY <1>2
<1>4. StemCount(n) = q * 8 - 1
  BY DEF StemCount, NextMultipleOf, d, a
<1> HIDE DEF q
<1>5. StemCount(n) \in Nat /\ 2 ^ d <= StemCount(n)
  BY <1>2, <1>3, <1>4
<1>6. QED
  BY <1>5 DEF d

-----------------------------------------------------------------------------
(* Arranging a slice and cutting it.                                       *)

(* The run of a slot, at its start and at its end.                         *)
Bounded(keys, n, index) ==
    LET start == RunStart(keys, index)
        end   == RunEnd(keys, index)
    IN
    /\ start \in 0 .. index
    /\ \A i \in start + 1 .. index : keys[i] = keys[index + 1]
    /\ start > 0 => keys[start] # keys[index + 1]
    /\ end \in index + 1 .. n
    /\ \A i \in index + 1 .. end : keys[i] = keys[index + 1]
    /\ end < n => keys[end + 1] # keys[index + 1]

LEMMA RunBounds ==
    ASSUME NEW n \in Nat, NEW keys \in [1 .. n -> Int], NEW index \in 0 .. n - 1
    PROVE  Bounded(keys, n, index)
<1> DEFINE v == keys[index + 1]
           Starts(start) == /\ \A i \in start + 1 .. index : keys[i] = v
                            /\ start > 0 => keys[start] # v
           Ends(end) == /\ \A i \in index + 1 .. end : keys[i] = v
                        /\ end < n => keys[end + 1] # v
           S == {k \in 1 .. index : \E j \in k .. index : keys[j] # v}
           T == {k \in 1 .. n : \A j \in index + 1 .. k : keys[j] = v}
<1>1. index \in Nat /\ index + 1 \in 1 .. n /\ Len(keys) = n
  OBVIOUS
<1>2. \E start \in 0 .. index : Starts(start)
  <2> DEFINE start == Cardinality(S)
  <2> HIDE DEF v
  <2>1. S \in SUBSET (1 .. index)
    OBVIOUS
  <2>2. \A i \in S : \A j \in 1 .. index : j <= i => j \in S
    BY <1>1
  <2>3. start \in 0 .. index /\ S = 1 .. start
    <3> HIDE DEF S
    <3> QED
      BY <1>1, <2>1, <2>2, InitialSegment
  <2> HIDE DEF start
  <2>4. ASSUME NEW i \in start + 1 .. index PROVE keys[i] = v
    <3>1. i \in 1 .. index /\ i \notin 1 .. start
      BY <1>1, <2>3
    <3>2. i \in i .. index
      BY <3>1
    <3>3. QED
      BY <2>3, <3>1, <3>2
  <2>5. ASSUME start > 0 PROVE keys[start] # v
    <3>1. start \in 1 .. start
      BY <1>1, <2>3, <2>5
    <3>2. start \in S
      BY <2>3, <3>1
    <3>3. PICK j \in start .. index : keys[j] # v
      BY <3>2
    <3>4. j \in S
      BY <1>1, <2>3, <2>5, <3>3
    <3> HIDE DEF S
    <3>5. j <= start
      BY <2>3, <3>4
    <3>6. QED
      BY <1>1, <2>3, <3>3, <3>5
  <2>6. QED
    BY <2>3, <2>4, <2>5
<1>3. \E end \in index + 1 .. n : Ends(end)
  <2> DEFINE end == Cardinality(T)
  <2>0. keys[index + 1] = v
    OBVIOUS
  <2> HIDE DEF v
  <2>1. T \in SUBSET (1 .. n)
    OBVIOUS
  <2>2. \A i \in T : \A j \in 1 .. n : j <= i => j \in T
    BY <1>1
  <2>3. end \in 0 .. n /\ T = 1 .. end
    <3> HIDE DEF T
    <3> QED
      BY <2>1, <2>2, InitialSegment
  <2>4. index + 1 \in T
    <3>1. \A j \in index + 1 .. index + 1 : j = index + 1
      BY <1>1
    <3>2. QED
      BY <1>1, <2>0, <3>1
  <2> HIDE DEF end
  <2>5. end \in index + 1 .. n /\ end \in T
    <3> HIDE DEF T
    <3> QED
      BY <1>1, <2>3, <2>4
  <2>6. ASSUME end < n PROVE keys[end + 1] # v
    <3>1. end + 1 \in 1 .. n /\ end + 1 \notin T
      <4> HIDE DEF T
      <4> QED
        BY <1>1, <2>3, <2>6
    <3>2. PICK j \in index + 1 .. end + 1 : keys[j] # v
      BY <3>1
    <3>3. ~(j \in index + 1 .. end)
      BY <2>5, <3>2
    <3>4. j = end + 1
      BY <1>1, <2>5, <3>2, <3>3
    <3>5. QED
      BY <3>2, <3>4
  <2>7. QED
    BY <2>5, <2>6
<1>4. /\ RunStart(keys, index) = CHOOSE start \in 0 .. index : Starts(start)
      /\ RunEnd(keys, index) = CHOOSE end \in index + 1 .. n : Ends(end)
  BY <1>1, Zenon DEF RunStart, RunEnd
<1>5. /\ RunStart(keys, index) \in 0 .. index
      /\ Starts(RunStart(keys, index))
  <2> HIDE DEF Starts
  <2> QED
    BY <1>2, <1>4, Zenon
<1>6. RunEnd(keys, index) \in index + 1 .. n /\ Ends(RunEnd(keys, index))
  <2> HIDE DEF Ends
  <2> QED
    BY <1>3, <1>4, Zenon
<1>7. QED
  BY <1>5, <1>6 DEF Bounded

(* A slice that is reordered holds what it held, once.                     *)
HeldOnce(r, n, slice, dim, order) ==
    /\ r \in [1 .. n -> {slice[i] : i \in 1 .. n}]
    /\ DOMAIN r = 1 .. n
    /\ \A i, j \in 1 .. n : r[i] = r[j] => i = j
    /\ Keys(r, dim) = [k \in 1 .. n |-> Keys(slice, dim)[order[k]]]

LEMMA ReorderedHolds ==
    ASSUME NEW n \in Nat, NEW slice, DOMAIN slice = 1 .. n, NEW dim,
           \A i, j \in 1 .. n : slice[i] = slice[j] => i = j,
           NEW order, Rearranges(order, n)
    PROVE  HeldOnce(Reordered(slice, order), n, slice, dim, order)
<1>1. /\ \A i \in 1 .. n : order[i] \in 1 .. n
      /\ \A i, j \in 1 .. n : order[i] = order[j] => i = j
  BY DEF Rearranges
<1>2. Reordered(slice, order) = [k \in 1 .. n |-> slice[order[k]]]
  BY DEF Reordered
<1>3. Keys(slice, dim) = [k \in 1 .. n |-> Coord(slice[k], dim)]
  BY DEF Keys
<1>4. Keys(Reordered(slice, order), dim)
         = [k \in 1 .. n |-> Coord(slice[order[k]], dim)]
  BY <1>2 DEF Keys
<1> DEFINE r == Reordered(slice, order)
           M == {slice[i] : i \in 1 .. n}
<1>5. /\ r \in [1 .. n -> M] /\ DOMAIN r = 1 .. n
      /\ \A i \in 1 .. n : r[i] = slice[order[i]]
  <2>1. \A i \in 1 .. n : slice[i] \in M
    OBVIOUS
  <2> HIDE DEF M
  <2>2. QED
    BY <1>1, <1>2, <2>1
<1>6. \A i, j \in 1 .. n : r[i] = r[j] => i = j
  <2> HIDE DEF r
  <2> QED
    BY <1>1, <1>5
<1>7. Keys(r, dim) = [k \in 1 .. n |-> Keys(slice, dim)[order[k]]]
  BY <1>1, <1>3, <1>4
<1>8. QED
  BY <1>5, <1>6, <1>7 DEF HeldOnce

(* What update_pivot leaves a slice as: its entries, each once, split at   *)
(* the entry of the index; and all of it in order where there is no slot   *)
(* before the run of that entry.                                           *)
LEMMA ArrangedParts ==
    ASSUME NEW n \in SliceLengths, n \in Nat, NEW slice, DOMAIN slice = 1 .. n,
           \A i, j \in 1 .. n : slice[i] = slice[j] => i = j, NEW dim,
           Keys(slice, dim) \in [1 .. n -> Coordinates],
           \A x \in Coordinates : x \in Int,
           NEW index \in 0 .. n - 1
    PROVE  LET order == Arranged(slice, dim, index)
               keys  == Keys(order, dim)
           IN
           /\ order \in [1 .. n -> {slice[i] : i \in 1 .. n}]
           /\ \A i, j \in 1 .. n : order[i] = order[j] => i = j
           /\ keys \in [1 .. n -> Int]
           /\ \A i \in 1 .. index : keys[i] <= keys[index + 1]
           /\ \A i \in index + 1 .. n : keys[i] >= keys[index + 1]
           /\ RunStart(keys, index) = 0 =>
                 \A i, j \in 1 .. n : i <= j => keys[i] <= keys[j]
<1> DEFINE k0 == Keys(slice, dim)
           pi == SelectNth(k0, index)
           selected == Reordered(slice, pi)
           k1 == Keys(selected, dim)
           sigma == SortUnstable(k1)
           sorted == Reordered(selected, sigma)
           k2 == Keys(sorted, dim)
           M == {slice[i] : i \in 1 .. n}
<1>1. Rearranges(pi, n) /\ Partitions(pi, k0, index)
  <2> HIDE DEF k0
  <2>1. k0 \in [1 .. n -> Coordinates]
    BY DEF k0
  <2>2. QED
    BY <2>1, SelectionAssumption
<1>2. /\ selected \in [1 .. n -> M] /\ DOMAIN selected = 1 .. n
      /\ \A i, j \in 1 .. n : selected[i] = selected[j] => i = j
      /\ k1 = [k \in 1 .. n |-> k0[pi[k]]]
  <2> HIDE DEF pi
  <2>1. HeldOnce(selected, n, slice, dim, pi)
    BY <1>1, ReorderedHolds
  <2> HIDE DEF selected
  <2>2. QED
    BY <2>1 DEF HeldOnce
<1>3. index + 1 \in 1 .. n /\ Len(k0) = n
  <2> HIDE DEF k0
  <2>1. k0 \in [1 .. n -> Coordinates]
    BY DEF k0
  <2>2. QED
    BY <2>1
<1>4. \A i \in 1 .. n : pi[i] \in 1 .. n
  BY <1>1 DEF Rearranges
<1>5. k1 \in [1 .. n -> Coordinates] /\ k1 \in [1 .. n -> Int]
  <2> HIDE DEF k0, pi, k1
  <2>1. \A i \in 1 .. n : k0[i] \in Coordinates
    BY DEF k0
  <2>2. QED
    BY <1>2, <1>4, <2>1
<1>6. /\ \A i \in 1 .. index : k1[i] <= k1[index + 1]
      /\ \A i \in index + 1 .. n : k1[i] >= k1[index + 1]
  <2> HIDE DEF k0, pi, k1
  <2>1. /\ \A i \in 1 .. index : k0[pi[i]] <= k0[pi[index + 1]]
        /\ \A i \in index + 1 .. n : k0[pi[i]] >= k0[pi[index + 1]]
    BY <1>1, <1>3 DEF Partitions
  <2>2. /\ \A i \in 1 .. index : i \in 1 .. n
        /\ \A i \in index + 1 .. n : i \in 1 .. n
    BY <1>3
  <2>3. QED
    BY <1>2, <1>3, <2>1, <2>2
<1>7. /\ Rearranges(sigma, n)
      /\ \A i, j \in 1 .. n : i <= j => k1[sigma[i]] <= k1[sigma[j]]
  <2> HIDE DEF k1
  <2> QED
    BY <1>5, SelectionAssumption
<1>8. /\ sorted \in [1 .. n -> {selected[i] : i \in 1 .. n}]
      /\ \A i, j \in 1 .. n : sorted[i] = sorted[j] => i = j
      /\ k2 = [k \in 1 .. n |-> k1[sigma[k]]]
  <2> HIDE DEF selected, sigma
  <2>1. HeldOnce(sorted, n, selected, dim, sigma)
    BY <1>2, <1>7, ReorderedHolds
  <2> HIDE DEF sorted
  <2>2. QED
    BY <2>1 DEF HeldOnce
<1>9. /\ k2 \in [1 .. n -> Int]
      /\ \A i, j \in 1 .. n : i <= j => k2[i] <= k2[j]
  <2>1. \A i \in 1 .. n : sigma[i] \in 1 .. n
    BY <1>7 DEF Rearranges
  <2> HIDE DEF k1, k2, sigma
  <2>2. QED
    BY <1>5, <1>7, <1>8, <2>1
<1>10. sorted \in [1 .. n -> M]
  <2> HIDE DEF selected, sorted, M
  <2>1. {selected[i] : i \in 1 .. n} \subseteq M
    BY <1>2
  <2>2. QED
    BY <1>8, <2>1
<1>11. Arranged(slice, dim, index)
          = IF RunStart(k1, index) > 0 THEN selected ELSE sorted
  BY DEF Arranged
<1>12. RunStart(k1, index) \in Nat
  <2> HIDE DEF k1
  <2>1. RunStart(k1, index) \in 0 .. index
    BY <1>5, RunBounds DEF Bounded
  <2>2. QED
    BY <2>1
<1> DEFINE order == Arranged(slice, dim, index)
           keys == Keys(order, dim)
<1>13. CASE RunStart(k1, index) > 0
  <2>1. order = selected /\ keys = k1
    BY <1>11, <1>13
  <2> HIDE DEF order, keys, selected, M, k1
  <2>2. RunStart(keys, index) # 0
    BY <1>12, <1>13, <2>1
  <2>3. /\ order \in [1 .. n -> M]
        /\ \A i, j \in 1 .. n : order[i] = order[j] => i = j
        /\ keys \in [1 .. n -> Int]
        /\ \A i \in 1 .. index : keys[i] <= keys[index + 1]
        /\ \A i \in index + 1 .. n : keys[i] >= keys[index + 1]
    BY <1>2, <1>5, <1>6, <2>1
  <2>4. QED
    BY <2>2, <2>3 DEF order, keys, M
<1>14. CASE ~(RunStart(k1, index) > 0)
  <2>1. order = sorted /\ keys = k2
    BY <1>11, <1>14
  <2> HIDE DEF order, keys, sorted, M, k1, k2
  <2>2. /\ order \in [1 .. n -> M]
        /\ \A i, j \in 1 .. n : order[i] = order[j] => i = j
        /\ keys \in [1 .. n -> Int]
        /\ \A i, j \in 1 .. n : i <= j => keys[i] <= keys[j]
    BY <1>8, <1>9, <1>10, <2>1
  <2>3. /\ \A i \in 1 .. index : keys[i] <= keys[index + 1]
        /\ \A i \in index + 1 .. n : keys[i] >= keys[index + 1]
    BY <1>3, <2>2
  <2>4. QED
    BY <2>2, <2>3 DEF order, keys, M
<1>15. QED
  BY <1>13, <1>14

(* Cutting a slice that is split at an entry: left to the start of the run *)
(* of that entry, what is left is not above it and what is right not below *)
(* it; where the run starts the slice, the slice is in order, and so it is *)
(* at the run's end.                                                       *)
LEMMA NudgedDivides ==
    ASSUME NEW n \in Nat, NEW order, DOMAIN order = 1 .. n, NEW dim,
           NEW init \in 0 .. n - 1,
           Keys(order, dim) \in [1 .. n -> Int],
           \A i \in 1 .. init : Keys(order, dim)[i] <= Keys(order, dim)[init + 1],
           \A i \in init + 1 .. n :
              Keys(order, dim)[i] >= Keys(order, dim)[init + 1],
           RunStart(Keys(order, dim), init) = 0 =>
              \A i, j \in 1 .. n : i <= j =>
                 Keys(order, dim)[i] <= Keys(order, dim)[j]
    PROVE  LET pivot == Nudged(order, dim, init)
               keys  == Keys(order, dim)
           IN
           /\ pivot \in 1 .. n
           /\ pivot < n => /\ \A i \in 1 .. pivot : keys[i] <= keys[pivot + 1]
                           /\ \A i \in pivot + 1 .. n : keys[i] >= keys[pivot + 1]
<1> DEFINE keys == Keys(order, dim)
           start == RunStart(keys, init)
           end == RunEnd(keys, init)
           pivot == Nudged(order, dim, init)
           v == keys[init + 1]
<1>1. /\ start \in 0 .. init
      /\ \A i \in start + 1 .. init : keys[i] = v
      /\ start > 0 => keys[start] # v
      /\ end \in init + 1 .. n
      /\ \A i \in init + 1 .. end : keys[i] = v
      /\ end < n => keys[end + 1] # v
  <2>1. keys \in [1 .. n -> Int]
    OBVIOUS
  <2> HIDE DEF keys
  <2>2. Bounded(keys, n, init)
    BY <2>1, RunBounds
  <2>3. QED
    BY <2>2 DEF Bounded
<1>2. pivot = IF start > 0 THEN start ELSE end
  BY DEF Nudged
<1>3. /\ keys \in [1 .. n -> Int]
      /\ \A i \in 1 .. init : keys[i] <= v
      /\ \A i \in init + 1 .. n : keys[i] >= v
      /\ start = 0 => \A i, j \in 1 .. n : i <= j => keys[i] <= keys[j]
      /\ v = keys[init + 1] /\ init \in Nat /\ init + 1 \in 1 .. n
  OBVIOUS
<1> HIDE DEF keys, start, end, pivot, v
<1>4. CASE start > 0
  <2>1. pivot = start /\ pivot \in 1 .. n /\ pivot + 1 \in 1 .. init + 1
    BY <1>1, <1>2, <1>3, <1>4
  <2>2. keys[pivot + 1] = v
    BY <1>1, <1>3, <2>1
  <2>3. ASSUME NEW i \in 1 .. pivot PROVE keys[i] <= keys[pivot + 1]
    BY <1>1, <1>3, <2>1, <2>2
  <2>4. ASSUME NEW i \in pivot + 1 .. n PROVE keys[i] >= keys[pivot + 1]
    <3>1. CASE i <= init
      <4>1. i \in start + 1 .. init
        BY <2>1, <3>1
      <4>2. keys[i] = v /\ v \in Int
        BY <4>1, <1>1, <1>3
      <4>3. QED
        BY <4>2, <2>2
    <3>2. CASE ~(i <= init)
      <4>1. i \in init + 1 .. n
        BY <1>3, <2>1, <3>2
      <4>2. QED
        BY <4>1, <1>3, <2>2
    <3>3. QED
      BY <3>1, <3>2
  <2>5. QED
    BY <2>1, <2>3, <2>4 DEF pivot, keys
<1>5. CASE ~(start > 0)
  <2>1. start = 0 /\ pivot = end /\ pivot \in 1 .. n
    BY <1>1, <1>2, <1>3, <1>5
  <2>2. ASSUME pivot < n
        PROVE  /\ \A i \in 1 .. pivot : keys[i] <= keys[pivot + 1]
               /\ \A i \in pivot + 1 .. n : keys[i] >= keys[pivot + 1]
    <3>1. pivot + 1 \in 1 .. n
      BY <2>1, <2>2
    <3>2. QED
      BY <3>1, <2>1, <1>3
  <2>3. QED
    BY <2>1, <2>2 DEF pivot, keys
<1>6. QED
  BY <1>4, <1>5

-----------------------------------------------------------------------------
(* Calls.                                                                  *)

(* The sort index lists every position of the source once.                 *)
Listing(si, n) ==
    /\ si \in [1 .. n -> 1 .. n]
    /\ \A i, j \in 1 .. n : si[i] = si[j] => i = j

(* A call at its stem: its budget is that of the levels below it, and its  *)
(* first leaf the one its stem's number leads to.                          *)
Call(top, n) ==
    {c \in [stem : Nat \ {0}, level : 0 .. top, offset : Nat, len : Nat,
            leaf : Nat, budget : Nat, bounds : [0 .. K - 1 -> Int]] :
        /\ At(c.stem, c.level)
        /\ c.budget = 2 ^ (top - c.level)
        /\ c.leaf = (c.stem - 2 ^ c.level) * c.budget
        /\ c.offset + c.len <= n}

Levels == max_stem_level + 1
Axis(c) == c.level % K

(* An entry that shares a coordinate, and one that may be on the left of a *)
(* stem of value v: below it, or where the entry shares one, equal to it.  *)
Tied(src, e) ==
    \E j \in DOMAIN src \ {e} : \E d \in 0 .. K - 1 : src[j][d] = src[e][d]

LeftSide(src, e, d, v) ==
    src[e][d] \in Int /\ (src[e][d] < v \/ (src[e][d] = v /\ Tied(src, e)))

(* Every entry of a call is on the left of the call's bounds.              *)
BelowBounds(c, si) ==
    \A k \in Parts(c) : \A d \in 0 .. K - 1 :
        LeftSide(source, si[k], d, c.bounds[d])

(* What a division of a call promises.                                     *)
Divides(c, order, division, si) ==
    /\ division.pivot \in 0 .. c.len
    /\ division.value \in Int
    /\ order \in [1 .. c.len -> {si[k] : k \in Parts(c)}]
    /\ \A i, j \in 1 .. c.len :
          order[i] = order[j] => i = j
    /\ \A i \in 1 .. division.pivot :
          LeftSide(source, order[i], Axis(c), division.value)
    /\ \A i \in division.pivot + 1 .. c.len :
          Coord(order[i], Axis(c)) >= division.value
    /\ division.value = IF division.pivot < c.len
                        THEN Coord(order[division.pivot + 1], Axis(c))
                        ELSE c.bounds[Axis(c)]

PointsOK ==
    /\ source \in Seq([0 .. K - 1 -> Int])
    /\ source = <<>> \/ source \in Sources

LEMMA AxisType ==
    ASSUME NEW l \in Nat
    PROVE  l % K \in 0 .. K - 1
  BY SoftAssumption

LEMMA IdealPivotType ==
    ASSUME NEW n \in Nat, NEW left \in Nat, NEW budget \in Nat \ {0}
    PROVE  IdealPivot(n, left, budget) \in 0 .. n
<1> DEFINE x == (n * left + budget - 1) \div budget
<1>1. x \in Int
  <2>1. n * left + budget - 1 \in Int
    OBVIOUS
  <2>2. QED
    BY <2>1
<1> HIDE DEF x
<1>2. n > 0 => Lesser(Greater(x, 1), n) \in 0 .. n
  BY <1>1 DEF Lesser, Greater
<1>3. QED
  BY <1>2 DEF IdealPivot, x

(* A slice of the sort index.                                              *)
LEMMA SliceType ==
    ASSUME PointsOK, Listing(sort_index, Len(source)),
           NEW c, c.offset \in Nat, c.len \in Nat,
           c.offset + c.len <= Len(source)
    PROVE  /\ Slice(c) \in [1 .. c.len -> {sort_index[k] : k \in Parts(c)}]
           /\ DOMAIN Slice(c) = 1 .. c.len
           /\ Parts(c) \subseteq 1 .. Len(source)
           /\ \A i \in 1 .. c.len : /\ c.offset + i \in Parts(c)
                                    /\ Slice(c)[i] = sort_index[c.offset + i]
           /\ \A i, j \in 1 .. c.len : Slice(c)[i] = Slice(c)[j] => i = j
           /\ \A k \in Parts(c) : \A d \in 0 .. K - 1 :
                 sort_index[k] \in Nat /\ Coord(sort_index[k], d) \in Int
<1>1. Len(source) \in Nat /\ DOMAIN source = 1 .. Len(source)
  BY DEF PointsOK
<1>2. Parts(c) \subseteq 1 .. Len(source)
  BY <1>1 DEF Parts
<1>3. Slice(c) = [i \in 1 .. c.len |-> sort_index[c.offset + i]]
  <2>1. /\ 1 + ((c.offset + c.len) - (c.offset + 1)) = c.len
        /\ \A i \in 1 .. c.len : i + (c.offset + 1) - 1 = c.offset + i
    OBVIOUS
  <2>2. Slice(c) = [i \in 1 .. (1 + ((c.offset + c.len) - (c.offset + 1)))
                       |-> sort_index[i + (c.offset + 1) - 1]]
    BY DEF Slice
  <2>3. QED
    BY <2>1, <2>2
<1>4. \A i \in 1 .. c.len : c.offset + i \in Parts(c)
  BY DEF Parts
<1>5. \A k \in 1 .. Len(source) : \A d \in 0 .. K - 1 :
         sort_index[k] \in Nat /\ Coord(sort_index[k], d) \in Int
  <2> SUFFICES ASSUME NEW k \in 1 .. Len(source), NEW d \in 0 .. K - 1
               PROVE  sort_index[k] \in Nat /\ Coord(sort_index[k], d) \in Int
    OBVIOUS
  <2>1. sort_index[k] \in 1 .. Len(source)
    BY DEF Listing
  <2>2. source[sort_index[k]] \in [0 .. K - 1 -> Int]
    BY <2>1, <1>1 DEF PointsOK
  <2>3. sort_index[k] \in Nat
    BY <2>1, <1>1
  <2>4. source[sort_index[k]][d] \in Int
    BY <2>2
  <2>5. QED
    BY <2>3, <2>4 DEF Coord
<1>6. \A i, j \in 1 .. c.len : Slice(c)[i] = Slice(c)[j] => i = j
  <2> TAKE i, j \in 1 .. c.len
  <2>1. c.offset + i \in 1 .. Len(source) /\ c.offset + j \in 1 .. Len(source)
    BY <1>2, <1>4
  <2>2. sort_index[c.offset + i] = sort_index[c.offset + j]
           => c.offset + i = c.offset + j
    BY <2>1 DEF Listing
  <2> QED
    BY <2>2, <1>3
<1>7. QED
  BY <1>2, <1>3, <1>4, <1>5, <1>6

(* The keys of a slice are such as the library is given.                   *)
LEMMA SliceKeys ==
    ASSUME PointsOK, Listing(sort_index, Len(source)),
           NEW c, c.offset \in Nat, c.len \in Nat \ {0},
           c.offset + c.len <= Len(source), NEW dim \in 0 .. K - 1
    PROVE  /\ c.len \in SliceLengths
           /\ Keys(Slice(c), dim) \in [1 .. c.len -> Coordinates]
           /\ \A x \in Coordinates : x \in Int
<1>1. Len(source) \in Nat /\ DOMAIN source = 1 .. Len(source)
  BY DEF PointsOK
<1>2. source \in Sources
  <2>1. source # <<>>
    BY <1>1
  <2>2. QED
    BY <2>1 DEF PointsOK
<1>3. c.len \in SliceLengths
  <2>1. c.len \in 1 .. Len(source)
    BY <1>1
  <2>2. QED
    BY <2>1, <1>2 DEF SliceLengths
<1>4. ASSUME NEW i \in 1 .. Len(source) PROVE source[i][dim] \in Coordinates
  <2>1. source[i][dim] \in {source[j][d] : j \in DOMAIN source, d \in 0 .. K - 1}
    BY <1>1
  <2>2. QED
    BY <2>1, <1>2 DEF Coordinates
<1>5. ASSUME NEW i \in 1 .. c.len
      PROVE  Coord(Slice(c)[i], dim) \in Coordinates
  <2>1. /\ Parts(c) \subseteq 1 .. Len(source) /\ c.offset + i \in Parts(c)
        /\ Slice(c)[i] = sort_index[c.offset + i]
    BY SliceType
  <2>2. Slice(c)[i] \in 1 .. Len(source)
    BY <2>1 DEF Listing
  <2>3. QED
    BY <2>2, <1>4 DEF Coord
<1>6. Keys(Slice(c), dim) = [k \in 1 .. c.len |-> Coord(Slice(c)[k], dim)]
  <2>1. DOMAIN Slice(c) = 1 .. c.len
    BY SliceType
  <2>2. QED
    BY <2>1 DEF Keys
<1>7. ASSUME NEW x \in Coordinates PROVE x \in Int
  <2>1. PICK src \in Sources :
           x \in {src[i][d] : i \in DOMAIN src, d \in 0 .. K - 1}
    BY DEF Coordinates
  <2>2. PICK i \in DOMAIN src : \E d \in 0 .. K - 1 : x = src[i][d]
    BY <2>1
  <2>3. PICK d \in 0 .. K - 1 : x = src[i][d]
    BY <2>2
  <2>4. src \in Seq([0 .. K - 1 -> Int])
    BY SoftAssumption
  <2>5. src[i] \in [0 .. K - 1 -> Int]
    BY <2>4
  <2>6. QED
    BY <2>3, <2>5
<1>8. QED
  BY <1>3, <1>5, <1>6, <1>7

(* Division, whichever of its ways it takes.                               *)
LEMMA DivisionDivides ==
    ASSUME PointsOK, Listing(sort_index, Len(source)), Levels \in Nat,
           NEW c \in Call(Levels, Len(source)), c.level < Levels,
           BelowBounds(c, sort_index)
    PROVE  Divides(c, CallOrder(c), Division(c, CallOrder(c)), sort_index)
<1> DEFINE dim == Axis(c)
           n == c.len
           ideal == CallPivot(c)
           order == CallOrder(c)
           keys == Keys(order, dim)
           pivot == IF ideal < n THEN Nudged(order, dim, ideal) ELSE ideal
           value == IF pivot < n THEN Coord(order[pivot + 1], dim)
                    ELSE c.bounds[dim]
           Here == {sort_index[k] : k \in Parts(c)}
           key(i) == Coord(order[i], dim)
<1>1. /\ c.level \in Nat /\ c.offset \in Nat /\ n \in Nat
      /\ c.bounds \in [0 .. K - 1 -> Int]
      /\ c.offset + n <= Len(source)
      /\ c.budget = 2 ^ (Levels - c.level)
  BY DEF Call
<1>2. dim \in 0 .. K - 1
  BY <1>1, AxisType DEF Axis
<1>3. ideal \in 0 .. n
  <2>1. Levels - c.level \in Nat \ {0}
    BY <1>1
  <2>2. LeftBudget(c.budget) \in Nat /\ c.budget \in Nat \ {0}
    <3>1. LeftBudget(2 ^ (Levels - c.level)) = 2 ^ (Levels - c.level - 1)
      BY <2>1, HalfBudget
    <3>2. Levels - c.level - 1 \in Nat /\ Levels - c.level \in Nat
      BY <2>1
    <3>3. /\ 2 ^ (Levels - c.level - 1) \in Nat
          /\ 2 ^ (Levels - c.level) \in Nat \ {0}
      BY <3>2, PowerType
    <3>4. QED
      BY <3>1, <3>3, <1>1
  <2>3. QED
    BY <2>2, <1>1, IdealPivotType DEF CallPivot
<1>4. order = IF ideal < n THEN Arranged(Slice(c), dim, ideal) ELSE Slice(c)
  BY DEF CallOrder, Axis
<1> HIDE DEF ideal, dim
<1>5. /\ Slice(c) \in [1 .. n -> Here]
      /\ DOMAIN Slice(c) = 1 .. n
      /\ \A i, j \in 1 .. n : Slice(c)[i] = Slice(c)[j] => i = j
      /\ {Slice(c)[i] : i \in 1 .. n} \subseteq Here
  <2> DEFINE sl == Slice(c)
  <2>1. /\ sl \in [1 .. n -> Here]
        /\ DOMAIN sl = 1 .. n
        /\ \A i, j \in 1 .. n : sl[i] = sl[j] => i = j
    BY <1>1, SliceType
  <2> HIDE DEF sl, Here
  <2>2. {sl[i] : i \in 1 .. n} \subseteq Here
    BY <2>1
  <2>3. QED
    BY <2>1, <2>2 DEF sl
<1>6. \A e \in Here : LeftSide(source, e, dim, c.bounds[dim])
  BY <1>2 DEF BelowBounds
<1>7. Here \subseteq 1 .. Len(source)
  <2>1. Parts(c) \subseteq 1 .. Len(source)
    BY <1>1, SliceType
  <2>2. QED
    BY <2>1 DEF Listing
<1>8. /\ order \in [1 .. n -> Here]
      /\ \A i, j \in 1 .. n : order[i] = order[j] => i = j
      /\ ideal < n =>
            /\ \A i \in 1 .. ideal : keys[i] <= keys[ideal + 1]
            /\ \A i \in ideal + 1 .. n : keys[i] >= keys[ideal + 1]
            /\ RunStart(keys, ideal) = 0 =>
                  \A i, j \in 1 .. n : i <= j => keys[i] <= keys[j]
            /\ keys \in [1 .. n -> Int]
  <2>1. CASE ideal < n
    <3> DEFINE a == Arranged(Slice(c), dim, ideal)
               M == {Slice(c)[i] : i \in 1 .. n}
    <3>1. order = a
      BY <1>4, <2>1
    <3>2. n \in Nat \ {0} /\ ideal \in 0 .. n - 1
      BY <1>1, <1>3, <2>1
    <3>3. /\ n \in SliceLengths
          /\ Keys(Slice(c), dim) \in [1 .. n -> Coordinates]
          /\ \A x \in Coordinates : x \in Int
      BY <1>1, <1>2, <3>2, SliceKeys
    <3> DEFINE ka == Keys(a, dim)
    <3>4. /\ a \in [1 .. n -> M]
          /\ \A i, j \in 1 .. n : a[i] = a[j] => i = j
          /\ ka \in [1 .. n -> Int]
          /\ \A i \in 1 .. ideal : ka[i] <= ka[ideal + 1]
          /\ \A i \in ideal + 1 .. n : ka[i] >= ka[ideal + 1]
          /\ RunStart(ka, ideal) = 0 =>
                \A i, j \in 1 .. n : i <= j => ka[i] <= ka[j]
      <4> DEFINE m == n
                 sl == Slice(c)
      <4>1. /\ m \in SliceLengths /\ m \in Nat /\ DOMAIN sl = 1 .. m
            /\ \A i, j \in 1 .. m : sl[i] = sl[j] => i = j
            /\ Keys(sl, dim) \in [1 .. m -> Coordinates]
            /\ \A x \in Coordinates : x \in Int
            /\ ideal \in 0 .. m - 1
        BY <1>1, <1>5, <3>2, <3>3
      <4> HIDE DEF m, sl
      <4>2. LET o == Arranged(sl, dim, ideal)
                k == Keys(o, dim)
            IN
            /\ o \in [1 .. m -> {sl[i] : i \in 1 .. m}]
            /\ \A i, j \in 1 .. m : o[i] = o[j] => i = j
            /\ k \in [1 .. m -> Int]
            /\ \A i \in 1 .. ideal : k[i] <= k[ideal + 1]
            /\ \A i \in ideal + 1 .. m : k[i] >= k[ideal + 1]
            /\ RunStart(k, ideal) = 0 =>
                  \A i, j \in 1 .. m : i <= j => k[i] <= k[j]
        BY <4>1, ArrangedParts
      <4>3. QED
        BY <4>2 DEF m, sl
    <3>5. M \subseteq Here
      BY <1>5
    <3> HIDE DEF a, M, Here
    <3>6. a \in [1 .. n -> Here]
      BY <3>4, <3>5
    <3>7. keys = ka
      BY <3>1
    <3> HIDE DEF keys, ka, order
    <3>8. QED
      BY <3>1, <3>4, <3>6, <3>7
  <2>2. CASE ~(ideal < n)
    BY <2>2, <1>4, <1>5
  <2>3. QED
    BY <2>1, <2>2
<1> HIDE DEF order
<1>9. DOMAIN order = 1 .. n
  <2> HIDE DEF Here
  <2> QED
    BY <1>8
<1>10. /\ \A i \in 1 .. n : keys[i] = key(i)
       /\ \A i \in 1 .. n : LeftSide(source, order[i], dim, c.bounds[dim])
       /\ \A i \in 1 .. n : key(i) \in Int
       /\ \A i \in 1 .. n : order[i] \in 1 .. Len(source)
  <2>1. \A i \in 1 .. n : keys[i] = key(i)
    BY <1>9 DEF Keys
  <2> HIDE DEF keys, Here
  <2>2. /\ \A i \in 1 .. n : LeftSide(source, order[i], dim, c.bounds[dim])
        /\ \A i \in 1 .. n : order[i] \in 1 .. Len(source)
    BY <1>6, <1>7, <1>8
  <2>3. \A i \in 1 .. n : key(i) \in Int
    BY <2>2 DEF LeftSide, Coord
  <2>4. QED
    BY <2>1, <2>2, <2>3
<1>11. /\ pivot \in 0 .. n
       /\ pivot < n => /\ \A i \in 1 .. pivot : key(i) <= key(pivot + 1)
                       /\ \A i \in pivot + 1 .. n : key(i) >= key(pivot + 1)
  <2>1. CASE ideal < n
    <3>1. pivot = Nudged(order, dim, ideal)
      BY <2>1
    <3>2. ideal \in 0 .. n - 1
      BY <1>1, <1>3, <2>1
    <3> HIDE DEF Here, key
    <3> DEFINE nudged == Nudged(order, dim, ideal)
    <3>3. /\ nudged \in 1 .. n
          /\ nudged < n => /\ \A i \in 1 .. nudged : keys[i] <= keys[nudged + 1]
                           /\ \A i \in nudged + 1 .. n :
                                 keys[i] >= keys[nudged + 1]
      BY <3>2, <2>1, <1>1, <1>8, <1>9, NudgedDivides
    <3>4. pivot = nudged
      BY <3>1
    <3> HIDE DEF keys, pivot, nudged
    <3>5. pivot \in 1 .. n /\ pivot \in 0 .. n
      BY <3>3, <3>4
    <3>6. ASSUME pivot < n
          PROVE  /\ \A i \in 1 .. pivot : key(i) <= key(pivot + 1)
                 /\ \A i \in pivot + 1 .. n : key(i) >= key(pivot + 1)
      <4>1. pivot + 1 \in 1 .. n /\ \A i \in 1 .. pivot : i \in 1 .. n
        BY <3>5, <3>6, <1>1
      <4>2. \A i \in pivot + 1 .. n : i \in 1 .. n
        BY <3>5, <1>1
      <4>3. QED
        BY <4>1, <4>2, <3>3, <3>4, <3>6, <1>10
    <3>7. QED
      BY <3>5, <3>6
  <2>2. CASE ~(ideal < n)
    <3>1. pivot = ideal /\ ideal = n
      BY <1>1, <1>3, <2>2
    <3> HIDE DEF pivot
    <3>2. QED
      BY <3>1, <1>1, <1>3
  <2>3. QED
    BY <2>1, <2>2
<1>12. /\ Division(c, order).pivot = pivot
       /\ Division(c, order).value = value
  BY DEF Division, OwnBound, dim, ideal, Axis
<1>13. c.bounds[dim] \in Int
  BY <1>1, <1>2
<1> HIDE DEF pivot, Here, keys
<1>14. /\ value \in Int
       /\ \A i \in 1 .. pivot : LeftSide(source, order[i], dim, value)
       /\ \A i \in pivot + 1 .. n : key(i) >= value
  <2>1. CASE pivot < n
    <3>1. pivot + 1 \in 1 .. n /\ value = key(pivot + 1)
      BY <2>1, <1>1, <1>11
    <3>2. ASSUME NEW i \in 1 .. pivot
          PROVE  LeftSide(source, order[i], dim, value)
      <4>1. i \in 1 .. n /\ i # pivot + 1 /\ key(i) <= value
        BY <3>1, <2>1, <1>1, <1>11
      <4>2. /\ order[i] # order[pivot + 1]
            /\ order[pivot + 1] \in DOMAIN source
        <5>1. DOMAIN source = 1 .. Len(source)
          BY DEF PointsOK
        <5>2. QED
          BY <5>1, <4>1, <3>1, <1>8, <1>10
      <4>3. key(i) = value => Tied(source, order[i])
        BY <4>2, <3>1, <1>2 DEF Tied, Coord
      <4>4. key(i) \in Int /\ value \in Int /\ key(i) = source[order[i]][dim]
        BY <4>1, <3>1, <1>10 DEF Coord
      <4> HIDE DEF key, value
      <4>5. QED
        BY <4>1, <4>3, <4>4 DEF LeftSide
    <3>3. QED
      BY <3>1, <3>2, <2>1, <1>10, <1>11
  <2>2. CASE ~(pivot < n)
    <3>1. pivot = n /\ value = c.bounds[dim]
      BY <2>2, <1>1, <1>11
    <3>2. \A i \in pivot + 1 .. n : FALSE
      BY <3>1, <1>1
    <3>3. \A i \in 1 .. pivot : i \in 1 .. n
      BY <3>1
    <3> HIDE DEF key, value
    <3>4. QED
      BY <3>1, <3>2, <3>3, <1>10, <1>13
  <2>3. QED
    BY <2>1, <2>2
<1>15. value = IF pivot < n THEN Coord(order[pivot + 1], dim)
               ELSE c.bounds[dim]
  OBVIOUS
<1> HIDE DEF value
<1>16. Divides(c, order, Division(c, order), sort_index)
  BY <1>8, <1>11, <1>12, <1>14, <1>15 DEF Divides, dim, Here
<1>17. QED
  BY <1>16 DEF order

-----------------------------------------------------------------------------
(* What is known while stems are still being written.  `written` are the   *)
(* stems that are, and pv their values; `open` are the calls that have     *)
(* begun or are still to be made, and si is the sort index.                *)

(* Stem s at level l is on a side of each stem above it that entry e may   *)
(* be on, and these are written.                                           *)
Way(src, e, s, l, written, pv) ==
    \A n \in 0 .. l - 1 :
        LET a == Up(s, n + 1)
            d == (l - n - 1) % K
        IN  /\ a \in written
            /\ Up(s, n) \in {LeftChild(a), RightChild(a)}
            /\ Up(s, n) = LeftChild(a) => LeftSide(src, e, d, pv[a])
            /\ Up(s, n) = RightChild(a) => src[e][d] >= pv[a]

(* The bounds of a call are between those of the stems above it.           *)
BetweenAbove(c, pv) ==
    \A n \in 0 .. c.level - 1 :
        LET a == Up(c.stem, n + 1)
            v == c.bounds[(c.level - n - 1) % K]
        IN  /\ Up(c.stem, n) = LeftChild(a) => v <= pv[a]
            /\ Up(c.stem, n) = RightChild(a) => pv[a] <= v

(* And so is the value of each stem, along its axis.                       *)
InOrder(i, l, pv) ==
    \A n \in 0 .. l - 1 :
        LET a == Up(i, n + 1) IN
        (l - n - 1) % K = l % K =>
            /\ Up(i, n) = LeftChild(a) => pv[i] <= pv[a]
            /\ Up(i, n) = RightChild(a) => pv[a] <= pv[i]

Sound(c, written, pv, si) ==
    /\ \A k \in Parts(c) :
          Way(source, si[k], c.stem, c.level, written, pv)
    /\ BelowBounds(c, si)
    /\ BetweenAbove(c, pv)

OpenOK(open, written, pv, si) ==
    \A c \in open :
        /\ c \in Call(Levels, Len(source))
        /\ Sound(c, written, pv, si)
        /\ c.stem \notin written
        /\ \A j \in Nat \ {0} :
              Under(c.stem, j) /\ j # c.stem => j \in written

Separate(open) ==
    \A c, d \in open :
        c # d => ~Under(c.stem, d.stem) /\ Parts(c) \cap Parts(d) = {}

WrittenOK(written, pv) ==
    /\ written \subseteq 1 .. 2 ^ Levels - 1
    /\ \A i \in written : pv[i] \in Int
    /\ \A i \in written : \A j \in Nat \ {0} : Under(i, j) => j \in written
    /\ \A i \in written : \A l \in Nat : At(i, l) => InOrder(i, l, pv)

(* Every stem that is not written is at or below an open call.             *)
Reached(open, written) ==
    \A s \in 1 .. 2 ^ Levels - 1 :
        s \in written \/ \E c \in open : Under(s, c.stem)

Halfway(open, written, pv, si) ==
    /\ Listing(si, Len(source))
    /\ OpenOK(open, written, pv, si)
    /\ Separate(open)
    /\ WrittenOK(written, pv)
    /\ Reached(open, written)

(* A call is divided: what it becomes is known from its division.          *)
SplitInto(c, order, division, pv, si, written, pv2, si2) ==
    /\ \A i \in written : pv2[i] = pv[i]
    /\ pv2[c.stem] = division.value
    /\ si2 = [k \in 1 .. Len(source) |->
                 IF k - c.offset \in 1 .. c.len
                 THEN order[k - c.offset] ELSE si[k]]

(* The leaves below a stem, counted in the leaves below its children.      *)
LEMMA TwiceLeaf ==
    ASSUME NEW s \in Nat, NEW x \in Nat, NEW y \in Nat
    PROVE  /\ (s - x) * (2 * y) = (2 * s - 2 * x) * y
           /\ (s - x) * (2 * y) + y = (2 * s + 1 - 2 * x) * y
<1> DEFINE z == s - x
<1>1. z \in Int /\ 2 * s - 2 * x = 2 * z /\ 2 * s + 1 - 2 * x = 2 * z + 1
  OBVIOUS
<1> HIDE DEF z
<1>2. z * (2 * y) = (2 * z) * y /\ z * (2 * y) + y = (2 * z + 1) * y
  BY <1>1
<1>3. QED
  BY <1>1, <1>2 DEF z

(* The calls of a call have their places.                                  *)
LEMMA ChildCalls ==
    ASSUME PointsOK, Levels \in Nat, NEW c \in Call(Levels, Len(source)),
           c.level < Levels, NEW division,
           division.pivot \in 0 .. c.len, division.value \in Int
    PROVE  /\ LeftCall(c, division) \in Call(Levels, Len(source))
           /\ RightCall(c, division) \in Call(Levels, Len(source))
           /\ LeftBudget(c.budget) \in Nat \ {0}
           /\ c.budget = 2 * LeftBudget(c.budget)
<1> DEFINE s == c.stem
           l == c.level
           b == c.budget
           f == c.leaf
           x == 2 ^ l
           y == LeftBudget(b)
           n == Len(source)
           o == c.offset
           m == c.len
           p == division.pivot
           top == Levels
           lower == [c.bounds EXCEPT ![l % K] = division.value]
<1>1. /\ s \in Nat \ {0} /\ l \in Nat /\ l < top /\ top \in Nat
      /\ o \in Nat /\ m \in Nat /\ f \in Nat
      /\ o + m <= n /\ n \in Nat /\ p \in 0 .. m
  BY DEF Call, PointsOK
<1>2. At(s, l) /\ b = 2 ^ (top - l)
  BY DEF Call
<1>3. f = (s - x) * b
  BY DEF Call
<1>4. c.bounds \in [0 .. K - 1 -> Int] /\ lower \in [0 .. K - 1 -> Int]
  BY DEF Call
<1> HIDE DEF s, l, f, n, o, m, p, top, lower
<1>5. /\ top - l \in Nat \ {0} /\ (top - l) - 1 = top - (l + 1)
      /\ top - (l + 1) \in Nat
      /\ l + 1 \in 0 .. top /\ l + 1 \in Nat
  BY <1>1
<1>6. y = 2 ^ (top - (l + 1))
  <2>1. y = 2 ^ ((top - l) - 1)
    BY <1>2, <1>5, HalfBudget
  <2>2. QED
    BY <2>1, <1>5
<1>7. y \in Nat \ {0}
  BY <1>5, <1>6, PowerType
<1>8. b = 2 * y
  <2>1. 2 ^ (top - l) = 2 * 2 ^ ((top - l) - 1)
    BY <1>5, PowerTwice
  <2>2. QED
    BY <2>1, <1>2, <1>5, <1>6
<1>9. x \in Nat
  BY <1>1, PowerType
<1>10. 2 ^ (l + 1) = 2 * x
  BY <1>1, PowerDoubles
<1>11. At(LeftChild(s), l + 1) /\ At(RightChild(s), l + 1)
  BY <1>1, <1>2, LevelOfChild
<1> HIDE DEF x, y, b
<1>12. /\ LeftChild(s) \in Nat \ {0} /\ LeftChild(s) = 2 * s
       /\ RightChild(s) \in Nat \ {0} /\ RightChild(s) = 2 * s + 1
  BY <1>1 DEF LeftChild, RightChild
<1>13. b - y = y /\ f + y \in Nat
  BY <1>1, <1>7, <1>8
<1>14. f = (2 * s - 2 * x) * y /\ f + y = (2 * s + 1 - 2 * x) * y
  <2>1. f = (s - x) * (2 * y)
    BY <1>3, <1>8
  <2>2. QED
    BY <2>1, <1>1, <1>7, <1>9, TwiceLeaf
<1>15. /\ p \in Nat /\ m - p \in Nat /\ o + p \in Nat
       /\ o + p <= n /\ (o + p) + (m - p) <= n
  BY <1>1
<1>16. LeftCall(c, division) \in Call(Levels, Len(source))
  <2> DEFINE d == LeftCall(c, division)
  <2>1. d = [stem |-> LeftChild(s), level |-> l + 1,
             offset |-> o, len |-> p, leaf |-> f, budget |-> y,
             bounds |-> lower]
    BY DEF LeftCall, s, l, o, p, f, y, b, lower
  <2>2. d \in [stem : Nat \ {0}, level : 0 .. top, offset : Nat, len : Nat,
               leaf : Nat, budget : Nat, bounds : [0 .. K - 1 -> Int]]
    BY <2>1, <1>1, <1>4, <1>5, <1>7, <1>12, <1>15
  <2>3. At(d.stem, d.level) /\ d.budget = 2 ^ (top - d.level)
    BY <2>1, <1>6, <1>11
  <2>4. d.leaf = (d.stem - 2 ^ d.level) * d.budget
    BY <2>1, <1>10, <1>12, <1>14
  <2>5. d.offset + d.len <= n
    BY <2>1, <1>15
  <2> HIDE DEF d
  <2>6. QED
    BY <2>2, <2>3, <2>4, <2>5 DEF Call, d, top, n
<1>17. RightCall(c, division) \in Call(Levels, Len(source))
  <2> DEFINE d == RightCall(c, division)
  <2>1. d = [stem |-> RightChild(s), level |-> l + 1,
             offset |-> o + p, len |-> m - p, leaf |-> f + y,
             budget |-> b - y, bounds |-> c.bounds]
    BY DEF RightCall, s, l, o, p, m, f, y, b
  <2>2. d \in [stem : Nat \ {0}, level : 0 .. top, offset : Nat, len : Nat,
               leaf : Nat, budget : Nat, bounds : [0 .. K - 1 -> Int]]
    BY <2>1, <1>1, <1>4, <1>5, <1>7, <1>12, <1>13, <1>15
  <2>3. At(d.stem, d.level) /\ d.budget = 2 ^ (top - d.level)
    BY <2>1, <1>6, <1>11, <1>13
  <2>4. d.leaf = (d.stem - 2 ^ d.level) * d.budget
    <3>1. d.stem = 2 * s + 1 /\ d.level = l + 1
      BY <2>1, <1>12
    <3>2. d.leaf = f + y /\ d.budget = y
      BY <2>1, <1>13
    <3> HIDE DEF d
    <3> DEFINE w == 2 ^ d.level
    <3>3. w = 2 * x
      BY <3>1, <1>10
    <3> HIDE DEF w
    <3>4. d.stem - w = 2 * s + 1 - 2 * x
      BY <3>1, <3>3, <1>1, <1>9
    <3>5. d.leaf = (2 * s + 1 - 2 * x) * y
      BY <3>2, <1>14
    <3>6. QED
      BY <3>2, <3>4, <3>5 DEF w
  <2>5. d.offset + d.len <= n
    BY <2>1, <1>15
  <2> HIDE DEF d
  <2>6. QED
    BY <2>2, <2>3, <2>4, <2>5 DEF Call, d, top, n
<1>18. QED
  BY <1>7, <1>8, <1>16, <1>17 DEF y, b

(* A division keeps the sort index a listing, moves entries only within    *)
(* the call's slice, and leaves there what was there.                      *)
LEMMA SplitListing ==
    ASSUME PointsOK, NEW si, Listing(si, Len(source)),
           NEW c \in Call(Levels, Len(source)),
           NEW order, NEW division, Divides(c, order, division, si),
           NEW si2,
           si2 = [k \in 1 .. Len(source) |->
                     IF k - c.offset \in 1 .. c.len
                     THEN order[k - c.offset] ELSE si[k]]
    PROVE  /\ Listing(si2, Len(source))
           /\ Parts(c) \subseteq 1 .. Len(source)
           /\ \A k \in 1 .. Len(source) : k \notin Parts(c) => si2[k] = si[k]
           /\ \A k \in Parts(c) : /\ k - c.offset \in 1 .. c.len
                                  /\ si2[k] = order[k - c.offset]
                                  /\ \E j \in Parts(c) : si2[k] = si[j]
<1> DEFINE n == Len(source)
<1>1. /\ n \in Nat /\ c.offset \in Nat /\ c.len \in Nat
      /\ c.offset + c.len <= n
  BY DEF PointsOK, Call
<1>2. /\ Parts(c) \subseteq 1 .. n
      /\ \A k \in 1 .. n : k - c.offset \in 1 .. c.len <=> k \in Parts(c)
  BY <1>1 DEF Parts
<1>3. \A k \in 1 .. n : k \notin Parts(c) => si2[k] = si[k]
  BY <1>2
<1>4. \A k \in Parts(c) : /\ k - c.offset \in 1 .. c.len
                          /\ si2[k] = order[k - c.offset]
  BY <1>2
<1>5. \A k \in Parts(c) : \E j \in Parts(c) : si2[k] = si[j]
  <2> TAKE k \in Parts(c)
  <2>1. order[k - c.offset] \in {si[j] : j \in Parts(c)}
    BY <1>4 DEF Divides
  <2> QED
    BY <2>1, <1>4
<1>6. si2 \in [1 .. n -> 1 .. n]
  <2>1. \A k \in 1 .. n : si[k] \in 1 .. n
    BY DEF Listing
  <2>2. \A k \in 1 .. n : si2[k] \in 1 .. n
    BY <2>1, <1>2, <1>3, <1>5
  <2>3. si2 = [k \in 1 .. n |-> si2[k]]
    OBVIOUS
  <2>4. QED
    BY <2>2, <2>3
<1>7. ASSUME NEW i \in 1 .. n, NEW j \in 1 .. n, si2[i] = si2[j]
      PROVE  i = j
  <2>0. \A a, b \in 1 .. n : si[a] = si[b] => a = b
    BY DEF Listing
  <2>1. CASE i \notin Parts(c) /\ j \notin Parts(c)
    BY <2>0, <2>1, <1>3, <1>7
  <2>2. CASE i \in Parts(c) /\ j \in Parts(c)
    <3>1. i - c.offset = j - c.offset
      <4>1. /\ i - c.offset \in 1 .. c.len /\ j - c.offset \in 1 .. c.len
            /\ order[i - c.offset] = order[j - c.offset]
        BY <2>2, <1>4, <1>7
      <4>2. QED
        BY <4>1 DEF Divides
    <3>2. QED
      BY <3>1, <1>1
  <2>3. CASE i \in Parts(c) /\ j \notin Parts(c)
    <3>1. PICK a \in Parts(c) : si2[i] = si[a]
      BY <2>3, <1>5
    <3>2. QED
      BY <2>0, <2>3, <3>1, <1>2, <1>3, <1>7
  <2>4. CASE i \notin Parts(c) /\ j \in Parts(c)
    <3>1. PICK a \in Parts(c) : si2[j] = si[a]
      BY <2>4, <1>5
    <3>2. QED
      BY <2>0, <2>4, <3>1, <1>2, <1>3, <1>7
  <2>5. QED
    BY <2>1, <2>2, <2>3, <2>4
<1>8. QED
  BY <1>2, <1>3, <1>4, <1>5, <1>6, <1>7 DEF Listing

(* No stem above another is it, and none above is stem 0.                  *)
LEMMA UpAbove ==
    ASSUME NEW i \in Nat \ {0}, NEW l \in Nat, At(i, l), NEW n \in 1 .. l
    PROVE  Up(i, n) \in Nat \ {0} /\ Up(i, n) # i /\ Under(i, Up(i, n))
<1>1. n \in Nat /\ n # 0 /\ n - 1 \in Nat
  OBVIOUS
<1> DEFINE p == 2 ^ n
           u == Up(i, n)
<1>2. p \in Nat /\ p > 1 /\ p <= i
  <2>1. n < 2 ^ n /\ 2 ^ n \in Nat
    BY <1>1, PowerType
  <2>2. 2 ^ n <= 2 ^ l /\ 2 ^ l \in Nat
    BY <1>1, PowerGrows, PowerType
  <2>3. 2 ^ l <= i
    BY DEF At
  <2> HIDE DEF p
  <2>4. QED
    BY <2>1, <2>2, <2>3, <1>1 DEF p
<1>3. u \in Nat /\ p * u <= i /\ i < p * u + p
  BY <1>1, UpType
<1> HIDE DEF p, u
<1>4. u # 0
  BY <1>2, <1>3
<1>5. u # i
  <2>1. SUFFICES ASSUME u = i PROVE FALSE
    OBVIOUS
  <2>2. p * i <= i
    BY <2>1, <1>3
  <2>3. p * i = i + (p - 1) * i
    BY <1>2
  <2>4. (p - 1) * i >= i
    BY <1>2
  <2>5. (p - 1) * i \in Int
    BY <1>2
  <2>6. QED
    BY <2>2, <2>3, <2>4, <2>5
<1>6. QED
  BY <1>1, <1>3, <1>4, <1>5 DEF u, Under

(* Routes outlive the writing of more stems, and go on with each.          *)
SameAt(written, pv, pv2) == \A i \in written : pv2[i] = pv[i]

Onward(src, e, s, l, d, pv2) ==
    /\ d \in {LeftChild(s), RightChild(s)}
    /\ d = LeftChild(s) => LeftSide(src, e, l % K, pv2[s])
    /\ d = RightChild(s) => src[e][l % K] >= pv2[s]

LEMMA WayKept ==
    ASSUME NEW src, NEW e, NEW s, NEW l \in Nat, NEW written, NEW pv,
           NEW more, NEW pv2, written \subseteq more,
           SameAt(written, pv, pv2), Way(src, e, s, l, written, pv)
    PROVE  Way(src, e, s, l, more, pv2)
  BY DEF Way, SameAt

LEMMA WayOn ==
    ASSUME NEW src, NEW e, NEW s \in Nat, NEW l \in Nat, NEW written, NEW pv,
           NEW pv2, SameAt(written, pv, pv2),
           Way(src, e, s, l, written, pv), NEW d, Onward(src, e, s, l, d, pv2)
    PROVE  Way(src, e, d, l + 1, written \cup {s}, pv2)
<1> DEFINE more == written \cup {s}
<1>0. /\ \A i \in written : pv2[i] = pv[i]
      /\ d \in {LeftChild(s), RightChild(s)}
      /\ d = LeftChild(s) => LeftSide(src, e, l % K, pv2[s])
      /\ d = RightChild(s) => src[e][l % K] >= pv2[s]
  BY DEF SameAt, Onward
<1>1. d \in Nat /\ Up(d, 0) = d /\ Up(s, 0) = s
  <2>1. d \in Nat
    BY <1>0 DEF LeftChild, RightChild
  <2>2. QED
    BY <2>1, UpZero
<1>2. \A n \in Nat : Up(d, n + 1) = Up(s, n)
  BY <1>0, UpChild
<1> DEFINE Above(n) ==
             LET a == Up(d, n + 1)
                 dim == ((l + 1) - n - 1) % K
             IN  /\ a \in more
                 /\ Up(d, n) \in {LeftChild(a), RightChild(a)}
                 /\ Up(d, n) = LeftChild(a) => LeftSide(src, e, dim, pv2[a])
                 /\ Up(d, n) = RightChild(a) => src[e][dim] >= pv2[a]
<1>3. Above(0)
  <2>1. Up(d, 0 + 1) = s /\ (l + 1) - 0 - 1 = l
    <3>1. Up(d, 0 + 1) = Up(s, 0)
      BY <1>2
    <3>2. QED
      BY <3>1, <1>1
  <2>2. QED
    BY <2>1, <1>0, <1>1
<1>4. ASSUME NEW n \in 0 .. (l + 1) - 1, n # 0 PROVE Above(n)
  <2>1. n - 1 \in 0 .. l - 1 /\ (n - 1) + 1 = n /\ n \in Nat /\ n - 1 \in Nat
    BY <1>4
  <2>2. Up(d, n + 1) = Up(s, n) /\ Up(d, n) = Up(s, n - 1)
    <3>1. Up(d, (n - 1) + 1) = Up(s, n - 1)
      BY <1>2, <2>1
    <3>2. QED
      BY <3>1, <1>2, <2>1
  <2>3. (l + 1) - n - 1 = l - (n - 1) - 1
    BY <2>1
  <2> DEFINE a == Up(s, n)
             dim == (l - (n - 1) - 1) % K
  <2>4. /\ a \in written
        /\ Up(s, n - 1) \in {LeftChild(a), RightChild(a)}
        /\ Up(s, n - 1) = LeftChild(a) => LeftSide(src, e, dim, pv[a])
        /\ Up(s, n - 1) = RightChild(a) => src[e][dim] >= pv[a]
    <3>1. \A m \in 0 .. l - 1 :
            /\ Up(s, m + 1) \in written
            /\ Up(s, m) \in {LeftChild(Up(s, m + 1)), RightChild(Up(s, m + 1))}
            /\ Up(s, m) = LeftChild(Up(s, m + 1)) =>
                  LeftSide(src, e, (l - m - 1) % K, pv[Up(s, m + 1)])
            /\ Up(s, m) = RightChild(Up(s, m + 1)) =>
                  src[e][(l - m - 1) % K] >= pv[Up(s, m + 1)]
      BY DEF Way
    <3>2. Up(s, (n - 1) + 1) = a
      BY <2>1
    <3> HIDE DEF a
    <3>3. QED
      BY <2>1, <3>1, <3>2
  <2> HIDE DEF a
  <2>5. a \in more /\ pv2[a] = pv[a]
    BY <1>0, <2>4
  <2> HIDE DEF more
  <2>6. /\ Up(d, n + 1) = a /\ Up(d, n) = Up(s, n - 1)
        /\ ((l + 1) - n - 1) % K = dim
    BY <2>2, <2>3 DEF a
  <2> HIDE DEF dim
  <2>7. QED
    BY <2>4, <2>5, <2>6
<1>5. ASSUME NEW n \in 0 .. (l + 1) - 1 PROVE Above(n)
  <2> HIDE DEF Above
  <2> QED
    BY <1>3, <1>4
<1>6. QED
  BY <1>5 DEF Way

(* Above an open call every stem is written.                               *)
LEMMA AboveOpen ==
    ASSUME NEW open, NEW written, NEW pv, NEW si,
           OpenOK(open, written, pv, si), NEW c \in open, Levels \in Nat
    PROVE  \A n \in 0 .. c.level - 1 : Up(c.stem, n + 1) \in written
<1>1. /\ c \in Call(Levels, Len(source))
      /\ \A j \in Nat \ {0} : Under(c.stem, j) /\ j # c.stem => j \in written
  BY DEF OpenOK
<1>2. c.stem \in Nat \ {0} /\ c.level \in Nat /\ At(c.stem, c.level)
  BY <1>1 DEF Call
<1>3. QED
  <2> TAKE n \in 0 .. c.level - 1
  <2>1. n + 1 \in 1 .. c.level
    BY <1>2
  <2> QED
    BY <2>1, <1>1, <1>2, UpAbove

(* The value of a stem is between those of the stems above it: it is a     *)
(* coordinate of an entry, which was routed between them, or the bound of  *)
(* its call.                                                               *)
LEMMA ValueBetween ==
    ASSUME PointsOK, Levels \in Nat, NEW open, NEW written, NEW pv, NEW si,
           Listing(si, Len(source)),
           OpenOK(open, written, pv, si), WrittenOK(written, pv),
           NEW c \in open, NEW order, NEW division, Divides(c, order, division, si),
           NEW n \in 0 .. c.level - 1, (c.level - n - 1) % K = c.level % K
    PROVE  LET a == Up(c.stem, n + 1) IN
           /\ Up(c.stem, n) = LeftChild(a) => division.value <= pv[a]
           /\ Up(c.stem, n) = RightChild(a) => pv[a] <= division.value
<1> DEFINE a == Up(c.stem, n + 1)
           v == division.value
<1>1. /\ c \in Call(Levels, Len(source)) /\ Sound(c, written, pv, si)
      /\ c.level \in Nat /\ c.len \in Nat /\ c.stem \in Nat
  <2>1. c \in Call(Levels, Len(source)) /\ Sound(c, written, pv, si)
    BY DEF OpenOK
  <2>2. QED
    BY <2>1 DEF Call
<1>2. a \in written /\ pv[a] \in Int /\ v \in Int /\ a \in Nat
  <2>1. a \in written
    BY AboveOpen
  <2>2. n + 1 \in Nat
    BY <1>1
  <2>3. QED
    BY <2>1, <2>2, <1>1, UpType DEF WrittenOK, Divides
<1>3. CASE division.pivot < c.len
  <2>1. division.pivot + 1 \in 1 .. c.len
    BY <1>1, <1>3 DEF Divides
  <2>2. v = Coord(order[division.pivot + 1], Axis(c))
    BY <1>3 DEF Divides
  <2>3. PICK k \in Parts(c) : order[division.pivot + 1] = si[k]
    <3>1. order \in [1 .. c.len -> {si[k] : k \in Parts(c)}]
      BY DEF Divides
    <3>2. order[division.pivot + 1] \in {si[k] : k \in Parts(c)}
      BY <2>1, <3>1
    <3>3. QED
      BY <3>2
  <2>4. v = source[si[k]][c.level % K]
    BY <2>2, <2>3 DEF Coord, Axis
  <2>5. Way(source, si[k], c.stem, c.level, written, pv)
    BY <1>1 DEF Sound
  <2>6. /\ Up(c.stem, n) = LeftChild(a) =>
              LeftSide(source, si[k], (c.level - n - 1) % K, pv[a])
        /\ Up(c.stem, n) = RightChild(a) =>
              source[si[k]][(c.level - n - 1) % K] >= pv[a]
    BY <2>5 DEF Way
  <2> HIDE DEF a, v
  <2>7. /\ Up(c.stem, n) = LeftChild(a) => v <= pv[a]
        /\ Up(c.stem, n) = RightChild(a) => pv[a] <= v
    BY <2>4, <2>6, <1>2 DEF LeftSide
  <2>8. QED
    BY <2>7 DEF a, v
<1>4. CASE ~(division.pivot < c.len)
  <2>1. v = c.bounds[(c.level - n - 1) % K]
    BY <1>4 DEF Divides, Axis
  <2>2. QED
    BY <2>1, <1>1 DEF Sound, BetweenAbove
<1>5. QED
  BY <1>3, <1>4

(* What holds before a call is divided, for the lemmas that follow.        *)
Splits(open, written, pv, si, c, order, division, pv2, si2) ==
    /\ PointsOK
    /\ Levels \in Nat
    /\ Halfway(open, written, pv, si)
    /\ c \in open
    /\ c.level < Levels
    /\ Divides(c, order, division, si)
    /\ SplitInto(c, order, division, pv, si, written, pv2, si2)

(* The facts of a split that its proofs begin with.                        *)
LEMMA SplitFacts ==
    ASSUME NEW open, NEW written, NEW pv, NEW si, NEW c, NEW order, NEW division,
           NEW pv2, NEW si2,
           Splits(open, written, pv, si, c, order, division, pv2, si2)
    PROVE  /\ c \in Call(Levels, Len(source)) /\ Sound(c, written, pv, si)
           /\ c.stem \in Nat \ {0} /\ c.level \in Nat
           /\ c.offset \in Nat /\ c.len \in Nat
           /\ c.bounds \in [0 .. K - 1 -> Int]
           /\ At(c.stem, c.level) /\ Axis(c) \in 0 .. K - 1
           /\ c.stem \notin written /\ c.stem \in 1 .. 2 ^ Levels - 1
           /\ \A i \in written : pv2[i] = pv[i] /\ pv[i] \in Int
           /\ pv2[c.stem] = division.value /\ division.value \in Int
           /\ division.pivot \in 0 .. c.len
           /\ \A n \in 0 .. c.level - 1 : Up(c.stem, n + 1) \in written
<1>1. /\ PointsOK /\ Levels \in Nat /\ c \in open /\ c.level < Levels
      /\ OpenOK(open, written, pv, si) /\ WrittenOK(written, pv)
      /\ Divides(c, order, division, si)
      /\ SplitInto(c, order, division, pv, si, written, pv2, si2)
  BY DEF Splits, Halfway
<1>2. /\ c \in Call(Levels, Len(source)) /\ Sound(c, written, pv, si)
      /\ c.stem \notin written
  BY <1>1 DEF OpenOK
<1>3. /\ c.stem \in Nat \ {0} /\ c.level \in Nat
      /\ c.offset \in Nat /\ c.len \in Nat
      /\ c.bounds \in [0 .. K - 1 -> Int]
      /\ At(c.stem, c.level)
  BY <1>2 DEF Call
<1>4. Axis(c) \in 0 .. K - 1
  BY <1>3, AxisType DEF Axis
<1>5. c.stem \in 1 .. 2 ^ Levels - 1
  <2>1. c.level + 1 \in Nat /\ c.level + 1 <= Levels
    BY <1>1, <1>3
  <2>2. /\ 2 ^ (c.level + 1) <= 2 ^ Levels /\ 2 ^ (c.level + 1) \in Nat
        /\ 2 ^ Levels \in Nat
    BY <1>1, <2>1, PowerGrows, PowerType
  <2>3. c.stem < 2 ^ (c.level + 1)
    BY <1>3 DEF At
  <2>4. QED
    BY <2>2, <2>3, <1>3
<1>6. \A i \in written : pv2[i] = pv[i] /\ pv[i] \in Int
  BY <1>1 DEF SplitInto, WrittenOK
<1>7. /\ pv2[c.stem] = division.value /\ division.value \in Int
      /\ division.pivot \in 0 .. c.len
  BY <1>1 DEF SplitInto, Divides
<1>8. \A n \in 0 .. c.level - 1 : Up(c.stem, n + 1) \in written
  BY <1>1, AboveOpen
<1>9. QED
  BY <1>2, <1>3, <1>4, <1>5, <1>6, <1>7, <1>8

(* The stem a split writes is in order, and so all stems stay in order.    *)
LEMMA SplitInOrder ==
    ASSUME NEW open, NEW written, NEW pv, NEW si, NEW c, NEW order, NEW division,
           NEW pv2, NEW si2,
           Splits(open, written, pv, si, c, order, division, pv2, si2)
    PROVE  /\ InOrder(c.stem, c.level, pv2)
           /\ WrittenOK(written \cup {c.stem}, pv2)
<1> DEFINE s == c.stem
           more == written \cup {s}
<1>1. /\ s \in Nat \ {0} /\ c.level \in Nat /\ At(s, c.level)
      /\ \A i \in written : pv2[i] = pv[i] /\ pv[i] \in Int
      /\ pv2[s] = division.value /\ division.value \in Int
      /\ s \in 1 .. 2 ^ Levels - 1
      /\ \A n \in 0 .. c.level - 1 : Up(s, n + 1) \in written
  BY SplitFacts
<1>2. /\ PointsOK /\ Levels \in Nat /\ c \in open
      /\ Listing(si, Len(source))
      /\ OpenOK(open, written, pv, si) /\ WrittenOK(written, pv)
      /\ Divides(c, order, division, si)
  BY DEF Splits, Halfway
<1>3. InOrder(s, c.level, pv2)
  <2>1. SUFFICES ASSUME NEW n \in 0 .. c.level - 1,
                        (c.level - n - 1) % K = c.level % K
                 PROVE  LET a == Up(s, n + 1) IN
                        /\ Up(s, n) = LeftChild(a) => pv2[s] <= pv2[a]
                        /\ Up(s, n) = RightChild(a) => pv2[a] <= pv2[s]
    BY DEF InOrder
  <2> DEFINE a == Up(s, n + 1)
  <2>2. a \in written
    BY <1>1
  <2>3. /\ Up(s, n) = LeftChild(a) => division.value <= pv[a]
        /\ Up(s, n) = RightChild(a) => pv[a] <= division.value
    BY <1>2, <2>1, ValueBetween
  <2> HIDE DEF a
  <2>4. /\ Up(s, n) = LeftChild(a) => pv2[s] <= pv2[a]
        /\ Up(s, n) = RightChild(a) => pv2[a] <= pv2[s]
    BY <1>1, <2>2, <2>3
  <2>5. QED
    BY <2>4 DEF a
<1>4. more \subseteq 1 .. 2 ^ Levels - 1 /\ \A i \in more : pv2[i] \in Int
  BY <1>1, <1>2 DEF WrittenOK
<1>5. ASSUME NEW i \in more, NEW j \in Nat \ {0}, Under(i, j) PROVE j \in more
  <2>1. CASE i \in written
    BY <2>1, <1>2, <1>5 DEF WrittenOK
  <2>2. CASE i = s
    <3>1. Under(s, j) /\ j # s => j \in written
      BY <1>2 DEF OpenOK
    <3>2. QED
      BY <3>1, <2>2, <1>5
  <2>3. QED
    BY <2>1, <2>2
<1>6. ASSUME NEW i \in more, NEW l \in Nat, At(i, l) PROVE InOrder(i, l, pv2)
  <2>1. CASE i = s
    <3>1. l = c.level
      BY <2>1, <1>1, <1>6, LevelOnly
    <3>2. QED
      BY <3>1, <2>1, <1>3
  <2>2. CASE i \in written
    <3>1. InOrder(i, l, pv)
      BY <2>2, <1>2, <1>6 DEF WrittenOK
    <3>2. i \in Nat \ {0}
      BY <2>2, <1>2 DEF WrittenOK
    <3>3. \A n \in 0 .. l - 1 : Up(i, n + 1) \in written
      <4> TAKE n \in 0 .. l - 1
      <4>1. n + 1 \in 1 .. l
        OBVIOUS
      <4>2. Up(i, n + 1) \in Nat \ {0} /\ Under(i, Up(i, n + 1))
        BY <3>2, <4>1, <1>6, UpAbove
      <4> QED
        BY <4>2, <2>2, <1>2 DEF WrittenOK
    <3>4. QED
      BY <3>1, <3>3, <2>2, <1>1 DEF InOrder
  <2>3. QED
    BY <2>1, <2>2
<1>7. QED
  BY <1>3, <1>4, <1>5, <1>6 DEF WrittenOK

(* How a split moves the entries of its call.                              *)
LEMMA SplitMoves ==
    ASSUME NEW open, NEW written, NEW pv, NEW si, NEW c, NEW order, NEW division,
           NEW pv2, NEW si2,
           Splits(open, written, pv, si, c, order, division, pv2, si2)
    PROVE  /\ Listing(si2, Len(source))
           /\ Parts(c) \subseteq 1 .. Len(source)
           /\ \A k \in 1 .. Len(source) : k \notin Parts(c) => si2[k] = si[k]
           /\ \A k \in Parts(c) : /\ k - c.offset \in 1 .. c.len
                                  /\ si2[k] = order[k - c.offset]
                                  /\ \E j \in Parts(c) : si2[k] = si[j]
<1>1. c \in Call(Levels, Len(source))
  BY SplitFacts
<1>2. /\ PointsOK /\ Listing(si, Len(source)) /\ Divides(c, order, division, si)
      /\ SplitInto(c, order, division, pv, si, written, pv2, si2)
  BY DEF Splits, Halfway
<1>3. si2 = [k \in 1 .. Len(source) |->
                IF k - c.offset \in 1 .. c.len
                THEN order[k - c.offset] ELSE si[k]]
  BY <1>2 DEF SplitInto
<1>4. QED
  BY <1>1, <1>2, <1>3, SplitListing

(* What was below the call's bounds is below those of its calls.           *)
LEMMA SplitBelowBounds ==
    ASSUME NEW open, NEW written, NEW pv, NEW si, NEW c, NEW order, NEW division,
           NEW pv2, NEW si2,
           Splits(open, written, pv, si, c, order, division, pv2, si2)
    PROVE  /\ BelowBounds(LeftCall(c, division), si2)
           /\ BelowBounds(RightCall(c, division), si2)
<1> DEFINE L == LeftCall(c, division)
           R == RightCall(c, division)
           v == division.value
           dim == Axis(c)
<1>1. /\ c \in Call(Levels, Len(source)) /\ BelowBounds(c, si)
      /\ c.offset \in Nat /\ c.len \in Nat
      /\ c.bounds \in [0 .. K - 1 -> Int]
      /\ division.pivot \in 0 .. c.len
  BY SplitFacts DEF Sound
<1>2. PointsOK /\ Listing(si, Len(source)) /\ Divides(c, order, division, si)
  BY DEF Splits, Halfway
<1>3. \A k \in Parts(c) : /\ k - c.offset \in 1 .. c.len
                          /\ si2[k] = order[k - c.offset]
                          /\ \E j \in Parts(c) : si2[k] = si[j]
  BY SplitMoves
<1>4. /\ L.offset = c.offset /\ L.len = division.pivot
      /\ L.bounds = [c.bounds EXCEPT ![dim] = v]
      /\ R.offset = c.offset + division.pivot
      /\ R.len = c.len - division.pivot /\ R.bounds = c.bounds
  BY DEF LeftCall, RightCall, Axis
<1>5. \A k \in Parts(c) : \A d \in 0 .. K - 1 :
         LeftSide(source, si2[k], d, c.bounds[d])
  BY <1>1, <1>3 DEF BelowBounds
<1>6. /\ \A k \in Parts(L) : k \in Parts(c) /\ k - c.offset <= division.pivot
      /\ \A k \in Parts(R) : k \in Parts(c) /\ k - c.offset > division.pivot
  BY <1>1, <1>4 DEF Parts
<1>7. BelowBounds(R, si2)
  BY <1>4, <1>5, <1>6 DEF BelowBounds
<1>8. BelowBounds(L, si2)
  <2>1. SUFFICES ASSUME NEW k \in Parts(L), NEW d \in 0 .. K - 1
                 PROVE  LeftSide(source, si2[k], d, L.bounds[d])
    BY DEF BelowBounds
  <2>2. CASE d = dim
    <3>1. k - c.offset \in 1 .. division.pivot
      BY <1>1, <1>3, <1>6
    <3>2. LeftSide(source, order[k - c.offset], dim, v)
      BY <3>1, <1>2 DEF Divides
    <3>3. L.bounds[d] = v
      BY <1>1, <1>4, <2>2
    <3>4. QED
      BY <3>2, <3>3, <2>2, <1>3, <1>6
  <2>3. CASE d # dim
    <3>1. L.bounds[d] = c.bounds[d]
      BY <1>1, <1>4, <2>3
    <3>2. QED
      BY <3>1, <1>5, <1>6
  <2>4. QED
    BY <2>2, <2>3
<1>9. QED
  BY <1>7, <1>8

(* What was routed to the call is routed to its calls.                     *)
LEMMA SplitWays ==
    ASSUME NEW open, NEW written, NEW pv, NEW si, NEW c, NEW order, NEW division,
           NEW pv2, NEW si2,
           Splits(open, written, pv, si, c, order, division, pv2, si2),
           NEW d \in {LeftCall(c, division), RightCall(c, division)},
           NEW k \in Parts(d)
    PROVE  Way(source, si2[k], d.stem, d.level, written \cup {c.stem}, pv2)
<1> DEFINE v == division.value
           dim == Axis(c)
           s == c.stem
<1>1. /\ c \in Call(Levels, Len(source)) /\ Sound(c, written, pv, si)
      /\ c.offset \in Nat /\ c.len \in Nat /\ c.level \in Nat
      /\ division.pivot \in 0 .. c.len /\ s \in Nat
      /\ \A i \in written : pv2[i] = pv[i]
      /\ pv2[s] = v /\ v \in Int /\ dim \in 0 .. K - 1
  BY SplitFacts
<1>2. PointsOK /\ Listing(si, Len(source)) /\ Divides(c, order, division, si)
  BY DEF Splits, Halfway
<1>3. \A i \in Parts(c) : /\ i - c.offset \in 1 .. c.len
                          /\ si2[i] = order[i - c.offset]
                          /\ \E j \in Parts(c) : si2[i] = si[j]
  BY SplitMoves
<1>4. CASE d = LeftCall(c, division)
  <2>1. /\ d.stem = LeftChild(s) /\ d.level = c.level + 1
        /\ d.offset = c.offset /\ d.len = division.pivot
    BY <1>4 DEF LeftCall
  <2>2. k \in Parts(c) /\ k - c.offset \in 1 .. division.pivot
    BY <2>1, <1>1 DEF Parts
  <2>3. LeftSide(source, si2[k], dim, v)
    BY <2>2, <1>2, <1>3 DEF Divides
  <2>4. LeftChild(s) # RightChild(s)
    BY <1>1 DEF LeftChild, RightChild
  <2>5. Way(source, si2[k], s, c.level, written, pv)
    BY <2>2, <1>1, <1>3 DEF Sound
  <2>6. LeftSide(source, si2[k], c.level % K, pv2[s])
    BY <2>3, <1>1 DEF Axis
  <2> DEFINE child == LeftChild(s)
  <2>7. child \in {LeftChild(s), RightChild(s)} /\ child # RightChild(s)
    BY <2>4
  <2> HIDE DEF child
  <2>8. Way(source, si2[k], child, c.level + 1, written \cup {s}, pv2)
    <3>1. SameAt(written, pv, pv2) /\ s \in Nat /\ c.level \in Nat
      BY <1>1 DEF SameAt
    <3>2. Onward(source, si2[k], s, c.level, child, pv2)
      BY <2>6, <2>7 DEF Onward
    <3> HIDE DEF s
    <3>3. QED
      BY <2>5, <3>1, <3>2, WayOn
  <2>9. QED
    BY <2>1, <2>8 DEF child
<1>5. CASE d = RightCall(c, division)
  <2>1. /\ d.stem = RightChild(s) /\ d.level = c.level + 1
        /\ d.offset = c.offset + division.pivot
        /\ d.len = c.len - division.pivot
    BY <1>5 DEF RightCall
  <2>2. k \in Parts(c) /\ k - c.offset \in division.pivot + 1 .. c.len
    <3> DEFINE o == c.offset
               m == c.len
               q == division.pivot
    <3>1. o \in Nat /\ m \in Nat /\ q \in 0 .. m
      BY <1>1
    <3>2. k \in (o + q) + 1 .. (o + q) + (m - q)
      BY <2>1 DEF Parts
    <3> HIDE DEF o, m, q
    <3>3. k \in o + 1 .. o + m /\ k - o \in q + 1 .. m
      BY <3>1, <3>2
    <3>4. QED
      BY <3>3 DEF Parts, o, m, q
  <2>3. Coord(si2[k], dim) >= v
    BY <2>2, <1>2, <1>3 DEF Divides
  <2>4. source[si2[k]][c.level % K] >= pv2[s]
    BY <2>3, <1>1 DEF Coord, Axis
  <2>5. LeftChild(s) # RightChild(s)
    BY <1>1 DEF LeftChild, RightChild
  <2>6. Way(source, si2[k], s, c.level, written, pv)
    BY <2>2, <1>1, <1>3 DEF Sound
  <2> DEFINE child == RightChild(s)
  <2>7. child \in {LeftChild(s), RightChild(s)} /\ child # LeftChild(s)
    BY <2>5
  <2> HIDE DEF child
  <2>8. Way(source, si2[k], child, c.level + 1, written \cup {s}, pv2)
    <3>1. SameAt(written, pv, pv2) /\ s \in Nat /\ c.level \in Nat
      BY <1>1 DEF SameAt
    <3>2. Onward(source, si2[k], s, c.level, child, pv2)
      BY <2>4, <2>7 DEF Onward
    <3> HIDE DEF s
    <3>3. QED
      BY <2>6, <3>1, <3>2, WayOn
  <2>9. QED
    BY <2>1, <2>8 DEF child
<1>6. QED
  BY <1>4, <1>5

(* The bounds of the calls of a call are between the stems above, the one  *)
(* just written included.                                                  *)
LEMMA SplitBetween ==
    ASSUME NEW open, NEW written, NEW pv, NEW si, NEW c, NEW order, NEW division,
           NEW pv2, NEW si2,
           Splits(open, written, pv, si, c, order, division, pv2, si2)
    PROVE  /\ BetweenAbove(LeftCall(c, division), pv2)
           /\ BetweenAbove(RightCall(c, division), pv2)
<1> DEFINE L == LeftCall(c, division)
           R == RightCall(c, division)
           v == division.value
           dim == Axis(c)
           s == c.stem
           l == c.level
<1>1. /\ Sound(c, written, pv, si)
      /\ s \in Nat \ {0} /\ l \in Nat /\ c.len \in Nat
      /\ c.bounds \in [0 .. K - 1 -> Int] /\ dim \in 0 .. K - 1
      /\ \A i \in written : pv2[i] = pv[i]
      /\ pv2[s] = v /\ v \in Int /\ division.pivot \in 0 .. c.len
      /\ \A n \in 0 .. l - 1 : Up(s, n + 1) \in written
  BY SplitFacts
<1>2. InOrder(s, l, pv2)
  BY SplitInOrder
<1>3. /\ PointsOK /\ Listing(si, Len(source)) /\ Divides(c, order, division, si)
      /\ c \in Call(Levels, Len(source))
  BY SplitFacts DEF Splits, Halfway
<1>4. v <= c.bounds[dim]
  <2>1. CASE division.pivot < c.len
    <3>1. division.pivot + 1 \in 1 .. c.len
      BY <2>1, <1>1
    <3>2. v = Coord(order[division.pivot + 1], dim)
      BY <2>1, <1>3 DEF Divides
    <3>3. order \in [1 .. c.len -> {si[k] : k \in Parts(c)}]
      BY <1>3 DEF Divides
    <3>4. order[division.pivot + 1] \in {si[k] : k \in Parts(c)}
      BY <3>1, <3>3
    <3>5. PICK k \in Parts(c) : order[division.pivot + 1] = si[k]
      BY <3>4
    <3>6. Coord(si[k], dim) <= c.bounds[dim] /\ Coord(si[k], dim) \in Int
      <4>1. LeftSide(source, si[k], dim, c.bounds[dim])
        BY <1>1 DEF Sound, BelowBounds
      <4>2. c.bounds[dim] \in Int
        BY <1>1
      <4>3. QED
        BY <4>1, <4>2 DEF LeftSide, Coord
    <3>7. c.bounds[dim] \in Int
      BY <1>1
    <3>8. QED
      BY <3>2, <3>5, <3>6, <3>7, <1>1
  <2>2. CASE ~(division.pivot < c.len)
    BY <2>2, <1>1, <1>3 DEF Divides
  <2>3. QED
    BY <2>1, <2>2
<1>5. /\ L.stem = LeftChild(s) /\ L.level = l + 1
      /\ L.bounds = [c.bounds EXCEPT ![dim] = v]
      /\ R.stem = RightChild(s) /\ R.level = l + 1 /\ R.bounds = c.bounds
  BY DEF LeftCall, RightCall, Axis
<1>6. dim = l % K
  BY DEF Axis
<1>7. LeftChild(s) # RightChild(s) /\ Up(s, 0) = s
      /\ LeftChild(s) \in Nat /\ RightChild(s) \in Nat
  BY <1>1, UpZero DEF LeftChild, RightChild
<1>8. BetweenAbove(c, pv)
  BY <1>1 DEF Sound
<1> HIDE DEF L, R, dim, s, l
<1>13. \A d \in {L, R} : \A m \in Nat : Up(d.stem, m + 1) = Up(s, m)
  <2>1. \A m \in Nat : /\ Up(LeftChild(s), m + 1) = Up(s, m)
                       /\ Up(RightChild(s), m + 1) = Up(s, m)
    BY <1>1, UpChild
  <2>2. QED
    BY <2>1, <1>5
<1>9. ASSUME NEW d \in {L, R}, NEW n \in 0 .. d.level - 1, n # 0
      PROVE  LET a == Up(d.stem, n + 1)
                 b == d.bounds[(d.level - n - 1) % K]
             IN  /\ Up(d.stem, n) = LeftChild(a) => b <= pv2[a]
                 /\ Up(d.stem, n) = RightChild(a) => pv2[a] <= b
  <2> DEFINE a == Up(s, n)
             x == (l - (n - 1) - 1) % K
  <2>1. /\ n - 1 \in 0 .. l - 1 /\ (n - 1) + 1 = n
        /\ n - 1 \in Nat /\ n \in Nat
        /\ (l + 1) - n - 1 = l - (n - 1) - 1
    BY <1>1, <1>5, <1>9
  <2>2. Up(d.stem, n + 1) = a /\ Up(d.stem, n) = Up(s, n - 1)
    BY <2>1, <1>13
  <2>3. a \in written /\ pv2[a] = pv[a]
    BY <2>1, <1>1
  <2>4. d.bounds[(d.level - n - 1) % K] = d.bounds[x]
    BY <2>1, <1>5
  <2>5. x \in 0 .. K - 1
    <3>1. l - (n - 1) - 1 \in Nat
      BY <2>1, <1>1
    <3>2. QED
      BY <3>1, AxisType
  <2>6. /\ Up(s, n - 1) = LeftChild(a) => c.bounds[x] <= pv2[a]
        /\ Up(s, n - 1) = RightChild(a) => pv2[a] <= c.bounds[x]
    BY <2>1, <2>3, <1>8 DEF BetweenAbove, s, l
  <2>7. x = dim => /\ Up(s, n - 1) = LeftChild(a) => v <= pv2[a]
                   /\ Up(s, n - 1) = RightChild(a) => pv2[a] <= v
    BY <2>1, <1>1, <1>2, <1>6 DEF InOrder
  <2>8. d.bounds[x] = IF d = L /\ x = dim THEN v ELSE c.bounds[x]
    <3>1. x # dim => L.bounds[x] = c.bounds[x]
      BY <2>5, <1>1, <1>5
    <3>2. x = dim => L.bounds[x] = v
      BY <2>5, <1>1, <1>5
    <3>3. QED
      BY <3>1, <3>2, <1>5
  <2> HIDE DEF a, x
  <2>9. QED
    BY <2>2, <2>4, <2>6, <2>7, <2>8
<1>10. ASSUME NEW d \in {L, R}
       PROVE  LET a == Up(d.stem, 0 + 1)
                  b == d.bounds[(d.level - 0 - 1) % K]
              IN  /\ Up(d.stem, 0) = LeftChild(a) => b <= pv2[a]
                  /\ Up(d.stem, 0) = RightChild(a) => pv2[a] <= b
  <2>1. Up(d.stem, 0 + 1) = s /\ Up(d.stem, 0) = d.stem
    <3>1. 0 \in Nat /\ d.stem \in Nat
      BY <1>5, <1>7
    <3>2. Up(d.stem, 0 + 1) = Up(s, 0)
      BY <3>1, <1>13
    <3>3. QED
      BY <3>1, <3>2, <1>7, UpZero
  <2>2. (d.level - 0 - 1) % K = dim
    <3>1. d.level - 0 - 1 = l
      BY <1>1, <1>5
    <3>2. QED
      BY <3>1, <1>6
  <2>3. CASE d = L
    <3>1. d.bounds[dim] = v /\ d.stem = LeftChild(s)
      BY <2>3, <1>1, <1>5
    <3>2. QED
      BY <2>1, <2>2, <3>1, <1>1, <1>7
  <2>4. CASE d = R
    <3>1. d.bounds[dim] = c.bounds[dim] /\ d.stem = RightChild(s)
      BY <2>4, <1>5
    <3>2. QED
      BY <2>1, <2>2, <3>1, <1>1, <1>4, <1>7
  <2>5. QED
    BY <2>3, <2>4
<1>11. ASSUME NEW d \in {L, R} PROVE BetweenAbove(d, pv2)
  <2>1. SUFFICES ASSUME NEW n \in 0 .. d.level - 1
                 PROVE  LET a == Up(d.stem, n + 1)
                            b == d.bounds[(d.level - n - 1) % K]
                        IN  /\ Up(d.stem, n) = LeftChild(a) => b <= pv2[a]
                            /\ Up(d.stem, n) = RightChild(a) => pv2[a] <= b
    BY DEF BetweenAbove
  <2>2. CASE n = 0
    BY <2>2, <1>10, Zenon
  <2>3. CASE n # 0
    BY <2>3, <1>9
  <2>4. QED
    BY <2>2, <2>3
<1>12. QED
  BY <1>11 DEF L, R

(* A split hands on what is known while stems are being written.           *)
LEMMA SplitKeeps ==
    ASSUME NEW open, NEW written, NEW pv, NEW si, NEW c, NEW order, NEW division,
           NEW pv2, NEW si2,
           Splits(open, written, pv, si, c, order, division, pv2, si2)
    PROVE  Halfway((open \ {c}) \cup {LeftCall(c, division),
                                      RightCall(c, division)},
                   written \cup {c.stem}, pv2, si2)
<1> DEFINE L == LeftCall(c, division)
           R == RightCall(c, division)
           s == c.stem
           later == (open \ {c}) \cup {L, R}
           more == written \cup {s}
<1>1. /\ Levels \in Nat /\ PointsOK /\ c \in open /\ c.level < Levels
      /\ OpenOK(open, written, pv, si) /\ Separate(open)
      /\ WrittenOK(written, pv) /\ Reached(open, written)
  BY DEF Splits, Halfway
<1>2. /\ c \in Call(Levels, Len(source))
      /\ s \in Nat \ {0} /\ s \notin written
      /\ c.offset \in Nat /\ c.len \in Nat
      /\ division.pivot \in 0 .. c.len /\ division.value \in Int
      /\ \A i \in written : pv2[i] = pv[i]
  BY SplitFacts
<1>3. L \in Call(Levels, Len(source)) /\ R \in Call(Levels, Len(source))
  BY <1>1, <1>2, ChildCalls
<1>4. /\ L.stem = LeftChild(s) /\ R.stem = RightChild(s)
      /\ L.stem \in Nat \ {0} /\ R.stem \in Nat \ {0} /\ L.stem # R.stem
      /\ L.stem # s /\ R.stem # s
  <2>1. L.stem = LeftChild(s) /\ R.stem = RightChild(s)
    BY DEF LeftCall, RightCall
  <2>2. QED
    BY <2>1, <1>2 DEF LeftChild, RightChild
<1>5. /\ Parts(L) \subseteq Parts(c) /\ Parts(R) \subseteq Parts(c)
      /\ Parts(L) \cap Parts(R) = {}
  <2> DEFINE o == c.offset
             m == c.len
             q == division.pivot
  <2>1. /\ Parts(c) = o + 1 .. o + m /\ Parts(L) = o + 1 .. o + q
        /\ Parts(R) = (o + q) + 1 .. (o + q) + (m - q)
    BY DEF Parts, LeftCall, RightCall
  <2>2. o \in Nat /\ m \in Nat /\ q \in 0 .. m
    BY <1>2
  <2> HIDE DEF o, m, q
  <2>3. (o + q) + (m - q) = o + m
    BY <2>2
  <2>4. QED
    BY <2>1, <2>2, <2>3
<1>6. \A j : /\ Under(L.stem, j) <=> j = L.stem \/ Under(s, j)
             /\ Under(R.stem, j) <=> j = R.stem \/ Under(s, j)
  BY <1>2, <1>4, ChildUnder
<1>7. \A d \in open \ {c} : /\ d.stem \in Nat \ {0}
                            /\ ~Under(s, d.stem) /\ ~Under(d.stem, s)
                            /\ Parts(c) \cap Parts(d) = {}
                            /\ Parts(d) \subseteq 1 .. Len(source)
                            /\ d \in Call(Levels, Len(source))
  <2> TAKE d \in open \ {c}
  <2>1. d \in Call(Levels, Len(source))
    BY <1>1 DEF OpenOK
  <2>2. d.offset + d.len <= Len(source) /\ d.offset \in Nat /\ d.len \in Nat
        /\ Len(source) \in Nat /\ d.stem \in Nat \ {0}
    BY <2>1, <1>1 DEF Call, PointsOK
  <2>3. Parts(d) \subseteq 1 .. Len(source)
    BY <2>2 DEF Parts
  <2> QED
    BY <2>1, <2>2, <2>3, <1>1 DEF Separate
<1>8. OpenOK(later, more, pv2, si2)
  <2>1. ASSUME NEW d \in {L, R}
        PROVE  /\ d \in Call(Levels, Len(source))
               /\ Sound(d, more, pv2, si2)
               /\ d.stem \notin more
               /\ \A j \in Nat \ {0} :
                     Under(d.stem, j) /\ j # d.stem => j \in more
    <3>1. d.stem \notin written
      <4>1. ASSUME d.stem \in written PROVE FALSE
        <5>1. Under(d.stem, s)
          BY <1>2, <1>6, UnderItself
        <5>2. QED
          BY <5>1, <4>1, <1>1, <1>2 DEF WrittenOK
      <4>2. QED
        BY <4>1
    <3>2. \A j \in Nat \ {0} : Under(s, j) => j \in more
      BY <1>1 DEF OpenOK
    <3>3. \A k \in Parts(d) : Way(source, si2[k], d.stem, d.level, more, pv2)
      BY SplitWays
    <3>4. BelowBounds(d, si2) /\ BetweenAbove(d, pv2)
      BY SplitBelowBounds, SplitBetween
    <3>5. QED
      BY <3>1, <3>2, <3>3, <3>4, <1>3, <1>4, <1>6 DEF Sound
  <2>2. ASSUME NEW d \in open \ {c}
        PROVE  /\ d \in Call(Levels, Len(source))
               /\ Sound(d, more, pv2, si2)
               /\ d.stem \notin more
               /\ \A j \in Nat \ {0} :
                     Under(d.stem, j) /\ j # d.stem => j \in more
    <3>1. /\ Sound(d, written, pv, si) /\ d.stem \notin written
          /\ \A j \in Nat \ {0} :
                Under(d.stem, j) /\ j # d.stem => j \in written
      BY <1>1 DEF OpenOK
    <3>2. d.stem # s
      BY <1>2, <1>7, UnderItself
    <3>3. \A k \in Parts(d) : si2[k] = si[k]
      BY <1>7, SplitMoves
    <3>4. d.level \in Nat
      BY <1>7 DEF Call
    <3>5. \A k \in Parts(d) : Way(source, si2[k], d.stem, d.level, more, pv2)
      <4> TAKE k \in Parts(d)
      <4>1. Way(source, si2[k], d.stem, d.level, written, pv)
        BY <3>1, <3>3 DEF Sound
      <4>2. SameAt(written, pv, pv2) /\ written \subseteq more
        BY <1>2 DEF SameAt
      <4> QED
        BY <4>1, <4>2, <3>4, WayKept
    <3>6. BelowBounds(d, si2)
      BY <3>1, <3>3 DEF Sound, BelowBounds
    <3>7. BetweenAbove(d, pv2)
      <4>1. \A n \in 0 .. d.level - 1 : Up(d.stem, n + 1) \in written
        BY <1>1, AboveOpen
      <4>2. QED
        BY <4>1, <3>1, <1>2 DEF Sound, BetweenAbove
    <3>8. QED
      BY <3>1, <3>2, <3>5, <3>6, <3>7, <1>7 DEF Sound
  <2>3. QED
    BY <2>1, <2>2 DEF OpenOK
<1>9. Separate(later)
  <2>1. SUFFICES ASSUME NEW d \in later, NEW e \in later, d # e
                 PROVE  ~Under(d.stem, e.stem) /\ Parts(d) \cap Parts(e) = {}
    BY DEF Separate
  <2>2. CASE d \in open \ {c} /\ e \in open \ {c}
    BY <2>1, <2>2, <1>1 DEF Separate
  <2>3. CASE d \in {L, R} /\ e \in open \ {c}
    <3>1. e.stem # d.stem
      <4>1. Under(d.stem, s)
        BY <2>3, <1>2, <1>6, UnderItself
      <4>2. QED
        BY <4>1, <2>3, <1>7
    <3>2. QED
      BY <2>3, <3>1, <1>5, <1>6, <1>7
  <2>4. CASE d \in open \ {c} /\ e \in {L, R}
    <3>1. Under(d.stem, e.stem) => Under(d.stem, s)
      BY <2>4, <1>2, <1>4, <1>7, UnderChild
    <3>2. QED
      BY <2>4, <3>1, <1>5, <1>7
  <2>5. CASE d \in {L, R} /\ e \in {L, R}
    <3>1. ~Under(s, e.stem)
      <4>1. \A j : Under(s, j) => j <= s
        BY <1>2, UnderSmaller
      <4>2. e.stem > s
        BY <2>5, <1>2, <1>4 DEF LeftChild, RightChild
      <4>3. e.stem \in Nat
        BY <2>5, <1>4
      <4>4. QED
        BY <4>1, <4>2, <4>3, <1>2
    <3>2. QED
      BY <2>1, <2>5, <3>1, <1>4, <1>5, <1>6
  <2>6. QED
    BY <2>1, <2>2, <2>3, <2>4, <2>5
<1>10. Reached(later, more)
  <2>1. SUFFICES ASSUME NEW i \in 1 .. 2 ^ Levels - 1, i \notin more
                 PROVE  \E d \in later : Under(i, d.stem)
    BY DEF Reached
  <2>2. PICK d \in open : Under(i, d.stem)
    BY <2>1, <1>1 DEF Reached
  <2>3. CASE d = c
    <3>1. i \in Nat /\ i # s
      BY <2>1
    <3>2. Under(i, LeftChild(s)) \/ Under(i, RightChild(s))
      BY <2>2, <2>3, <3>1, <1>2, UnderChild
    <3>3. QED
      BY <3>2, <1>4
  <2>4. CASE d # c
    BY <2>2, <2>4
  <2>5. QED
    BY <2>3, <2>4
<1>11. WrittenOK(more, pv2) /\ Listing(si2, Len(source))
  BY SplitInOrder, SplitMoves
<1>12. QED
  BY <1>8, <1>9, <1>10, <1>11 DEF Halfway

(* A call beyond the stems is that of one leaf. *)
LEMMA LeafCall ==
    ASSUME Levels \in Nat, NEW n, NEW c \in Call(Levels, n),
           ~(c.level < Levels)
    PROVE  /\ c.level = Levels /\ c.budget = 1
           /\ c.stem \in 2 ^ Levels .. 2 ^ (Levels + 1) - 1
           /\ c.leaf = c.stem - 2 ^ Levels
<1>1. c.level = Levels
  BY DEF Call
<1>2. /\ At(c.stem, Levels) /\ c.stem \in Nat
      /\ c.budget = 2 ^ (Levels - Levels)
      /\ c.leaf = (c.stem - 2 ^ Levels) * c.budget
  BY <1>1 DEF Call
<1>3. 2 ^ Levels \in Nat /\ 2 ^ (Levels + 1) \in Nat
  BY PowerType
<1>4. c.budget = 1
  <2>1. Levels - Levels = 0
    BY DEF Levels
  <2>2. QED
    BY <1>2, <2>1, PowerZero, Zenon
<1>5. c.leaf = c.stem - 2 ^ Levels
  <2> DEFINE x == 2 ^ Levels
  <2>1. c.leaf = (c.stem - x) * 1 /\ x \in Nat
    BY <1>2, <1>3, <1>4
  <2> HIDE DEF x
  <2>2. c.leaf = c.stem - x
    BY <2>1, <1>2
  <2>3. QED
    BY <2>2 DEF x
<1>6. QED
  BY <1>1, <1>2, <1>3, <1>4, <1>5 DEF At

(* No stem is below a leaf. *)
LEMMA LeafLeaves ==
    ASSUME Levels \in Nat, NEW open, NEW written, NEW pv, NEW si,
           Halfway(open, written, pv, si), NEW c \in open,
           ~(c.level < Levels)
    PROVE  Halfway(open \ {c}, written, pv, si)
<1>1. c \in Call(Levels, Len(source))
  BY DEF Halfway, OpenOK
<1>2. c.stem >= 2 ^ Levels /\ c.stem \in Int
  BY <1>1, LeafCall, PowerType
<1>3. ASSUME NEW s \in 1 .. 2 ^ Levels - 1 PROVE ~Under(s, c.stem)
  BY <1>2, UnderSmaller, PowerType
<1>4. QED
  BY <1>3 DEF Halfway, OpenOK, Separate, Reached

(* What is known of written stems is not about the others. *)
LEMMA WrittenSame ==
    ASSUME Levels \in Nat, NEW written, NEW pv, NEW pv2,
           WrittenOK(written, pv), \A i \in written : pv2[i] = pv[i]
    PROVE  WrittenOK(written, pv2)
<1>1. ASSUME NEW i \in written, NEW l \in Nat, At(i, l)
      PROVE  InOrder(i, l, pv2)
  <2>1. i \in Nat \ {0} /\ InOrder(i, l, pv)
    BY <1>1 DEF WrittenOK
  <2>2. \A n \in 0 .. l - 1 : n + 1 \in 1 .. l
    OBVIOUS
  <2>3. \A n \in 0 .. l - 1 : Up(i, n + 1) \in written
    BY <2>1, <2>2, <1>1, UpAbove DEF WrittenOK
  <2>4. QED
    BY <2>1, <2>3 DEF InOrder
<1>2. QED
  BY <1>1 DEF WrittenOK

(* Before any stem is written there is the call at the root. *)
SourceOK ==
    /\ PointsOK
    /\ \A i \in DOMAIN source : \A d \in 0 .. K - 1 : Coord(i, d) < MaxValue

LEMMA RootOpens ==
    ASSUME SourceOK, Levels = StemsDepth(LeafNodeCount(Len(source))), NEW pv
    PROVE  /\ RootCall(Len(source)) \in Call(Levels, Len(source))
           /\ Halfway({RootCall(Len(source))}, {}, pv, Identity(Len(source)))
<1> DEFINE n == Len(source)
           r == RootCall(n)
<1>1. n \in Nat /\ DOMAIN source = 1 .. n
  BY DEF SourceOK, PointsOK
<1>2. Levels \in Nat
  BY <1>1, LeafNodeCountType, StemsDepthType
<1>3. /\ r.stem = 1 /\ r.level = 0 /\ r.offset = 0 /\ r.len = n /\ r.leaf = 0
      /\ r.budget = 2 ^ Levels
      /\ r.bounds = [d \in 0 .. K - 1 |-> MaxValue]
  BY DEF RootCall, RootIdx
<1>4. r \in Call(Levels, n)
  <2>1. r \in [stem : Nat \ {0}, level : 0 .. Levels, offset : Nat, len : Nat,
               leaf : Nat, budget : Nat, bounds : [0 .. K - 1 -> Int]]
    <3>1. 2 ^ Levels \in Nat
      BY <1>2, PowerType
    <3>2. QED
      BY <1>1, <1>2, <3>1, SoftAssumption DEF RootCall, RootIdx
  <2>2. At(r.stem, r.level)
    BY <1>3, LevelOfRoot DEF RootIdx
  <2>3. r.budget = 2 ^ (Levels - r.level)
    <3>1. Levels - r.level = Levels
      BY <1>2, <1>3
    <3>2. QED
      BY <3>1, <1>3
  <2>4. r.leaf = (r.stem - 2 ^ r.level) * r.budget
    <3>1. r.stem - 2 ^ r.level = 0
      BY <1>3, PowerZero
    <3>2. 0 * r.budget = 0
      BY <2>1
    <3>3. QED
      BY <3>1, <3>2, <1>3
  <2>5. r.offset + r.len <= n
    BY <1>1, <1>3
  <2> HIDE DEF r
  <2>6. QED
    BY <2>1, <2>2, <2>3, <2>4, <2>5 DEF Call
<1>5. Listing(Identity(n), n)
  BY <1>1 DEF Listing, Identity
<1>6. Parts(r) = 1 .. n
  BY <1>1, <1>3 DEF Parts
<1>7. Sound(r, {}, pv, Identity(n))
  <2>1. \A k \in Parts(r) :
           Way(source, Identity(n)[k], r.stem, r.level, {}, pv)
    BY <1>3 DEF Way
  <2>2. BelowBounds(r, Identity(n))
    <3>1. SUFFICES ASSUME NEW k \in 1 .. n, NEW d \in 0 .. K - 1
                   PROVE  LeftSide(source, k, d, MaxValue)
      BY <1>3, <1>6 DEF BelowBounds, Identity
    <3>2. source[k] \in [0 .. K - 1 -> Int]
      BY <1>1 DEF SourceOK, PointsOK
    <3>3. source[k][d] \in Int /\ source[k][d] < MaxValue
      BY <1>1, <3>2 DEF SourceOK, Coord
    <3>4. QED
      BY <3>3 DEF LeftSide
  <2>3. BetweenAbove(r, pv)
    BY <1>3 DEF BetweenAbove
  <2>4. QED
    BY <2>1, <2>2, <2>3 DEF Sound
<1>8. OpenOK({r}, {}, pv, Identity(n))
  <2>1. ASSUME NEW j \in Nat \ {0}, Under(r.stem, j) PROVE j = r.stem
    <3>1. Under(1, j)
      BY <2>1, <1>3
    <3>2. j <= 1
      BY <3>1, UnderSmaller
    <3>3. QED
      BY <3>2, <1>3
  <2>2. QED
    BY <2>1, <1>4, <1>7 DEF OpenOK
<1>9. Separate({r}) /\ WrittenOK({}, pv)
  BY DEF Separate, WrittenOK
<1>10. Reached({r}, {})
  <2>1. ASSUME NEW s \in 1 .. 2 ^ Levels - 1 PROVE Under(s, r.stem)
    BY <1>3, UnderRoot DEF RootIdx
  <2>2. QED
    BY <2>1 DEF Reached
<1>11. QED
  BY <1>4, <1>5, <1>8, <1>9, <1>10 DEF Halfway

-----------------------------------------------------------------------------
(* One thread: the calls still to be made.                                 *)
Members(cs) == {cs[i] : i \in 1 .. Len(cs)}

(* They are in the order of their leaves, from the one to be written next. *)
Queued(cs, first) ==
    /\ cs \in Seq(Call(Levels, Len(source)))
    /\ \A i, j \in 1 .. Len(cs) : cs[i] = cs[j] => i = j
    /\ cs # <<>> => cs[1].leaf = first
    /\ \A i \in 1 .. Len(cs) - 1 : cs[i + 1].leaf = cs[i].leaf + cs[i].budget

LEMMA TailFacts ==
    ASSUME NEW S, NEW cs \in Seq(S), cs # <<>>
    PROVE  /\ Tail(cs) \in Seq(S) /\ Len(Tail(cs)) = Len(cs) - 1
           /\ Len(cs) \in Nat \ {0} /\ Head(cs) = cs[1]
           /\ \A i \in 1 .. Len(cs) - 1 : Tail(cs)[i] = cs[i + 1]
<1>1. Len(cs) \in Nat \ {0}
  BY EmptySeq, LenProperties
<1>2. QED
  BY <1>1, HeadTailProperties

LEMMA QueueShrinks ==
    ASSUME NEW cs, NEW first \in Nat, Queued(cs, first), cs # <<>>,
           Levels \in Nat, cs[1].budget = 1
    PROVE  /\ Queued(Tail(cs), first + 1)
           /\ Members(Tail(cs)) = Members(cs) \ {cs[1]}
<1> DEFINE n == Len(cs)
           t == Tail(cs)
<1>1. /\ cs \in Seq(Call(Levels, Len(source))) /\ cs[1].leaf = first
      /\ \A i, j \in 1 .. n : cs[i] = cs[j] => i = j
      /\ \A i \in 1 .. n - 1 : cs[i + 1].leaf = cs[i].leaf + cs[i].budget
  BY DEF Queued
<1>2. /\ t \in Seq(Call(Levels, Len(source))) /\ Len(t) = n - 1
      /\ n \in Nat \ {0} /\ \A i \in 1 .. n - 1 : t[i] = cs[i + 1]
  BY <1>1, TailFacts
<1> HIDE DEF n, t
<1>3. \A i, j \in 1 .. n - 1 : t[i] = t[j] => i = j
  <2> TAKE i, j \in 1 .. n - 1
  <2>1. i + 1 \in 1 .. n /\ j + 1 \in 1 .. n
    BY <1>2
  <2>2. QED
    BY <2>1, <1>1, <1>2
<1>4. t # <<>> => t[1].leaf = first + 1
  <2>1. ASSUME t # <<>> PROVE t[1].leaf = first + 1
    <3>1. 1 \in 1 .. n - 1
      BY <2>1, <1>2, EmptySeq
    <3>2. QED
      BY <3>1, <1>1, <1>2
  <2>2. QED
    BY <2>1
<1>5. \A i \in 1 .. (n - 1) - 1 : t[i + 1].leaf = t[i].leaf + t[i].budget
  <2> TAKE i \in 1 .. (n - 1) - 1
  <2>1. i \in 1 .. n - 1 /\ i + 1 \in 1 .. n - 1
    BY <1>2
  <2>2. t[i] = cs[i + 1] /\ t[i + 1] = cs[i + 1 + 1]
    BY <2>1, <1>2
  <2>3. cs[i + 1 + 1].leaf = cs[i + 1].leaf + cs[i + 1].budget
    BY <2>1, <1>1
  <2>4. QED
    BY <2>2, <2>3
<1>6. Members(t) = Members(cs) \ {cs[1]}
  <2>1. ASSUME NEW d \in Members(t) PROVE d \in Members(cs) /\ d # cs[1]
    <3>1. PICK i \in 1 .. n - 1 : d = t[i]
      BY <1>2 DEF Members
    <3>2. i + 1 \in 1 .. n /\ 1 \in 1 .. n /\ i + 1 # 1 /\ d = cs[i + 1]
      BY <3>1, <1>2
    <3>3. d \in Members(cs)
      BY <3>2 DEF Members, n
    <3>4. QED
      BY <3>2, <3>3, <1>1
  <2>2. ASSUME NEW d \in Members(cs), d # cs[1] PROVE d \in Members(t)
    <3>1. PICK i \in 1 .. n : d = cs[i]
      BY DEF Members, n
    <3>2. i - 1 \in 1 .. n - 1 /\ (i - 1) + 1 = i
      BY <2>2, <3>1, <1>2
    <3>3. d = t[i - 1]
      BY <3>1, <3>2, <1>2
    <3>4. QED
      BY <3>2, <3>3, <1>2 DEF Members
  <2>3. QED
    BY <2>1, <2>2
<1>7. QED
  BY <1>2, <1>3, <1>4, <1>5, <1>6 DEF Queued, n, t

LEMMA QueueSplits ==
    ASSUME NEW cs, NEW first \in Nat, Queued(cs, first), cs # <<>>,
           NEW l \in Call(Levels, Len(source)),
           NEW r \in Call(Levels, Len(source)), l # r,
           l \notin Members(cs), r \notin Members(cs),
           l.leaf = cs[1].leaf, r.leaf = l.leaf + l.budget,
           r.leaf + r.budget = cs[1].leaf + cs[1].budget
    PROVE  /\ Queued(<<l, r>> \o Tail(cs), first)
           /\ Members(<<l, r>> \o Tail(cs)) = (Members(cs) \ {cs[1]}) \cup {l, r}
<1> DEFINE n == Len(cs)
           t == Tail(cs)
           q == <<l, r>> \o t
           C == Call(Levels, Len(source))
<1>1. /\ cs \in Seq(C) /\ cs[1].leaf = first
      /\ \A i, j \in 1 .. n : cs[i] = cs[j] => i = j
      /\ \A i \in 1 .. n - 1 : cs[i + 1].leaf = cs[i].leaf + cs[i].budget
  BY DEF Queued
<1>2. /\ t \in Seq(C) /\ Len(t) = n - 1
      /\ n \in Nat \ {0} /\ \A i \in 1 .. n - 1 : t[i] = cs[i + 1]
  BY <1>1, TailFacts
<1>3. /\ q \in Seq(C) /\ Len(q) = n + 1
      /\ \A i \in 1 .. n + 1 : q[i] = IF i <= 2 THEN <<l, r>>[i] ELSE t[i - 2]
  <2>1. <<l, r>> \in Seq(C) /\ Len(<<l, r>>) = 2
    OBVIOUS
  <2>2. 2 + (n - 1) = n + 1
    BY <1>2
  <2>3. QED
    BY <2>1, <2>2, <1>2, ConcatProperties
<1>4. q[1] = l /\ q[2] = r /\ \A i \in 3 .. n + 1 : q[i] = cs[i - 1]
  <2>0. 1 \in 1 .. n + 1 /\ 2 \in 1 .. n + 1
    BY <1>2
  <2>1. q[1] = l /\ q[2] = r
    BY <2>0, <1>3
  <2>2. ASSUME NEW i \in 3 .. n + 1 PROVE q[i] = cs[i - 1]
    <3>1. i \in 1 .. n + 1 /\ ~(i <= 2) /\ i - 2 \in 1 .. n - 1
          /\ (i - 2) + 1 = i - 1
      BY <1>2
    <3>2. q[i] = t[i - 2]
      BY <3>1, <1>3
    <3>3. QED
      BY <3>1, <3>2, <1>2
  <2>3. QED
    BY <2>1, <2>2
<1> HIDE DEF n, t, q, C
<1>5. \A i \in 1 .. n : cs[i] \in Members(cs)
  BY DEF Members, n
<1>6. \A i, j \in 1 .. n + 1 : q[i] = q[j] => i = j
  <2> TAKE i, j \in 1 .. n + 1
  <2>1. \A m \in 3 .. n + 1 : m - 1 \in 1 .. n /\ q[m] = cs[m - 1]
    BY <1>2, <1>4
  <2>2. \A m \in 1 .. n + 1 : m = 1 \/ m = 2 \/ m \in 3 .. n + 1
    BY <1>2
  <2>3. \A m \in 3 .. n + 1 : q[m] # l /\ q[m] # r
    BY <2>1, <1>5
  <2>4. CASE i \in 3 .. n + 1 /\ j \in 3 .. n + 1
    <3>1. q[i] = q[j] => i - 1 = j - 1
      BY <2>1, <2>4, <1>1
    <3>2. QED
      BY <3>1, <2>4, <1>2
  <2>5. CASE ~(i \in 3 .. n + 1 /\ j \in 3 .. n + 1)
    BY <2>2, <2>3, <2>5, <1>4
  <2>6. QED
    BY <2>4, <2>5
<1>7. \A i \in 1 .. (n + 1) - 1 : q[i + 1].leaf = q[i].leaf + q[i].budget
  <2> TAKE i \in 1 .. (n + 1) - 1
  <2>1. CASE i = 1
    BY <2>1, <1>4
  <2>2. CASE i = 2
    <3>1. 3 \in 3 .. n + 1 /\ 1 \in 1 .. n - 1 /\ q[3] = cs[2]
      BY <2>2, <1>2, <1>4
    <3>2. cs[2].leaf = cs[1].leaf + cs[1].budget
      BY <3>1, <1>1
    <3>3. QED
      BY <2>2, <3>1, <3>2, <1>4
  <2>3. CASE i > 2
    <3>1. /\ i \in 3 .. n + 1 /\ i + 1 \in 3 .. n + 1 /\ i - 1 \in 1 .. n - 1
          /\ (i + 1) - 1 = (i - 1) + 1
      BY <2>3, <1>2
    <3>2. q[i] = cs[i - 1] /\ q[i + 1] = cs[(i - 1) + 1]
      BY <3>1, <1>4
    <3>3. QED
      BY <3>1, <3>2, <1>1
  <2>4. QED
    BY <2>1, <2>2, <2>3, <1>2
<1>8. Members(q) = (Members(cs) \ {cs[1]}) \cup {l, r}
  <2>0. Members(q) = {q[i] : i \in 1 .. n + 1}
    BY <1>3 DEF Members
  <2>1. ASSUME NEW d \in Members(q)
        PROVE  d \in (Members(cs) \ {cs[1]}) \cup {l, r}
    <3>1. PICK i \in 1 .. n + 1 : d = q[i]
      BY <2>0
    <3>2. CASE i \in {1, 2}
      BY <3>1, <3>2, <1>4
    <3>3. CASE i \in 3 .. n + 1
      <4>1. i - 1 \in 1 .. n /\ 1 \in 1 .. n /\ i - 1 # 1 /\ d = cs[i - 1]
        BY <3>1, <3>3, <1>2, <1>4
      <4>2. QED
        BY <4>1, <1>1, <1>5
    <3>4. QED
      BY <3>2, <3>3, <1>2
  <2>2. l \in Members(q) /\ r \in Members(q)
    <3>1. 1 \in 1 .. n + 1 /\ 2 \in 1 .. n + 1
      BY <1>2
    <3>2. QED
      BY <3>1, <2>0, <1>4
  <2>3. ASSUME NEW d \in Members(cs), d # cs[1] PROVE d \in Members(q)
    <3>1. PICK i \in 1 .. n : d = cs[i]
      BY DEF Members, n
    <3>2. i + 1 \in 3 .. n + 1 /\ (i + 1) - 1 = i /\ i + 1 \in 1 .. n + 1
      BY <2>3, <3>1, <1>2
    <3>3. d = q[i + 1]
      BY <3>1, <3>2, <1>4
    <3>4. QED
      BY <2>0, <3>2, <3>3
  <2>4. QED
    BY <2>1, <2>2, <2>3
<1>9. q # <<>> => q[1].leaf = first
  BY <1>1, <1>4
<1>10. QED
  BY <1>3, <1>6, <1>7, <1>8, <1>9 DEF Queued, q, t, C

-----------------------------------------------------------------------------
(* A step after the construction has begun leaves the source as it is, and *)
(* so what is known of it.                                                 *)
SameCall == source' = source /\ max_stem_level' = max_stem_level

LEMMA HalfwayStays ==
    ASSUME SameCall, NEW open, NEW written, NEW pv, NEW si,
           Halfway(open, written, pv, si)
    PROVE  Halfway(open, written, pv, si)'
<1>1. source' = source /\ Levels' = Levels
  BY DEF SameCall, Levels
<1>2. WrittenOK(written, pv)'
  BY <1>1 DEF Halfway, WrittenOK
<1>3. Reached(open, written)'
  BY <1>1 DEF Halfway, Reached
<1>4. ASSUME NEW c \in open PROVE Sound(c, written, pv, si)'
  <2>1. Sound(c, written, pv, si)
    BY DEF Halfway, OpenOK
  <2>2. BelowBounds(c, si)'
    BY <2>1, <1>1 DEF Sound, BelowBounds
  <2>3. QED
    BY <2>1, <2>2, <1>1 DEF Sound
<1>5. OpenOK(open, written, pv, si)'
  BY <1>1, <1>4 DEF Halfway, OpenOK
<1>6. QED
  BY <1>1, <1>2, <1>3, <1>5 DEF Halfway

(* What a call is divided into, in the step that divides it. *)
LEMMA DivisionSplits ==
    ASSUME PointsOK, Levels \in Nat, NEW open, NEW written, NEW pv, NEW pv2,
           Halfway(open, written, pv, sort_index),
           NEW c \in open, c.level < Levels,
           \A i \in written : pv2[i] = pv[i],
           pv2[c.stem] = Division(c, CallOrder(c)).value
    PROVE  Splits(open, written, pv, sort_index, c, CallOrder(c),
                  Division(c, CallOrder(c)), pv2, SortIndexWith(c, CallOrder(c)))
<1> DEFINE order == CallOrder(c)
<1>1. /\ Listing(sort_index, Len(source)) /\ c \in Call(Levels, Len(source))
      /\ BelowBounds(c, sort_index)
  BY DEF Halfway, OpenOK, Sound
<1>2. Divides(c, order, Division(c, order), sort_index)
  BY <1>1, DivisionDivides
<1>3. DOMAIN sort_index = 1 .. Len(source)
  BY <1>1 DEF Listing
<1>4. SplitInto(c, order, Division(c, order), pv, sort_index, written, pv2,
                SortIndexWith(c, order))
  BY <1>3 DEF SplitInto, SortIndexWith
<1>5. QED
  BY <1>2, <1>4 DEF Splits

LEMMA ChildrenNew ==
    ASSUME NEW open, NEW written, NEW pv, NEW si, NEW c, NEW order, NEW division,
           NEW pv2, NEW si2,
           Splits(open, written, pv, si, c, order, division, pv2, si2)
    PROVE  LET l == LeftCall(c, division)
               r == RightCall(c, division)
           IN  /\ l \notin open /\ r \notin open /\ l # r
               /\ l \in Call(Levels, Len(source))
               /\ r \in Call(Levels, Len(source))
               /\ l.leaf = c.leaf /\ r.leaf = l.leaf + l.budget
               /\ r.leaf + r.budget = c.leaf + c.budget
<1> DEFINE l == LeftCall(c, division)
           r == RightCall(c, division)
<1>1. /\ PointsOK /\ Levels \in Nat /\ c.level < Levels
      /\ OpenOK(open, written, pv, si)
  BY DEF Splits, Halfway
<1>2. /\ c \in Call(Levels, Len(source)) /\ c.stem \in Nat \ {0}
      /\ c.stem \notin written
      /\ division.pivot \in 0 .. c.len /\ division.value \in Int
  BY SplitFacts
<1>3. /\ l \in Call(Levels, Len(source)) /\ r \in Call(Levels, Len(source))
      /\ LeftBudget(c.budget) \in Nat /\ c.budget = 2 * LeftBudget(c.budget)
  BY <1>1, <1>2, ChildCalls
<1>4. l.stem = LeftChild(c.stem) /\ r.stem = RightChild(c.stem)
  BY DEF LeftCall, RightCall
<1>5. ASSUME NEW d \in {l, r} PROVE d \notin open
  <2>1. Under(d.stem, c.stem) /\ d.stem # c.stem
    <3>1. Under(c.stem, c.stem)
      BY <1>2, UnderItself
    <3>2. \/ d.stem = LeftChild(c.stem) \/ d.stem = RightChild(c.stem)
      BY <1>4
    <3>3. d.stem # c.stem
      BY <3>2, <1>2 DEF LeftChild, RightChild
    <3>4. QED
      BY <3>1, <3>2, <3>3, <1>2, ChildUnder
  <2>2. QED
    BY <2>1, <1>1, <1>2 DEF OpenOK
<1>6. l # r
  BY <1>2, <1>4 DEF LeftChild, RightChild
<1>7. c.leaf \in Nat /\ c.budget \in Nat
  BY <1>2 DEF Call
<1>8. /\ l.leaf = c.leaf /\ r.leaf = l.leaf + l.budget
      /\ r.leaf + r.budget = c.leaf + c.budget
  <2>1. /\ l.leaf = c.leaf /\ l.budget = LeftBudget(c.budget)
        /\ r.leaf = c.leaf + LeftBudget(c.budget)
        /\ r.budget = c.budget - LeftBudget(c.budget)
    BY DEF LeftCall, RightCall
  <2> HIDE DEF l, r
  <2>2. \A f, b, y \in Nat : (f + y) + (b - y) = f + b
    OBVIOUS
  <2>3. r.leaf = l.leaf + l.budget
    BY <2>1
  <2>4. LeftBudget(c.budget) \in Nat
    BY <1>3
  <2>5. r.leaf + r.budget = c.leaf + c.budget
    BY <2>1, <2>2, <2>4, <1>7
  <2>6. QED
    BY <2>1, <2>3, <2>5
<1>9. QED
  BY <1>3, <1>5, <1>6, <1>8

-----------------------------------------------------------------------------
(* The invariant.                                                          *)
LeafStem(k) == 2 ^ Levels + k - 1

(* Each leaf holds entries whose points are routed to it. *)
LeavesRouted(written, pv) ==
    \A k \in DOMAIN leaves :
        /\ k \in 1 .. 2 ^ Levels
        /\ \A j \in DOMAIN leaves[k] :
              Way(source, leaves[k][j], LeafStem(k), Levels, written, pv)

Phases == {"idle", "single", "serial", "partitioning", "writing", "built",
           "refused"}

TypeOK ==
    /\ SourceOK
    /\ max_stem_level \in Int /\ Levels \in Nat
    /\ phase \in Phases
    /\ leaves \in Seq(Seq(Nat))

IdleOK ==
    phase = "idle" =>
        /\ frames = <<>> /\ locks = <<>> /\ leaves = <<>>
        /\ actual_max_stem_level = -1

SingleOK ==
    phase = "single" =>
        /\ Levels = 0 /\ frames = <<>> /\ leaves = <<>>
        /\ sort_index \in Seq(Nat) /\ actual_max_stem_level = -1

(* There is room for every stem. *)
RoomForStems == stems \in Seq(Int) /\ 2 ^ Levels - 1 <= Len(stems)

SerialWritten(written) ==
    /\ Halfway(Members(calls), written, stems, sort_index)
    /\ LeavesRouted(written, stems)
    /\ \A i \in written : \A l \in Nat :
          At(i, l) => l <= actual_max_stem_level

SerialOK ==
    phase = "serial" =>
        /\ Levels # 0 /\ RoomForStems
        /\ frames = <<>>
        /\ actual_max_stem_level \in Int
        /\ actual_max_stem_level <= max_stem_level
        /\ Queued(calls, Len(leaves))
        /\ \E written : SerialWritten(written)

TreeOK ==
    /\ actual_max_stem_level = max_stem_level
    /\ WrittenOK(StemsUsed, stems)
    /\ LeavesRouted(StemsUsed, stems)

BuiltOK == phase = "built" => TreeOK

QuietOK ==
    phase # "partitioning" => \A i \in DOMAIN frames : frames[i].pc # "called"

(* The leaf of a call that writes one. *)
LEMMA LeafAppends ==
    ASSUME TypeOK, NEW slice \in Seq(Nat), LeafWritten(slice), SameCall,
           NEW written, NEW pv, LeavesRouted(written, pv),
           Len(leaves) < 2 ^ Levels,
           \A j \in DOMAIN slice :
              Way(source, slice[j], LeafStem(Len(leaves) + 1), Levels,
                  written, pv)
    PROVE  /\ leaves' \in Seq(Seq(Nat)) /\ Len(leaves') = Len(leaves) + 1
           /\ LeavesRouted(written, pv)'
<1>1. leaves \in Seq(Seq(Nat)) /\ leaves' = Append(leaves, slice)
  BY DEF TypeOK, LeafWritten
<1>2. /\ leaves' \in Seq(Seq(Nat)) /\ Len(leaves') = Len(leaves) + 1
      /\ \A k \in 1 .. Len(leaves) : leaves'[k] = leaves[k]
      /\ leaves'[Len(leaves) + 1] = slice
      /\ Len(leaves) \in Nat /\ DOMAIN leaves = 1 .. Len(leaves)
      /\ DOMAIN leaves' = 1 .. Len(leaves) + 1
  BY <1>1, AppendProperties, LenProperties
<1>3. source' = source /\ Levels' = Levels /\ 2 ^ Levels \in Nat
  BY PowerType DEF SameCall, Levels, TypeOK
<1>4. \A k : LeafStem(k)' = LeafStem(k)
  BY <1>3 DEF LeafStem
<1>5. ASSUME NEW k \in DOMAIN leaves'
      PROVE  /\ k \in 1 .. 2 ^ Levels
             /\ \A j \in DOMAIN leaves'[k] :
                   Way(source, leaves'[k][j], LeafStem(k), Levels, written, pv)
  <2>1. CASE k \in DOMAIN leaves
    BY <2>1, <1>2 DEF LeavesRouted
  <2>2. CASE k = Len(leaves) + 1
    BY <2>2, <1>2, <1>3
  <2>3. QED
    BY <2>1, <2>2, <1>2
<1>6. QED
  BY <1>2, <1>3, <1>4, <1>5 DEF LeavesRouted

(* What a call's slice holds is routed to its stem. *)
LEMMA SliceRouted ==
    ASSUME TypeOK, NEW open, NEW written, NEW pv,
           Halfway(open, written, pv, sort_index), NEW c \in open
    PROVE  /\ Slice(c) \in Seq(Nat)
           /\ \A j \in DOMAIN Slice(c) :
                 Way(source, Slice(c)[j], c.stem, c.level, written, pv)
<1>1. /\ Listing(sort_index, Len(source)) /\ c \in Call(Levels, Len(source))
      /\ Sound(c, written, pv, sort_index) /\ PointsOK
  BY DEF Halfway, OpenOK, TypeOK, SourceOK
<1>2. c.offset \in Nat /\ c.len \in Nat /\ c.offset + c.len <= Len(source)
  BY <1>1 DEF Call
<1>3. /\ Slice(c) \in [1 .. c.len -> {sort_index[k] : k \in Parts(c)}]
      /\ DOMAIN Slice(c) = 1 .. c.len
      /\ \A i \in 1 .. c.len : /\ c.offset + i \in Parts(c)
                               /\ Slice(c)[i] = sort_index[c.offset + i]
      /\ \A k \in Parts(c) : sort_index[k] \in Nat
  <2>1. \A k \in Parts(c) : \A d \in 0 .. K - 1 :
           sort_index[k] \in Nat /\ Coord(sort_index[k], d) \in Int
    BY <1>1, <1>2, SliceType
  <2>2. 0 \in 0 .. K - 1
    BY SoftAssumption
  <2>3. QED
    BY <1>1, <1>2, <2>1, <2>2, SliceType
<1>4. Slice(c) \in Seq(Nat)
  <2>1. Slice(c) \in [1 .. c.len -> Nat]
    BY <1>3
  <2>2. QED
    BY <2>1, <1>2
<1>5. QED
  BY <1>1, <1>3, <1>4 DEF Sound

(* A written leaf, or one that is refused. *)
LEMMA SerialLeaf ==
    ASSUME TypeOK, SerialOK, PopulateLeaf
    PROVE  TypeOK' /\ SerialOK' /\ phase' \in {"serial", "refused"}
           /\ frames' = <<>>
<1> DEFINE c == Head(calls)
           open == Members(calls)
<1>1. /\ phase = "serial" /\ calls # <<>> /\ IsLeafCall(c)
      /\ WriteLeaf(Slice(c)) /\ calls' = Tail(calls)
      /\ source' = source /\ max_stem_level' = max_stem_level
      /\ sort_index' = sort_index /\ stems' = stems /\ frames' = frames
      /\ actual_max_stem_level' = actual_max_stem_level
  BY DEF PopulateLeaf, call_vars, task_vars
<1>2. /\ Levels # 0 /\ RoomForStems /\ frames = <<>>
      /\ actual_max_stem_level \in Int
      /\ actual_max_stem_level <= max_stem_level
      /\ Queued(calls, Len(leaves))
      /\ \E written : SerialWritten(written)
  BY <1>1 DEF SerialOK
<1>3. PICK written : SerialWritten(written)
  BY <1>2
<1>4. /\ Halfway(open, written, stems, sort_index)
      /\ LeavesRouted(written, stems)
  BY <1>3 DEF SerialWritten
<1>5. /\ Levels \in Nat /\ max_stem_level \in Int /\ leaves \in Seq(Seq(Nat))
      /\ SourceOK /\ phase \in Phases
  BY DEF TypeOK
<1>6. SameCall /\ Levels' = Levels
  BY <1>1 DEF SameCall, Levels
<1>7. /\ c = calls[1] /\ c \in open /\ c.leaf = Len(leaves)
      /\ c \in Call(Levels, Len(source))
  <2>1. calls \in Seq(Call(Levels, Len(source))) /\ calls[1].leaf = Len(leaves)
    BY <1>1, <1>2 DEF Queued
  <2>2. c = calls[1] /\ 1 \in 1 .. Len(calls)
    BY <2>1, <1>1, TailFacts
  <2>3. c \in open
    BY <2>2 DEF Members
  <2>4. QED
    BY <2>1, <2>2, <2>3, <1>4 DEF Halfway, OpenOK
<1> HIDE DEF c, open
<1>8. ~(c.level < Levels)
  BY <1>1, <1>5, <1>7 DEF IsLeafCall, Levels, Call
<1>9. /\ c.level = Levels /\ c.budget = 1
      /\ c.stem \in 2 ^ Levels .. 2 ^ (Levels + 1) - 1
      /\ c.leaf = c.stem - 2 ^ Levels
  BY <1>5, <1>7, <1>8, LeafCall
<1>10. /\ Len(leaves) \in Nat /\ Len(leaves) < 2 ^ Levels
       /\ LeafStem(Len(leaves) + 1) = c.stem
  <2>1. 2 ^ (Levels + 1) = 2 * 2 ^ Levels /\ 2 ^ Levels \in Nat
    BY <1>5, PowerDoubles, PowerType
  <2>2. Len(leaves) = c.stem - 2 ^ Levels /\ Len(leaves) \in Nat
    BY <1>5, <1>7, <1>9, LenProperties
  <2>3. QED
    BY <2>1, <2>2, <1>9 DEF LeafStem
<1>11. CASE LeafRefused(Slice(c))
  <2>1. phase' = "refused" /\ leaves' = leaves
    BY <1>11 DEF LeafRefused
  <2>2. SourceOK'
    BY <1>1, <1>5 DEF SourceOK, PointsOK, Coord
  <2>3. TypeOK'
    BY <2>1, <2>2, <1>1, <1>5, <1>6 DEF TypeOK, Phases
  <2>4. QED
    BY <2>1, <2>3, <1>1, <1>2 DEF SerialOK
<1>12. CASE LeafWritten(Slice(c))
  <2>1. phase' = phase
    BY <1>12 DEF LeafWritten
  <2>2. /\ leaves' \in Seq(Seq(Nat)) /\ Len(leaves') = Len(leaves) + 1
        /\ LeavesRouted(written, stems)'
    <3>1. /\ Slice(c) \in Seq(Nat)
          /\ \A j \in DOMAIN Slice(c) :
                Way(source, Slice(c)[j], c.stem, c.level, written, stems)
      BY <1>4, <1>7, SliceRouted
    <3>2. \A j \in DOMAIN Slice(c) :
             Way(source, Slice(c)[j], LeafStem(Len(leaves) + 1), Levels,
                 written, stems)
      BY <3>1, <1>9, <1>10
    <3>3. /\ leaves' \in Seq(Seq(Nat)) /\ Len(leaves') = Len(leaves) + 1
          /\ \A pv : (pv = stems) => LeavesRouted(written, pv)'
      BY <3>1, <3>2, <1>4, <1>6, <1>10, <1>12, LeafAppends
    <3>4. QED
      BY <3>3, <1>1
  <2>3. SourceOK'
    BY <1>1, <1>5 DEF SourceOK, PointsOK, Coord
  <2>4. TypeOK'
    BY <2>1, <2>2, <2>3, <1>1, <1>5, <1>6 DEF TypeOK
  <2>5. RoomForStems'
    BY <1>1, <1>2, <1>6 DEF RoomForStems
  <2>6. /\ Queued(calls', Len(leaves) + 1)
        /\ Members(calls') = open \ {c}
    BY <1>1, <1>2, <1>5, <1>7, <1>9, <1>10, QueueShrinks DEF open
  <2>7. Queued(calls, Len(leaves))'
    BY <2>2, <2>6, <1>1, <1>6 DEF Queued
  <2>8. Halfway(open \ {c}, written, stems, sort_index)
    BY <1>4, <1>5, <1>7, <1>8, LeafLeaves
  <2>9. Halfway(Members(calls'), written, stems', sort_index')
    BY <2>6, <2>8, <1>1
  <2>10. Halfway(Members(calls), written, stems, sort_index)'
    BY <2>9, <1>6, HalfwayStays
  <2>11. \A i \in written : \A l \in Nat : At(i, l) => l <= actual_max_stem_level'
    BY <1>1, <1>3 DEF SerialWritten
  <2>12. SerialWritten(written)'
    BY <2>2, <2>10, <2>11 DEF SerialWritten
  <2>13. SerialOK'
    BY <2>1, <2>5, <2>7, <2>12, <1>1, <1>2, <1>6 DEF SerialOK
  <2>14. QED
    BY <2>1, <2>4, <2>13, <1>1, <1>2
<1>13. QED
  BY <1>1, <1>11, <1>12 DEF WriteLeaf

LEMMA SerialSplit ==
    ASSUME TypeOK, SerialOK, PopulateSplit
    PROVE  TypeOK' /\ SerialOK' /\ phase' = "serial" /\ frames' = <<>>
<1> DEFINE c == Head(calls)
           open == Members(calls)
           order == CallOrder(c)
           d == Division(c, order)
           l == LeftCall(c, d)
           r == RightCall(c, d)
<1>1. /\ phase = "serial" /\ calls # <<>> /\ ~IsLeafCall(c)
      /\ sort_index' = SortIndexWith(c, order)
      /\ stems' = [Grown(stems, c.stem, MaxValue) EXCEPT ![c.stem] = d.value]
      /\ calls' = <<l, r>> \o Tail(calls)
      /\ source' = source /\ max_stem_level' = max_stem_level
      /\ phase' = phase /\ frames' = frames /\ leaves' = leaves
      /\ actual_max_stem_level' = Greater(actual_max_stem_level, c.level)
  BY DEF PopulateSplit, call_vars, task_vars
<1>2. /\ Levels # 0 /\ RoomForStems /\ frames = <<>>
      /\ actual_max_stem_level \in Int
      /\ actual_max_stem_level <= max_stem_level
      /\ Queued(calls, Len(leaves))
      /\ \E written : SerialWritten(written)
  BY <1>1 DEF SerialOK
<1>3. PICK written : SerialWritten(written)
  BY <1>2
<1>4. /\ Halfway(open, written, stems, sort_index)
      /\ LeavesRouted(written, stems)
      /\ \A i \in written : \A m \in Nat :
            At(i, m) => m <= actual_max_stem_level
  BY <1>3 DEF SerialWritten
<1>5. /\ Levels \in Nat /\ max_stem_level \in Int /\ leaves \in Seq(Seq(Nat))
      /\ SourceOK /\ phase \in Phases /\ PointsOK
  BY DEF TypeOK, SourceOK
<1>6. SameCall /\ Levels' = Levels
  BY <1>1 DEF SameCall, Levels
<1>7. c = calls[1] /\ c \in open
  <2>1. calls \in Seq(Call(Levels, Len(source)))
    BY <1>1, <1>2 DEF Queued
  <2>2. c = calls[1] /\ 1 \in 1 .. Len(calls)
    BY <2>1, <1>1, TailFacts
  <2>3. QED
    BY <2>2 DEF Members
<1> HIDE DEF c, open, order, d, l, r
<1>8. /\ c \in Call(Levels, Len(source)) /\ c.level \in Nat
      /\ c.stem \in Nat \ {0} /\ At(c.stem, c.level)
      /\ c.stem \notin written
  <2>1. c \in Call(Levels, Len(source)) /\ c.stem \notin written
    BY <1>4, <1>7 DEF Halfway, OpenOK
  <2>2. QED
    BY <2>1, <1>5 DEF Call
<1>9. c.level < Levels /\ c.level <= max_stem_level
  BY <1>1, <1>5, <1>8 DEF IsLeafCall, Levels
<1>10. c.stem \in 1 .. 2 ^ Levels - 1 /\ written \subseteq 1 .. 2 ^ Levels - 1
  <2>1. 2 ^ (c.level + 1) <= 2 ^ Levels /\ 2 ^ (c.level + 1) \in Nat
        /\ 2 ^ Levels \in Nat
    BY <1>5, <1>8, <1>9, PowerGrows, PowerType
  <2>2. c.stem < 2 ^ (c.level + 1)
    BY <1>8 DEF At
  <2>3. written \subseteq 1 .. 2 ^ Levels - 1
    BY <1>4 DEF Halfway, WrittenOK
  <2>4. c.stem <= 2 ^ Levels - 1
    BY <2>1, <2>2, <1>8
  <2>5. QED
    BY <2>1, <2>3, <2>4, <1>8
<1>11. /\ stems \in Seq(Int) /\ Len(stems) \in Nat
       /\ DOMAIN stems = 1 .. Len(stems)
       /\ 2 ^ Levels - 1 <= Len(stems) /\ 2 ^ Levels \in Nat
  BY <1>2, <1>5, LenProperties, PowerType DEF RoomForStems
<1>12. stems' = [stems EXCEPT ![c.stem] = d.value]
  <2>1. c.stem <= Len(stems)
    BY <1>10, <1>11
  <2>2. Grown(stems, c.stem, MaxValue) = stems
    BY <2>1 DEF Grown
  <2>3. QED
    BY <2>2, <1>1
<1>13. \A i \in written : stems'[i] = stems[i]
  BY <1>8, <1>10, <1>11, <1>12
<1>14. stems'[c.stem] = d.value /\ c.stem \in 1 .. Len(stems)
  BY <1>10, <1>11, <1>12
<1>15. Splits(open, written, stems, sort_index, c, order, d, stems', sort_index')
  BY <1>1, <1>4, <1>5, <1>7, <1>9, <1>13, <1>14, DivisionSplits DEF d, order
<1>16. d.value \in Int
  BY <1>15, SplitFacts
<1>17. stems' \in Seq(Int) /\ Len(stems') = Len(stems)
  BY <1>11, <1>12, <1>14, <1>16
<1>18. RoomForStems'
  BY <1>6, <1>11, <1>17 DEF RoomForStems
<1>19. /\ Queued(calls', Len(leaves))
       /\ Members(calls') = (open \ {c}) \cup {l, r}
  <2>1. /\ l \notin open /\ r \notin open /\ l # r
        /\ l \in Call(Levels, Len(source)) /\ r \in Call(Levels, Len(source))
        /\ l.leaf = c.leaf /\ r.leaf = l.leaf + l.budget
        /\ r.leaf + r.budget = c.leaf + c.budget
    BY <1>15, ChildrenNew DEF l, r
  <2>2. Len(leaves) \in Nat
    BY <1>5, LenProperties
  <2>3. /\ Queued(<<l, r>> \o Tail(calls), Len(leaves))
        /\ Members(<<l, r>> \o Tail(calls))
              = (Members(calls) \ {calls[1]}) \cup {l, r}
    <3>1. /\ l \notin Members(calls) /\ r \notin Members(calls)
          /\ l.leaf = calls[1].leaf
          /\ r.leaf + r.budget = calls[1].leaf + calls[1].budget
      BY <2>1, <1>7 DEF open
    <3>2. calls # <<>> /\ Queued(calls, Len(leaves))
      BY <1>1, <1>2
    <3>3. QED
      BY <2>1, <2>2, <3>1, <3>2, QueueSplits
  <2>4. QED
    BY <2>3, <1>1, <1>7 DEF open
<1>20. Queued(calls, Len(leaves))'
  BY <1>1, <1>6, <1>19 DEF Queued
<1>21. Halfway(Members(calls'), written \cup {c.stem}, stems', sort_index')
  BY <1>15, <1>19, SplitKeeps DEF l, r
<1> PICK more : more = written \cup {c.stem}
  OBVIOUS
<1>22. Halfway(Members(calls), more, stems, sort_index)'
  BY <1>6, <1>21, HalfwayStays
<1>23. LeavesRouted(more, stems)'
  <2>1. \A k : LeafStem(k)' = LeafStem(k)
    BY <1>6 DEF LeafStem
  <2>2. ASSUME NEW k \in DOMAIN leaves, NEW j \in DOMAIN leaves[k]
        PROVE  Way(source, leaves[k][j], LeafStem(k), Levels, more, stems')
    <3>1. Way(source, leaves[k][j], LeafStem(k), Levels, written, stems)
      BY <1>4 DEF LeavesRouted
    <3>2. written \subseteq more /\ SameAt(written, stems, stems')
      BY <1>13 DEF SameAt
    <3>3. QED
      BY <3>1, <3>2, <1>5, WayKept
  <2>3. QED
    BY <2>1, <2>2, <1>1, <1>4, <1>6 DEF LeavesRouted
<1>24. /\ actual_max_stem_level' \in Int
       /\ actual_max_stem_level' <= max_stem_level'
       /\ actual_max_stem_level' >= actual_max_stem_level
       /\ actual_max_stem_level' >= c.level
  BY <1>1, <1>2, <1>5, <1>8, <1>9 DEF Greater
<1>25. \A i \in more : \A m \in Nat : At(i, m) => m <= actual_max_stem_level'
  <2>1. ASSUME NEW i \in written, NEW m \in Nat, At(i, m)
        PROVE  m <= actual_max_stem_level'
    <3>1. m <= actual_max_stem_level
      BY <2>1, <1>4
    <3>2. QED
      BY <3>1, <1>2, <1>24
  <2>2. ASSUME NEW m \in Nat, At(c.stem, m) PROVE m <= actual_max_stem_level'
    <3>1. m = c.level
      BY <2>2, <1>8, LevelOnly
    <3>2. QED
      BY <3>1, <1>24
  <2>3. QED
    BY <2>1, <2>2
<1>26. SerialWritten(more)'
  BY <1>22, <1>23, <1>25 DEF SerialWritten
<1>27. SourceOK'
  BY <1>1, <1>5 DEF SourceOK, PointsOK, Coord
<1>28. TypeOK'
  BY <1>1, <1>5, <1>6, <1>27 DEF TypeOK
<1>29. SerialOK'
  BY <1>1, <1>2, <1>6, <1>18, <1>20, <1>24, <1>26 DEF SerialOK
<1>30. QED
  BY <1>1, <1>2, <1>28, <1>29

(* When no call is left every stem is written. *)
LEMMA SerialReturns ==
    ASSUME TypeOK, SerialOK, PopulateReturns
    PROVE  TypeOK' /\ TreeOK' /\ phase' = "built" /\ frames' = <<>>
<1>1. /\ phase = "serial" /\ calls = <<>> /\ phase' = "built"
      /\ source' = source /\ max_stem_level' = max_stem_level
      /\ stems' = stems /\ leaves' = leaves /\ frames' = frames
      /\ actual_max_stem_level' = actual_max_stem_level
  BY DEF PopulateReturns, call_vars, task_vars, result_vars
<1>2. /\ Levels # 0 /\ frames = <<>>
      /\ actual_max_stem_level \in Int
      /\ actual_max_stem_level <= max_stem_level
      /\ \E written : SerialWritten(written)
  BY <1>1 DEF SerialOK
<1>3. PICK written : SerialWritten(written)
  BY <1>2
<1>4. /\ Halfway(Members(calls), written, stems, sort_index)
      /\ LeavesRouted(written, stems)
      /\ \A i \in written : \A m \in Nat :
            At(i, m) => m <= actual_max_stem_level
  BY <1>3 DEF SerialWritten
<1>5. /\ Levels \in Nat /\ max_stem_level \in Int /\ leaves \in Seq(Seq(Nat))
      /\ SourceOK
  BY DEF TypeOK
<1>6. Members(calls) = {}
  BY <1>1 DEF Members
<1>7. written = StemsUsed
  <2>1. written \subseteq 1 .. 2 ^ Levels - 1
    BY <1>4 DEF Halfway, WrittenOK
  <2>2. \A s \in 1 .. 2 ^ Levels - 1 : s \in written
    BY <1>4, <1>6 DEF Halfway, Reached
  <2>3. QED
    BY <2>1, <2>2 DEF StemsUsed, Levels
<1>8. actual_max_stem_level = max_stem_level
  <2> DEFINE m == Levels - 1
             i == 2 ^ m
  <2>1. m \in Nat /\ m + 1 = Levels
    BY <1>2, <1>5
  <2>2. i \in Nat /\ i > 0 /\ 2 ^ Levels = 2 * i
    BY <2>1, PowerType, PowerTwice, <1>2, <1>5
  <2>3. At(i, m)
    <3>1. 2 ^ (m + 1) = 2 * i
      BY <2>1, PowerDoubles
    <3> HIDE DEF m
    <3>2. 2 ^ m <= i /\ i < 2 ^ (m + 1)
      BY <2>2, <3>1
    <3>3. QED
      BY <3>2 DEF At
  <2> HIDE DEF i
  <2>4. i \in 1 .. 2 ^ Levels - 1
    BY <2>2
  <2>5. m <= actual_max_stem_level
    BY <2>1, <2>3, <2>4, <1>4, <1>7 DEF StemsUsed, Levels
  <2>6. QED
    BY <2>5, <1>2, <1>5 DEF Levels
<1>9. WrittenOK(StemsUsed, stems)
  BY <1>4, <1>7 DEF Halfway
<1>10. Levels' = Levels /\ StemsUsed' = StemsUsed
  BY <1>1 DEF Levels, StemsUsed
<1>11. WrittenOK(StemsUsed, stems)'
  BY <1>1, <1>9, <1>10 DEF WrittenOK
<1>12. LeavesRouted(StemsUsed, stems)'
  BY <1>1, <1>4, <1>7, <1>10 DEF LeavesRouted, LeafStem
<1>13. SourceOK'
  BY <1>1, <1>5 DEF SourceOK, PointsOK, Coord
<1>14. TypeOK'
  BY <1>1, <1>5, <1>10, <1>13 DEF TypeOK, Phases
<1>15. QED
  BY <1>1, <1>2, <1>8, <1>11, <1>12, <1>14 DEF TreeOK

-----------------------------------------------------------------------------
(* Many threads: the frames of the calls that have begun.                  *)
Waiting == {"left", "joining"}

Frame == [call : Call(Levels, Len(source)),
          pc : {"called", "left", "joining", "returned"},
          pivot : Nat, longest : Nat]

(* The call a frame makes when the first one it made has returned. *)
Later(f) == RightCall(f.call, [pivot |-> f.pivot])

(* Calls that have begun and have not been divided, or are to be made. *)
OpenCalls(fs) ==
    {fs[i].call : i \in {j \in DOMAIN fs : fs[j].pc = "called"}}
    \cup {Later(fs[i]) : i \in {j \in DOMAIN fs : fs[j].pc = "left"}}

Inside(c, d) == Parts(c) \subseteq Parts(d) /\ Owned(c) \subseteq Owned(d)
Apart(c, d)  == Parts(c) \cap Parts(d) = {} /\ Owned(c) \cap Owned(d) = {}

(* Calls are inside those above them and apart from all others. *)
Nested(fs) ==
    \A i, j \in DOMAIN fs : i # j =>
        /\ Under(i, j) => Inside(fs[i].call, fs[j].call)
        /\ ~Under(i, j) /\ ~Under(j, i) => Apart(fs[i].call, fs[j].call)

(* The calls above a call wait for it. *)
MadeByWaiting(fs) ==
    \A i \in DOMAIN fs : \A j \in Nat \ {0} :
        Under(i, j) /\ j # i => j \in DOMAIN fs /\ fs[j].pc \in Waiting

(* The call a frame makes later is apart from the one it made first. *)
LeftOK(fs) ==
    \A i \in DOMAIN fs : fs[i].pc = "left" =>
        /\ fs[i].call.level < Levels
        /\ fs[i].pivot \in 0 .. fs[i].call.len
        /\ LeftChild(i) \in DOMAIN fs /\ RightChild(i) \notin DOMAIN fs
        /\ Apart(fs[LeftChild(i)].call, Later(fs[i]))

FramesType(fs) ==
    \A i \in DOMAIN fs :
        i \in Nat \ {0} /\ fs[i] \in Frame /\ fs[i].call.stem = i

FramesOK(fs) ==
    FramesType(fs) /\ Nested(fs) /\ MadeByWaiting(fs) /\ LeftOK(fs)

LEMMA FramesStay ==
    ASSUME SameCall, NEW fs, FramesOK(fs)
    PROVE  FramesOK(fs)'
<1>1. Levels' = Levels /\ Frame' = Frame
  BY DEF SameCall, Levels, Frame
<1>2. FramesType(fs)' /\ LeftOK(fs)'
  BY <1>1 DEF FramesOK, FramesType, LeftOK
<1>3. Nested(fs)' /\ MadeByWaiting(fs)'
  BY DEF FramesOK, Nested, MadeByWaiting
<1>4. QED
  BY <1>2, <1>3 DEF FramesOK

LEMMA OpenMember ==
    ASSUME NEW fs, NEW e
    PROVE  e \in OpenCalls(fs) <=>
              \/ \E j \in DOMAIN fs : fs[j].pc = "called" /\ e = fs[j].call
              \/ \E j \in DOMAIN fs : fs[j].pc = "left" /\ e = Later(fs[j])
BY DEF OpenCalls

LEMMA CallsMade ==
    ASSUME NEW fs, NEW made, \A c, d \in made : c.stem = d.stem => c = d
    PROVE  /\ DOMAIN WithCalls(fs, made) = DOMAIN fs \cup {c.stem : c \in made}
           /\ \A c \in made : WithCalls(fs, made)[c.stem] = Called(c)
           /\ \A j \in DOMAIN fs : (\A c \in made : c.stem # j) =>
                 WithCalls(fs, made)[j] = fs[j]
<1>1. ASSUME NEW c \in made PROVE WithCalls(fs, made)[c.stem] = Called(c)
  <2>1. c.stem \in DOMAIN fs \cup {d.stem : d \in made}
    OBVIOUS
  <2>2. (CHOOSE d \in made : d.stem = c.stem) = c
    OBVIOUS
  <2>3. QED
    BY <2>1, <2>2 DEF WithCalls
<1>2. QED
  BY <1>1 DEF WithCalls

(* The calls a call makes are inside it, and apart. *)
LEMMA ChildParts ==
    ASSUME PointsOK, Levels \in Nat, NEW c \in Call(Levels, Len(source)),
           c.level < Levels, NEW order, NEW division, division.pivot \in 0 .. c.len
    PROVE  /\ Inside(LeftCall(c, division), c)
           /\ Inside(RightCall(c, division), c)
           /\ Apart(LeftCall(c, division), RightCall(c, division))
           /\ RightCall(c, [pivot |-> division.pivot]) = RightCall(c, division)
<1> DEFINE l == LeftCall(c, division)
           r == RightCall(c, division)
           o == c.offset
           m == c.len
           q == division.pivot
           f == c.leaf
           b == c.budget
           y == LeftBudget(b)
<1>1. /\ Parts(c) = o + 1 .. o + m /\ Parts(l) = o + 1 .. o + q
      /\ Parts(r) = (o + q) + 1 .. (o + q) + (m - q)
      /\ Owned(c) = f .. f + b - 1 /\ Owned(l) = f .. f + y - 1
      /\ Owned(r) = f + y .. f + y + (b - y) - 1
  BY DEF Parts, Owned, LeftCall, RightCall
<1>2. o \in Nat /\ m \in Nat /\ q \in 0 .. m /\ f \in Nat /\ b \in Nat
  BY DEF Call
<1>3. y \in Nat /\ b = 2 * y
  <2> DEFINE d == [pivot |-> division.pivot, value |-> 0]
  <2>1. d.pivot \in 0 .. c.len /\ d.value \in Int
    BY <1>2
  <2> HIDE DEF d
  <2>2. LeftBudget(c.budget) \in Nat \ {0} /\ c.budget = 2 * LeftBudget(c.budget)
    BY <2>1, ChildCalls
  <2>3. QED
    BY <2>2
<1>4. RightCall(c, [pivot |-> division.pivot]) = RightCall(c, division)
  BY DEF RightCall
<1> HIDE DEF l, r, o, m, q, f, b, y
<1>5. (o + q) + (m - q) = o + m
  BY <1>2
<1>6. f + y + (b - y) - 1 = f + b - 1 /\ f + y <= f + b
  BY <1>2, <1>3
<1>7. /\ Parts(l) \subseteq Parts(c) /\ Parts(r) \subseteq Parts(c)
      /\ Parts(l) \cap Parts(r) = {}
  BY <1>1, <1>2, <1>5
<1>8. /\ Owned(l) \subseteq Owned(c) /\ Owned(r) \subseteq Owned(c)
      /\ Owned(l) \cap Owned(r) = {}
  BY <1>1, <1>2, <1>3, <1>6
<1>9. QED
  BY <1>4, <1>7, <1>8 DEF Inside, Apart, l, r

(* A frame makes calls: what the lemmas that follow begin with. *)
Growing(fs, fs2, i, made, division) ==
    /\ PointsOK /\ Levels \in Nat
    /\ FramesOK(fs) /\ i \in DOMAIN fs
    /\ fs[i].call.level < Levels
    /\ division.pivot \in 0 .. fs[i].call.len
    /\ made \subseteq {LeftCall(fs[i].call, division),
                       RightCall(fs[i].call, division)}
    /\ made \subseteq Call(Levels, Len(source))
    /\ \A d \in made : d.stem \notin DOMAIN fs
    /\ \A d \in made : \A j \in DOMAIN fs \ {i} :
          Under(j, i) => Apart(fs[j].call, d)
    /\ DOMAIN fs2 = DOMAIN fs \cup {d.stem : d \in made}
    /\ \A d \in made : fs2[d.stem] = Called(d)
    /\ \A j \in DOMAIN fs \ {i} : fs2[j] = fs[j]
    /\ fs2[i] \in Frame /\ fs2[i].call = fs[i].call /\ fs2[i].pc \in Waiting
    /\ fs2[i].pc = "left" =>
          /\ LeftCall(fs[i].call, division) \in made
          /\ RightChild(i) \notin DOMAIN fs2
          /\ fs2[i].pivot = division.pivot

LEMMA GrowingFacts ==
    ASSUME NEW fs, NEW fs2, NEW i, NEW made, NEW order, NEW division,
           Growing(fs, fs2, i, made, division)
    PROVE  /\ FramesType(fs) /\ Nested(fs) /\ MadeByWaiting(fs) /\ LeftOK(fs)
           /\ i \in Nat \ {0} /\ i \in DOMAIN fs
           /\ fs[i].call \in Call(Levels, Len(source)) /\ fs[i].call.stem = i
           /\ \A j \in DOMAIN fs : fs2[j].call = fs[j].call
           /\ \A d \in made :
                 /\ d.stem \in Nat \ {0} /\ d.stem \notin DOMAIN fs
                 /\ d.stem = LeftChild(i) \/ d.stem = RightChild(i)
                 /\ Inside(d, fs[i].call)
                 /\ fs2[d.stem].call = d /\ fs2[d.stem].pc = "called"
                 /\ \A j : Under(d.stem, j) <=> j = d.stem \/ Under(i, j)
           /\ \A d, e \in made : d # e => Apart(d, e) /\ ~Under(d.stem, e.stem)
<1> DEFINE c == fs[i].call
           l == LeftCall(c, division)
           r == RightCall(c, division)
<1>1. FramesType(fs) /\ Nested(fs) /\ MadeByWaiting(fs) /\ LeftOK(fs)
  BY DEF Growing, FramesOK
<1>2. /\ i \in Nat \ {0} /\ i \in DOMAIN fs /\ fs[i] \in Frame
      /\ c.stem = i
  BY <1>1 DEF Growing, FramesType
<1>3. c \in Call(Levels, Len(source))
  BY <1>2 DEF Frame
<1>4. /\ Inside(l, c) /\ Inside(r, c) /\ Apart(l, r)
  BY <1>3, ChildParts DEF Growing
<1>5. l.stem = LeftChild(i) /\ r.stem = RightChild(i)
  BY <1>2 DEF LeftCall, RightCall
<1> HIDE DEF l, r, c
<1>6. \A j \in DOMAIN fs : fs2[j].call = fs[j].call
  BY DEF Growing
<1>7. made \subseteq {l, r}
  BY DEF Growing, l, r, c
<1>8. \A j : /\ Under(l.stem, j) <=> j = l.stem \/ Under(i, j)
             /\ Under(r.stem, j) <=> j = r.stem \/ Under(i, j)
  BY <1>2, <1>5, ChildUnder
<1>9. /\ LeftChild(i) \in Nat /\ RightChild(i) \in Nat
      /\ LeftChild(i) > i /\ RightChild(i) > i /\ LeftChild(i) # RightChild(i)
  BY <1>2 DEF LeftChild, RightChild
<1>10. ~Under(i, LeftChild(i)) /\ ~Under(i, RightChild(i))
  <2>1. \A j : Under(i, j) => j <= i
    BY <1>2, UnderSmaller
  <2>2. QED
    BY <2>1, <1>2, <1>9
<1>11. ~Under(l.stem, r.stem) /\ ~Under(r.stem, l.stem)
  BY <1>5, <1>8, <1>9, <1>10
<1>12. Apart(r, l)
  BY <1>4 DEF Apart
<1>13. ASSUME NEW d \in made
       PROVE  /\ d.stem \in Nat \ {0} /\ d.stem \notin DOMAIN fs
              /\ d.stem = LeftChild(i) \/ d.stem = RightChild(i)
              /\ Inside(d, c)
              /\ fs2[d.stem].call = d /\ fs2[d.stem].pc = "called"
              /\ \A j : Under(d.stem, j) <=> j = d.stem \/ Under(i, j)
  <2>1. d = l \/ d = r
    BY <1>7
  <2>2. d.stem \notin DOMAIN fs /\ fs2[d.stem] = Called(d)
    BY DEF Growing
  <2>3. fs2[d.stem].call = d /\ fs2[d.stem].pc = "called"
    BY <2>2 DEF Called
  <2>4. d.stem \in Nat \ {0}
    BY <2>1, <1>2, <1>5, <1>9
  <2>5. QED
    BY <2>1, <2>2, <2>3, <2>4, <1>4, <1>5, <1>8
<1>14. \A d, e \in made : d # e => Apart(d, e) /\ ~Under(d.stem, e.stem)
  BY <1>4, <1>7, <1>11, <1>12
<1>15. QED
  BY <1>1, <1>2, <1>3, <1>6, <1>13, <1>14 DEF c

LEMMA NestedGrows ==
    ASSUME NEW fs, NEW fs2, NEW i, NEW made, NEW order, NEW division,
           Growing(fs, fs2, i, made, division)
    PROVE  Nested(fs2)
<1>1. /\ Nested(fs) /\ MadeByWaiting(fs) /\ FramesType(fs)
      /\ i \in Nat \ {0} /\ i \in DOMAIN fs
      /\ \A j \in DOMAIN fs : fs2[j].call = fs[j].call
      /\ \A d \in made :
            /\ d.stem \in Nat \ {0} /\ d.stem \notin DOMAIN fs
            /\ Inside(d, fs[i].call)
            /\ fs2[d.stem].call = d
            /\ \A j : Under(d.stem, j) <=> j = d.stem \/ Under(i, j)
      /\ \A d, e \in made : d # e => Apart(d, e) /\ ~Under(d.stem, e.stem)
  BY GrowingFacts
<1>2. /\ DOMAIN fs2 = DOMAIN fs \cup {d.stem : d \in made}
      /\ \A d \in made : \A j \in DOMAIN fs \ {i} :
            Under(j, i) => Apart(fs[j].call, d)
  BY DEF Growing
<1>3. ASSUME NEW d \in made, NEW j \in DOMAIN fs
      PROVE  /\ Under(d.stem, j) => Inside(d, fs[j].call)
             /\ ~Under(d.stem, j) => Apart(d, fs[j].call)
             /\ ~Under(j, d.stem)
  <2>1. d.stem # j
    BY <1>1
  <2>2. CASE Under(i, j)
    <3>1. Inside(fs[i].call, fs[j].call)
      BY <2>2, <1>1 DEF Nested, Inside
    <3>2. Inside(d, fs[j].call)
      BY <3>1, <1>1 DEF Inside
    <3>3. QED
      BY <3>2, <2>1, <2>2, <1>1 DEF MadeByWaiting
  <2>3. CASE ~Under(i, j)
    <3>1. ~Under(d.stem, j)
      BY <2>1, <2>3, <1>1
    <3>2. i # j
      BY <2>3, <1>1, UnderItself
    <3>3. CASE Under(j, i)
      <4>1. Apart(fs[j].call, d)
        BY <3>2, <3>3, <1>2
      <4>2. Apart(d, fs[j].call)
        BY <4>1 DEF Apart
      <4>3. QED
        BY <4>2, <3>1, <2>1, <1>1 DEF MadeByWaiting
    <3>4. CASE ~Under(j, i)
      <4>1. Apart(fs[i].call, fs[j].call)
        BY <3>2, <3>4, <2>3, <1>1 DEF Nested
      <4>2. Apart(d, fs[j].call)
        BY <4>1, <1>1 DEF Apart, Inside
      <4>3. QED
        BY <4>2, <3>1, <2>1, <1>1 DEF MadeByWaiting
    <3>5. QED
      BY <3>3, <3>4
  <2>4. QED
    BY <2>2, <2>3
<1>4. ASSUME NEW a \in DOMAIN fs2, NEW b \in DOMAIN fs2, a # b
      PROVE  /\ Under(a, b) => Inside(fs2[a].call, fs2[b].call)
             /\ ~Under(a, b) /\ ~Under(b, a)
                => Apart(fs2[a].call, fs2[b].call)
  <2>1. CASE a \in DOMAIN fs /\ b \in DOMAIN fs
    BY <2>1, <1>1, <1>4 DEF Nested
  <2>2. CASE a \notin DOMAIN fs /\ b \in DOMAIN fs
    <3>1. PICK d \in made : a = d.stem
      BY <2>2, <1>2
    <3>2. QED
      BY <3>1, <2>2, <1>1, <1>3
  <2>3. CASE a \in DOMAIN fs /\ b \notin DOMAIN fs
    <3>1. PICK d \in made : b = d.stem
      BY <2>3, <1>2
    <3>2. /\ ~Under(a, b) /\ fs2[b].call = d /\ fs2[a].call = fs[a].call
          /\ ~Under(b, a) => Apart(d, fs[a].call)
      BY <3>1, <2>3, <1>1, <1>3
    <3>3. Apart(d, fs[a].call) => Apart(fs[a].call, d)
      BY DEF Apart
    <3>4. QED
      BY <3>2, <3>3
  <2>4. CASE a \notin DOMAIN fs /\ b \notin DOMAIN fs
    <3>1. PICK d \in made : a = d.stem
      BY <2>4, <1>2
    <3>2. PICK e \in made : b = e.stem
      BY <2>4, <1>2
    <3>3. QED
      BY <3>1, <3>2, <1>1, <1>4
  <2>5. QED
    BY <2>1, <2>2, <2>3, <2>4
<1>5. QED
  BY <1>4 DEF Nested

LEMMA FramesGrow ==
    ASSUME NEW fs, NEW fs2, NEW i, NEW made, NEW order, NEW division,
           Growing(fs, fs2, i, made, division)
    PROVE  FramesOK(fs2)
<1>1. /\ FramesType(fs) /\ MadeByWaiting(fs) /\ LeftOK(fs)
      /\ i \in Nat \ {0} /\ i \in DOMAIN fs
      /\ fs[i].call \in Call(Levels, Len(source)) /\ fs[i].call.stem = i
      /\ \A j \in DOMAIN fs : fs2[j].call = fs[j].call
      /\ \A d \in made :
            /\ d.stem \in Nat \ {0} /\ d.stem \notin DOMAIN fs
            /\ d.stem = LeftChild(i) \/ d.stem = RightChild(i)
            /\ fs2[d.stem].call = d /\ fs2[d.stem].pc = "called"
            /\ \A j : Under(d.stem, j) <=> j = d.stem \/ Under(i, j)
  BY GrowingFacts
<1>2. /\ DOMAIN fs2 = DOMAIN fs \cup {d.stem : d \in made}
      /\ made \subseteq Call(Levels, Len(source))
      /\ \A d \in made : fs2[d.stem] = Called(d)
      /\ \A j \in DOMAIN fs \ {i} : fs2[j] = fs[j]
      /\ fs2[i] \in Frame /\ fs2[i].call = fs[i].call /\ fs2[i].pc \in Waiting
      /\ fs2[i].pc = "left" =>
            /\ LeftCall(fs[i].call, division) \in made
            /\ RightChild(i) \notin DOMAIN fs2
            /\ fs2[i].pivot = division.pivot
      /\ PointsOK /\ Levels \in Nat /\ fs[i].call.level < Levels
      /\ division.pivot \in 0 .. fs[i].call.len
  BY DEF Growing
<1>3. FramesType(fs2)
  <2>1. ASSUME NEW j \in DOMAIN fs2
        PROVE  j \in Nat \ {0} /\ fs2[j] \in Frame /\ fs2[j].call.stem = j
    <3>1. CASE j \in DOMAIN fs /\ j # i
      BY <3>1, <1>1, <1>2 DEF FramesType
    <3>2. CASE j = i
      BY <3>2, <1>1, <1>2
    <3>3. CASE j \notin DOMAIN fs
      <4>1. PICK d \in made : j = d.stem
        BY <3>3, <1>2
      <4>2. fs2[j] = Called(d) /\ d \in Call(Levels, Len(source))
        BY <4>1, <1>2
      <4>3. fs2[j] \in Frame /\ fs2[j].call = d
        BY <4>2 DEF Called, Frame
      <4>4. QED
        BY <4>1, <4>3, <1>1
    <3>4. QED
      BY <3>1, <3>2, <3>3, <1>1
  <2>2. QED
    BY <2>1 DEF FramesType
<1>4. MadeByWaiting(fs2)
  <2>1. ASSUME NEW a \in DOMAIN fs2, NEW j \in Nat \ {0}, Under(a, j), j # a
        PROVE  j \in DOMAIN fs2 /\ fs2[j].pc \in Waiting
    <3>1. j = i \/ (j \in DOMAIN fs /\ fs[j].pc \in Waiting)
      <4>1. CASE a \in DOMAIN fs
        BY <4>1, <2>1, <1>1 DEF MadeByWaiting
      <4>2. CASE a \notin DOMAIN fs
        <5>1. PICK d \in made : a = d.stem
          BY <4>2, <1>2
        <5>2. Under(i, j)
          BY <5>1, <2>1, <1>1
        <5>3. QED
          BY <5>2, <1>1 DEF MadeByWaiting
      <4>3. QED
        BY <4>1, <4>2
    <3>2. QED
      BY <3>1, <1>1, <1>2
  <2>2. QED
    BY <2>1 DEF MadeByWaiting
<1>5. LeftOK(fs2)
  <2>1. ASSUME NEW k \in DOMAIN fs2, fs2[k].pc = "left"
        PROVE  /\ fs2[k].call.level < Levels
               /\ fs2[k].pivot \in 0 .. fs2[k].call.len
               /\ LeftChild(k) \in DOMAIN fs2 /\ RightChild(k) \notin DOMAIN fs2
               /\ Apart(fs2[LeftChild(k)].call, Later(fs2[k]))
    <3>1. k \in DOMAIN fs
      BY <2>1, <1>1, <1>2
    <3>2. CASE k = i
      <4> DEFINE c == fs[i].call
                 l == LeftCall(c, division)
                 r == RightCall(c, division)
      <4>1. l \in made /\ l.stem = LeftChild(i)
        BY <3>2, <2>1, <1>1, <1>2 DEF LeftCall
      <4>2. /\ Apart(l, r)
            /\ RightCall(c, [pivot |-> division.pivot]) = r
        BY <1>1, <1>2, ChildParts
      <4>3. Later(fs2[i]) = r
        BY <4>2, <3>2, <2>1, <1>2 DEF Later
      <4>4. fs2[LeftChild(i)].call = l /\ LeftChild(i) \in DOMAIN fs2
        BY <4>1, <1>1, <1>2
      <4> HIDE DEF l, r
      <4>5. QED
        BY <4>2, <4>3, <4>4, <3>2, <2>1, <1>2
    <3>3. CASE k # i
      <4>1. fs2[k] = fs[k] /\ k \in Nat
        BY <3>1, <3>3, <1>1, <1>2 DEF FramesType
      <4>2. /\ fs[k].call.level < Levels
            /\ fs[k].pivot \in 0 .. fs[k].call.len
            /\ LeftChild(k) \in DOMAIN fs /\ RightChild(k) \notin DOMAIN fs
            /\ Apart(fs[LeftChild(k)].call, Later(fs[k]))
        BY <4>1, <3>1, <2>1, <1>1 DEF LeftOK
      <4>3. RightChild(k) # LeftChild(i) /\ RightChild(k) # RightChild(i)
        BY <4>1, <3>3, <1>1 DEF LeftChild, RightChild
      <4>4. RightChild(k) \notin DOMAIN fs2
        BY <4>2, <4>3, <1>1, <1>2
      <4>5. QED
        BY <4>1, <4>2, <4>4, <1>1, <1>2
    <3>4. QED
      BY <3>2, <3>3
  <2>2. QED
    BY <2>1 DEF LeftOK
<1>6. Nested(fs2)
  BY NestedGrows
<1>7. QED
  BY <1>3, <1>4, <1>5, <1>6 DEF FramesOK

(* A frame returns: the frames of the calls it made go, if it made any. *)
Returning(fs, fs2, i, gone) ==
    /\ FramesOK(fs) /\ i \in DOMAIN fs
    /\ \/ fs[i].pc = "called" /\ gone = {}
       \/ /\ fs[i].pc = "joining" /\ gone = {LeftChild(i), RightChild(i)}
          /\ \A j \in gone : j \in DOMAIN fs /\ fs[j].pc = "returned"
    /\ DOMAIN fs2 = DOMAIN fs \ gone
    /\ \A j \in DOMAIN fs2 \ {i} : fs2[j] = fs[j]
    /\ fs2[i] \in Frame /\ fs2[i].call = fs[i].call /\ fs2[i].pc = "returned"

LEMMA FramesReturn ==
    ASSUME NEW fs, NEW fs2, NEW i, NEW gone, Returning(fs, fs2, i, gone)
    PROVE  /\ FramesOK(fs2) /\ i \in DOMAIN fs2
           /\ \A j \in DOMAIN fs2 : Under(j, i) => j = i
<1>0. /\ FramesOK(fs) /\ i \in DOMAIN fs
      /\ \/ fs[i].pc = "called" /\ gone = {}
         \/ /\ fs[i].pc = "joining" /\ gone = {LeftChild(i), RightChild(i)}
            /\ \A j \in gone : j \in DOMAIN fs /\ fs[j].pc = "returned"
      /\ DOMAIN fs2 = DOMAIN fs \ gone
      /\ \A j \in DOMAIN fs2 \ {i} : fs2[j] = fs[j]
      /\ fs2[i] \in Frame /\ fs2[i].call = fs[i].call
      /\ fs2[i].pc = "returned"
  BY DEF Returning
<1>1. FramesType(fs) /\ Nested(fs) /\ MadeByWaiting(fs) /\ LeftOK(fs)
  BY <1>0 DEF FramesOK
<1>2. i \in Nat \ {0} /\ fs[i].call.stem = i
  BY <1>0, <1>1 DEF FramesType
<1>3. \A j \in gone : /\ j \in DOMAIN fs /\ fs[j].pc = "returned"
                      /\ j = LeftChild(i) \/ j = RightChild(i)
  BY <1>0
<1>4. i \in DOMAIN fs2
  BY <1>0, <1>2, <1>3 DEF LeftChild, RightChild
<1>5. \A j \in DOMAIN fs2 : j \in DOMAIN fs /\ fs2[j].call = fs[j].call
  BY <1>0
<1>6. FramesType(fs2)
  BY <1>0, <1>1, <1>2 DEF FramesType
<1>7. Nested(fs2)
  BY <1>0, <1>1, <1>5 DEF Nested
<1>8. ASSUME NEW j \in DOMAIN fs2, Under(j, i), j # i PROVE FALSE
  <2>1. fs[i].pc \in Waiting
    BY <1>0, <1>1, <1>2, <1>8 DEF MadeByWaiting
  <2>2. fs[i].pc = "joining" /\ gone = {LeftChild(i), RightChild(i)}
    BY <1>0, <2>1 DEF Waiting
  <2>3. j \in Nat /\ j # LeftChild(i) /\ j # RightChild(i)
    BY <1>0, <2>2, <1>1 DEF FramesType
  <2>4. Under(j, LeftChild(i)) \/ Under(j, RightChild(i))
    BY <1>0, <2>3, <1>2, <1>8, UnderChild
  <2>5. LeftChild(i) \in Nat \ {0} /\ RightChild(i) \in Nat \ {0}
    BY <1>0, <1>2 DEF LeftChild, RightChild
  <2>6. fs[LeftChild(i)].pc \in Waiting \/ fs[RightChild(i)].pc \in Waiting
    BY <1>0, <2>3, <2>4, <2>5, <1>1 DEF MadeByWaiting
  <2>7. QED
    BY <1>0, <2>2, <2>6, <1>3 DEF Waiting
<1>9. MadeByWaiting(fs2)
  <2>1. ASSUME NEW a \in DOMAIN fs2, NEW j \in Nat \ {0}, Under(a, j), j # a
        PROVE  j \in DOMAIN fs2 /\ fs2[j].pc \in Waiting
    <3>1. j \in DOMAIN fs /\ fs[j].pc \in Waiting
      BY <1>0, <2>1, <1>1 DEF MadeByWaiting
    <3>2. j \notin gone
      BY <1>0, <3>1, <1>3 DEF Waiting
    <3>3. j # i
      BY <1>0, <2>1, <1>8
    <3>4. QED
      BY <1>0, <3>1, <3>2, <3>3
  <2>2. QED
    BY <1>0, <2>1 DEF MadeByWaiting
<1>10. LeftOK(fs2)
  <2>1. ASSUME NEW k \in DOMAIN fs2, fs2[k].pc = "left"
        PROVE  /\ fs2[k].call.level < Levels
               /\ fs2[k].pivot \in 0 .. fs2[k].call.len
               /\ LeftChild(k) \in DOMAIN fs2 /\ RightChild(k) \notin DOMAIN fs2
               /\ Apart(fs2[LeftChild(k)].call, Later(fs2[k]))
    <3>1. k # i /\ fs2[k] = fs[k] /\ k \in DOMAIN fs /\ k \in Nat
      BY <1>0, <2>1, <1>1 DEF FramesType
    <3>2. /\ fs[k].call.level < Levels
          /\ fs[k].pivot \in 0 .. fs[k].call.len
          /\ LeftChild(k) \in DOMAIN fs /\ RightChild(k) \notin DOMAIN fs
          /\ Apart(fs[LeftChild(k)].call, Later(fs[k]))
      BY <1>0, <3>1, <2>1, <1>1 DEF LeftOK
    <3>3. LeftChild(k) # LeftChild(i) /\ LeftChild(k) # RightChild(i)
      BY <1>0, <3>1, <1>2 DEF LeftChild, RightChild
    <3>4. LeftChild(k) \in DOMAIN fs2
      BY <1>0, <3>2, <3>3, <1>3
    <3>5. QED
      BY <1>0, <3>1, <3>2, <3>4, <1>5
  <2>2. QED
    BY <1>0, <2>1 DEF LeftOK
<1>11. QED
  BY <1>0, <1>4, <1>6, <1>7, <1>8, <1>9, <1>10 DEF FramesOK

(* What each step does to the open calls. *)
LEMMA OpenReturn ==
    ASSUME NEW fs, NEW fs2, NEW i, NEW gone, Returning(fs, fs2, i, gone)
    PROVE  OpenCalls(fs2) = IF fs[i].pc = "called"
                            THEN OpenCalls(fs) \ {fs[i].call}
                            ELSE OpenCalls(fs)
<1> DEFINE c == fs[i].call
<1>0. /\ FramesOK(fs) /\ i \in DOMAIN fs
      /\ \/ fs[i].pc = "called" /\ gone = {}
         \/ /\ fs[i].pc = "joining" /\ gone = {LeftChild(i), RightChild(i)}
            /\ \A j \in gone : j \in DOMAIN fs /\ fs[j].pc = "returned"
      /\ DOMAIN fs2 = DOMAIN fs \ gone
      /\ \A j \in DOMAIN fs2 \ {i} : fs2[j] = fs[j]
      /\ fs2[i] \in Frame /\ fs2[i].call = fs[i].call
      /\ fs2[i].pc = "returned"
  BY DEF Returning
<1>1. /\ \A j \in DOMAIN fs : fs[j].call.stem = j
      /\ \A j \in DOMAIN fs : fs[j].pc = "left" => RightChild(j) \notin DOMAIN fs
  BY <1>0 DEF FramesOK, FramesType, LeftOK
<1>2. \A j \in gone : fs[j].pc = "returned"
  BY <1>0
<1>3. \A j \in DOMAIN fs : j # i => fs[j].call # c
  BY <1>0, <1>1
<1>4. \A j \in DOMAIN fs : fs[j].pc = "left" => Later(fs[j]) # c
  <2> TAKE j \in DOMAIN fs
  <2>1. Later(fs[j]).stem = RightChild(j)
    BY <1>1 DEF Later, RightCall
  <2>2. QED
    BY <2>1, <1>0, <1>1
<1>5. ASSUME NEW e
      PROVE  e \in OpenCalls(fs2) <=>
                e \in OpenCalls(fs) /\ (fs[i].pc = "called" => e # c)
  <2>1. ASSUME e \in OpenCalls(fs2)
        PROVE  e \in OpenCalls(fs) /\ (fs[i].pc = "called" => e # c)
    <3>1. CASE \E j \in DOMAIN fs2 : fs2[j].pc = "called" /\ e = fs2[j].call
      <4>1. PICK j \in DOMAIN fs2 : fs2[j].pc = "called" /\ e = fs2[j].call
        BY <3>1
      <4>2. j # i /\ fs2[j] = fs[j] /\ j \in DOMAIN fs
        BY <4>1, <1>0
      <4>3. QED
        BY <4>1, <4>2, <1>3, OpenMember
    <3>2. CASE \E j \in DOMAIN fs2 : fs2[j].pc = "left" /\ e = Later(fs2[j])
      <4>1. PICK j \in DOMAIN fs2 : fs2[j].pc = "left" /\ e = Later(fs2[j])
        BY <3>2
      <4>2. j # i /\ fs2[j] = fs[j] /\ j \in DOMAIN fs
        BY <4>1, <1>0
      <4>3. QED
        BY <4>1, <4>2, <1>4, OpenMember
    <3>3. QED
      BY <2>1, <3>1, <3>2, OpenMember
  <2>2. ASSUME e \in OpenCalls(fs), fs[i].pc = "called" => e # c
        PROVE  e \in OpenCalls(fs2)
    <3>1. CASE \E j \in DOMAIN fs : fs[j].pc = "called" /\ e = fs[j].call
      <4>1. PICK j \in DOMAIN fs : fs[j].pc = "called" /\ e = fs[j].call
        BY <3>1
      <4>2. j # i
        BY <4>1, <2>2
      <4>3. j \in DOMAIN fs2 /\ fs2[j] = fs[j]
        BY <4>1, <4>2, <1>0, <1>2
      <4>4. QED
        BY <4>1, <4>3, OpenMember
    <3>2. CASE \E j \in DOMAIN fs : fs[j].pc = "left" /\ e = Later(fs[j])
      <4>1. PICK j \in DOMAIN fs : fs[j].pc = "left" /\ e = Later(fs[j])
        BY <3>2
      <4>2. j # i
        BY <4>1, <1>0
      <4>3. j \in DOMAIN fs2 /\ fs2[j] = fs[j]
        BY <4>1, <4>2, <1>0, <1>2
      <4>4. QED
        BY <4>1, <4>3, OpenMember
    <3>3. QED
      BY <2>2, <3>1, <3>2, OpenMember
  <2>3. QED
    BY <2>1, <2>2
<1>6. QED
  BY <1>5

LEMMA OpenGrows ==
    ASSUME NEW fs, NEW fs2, NEW i, NEW made, NEW order, NEW division,
           Growing(fs, fs2, i, made, division),
           \/ /\ fs[i].pc = "called" /\ fs2[i].pc = "joining"
              /\ made = {LeftCall(fs[i].call, division),
                         RightCall(fs[i].call, division)}
           \/ /\ fs[i].pc = "called" /\ fs2[i].pc = "left"
              /\ made = {LeftCall(fs[i].call, division)}
           \/ /\ fs[i].pc = "left" /\ fs2[i].pc = "joining"
              /\ made = {Later(fs[i])}
    PROVE  OpenCalls(fs2) =
              IF fs[i].pc = "called"
              THEN (OpenCalls(fs) \ {fs[i].call})
                      \cup {LeftCall(fs[i].call, division),
                            RightCall(fs[i].call, division)}
              ELSE OpenCalls(fs)
<1> DEFINE c == fs[i].call
           l == LeftCall(c, division)
           r == RightCall(c, division)
           rest == {e \in OpenCalls(fs) :
                       \/ \E j \in DOMAIN fs \ {i} :
                             fs[j].pc = "called" /\ e = fs[j].call
                       \/ \E j \in DOMAIN fs \ {i} :
                             fs[j].pc = "left" /\ e = Later(fs[j])}
           now == IF fs2[i].pc = "left" THEN {l, r} ELSE made
           then == IF fs[i].pc = "called" THEN {c} ELSE {Later(fs[i])}
<1>1. /\ FramesType(fs) /\ LeftOK(fs) /\ i \in DOMAIN fs
      /\ fs[i].call \in Call(Levels, Len(source))
      /\ \A j \in DOMAIN fs : fs2[j].call = fs[j].call
      /\ \A d \in made :
            /\ d.stem \notin DOMAIN fs
            /\ fs2[d.stem].call = d /\ fs2[d.stem].pc = "called"
  BY GrowingFacts
<1>2. /\ DOMAIN fs2 = DOMAIN fs \cup {d.stem : d \in made}
      /\ \A j \in DOMAIN fs \ {i} : fs2[j] = fs[j]
      /\ fs2[i].pc = "left" => fs2[i].pivot = division.pivot
      /\ PointsOK /\ Levels \in Nat /\ fs[i].call.level < Levels
      /\ division.pivot \in 0 .. fs[i].call.len
  BY DEF Growing
<1>3. fs2[i].pc = "left" => Later(fs2[i]) = r
  <2>1. RightCall(c, [pivot |-> division.pivot]) = r
    BY <1>1, <1>2, ChildParts
  <2>2. QED
    BY <2>1, <1>1, <1>2 DEF Later
<1>4. fs2[i].pc # "called" /\ fs[i].pc \in {"called", "left"}
  OBVIOUS
<1> HIDE DEF l, r, c
<1>5. fs2[i].pc = "left" => made = {l}
  BY DEF l, c
<1>6. OpenCalls(fs2) = rest \cup now
  <2>1. ASSUME NEW e \in OpenCalls(fs2) PROVE e \in rest \cup now
    <3>1. CASE \E j \in DOMAIN fs2 : fs2[j].pc = "called" /\ e = fs2[j].call
      <4>1. PICK j \in DOMAIN fs2 : fs2[j].pc = "called" /\ e = fs2[j].call
        BY <3>1
      <4>2. j # i
        BY <4>1, <1>4
      <4>3. CASE j \in DOMAIN fs
        BY <4>1, <4>2, <4>3, <1>2, OpenMember
      <4>4. CASE j \notin DOMAIN fs
        <5>1. PICK d \in made : j = d.stem
          BY <4>4, <1>2
        <5>2. e = d
          BY <4>1, <5>1, <1>1
        <5>3. QED
          BY <5>2, <1>5
      <4>5. QED
        BY <4>3, <4>4
    <3>2. CASE \E j \in DOMAIN fs2 : fs2[j].pc = "left" /\ e = Later(fs2[j])
      <4>1. PICK j \in DOMAIN fs2 : fs2[j].pc = "left" /\ e = Later(fs2[j])
        BY <3>2
      <4>2. j \in DOMAIN fs
        BY <4>1, <1>1, <1>2
      <4>3. CASE j = i
        BY <4>1, <4>3, <1>3
      <4>4. CASE j # i
        BY <4>1, <4>2, <4>4, <1>2, OpenMember
      <4>5. QED
        BY <4>3, <4>4
    <3>3. QED
      BY <3>1, <3>2, OpenMember
  <2>2. ASSUME NEW e \in now PROVE e \in OpenCalls(fs2)
    <3>1. CASE e \in made
      <4>1. e.stem \in DOMAIN fs2 /\ fs2[e.stem].pc = "called"
            /\ fs2[e.stem].call = e
        BY <3>1, <1>1, <1>2
      <4>2. QED
        BY <4>1, OpenMember
    <3>2. CASE e \notin made
      <4>1. fs2[i].pc = "left" /\ e = r /\ i \in DOMAIN fs2
        BY <3>2, <1>1, <1>2, <1>5
      <4>2. QED
        BY <4>1, <1>3, OpenMember
    <3>3. QED
      BY <3>1, <3>2
  <2>3. ASSUME NEW e \in rest PROVE e \in OpenCalls(fs2)
    BY <1>2, OpenMember
  <2>4. QED
    BY <2>1, <2>2, <2>3
<1>7. OpenCalls(fs) = rest \cup then
  <2>1. ASSUME NEW e \in OpenCalls(fs) PROVE e \in rest \cup then
    BY OpenMember DEF c
  <2>2. ASSUME NEW e \in then PROVE e \in OpenCalls(fs)
    BY <1>1, <1>4, OpenMember DEF c
  <2>3. QED
    BY <2>1, <2>2
<1>8. c \notin rest
  <2>1. \A j \in DOMAIN fs : fs[j].call.stem = j
    BY <1>1 DEF FramesType
  <2>2. \A j \in DOMAIN fs :
           fs[j].pc = "left" => Later(fs[j]).stem \notin DOMAIN fs
    BY <1>1, <2>1 DEF LeftOK, Later, RightCall
  <2>3. c.stem = i
    BY <2>1, <1>1 DEF c
  <2>4. QED
    BY <2>1, <2>2, <2>3, <1>1
<1>9. CASE fs[i].pc = "called"
  <2>1. now = {l, r}
    BY <1>9 DEF l, r, c
  <2>2. QED
    BY <2>1, <1>6, <1>7, <1>8, <1>9 DEF l, r, c
<1>10. CASE fs[i].pc = "left"
  <2>1. now = {Later(fs[i])} /\ then = {Later(fs[i])}
    BY <1>10
  <2>2. QED
    BY <2>1, <1>6, <1>7, <1>10
<1>11. QED
  BY <1>4, <1>9, <1>10

-----------------------------------------------------------------------------
(* The ranges of the leaves that no open call reaches any more.            *)
RangePart(range) == range[1] + 1 .. range[1] + range[2]

RangesRouted(ranges, open, written, pv, si) ==
    \A k \in 1 .. 2 ^ Levels :
        (\A c \in open : ~Under(LeafStem(k), c.stem)) =>
            /\ ranges[k][1] + ranges[k][2] <= Len(source)
            /\ \A m \in RangePart(ranges[k]) :
                  /\ Way(source, si[m], LeafStem(k), Levels, written, pv)
                  /\ \A c \in open : m \notin Parts(c)

LEMMA RangesStay ==
    ASSUME SameCall, NEW ranges, NEW open, NEW written, NEW pv, NEW si,
           RangesRouted(ranges, open, written, pv, si)
    PROVE  RangesRouted(ranges, open, written, pv, si)'
<1>1. source' = source /\ Levels' = Levels
  BY DEF SameCall, Levels
<1>2. \A k : LeafStem(k)' = LeafStem(k)
  BY <1>1 DEF LeafStem
<1>3. QED
  BY <1>1, <1>2 DEF RangesRouted

LEMMA LeafStemLevel ==
    ASSUME Levels \in Nat, NEW k \in 1 .. 2 ^ Levels
    PROVE  At(LeafStem(k), Levels) /\ LeafStem(k) \in Nat \ {0}
<1>1. 2 ^ (Levels + 1) = 2 * 2 ^ Levels /\ 2 ^ Levels \in Nat
  BY PowerDoubles, PowerType
<1>2. QED
  BY <1>1 DEF At, LeafStem

(* At one level a stem is under none but itself. *)
LEMMA UnderAtLevel ==
    ASSUME NEW i \in Nat, NEW j \in Nat, NEW l \in Nat, At(i, l), At(j, l),
           Under(i, j)
    PROVE  i = j
<1>1. PICK n \in Nat : Up(i, n) = j
  BY DEF Under
<1>2. CASE n = 0
  BY <1>1, <1>2, UpZero
<1>3. CASE n # 0
  <2> DEFINE m == n - 1
  <2>1. m \in Nat /\ n = m + 1
    BY <1>3
  <2> HIDE DEF m
  <2>2. j = Up(i, m) \div 2 /\ Up(i, m) \in Nat /\ Up(i, m) <= i
    BY <1>1, <2>1, UpNext, UpType
  <2>3. 2 ^ (l + 1) = 2 * 2 ^ l /\ 2 ^ l \in Nat
    BY PowerDoubles, PowerType
  <2> DEFINE u == Up(i, m)
             x == 2 ^ l
  <2>4. u \in Nat /\ u <= i /\ j = u \div 2 /\ x \in Nat
        /\ i < 2 * x /\ x <= j
    BY <2>2, <2>3 DEF At
  <2> HIDE DEF u, x
  <2>5. FALSE
    BY <2>4
  <2>6. QED
    BY <2>5
<1>4. QED
  BY <1>2, <1>3

(* A call that is divided reaches the same leaves as its calls.            *)
LEMMA SplitRanges ==
    ASSUME NEW open, NEW written, NEW pv, NEW si, NEW c, NEW order, NEW division,
           NEW pv2, NEW si2, NEW ranges,
           ranges \in [1 .. 2 ^ Levels -> Nat \X Nat],
           Splits(open, written, pv, si, c, order, division, pv2, si2),
           RangesRouted(ranges, open, written, pv, si)
    PROVE  RangesRouted(ranges,
                        (open \ {c}) \cup {LeftCall(c, division),
                                           RightCall(c, division)},
                        written \cup {c.stem}, pv2, si2)
<1> DEFINE l == LeftCall(c, division)
           r == RightCall(c, division)
           later == (open \ {c}) \cup {l, r}
           more == written \cup {c.stem}
<1>1. /\ Levels \in Nat /\ PointsOK /\ c.level < Levels /\ c \in open
      /\ Len(source) \in Nat
  BY DEF Splits, PointsOK
<1>2. /\ c \in Call(Levels, Len(source))
      /\ c.stem \in Nat \ {0} /\ At(c.stem, c.level) /\ c.level \in Nat
      /\ division.pivot \in 0 .. c.len
      /\ \A i \in written : pv2[i] = pv[i]
  BY SplitFacts
<1>3. l.stem = LeftChild(c.stem) /\ r.stem = RightChild(c.stem)
  BY DEF LeftCall, RightCall
<1>4. Parts(l) \subseteq Parts(c) /\ Parts(r) \subseteq Parts(c)
  BY <1>1, <1>2, ChildParts DEF Inside
<1>5. \A k \in 1 .. Len(source) : k \notin Parts(c) => si2[k] = si[k]
  BY SplitMoves
<1> HIDE DEF l, r
<1>6. ASSUME NEW k \in 1 .. 2 ^ Levels,
             \A d \in later : ~Under(LeafStem(k), d.stem)
      PROVE  /\ ranges[k][1] + ranges[k][2] <= Len(source)
             /\ \A m \in RangePart(ranges[k]) :
                   /\ Way(source, si2[m], LeafStem(k), Levels, more, pv2)
                   /\ \A d \in later : m \notin Parts(d)
  <2> DEFINE s == LeafStem(k)
  <2>1. At(s, Levels) /\ s \in Nat \ {0}
    BY <1>1, LeafStemLevel
  <2>2. s # c.stem
    BY <2>1, <1>1, <1>2, LevelOnly
  <2>3. ~Under(s, LeftChild(c.stem)) /\ ~Under(s, RightChild(c.stem))
    BY <1>3, <1>6
  <2>4. ~Under(s, c.stem)
    BY <2>1, <2>2, <2>3, <1>2, UnderChild
  <2>5. \A d \in open : ~Under(s, d.stem)
    BY <2>4, <1>6
  <2>6. /\ ranges[k][1] + ranges[k][2] <= Len(source)
        /\ \A m \in RangePart(ranges[k]) :
              /\ Way(source, si[m], s, Levels, written, pv)
              /\ \A d \in open : m \notin Parts(d)
    BY <2>5 DEF RangesRouted
  <2> HIDE DEF s
  <2>7. ASSUME NEW m \in RangePart(ranges[k])
        PROVE  /\ Way(source, si2[m], s, Levels, more, pv2)
               /\ \A d \in later : m \notin Parts(d)
    <3>1. m \in 1 .. Len(source)
      <4>1. ranges[k][1] \in Nat /\ ranges[k][2] \in Nat
        OBVIOUS
      <4>2. QED
        BY <4>1, <2>6, <1>1 DEF RangePart
    <3>2. m \notin Parts(c) /\ m \notin Parts(l) /\ m \notin Parts(r)
      BY <2>6, <1>1, <1>4
    <3>3. si2[m] = si[m]
      BY <3>1, <3>2, <1>5
    <3>4. Way(source, si2[m], s, Levels, written, pv)
      BY <3>3, <2>6
    <3>5. written \subseteq more
      OBVIOUS
    <3>6. Way(source, si2[m], s, Levels, more, pv2)
      <4>1. SameAt(written, pv, pv2)
        BY <1>2 DEF SameAt
      <4>2. QED
        BY <3>4, <3>5, <4>1, <1>1, WayKept
    <3>7. QED
      BY <3>2, <3>6, <2>6
  <2>8. QED
    BY <2>6, <2>7 DEF s
<1>7. QED
  BY <1>6 DEF RangesRouted, l, r

(* A call that writes a leaf's range. *)
LEMMA LeafRanges ==
    ASSUME TypeOK, NEW open, NEW written, NEW pv,
           Halfway(open, written, pv, sort_index),
           NEW c \in open, ~(c.level < Levels), NEW ranges,
           ranges \in [1 .. 2 ^ Levels -> Nat \X Nat],
           RangesRouted(ranges, open, written, pv, sort_index)
    PROVE  LET ranges2 == [ranges EXCEPT ![c.leaf + 1] = <<c.offset, c.len>>]
           IN  /\ ranges2 \in [1 .. 2 ^ Levels -> Nat \X Nat]
               /\ RangesRouted(ranges2, open \ {c}, written, pv, sort_index)
<1> DEFINE ranges2 == [ranges EXCEPT ![c.leaf + 1] = <<c.offset, c.len>>]
<1>1. /\ Levels \in Nat /\ OpenOK(open, written, pv, sort_index)
      /\ Separate(open)
  BY DEF TypeOK, Halfway
<1>2. /\ c \in Call(Levels, Len(source)) /\ Sound(c, written, pv, sort_index)
  BY <1>1 DEF OpenOK
<1>3. /\ c.offset \in Nat /\ c.len \in Nat /\ c.offset + c.len <= Len(source)
      /\ At(c.stem, c.level) /\ c.stem \in Nat
  BY <1>2 DEF Call
<1>4. /\ c.level = Levels
      /\ c.stem \in 2 ^ Levels .. 2 ^ (Levels + 1) - 1
      /\ c.leaf = c.stem - 2 ^ Levels
  BY <1>1, <1>2, LeafCall
<1> DEFINE x == 2 ^ Levels
           q == c.leaf + 1
<1>5. 2 ^ (Levels + 1) = 2 * x /\ x \in Nat
  BY <1>1, PowerDoubles, PowerType
<1>6. q \in 1 .. x /\ \A k \in 1 .. x : k # q => LeafStem(k) # c.stem
  <2>1. \A k : LeafStem(k) = x + k - 1
    BY DEF LeafStem
  <2>2. c.stem \in x .. 2 * x - 1 /\ c.leaf = c.stem - x
    BY <1>4, <1>5
  <2> HIDE DEF x
  <2>3. QED
    BY <2>1, <2>2, <1>3, <1>5
<1>7. LeafStem(q) = c.stem
  <2>1. LeafStem(q) = x + q - 1
    BY DEF LeafStem
  <2>2. c.leaf = c.stem - x
    BY <1>4
  <2> HIDE DEF x
  <2>3. QED
    BY <2>1, <2>2, <1>3, <1>5
<1>8. /\ ranges2 \in [1 .. x -> Nat \X Nat] /\ ranges2[q] = <<c.offset, c.len>>
      /\ \A k \in 1 .. x : k # q => ranges2[k] = ranges[k]
  <2> HIDE DEF x
  <2>1. <<c.offset, c.len>> \in Nat \X Nat
    BY <1>3
  <2>2. ranges \in [1 .. x -> Nat \X Nat]
    BY DEF x
  <2> HIDE DEF q
  <2>3. ranges2 = [ranges EXCEPT ![q] = <<c.offset, c.len>>]
    BY DEF q
  <2>4. QED
    BY <2>1, <2>2, <2>3, <1>6
<1> HIDE DEF x, q, ranges2
<1>9. ASSUME NEW k \in 1 .. x,
             \A d \in open \ {c} : ~Under(LeafStem(k), d.stem)
      PROVE  /\ ranges2[k][1] + ranges2[k][2] <= Len(source)
             /\ \A m \in RangePart(ranges2[k]) :
                   /\ Way(source, sort_index[m], LeafStem(k), Levels, written, pv)
                   /\ \A d \in open \ {c} : m \notin Parts(d)
  <2>1. CASE k = q
    <3>1. ranges2[k][1] = c.offset /\ ranges2[k][2] = c.len
      BY <2>1, <1>8
    <3>2. RangePart(ranges2[k]) = Parts(c)
      BY <3>1 DEF RangePart, Parts
    <3>3. \A m \in Parts(c) :
             Way(source, sort_index[m], LeafStem(k), Levels, written, pv)
      BY <2>1, <1>2, <1>4, <1>7 DEF Sound
    <3>4. \A d \in open \ {c} : Parts(c) \cap Parts(d) = {}
      BY <1>1 DEF Separate
    <3>5. QED
      BY <3>1, <3>2, <3>3, <3>4, <1>3
  <2>2. CASE k # q
    <3>1. ~Under(LeafStem(k), c.stem)
      <4>1. At(LeafStem(k), Levels) /\ LeafStem(k) \in Nat
        BY <1>1, LeafStemLevel DEF x
      <4>2. LeafStem(k) # c.stem
        BY <2>2, <1>6
      <4>3. QED
        BY <4>1, <4>2, <1>1, <1>3, <1>4, UnderAtLevel
    <3>2. \A d \in open : ~Under(LeafStem(k), d.stem)
      BY <3>1, <1>9
    <3>3. ranges2[k] = ranges[k]
      BY <2>2, <1>8
    <3>4. QED
      BY <3>2, <3>3 DEF RangesRouted, x
  <2>3. QED
    BY <2>1, <2>2
<1>10. /\ ranges2 \in [1 .. 2 ^ Levels -> Nat \X Nat]
       /\ RangesRouted(ranges2, open \ {c}, written, pv, sort_index)
  BY <1>8, <1>9 DEF RangesRouted, x
<1>11. QED
  BY <1>10 DEF ranges2

-----------------------------------------------------------------------------
(* The steps of the tasks.                                                 *)
RangesType == leaf_ranges \in [1 .. 2 ^ Levels -> Nat \X Nat]

Partitioned ==
    /\ FramesOK(frames)
    /\ Halfway(OpenCalls(frames), DOMAIN locks, locks, sort_index)
    /\ RangesRouted(leaf_ranges, OpenCalls(frames), DOMAIN locks, locks,
                    sort_index)

PartitioningOK ==
    phase = "partitioning" =>
        /\ Levels # 0 /\ RoomForStems /\ leaves = <<>>
        /\ actual_max_stem_level = -1
        /\ RangesType
        /\ Partitioned

(* Most of the invariant is about what no task changes. *)
LEMMA TaskStays ==
    ASSUME TypeOK, PartitioningOK, phase = "partitioning",
           UNCHANGED <<call_vars, phase, stems, calls, result_vars>>,
           RangesType', Partitioned'
    PROVE  TypeOK' /\ PartitioningOK' /\ phase' = "partitioning"
<1>1. /\ source' = source /\ max_stem_level' = max_stem_level
      /\ phase' = phase /\ stems' = stems /\ leaves' = leaves
      /\ actual_max_stem_level' = actual_max_stem_level
  BY DEF call_vars, result_vars
<1>2. Levels' = Levels /\ SourceOK'
  BY <1>1 DEF Levels, TypeOK, SourceOK, PointsOK, Coord
<1>3. TypeOK'
  BY <1>1, <1>2 DEF TypeOK
<1>4. RoomForStems'
  BY <1>1, <1>2 DEF PartitioningOK, RoomForStems
<1>5. PartitioningOK'
  BY <1>1, <1>2, <1>4 DEF PartitioningOK
<1>6. QED
  BY <1>1, <1>3, <1>5

(* The facts a task's step begins with. *)
LEMMA TaskFacts ==
    ASSUME TypeOK, PartitioningOK, phase = "partitioning",
           NEW i \in DOMAIN frames
    PROVE  /\ PointsOK /\ Levels \in Nat /\ max_stem_level \in Int
           /\ RangesType /\ Partitioned /\ FramesOK(frames)
           /\ i \in Nat \ {0} /\ frames[i] \in Frame
           /\ frames[i].call.stem = i
           /\ frames[i].call \in Call(Levels, Len(source))
           /\ frames[i].call.level \in Nat /\ frames[i].call.len \in Nat
           /\ IsLeafCall(frames[i].call) <=> ~(frames[i].call.level < Levels)
           /\ frames[i].pc = "called" => frames[i].call \in OpenCalls(frames)
<1>1. /\ PointsOK /\ Levels \in Nat /\ max_stem_level \in Int
      /\ RangesType /\ Partitioned /\ FramesOK(frames)
  BY DEF TypeOK, SourceOK, PartitioningOK, Partitioned
<1>2. i \in Nat \ {0} /\ frames[i] \in Frame /\ frames[i].call.stem = i
  BY <1>1 DEF FramesOK, FramesType
<1>3. frames[i].call \in Call(Levels, Len(source))
  BY <1>2 DEF Frame
<1>4. frames[i].call.level \in Nat /\ frames[i].call.len \in Nat
  BY <1>3, <1>1 DEF Call
<1>5. IsLeafCall(frames[i].call) <=> ~(frames[i].call.level < Levels)
  BY <1>1, <1>4 DEF IsLeafCall, Levels
<1>6. frames[i].pc = "called" => frames[i].call \in OpenCalls(frames)
  BY OpenMember
<1>7. QED
  BY <1>1, <1>2, <1>3, <1>4, <1>5, <1>6

LEMMA TaskLeafKeeps ==
    ASSUME TypeOK, PartitioningOK, NEW i \in DOMAIN frames, TaskLeaf(i)
    PROVE  TypeOK' /\ PartitioningOK' /\ phase' = "partitioning"
<1> DEFINE c == frames[i].call
<1>1. /\ phase = "partitioning" /\ frames[i].pc = "called" /\ IsLeafCall(c)
      /\ leaf_ranges' = [leaf_ranges EXCEPT
                            ![c.leaf + 1] = <<c.offset, c.len>>]
      /\ frames' = [frames EXCEPT ![i].pc = "returned", ![i].longest = c.len]
      /\ UNCHANGED <<call_vars, phase, stems, calls, result_vars>>
      /\ sort_index' = sort_index /\ locks' = locks
  BY DEF TaskLeaf
<1>2. SameCall /\ Levels' = Levels
  BY <1>1 DEF SameCall, Levels, call_vars
<1>3. /\ PointsOK /\ Levels \in Nat
      /\ RangesType /\ Partitioned /\ FramesOK(frames)
      /\ frames[i] \in Frame /\ c \in OpenCalls(frames)
      /\ c.len \in Nat /\ ~(c.level < Levels)
  BY <1>1, TaskFacts
<1>4. /\ DOMAIN frames' = DOMAIN frames
      /\ \A j \in DOMAIN frames' \ {i} : frames'[j] = frames[j]
      /\ frames'[i] \in Frame /\ frames'[i].call = c
      /\ frames'[i].pc = "returned"
  BY <1>1, <1>3 DEF Frame
<1> HIDE DEF c
<1>5. FramesOK(frames') /\ OpenCalls(frames') = OpenCalls(frames) \ {c}
  <2>1. PICK gone : gone = {}
    OBVIOUS
  <2>2. DOMAIN frames' = DOMAIN frames \ gone /\ i \in DOMAIN frames'
    BY <2>1, <1>4
  <2>3. Returning(frames, frames', i, gone)
    BY <2>1, <2>2, <1>1, <1>3, <1>4 DEF Returning, c
  <2>4. FramesOK(frames')
    BY <2>3, FramesReturn
  <2>5. frames[i].pc = "called"
    BY <1>1
  <2>6. OpenCalls(frames') = OpenCalls(frames) \ {frames[i].call}
    BY <2>3, <2>5, OpenReturn
  <2>7. QED
    BY <2>4, <2>6 DEF c
<1>6. FramesOK(frames)'
  BY <1>2, <1>5, FramesStay
<1>7. Halfway(OpenCalls(frames) \ {c}, DOMAIN locks, locks, sort_index)
  BY <1>3, LeafLeaves DEF Partitioned
<1>8. /\ leaf_ranges' \in [1 .. 2 ^ Levels -> Nat \X Nat]
      /\ RangesRouted(leaf_ranges', OpenCalls(frames) \ {c}, DOMAIN locks,
                      locks, sort_index)
  <2>1. /\ Halfway(OpenCalls(frames), DOMAIN locks, locks, sort_index)
        /\ RangesRouted(leaf_ranges, OpenCalls(frames), DOMAIN locks, locks,
                        sort_index)
        /\ leaf_ranges \in [1 .. 2 ^ Levels -> Nat \X Nat]
    BY <1>3 DEF Partitioned, RangesType
  <2>2. leaf_ranges' = [leaf_ranges EXCEPT ![c.leaf + 1] = <<c.offset, c.len>>]
    BY <1>1
  <2>3. c \in OpenCalls(frames) /\ ~(c.level < Levels)
    BY <1>3
  <2>4. QED
    BY <2>1, <2>2, <2>3, LeafRanges
<1>9. /\ Halfway(OpenCalls(frames'), DOMAIN locks', locks', sort_index')
      /\ RangesRouted(leaf_ranges', OpenCalls(frames'), DOMAIN locks',
                      locks', sort_index')
  BY <1>1, <1>5, <1>7, <1>8
<1>10. /\ Halfway(OpenCalls(frames), DOMAIN locks, locks, sort_index)'
       /\ RangesRouted(leaf_ranges, OpenCalls(frames), DOMAIN locks,
                       locks, sort_index)'
  BY <1>2, <1>9, HalfwayStays, RangesStay
<1>11. RangesType'
  BY <1>2, <1>8 DEF RangesType
<1>12. Partitioned'
  BY <1>6, <1>10 DEF Partitioned
<1>13. QED
  BY <1>1, <1>11, <1>12, TaskStays

LEMMA TaskJoinKeeps ==
    ASSUME TypeOK, PartitioningOK, NEW i \in DOMAIN frames, TaskJoin(i)
    PROVE  TypeOK' /\ PartitioningOK' /\ phase' = "partitioning"
<1> DEFINE gone == {LeftChild(i), RightChild(i)}
           longest == Greater(frames[LeftChild(i)].longest,
                              frames[RightChild(i)].longest)
<1>1. /\ phase = "partitioning" /\ frames[i].pc = "joining"
      /\ \A j \in gone : Returned(j)
      /\ frames' = [j \in DOMAIN frames \ gone |->
                       IF j # i THEN frames[j]
                       ELSE [frames[i] EXCEPT !.pc = "returned",
                                              !.longest = longest]]
      /\ UNCHANGED <<call_vars, phase, stems, calls, result_vars>>
      /\ sort_index' = sort_index /\ locks' = locks
      /\ leaf_ranges' = leaf_ranges
  BY DEF TaskJoin
<1>2. SameCall /\ Levels' = Levels
  BY <1>1 DEF SameCall, Levels, call_vars
<1>3. /\ RangesType /\ Partitioned /\ FramesOK(frames)
      /\ frames[i] \in Frame /\ i \in Nat \ {0}
  BY <1>1, TaskFacts
<1>4. \A j \in gone : j \in DOMAIN frames /\ frames[j].pc = "returned"
  BY <1>1 DEF Returned
<1>5. longest \in Nat
  <2>1. \A j \in gone : frames[j].longest \in Nat
    BY <1>3, <1>4 DEF FramesOK, FramesType, Frame
  <2>2. QED
    BY <2>1 DEF Greater
<1>6. i \notin gone
  BY <1>3 DEF LeftChild, RightChild
<1> HIDE DEF longest
<1>7. /\ DOMAIN frames' = DOMAIN frames \ gone /\ i \in DOMAIN frames'
      /\ \A j \in DOMAIN frames' \ {i} : frames'[j] = frames[j]
      /\ frames'[i] \in Frame /\ frames'[i].call = frames[i].call
      /\ frames'[i].pc = "returned"
  BY <1>1, <1>3, <1>5, <1>6 DEF Frame
<1>8. FramesOK(frames') /\ OpenCalls(frames') = OpenCalls(frames)
  <2>1. Returning(frames, frames', i, gone)
    BY <1>1, <1>3, <1>4, <1>7 DEF Returning
  <2>2. QED
    BY <2>1, <1>1, FramesReturn, OpenReturn
<1>9. FramesOK(frames)'
  BY <1>2, <1>8, FramesStay
<1>10. /\ Halfway(OpenCalls(frames'), DOMAIN locks', locks', sort_index')
       /\ RangesRouted(leaf_ranges', OpenCalls(frames'), DOMAIN locks',
                       locks', sort_index')
  BY <1>1, <1>3, <1>8 DEF Partitioned
<1>11. /\ Halfway(OpenCalls(frames), DOMAIN locks, locks, sort_index)'
       /\ RangesRouted(leaf_ranges, OpenCalls(frames), DOMAIN locks,
                       locks, sort_index)'
  BY <1>2, <1>10, HalfwayStays, RangesStay
<1>12. RangesType' /\ Partitioned'
  BY <1>1, <1>2, <1>3, <1>9, <1>11 DEF Partitioned, RangesType
<1>13. QED
  BY <1>1, <1>12, TaskStays

LEMMA TaskRightKeeps ==
    ASSUME TypeOK, PartitioningOK, NEW i \in DOMAIN frames, TaskRight(i)
    PROVE  TypeOK' /\ PartitioningOK' /\ phase' = "partitioning"
<1> DEFINE c == frames[i].call
           division == [pivot |-> frames[i].pivot]
           right == RightCall(c, division)
           waits == [frames EXCEPT ![i].pc = "joining"]
<1>1. /\ phase = "partitioning" /\ frames[i].pc = "left"
      /\ frames' = WithCalls(waits, {right})
      /\ UNCHANGED <<call_vars, phase, stems, calls, result_vars>>
      /\ sort_index' = sort_index /\ locks' = locks
      /\ leaf_ranges' = leaf_ranges
  BY DEF TaskRight
<1>2. SameCall /\ Levels' = Levels
  BY <1>1 DEF SameCall, Levels, call_vars
<1>3. /\ PointsOK /\ Levels \in Nat
      /\ RangesType /\ Partitioned /\ FramesOK(frames)
      /\ frames[i] \in Frame /\ i \in Nat \ {0} /\ c.stem = i
  BY <1>1, TaskFacts
<1>4. /\ FramesType(frames) /\ Nested(frames) /\ MadeByWaiting(frames)
      /\ LeftOK(frames)
  BY <1>3 DEF FramesOK
<1>5. /\ c.level < Levels /\ division.pivot \in 0 .. c.len
      /\ LeftChild(i) \in DOMAIN frames /\ RightChild(i) \notin DOMAIN frames
      /\ Apart(frames[LeftChild(i)].call, right)
  BY <1>1, <1>4 DEF LeftOK, Later
<1>6. right.stem = RightChild(i)
  BY <1>3 DEF RightCall
<1>7. right = Later(frames[i])
  BY DEF Later
<1>8. right \in Call(Levels, Len(source))
  <2>1. right \in OpenCalls(frames)
    BY <1>1, <1>7, OpenMember
  <2>2. QED
    BY <2>1, <1>3 DEF Partitioned, Halfway, OpenOK
<1> HIDE DEF c, division, right, waits
<1>9. /\ DOMAIN waits = DOMAIN frames
      /\ \A j \in DOMAIN frames \ {i} : waits[j] = frames[j]
      /\ waits[i] \in Frame /\ waits[i].call = frames[i].call
      /\ waits[i].pc = "joining"
  BY <1>3 DEF waits, Frame
<1>10. ASSUME NEW j \in DOMAIN frames \ {i}, Under(j, i)
       PROVE  Apart(frames[j].call, right)
  <2>1. j \in Nat /\ LeftChild(i) \in Nat /\ RightChild(i) \in Nat \ {0}
    BY <1>3, <1>4 DEF FramesType, LeftChild, RightChild
  <2>2. ~Under(j, RightChild(i))
    BY <2>1, <1>4, <1>5 DEF MadeByWaiting
  <2>3. Under(j, LeftChild(i))
    BY <2>1, <2>2, <1>3, <1>10, UnderChild
  <2>4. CASE j = LeftChild(i)
    BY <2>4, <1>5
  <2>5. CASE j # LeftChild(i)
    <3>1. Inside(frames[j].call, frames[LeftChild(i)].call)
      BY <2>3, <2>5, <1>4, <1>5 DEF Nested
    <3>2. QED
      BY <3>1, <1>5 DEF Inside, Apart
  <2>6. QED
    BY <2>4, <2>5
<1> DEFINE made == {right}
<1>11. /\ DOMAIN frames' = DOMAIN frames \cup {d.stem : d \in made}
       /\ \A d \in made : frames'[d.stem] = Called(d)
       /\ \A j \in DOMAIN frames : frames'[j] = waits[j]
  <2>1. \A d, e \in made : d.stem = e.stem => d = e
    OBVIOUS
  <2>2. /\ DOMAIN WithCalls(waits, made)
              = DOMAIN waits \cup {d.stem : d \in made}
        /\ \A d \in made : WithCalls(waits, made)[d.stem] = Called(d)
        /\ \A j \in DOMAIN waits : (\A d \in made : d.stem # j) =>
              WithCalls(waits, made)[j] = waits[j]
    BY <2>1, CallsMade
  <2>3. \A j \in DOMAIN frames : \A d \in made : d.stem # j
    BY <1>5, <1>6
  <2>4. QED
    BY <2>2, <2>3, <1>1, <1>9
<1>12. Growing(frames, frames', i, made, division)
  <2>1. made \subseteq {LeftCall(frames[i].call, division),
                        RightCall(frames[i].call, division)}
    BY DEF right, c
  <2>2. /\ made \subseteq Call(Levels, Len(source))
        /\ \A d \in made : d.stem \notin DOMAIN frames
        /\ \A d \in made : \A j \in DOMAIN frames \ {i} :
              Under(j, i) => Apart(frames[j].call, d)
    BY <1>5, <1>6, <1>8, <1>10
  <2>3. /\ \A j \in DOMAIN frames \ {i} : frames'[j] = frames[j]
        /\ frames'[i] \in Frame /\ frames'[i].call = frames[i].call
        /\ frames'[i].pc = "joining"
    BY <1>9, <1>11
  <2> HIDE DEF made
  <2>4. frames'[i].pc \in Waiting /\ frames'[i].pc # "left"
    BY <2>3 DEF Waiting
  <2>5. /\ frames[i].call.level < Levels
        /\ division.pivot \in 0 .. frames[i].call.len
    BY <1>5 DEF c
  <2>6. QED
    BY <2>1, <2>2, <2>3, <2>4, <2>5, <1>3, <1>11 DEF Growing
<1>13. FramesOK(frames')
  BY <1>12, FramesGrow
<1>14. OpenCalls(frames') = OpenCalls(frames)
  <2>1. made = {Later(frames[i])} /\ frames'[i].pc = "joining"
    BY <1>7, <1>9, <1>11
  <2> HIDE DEF made
  <2>2. QED
    BY <2>1, <1>1, <1>12, OpenGrows
<1>15. FramesOK(frames)'
  BY <1>2, <1>13, FramesStay
<1>16. /\ Halfway(OpenCalls(frames'), DOMAIN locks', locks', sort_index')
       /\ RangesRouted(leaf_ranges', OpenCalls(frames'), DOMAIN locks',
                       locks', sort_index')
  BY <1>1, <1>3, <1>14 DEF Partitioned
<1>17. /\ Halfway(OpenCalls(frames), DOMAIN locks, locks, sort_index)'
       /\ RangesRouted(leaf_ranges, OpenCalls(frames), DOMAIN locks,
                       locks, sort_index)'
  BY <1>2, <1>16, HalfwayStays, RangesStay
<1>18. RangesType' /\ Partitioned'
  BY <1>1, <1>2, <1>3, <1>15, <1>17 DEF Partitioned, RangesType
<1>19. QED
  BY <1>1, <1>18, TaskStays

LEMMA TaskSplitKeeps ==
    ASSUME TypeOK, PartitioningOK, NEW i \in DOMAIN frames, TaskSplit(i)
    PROVE  TypeOK' /\ PartitioningOK' /\ phase' = "partitioning"
<1> DEFINE c == frames[i].call
           order == CallOrder(c)
           division == Division(c, order)
           l == LeftCall(c, division)
           r == RightCall(c, division)
           made == IF Forks(c) THEN {l, r} ELSE {l}
           waits == [frames EXCEPT ![i].pc = IF Forks(c) THEN "joining"
                                             ELSE "left",
                                   ![i].pivot = division.pivot]
           open == OpenCalls(frames)
           later == (open \ {c}) \cup {l, r}
<1>1. /\ phase = "partitioning" /\ frames[i].pc = "called" /\ ~IsLeafCall(c)
      /\ c.stem \notin DOMAIN locks
      /\ sort_index' = SortIndexWith(c, order)
      /\ locks' = [s \in DOMAIN locks \cup {c.stem} |->
                      IF s = c.stem THEN division.value ELSE locks[s]]
      /\ frames' = WithCalls(waits, made)
      /\ UNCHANGED <<call_vars, phase, stems, calls, result_vars>>
      /\ leaf_ranges' = leaf_ranges
  BY DEF TaskSplit
<1>2. SameCall /\ Levels' = Levels
  BY <1>1 DEF SameCall, Levels, call_vars
<1>3. /\ PointsOK /\ Levels \in Nat
      /\ RangesType /\ Partitioned /\ FramesOK(frames)
      /\ frames[i] \in Frame /\ i \in Nat \ {0} /\ c.stem = i
      /\ c \in open /\ c.level < Levels
  BY <1>1, TaskFacts
<1>4. /\ FramesType(frames) /\ MadeByWaiting(frames)
  BY <1>3 DEF FramesOK
<1>5. l.stem = LeftChild(i) /\ r.stem = RightChild(i)
  BY <1>3 DEF LeftCall, RightCall
<1> HIDE DEF c, order, division, l, r, made, waits, open, later
<1>6. /\ DOMAIN locks' = DOMAIN locks \cup {c.stem}
      /\ locks'[c.stem] = division.value
      /\ \A s \in DOMAIN locks : locks'[s] = locks[s]
  BY <1>1
<1>7. /\ Halfway(open, DOMAIN locks, locks, sort_index)
      /\ RangesRouted(leaf_ranges, open, DOMAIN locks, locks, sort_index)
  BY <1>3 DEF Partitioned, open
<1>8. Splits(open, DOMAIN locks, locks, sort_index, c, order, division,
             locks', sort_index')
  BY <1>1, <1>3, <1>6, <1>7, DivisionSplits DEF division, order
<1>9. /\ division.pivot \in 0 .. c.len
      /\ l \in Call(Levels, Len(source)) /\ r \in Call(Levels, Len(source))
      /\ l # r
  BY <1>8, SplitFacts, ChildrenNew DEF l, r
<1>10. /\ made \subseteq {l, r} /\ l \in made
       /\ Forks(c) => made = {l, r}
       /\ ~Forks(c) => made = {l}
  BY DEF made
<1>11. \A j \in DOMAIN frames : Under(j, i) => j = i
  BY <1>1, <1>3, <1>4 DEF MadeByWaiting, Waiting
<1>12. \A d \in made : d.stem \notin DOMAIN frames
  <2>1. ASSUME NEW d \in {l, r} PROVE d.stem \notin DOMAIN frames
    <3>1. d.stem # i
      BY <1>3, <1>5 DEF LeftChild, RightChild
    <3>2. Under(i, i)
      BY <1>3, UnderItself
    <3>3. Under(d.stem, i)
      BY <3>2, <1>3, <1>5, ChildUnder
    <3>4. QED
      BY <3>1, <3>3, <1>11
  <2>2. QED
    BY <2>1, <1>10
<1>13. /\ DOMAIN waits = DOMAIN frames
       /\ \A j \in DOMAIN frames \ {i} : waits[j] = frames[j]
       /\ waits[i] \in Frame /\ waits[i].call = frames[i].call
       /\ waits[i].pc = IF Forks(c) THEN "joining" ELSE "left"
       /\ waits[i].pivot = division.pivot
  <2>1. division.pivot \in Nat
    <3>1. c.len \in Nat
      BY <1>8, SplitFacts
    <3>2. QED
      BY <3>1, <1>9
  <2>2. QED
    BY <2>1, <1>3 DEF waits, Frame
<1>14. /\ DOMAIN frames' = DOMAIN frames \cup {d.stem : d \in made}
       /\ \A d \in made : frames'[d.stem] = Called(d)
       /\ \A j \in DOMAIN frames : frames'[j] = waits[j]
  <2>1. \A d, e \in made : d.stem = e.stem => d = e
    BY <1>3, <1>5, <1>10 DEF LeftChild, RightChild
  <2>2. /\ DOMAIN WithCalls(waits, made)
              = DOMAIN waits \cup {d.stem : d \in made}
        /\ \A d \in made : WithCalls(waits, made)[d.stem] = Called(d)
        /\ \A j \in DOMAIN waits : (\A d \in made : d.stem # j) =>
              WithCalls(waits, made)[j] = waits[j]
    BY <2>1, CallsMade
  <2>3. \A j \in DOMAIN frames : \A d \in made : d.stem # j
    BY <1>12
  <2>4. QED
    BY <2>2, <2>3, <1>1, <1>13
<1>15. Growing(frames, frames', i, made, division)
  <2>1. made \subseteq {LeftCall(frames[i].call, division),
                        RightCall(frames[i].call, division)}
    BY <1>10 DEF l, r, c
  <2>2. /\ made \subseteq Call(Levels, Len(source))
        /\ \A d \in made : \A j \in DOMAIN frames \ {i} :
              Under(j, i) => Apart(frames[j].call, d)
    BY <1>9, <1>10, <1>11
  <2>3. /\ \A j \in DOMAIN frames \ {i} : frames'[j] = frames[j]
        /\ frames'[i] \in Frame /\ frames'[i].call = frames[i].call
        /\ frames'[i].pc \in Waiting
    BY <1>13, <1>14 DEF Waiting
  <2>4. ASSUME frames'[i].pc = "left"
        PROVE  /\ LeftCall(frames[i].call, division) \in made
               /\ RightChild(i) \notin DOMAIN frames'
               /\ frames'[i].pivot = division.pivot
    <3>1. ~Forks(c)
      BY <2>4, <1>13, <1>14
    <3>2. made = {l}
      BY <3>1, <1>10
    <3>3. RightChild(i) # LeftChild(i)
      BY <1>3 DEF LeftChild, RightChild
    <3>4. RightChild(i) \notin DOMAIN frames
      <4>1. Under(RightChild(i), i) /\ RightChild(i) # i
        <5>1. Under(i, i)
          BY <1>3, UnderItself
        <5>2. QED
          BY <5>1, <1>3, ChildUnder DEF RightChild
      <4>2. QED
        BY <4>1, <1>11
    <3>5. RightChild(i) \notin DOMAIN frames'
      BY <3>2, <3>3, <3>4, <1>5, <1>14
    <3>6. LeftCall(frames[i].call, division) \in made
      BY <3>2 DEF l, c
    <3>7. QED
      BY <3>5, <3>6, <1>13, <1>14
  <2>5. /\ frames[i].call.level < Levels
        /\ division.pivot \in 0 .. frames[i].call.len
    BY <1>3, <1>9 DEF c
  <2>6. QED
    BY <2>1, <2>2, <2>3, <2>4, <2>5, <1>3, <1>12, <1>14 DEF Growing
<1>16. FramesOK(frames')
  BY <1>15, FramesGrow
<1>17. OpenCalls(frames') = later
  <2>1. \/ frames'[i].pc = "joining" /\ made = {l, r}
        \/ frames'[i].pc = "left" /\ made = {l}
    BY <1>10, <1>13, <1>14
  <2>2. \/ /\ frames'[i].pc = "joining"
           /\ made = {LeftCall(frames[i].call, division),
                      RightCall(frames[i].call, division)}
        \/ /\ frames'[i].pc = "left"
           /\ made = {LeftCall(frames[i].call, division)}
    BY <2>1 DEF l, r, c
  <2>3. frames[i].pc = "called"
    BY <1>1
  <2>4. OpenCalls(frames') = (OpenCalls(frames) \ {frames[i].call})
                                \cup {LeftCall(frames[i].call, division),
                                      RightCall(frames[i].call, division)}
    BY <2>2, <2>3, <1>15, OpenGrows
  <2>5. QED
    BY <2>4 DEF later, open, l, r, c
<1>18. FramesOK(frames)'
  BY <1>2, <1>16, FramesStay
<1>19. /\ Halfway(later, DOMAIN locks', locks', sort_index')
       /\ RangesRouted(leaf_ranges, later, DOMAIN locks', locks', sort_index')
  <2>1. Halfway(later, DOMAIN locks \cup {c.stem}, locks', sort_index')
    BY <1>8, SplitKeeps DEF later, l, r
  <2>2. leaf_ranges \in [1 .. 2 ^ Levels -> Nat \X Nat]
    BY <1>3 DEF RangesType
  <2>3. RangesRouted(leaf_ranges, later, DOMAIN locks \cup {c.stem}, locks',
                     sort_index')
    BY <2>2, <1>7, <1>8, SplitRanges DEF later, l, r
  <2>4. QED
    BY <2>1, <2>3, <1>6
<1>20. /\ Halfway(OpenCalls(frames'), DOMAIN locks', locks', sort_index')
       /\ RangesRouted(leaf_ranges', OpenCalls(frames'), DOMAIN locks',
                       locks', sort_index')
  BY <1>1, <1>17, <1>19
<1>21. /\ Halfway(OpenCalls(frames), DOMAIN locks, locks, sort_index)'
       /\ RangesRouted(leaf_ranges, OpenCalls(frames), DOMAIN locks,
                       locks, sort_index)'
  BY <1>2, <1>20, HalfwayStays, RangesStay
<1>22. RangesType' /\ Partitioned'
  BY <1>1, <1>2, <1>3, <1>18, <1>21 DEF Partitioned, RangesType
<1>23. QED
  BY <1>1, <1>22, TaskStays

-----------------------------------------------------------------------------
(* The leaves written after the partition.                                 *)
WritingOK ==
    phase = "writing" =>
        /\ TreeOK
        /\ Listing(sort_index, Len(source))
        /\ RangesType
        /\ RangesRouted(leaf_ranges, {}, StemsUsed, stems, sort_index)

(* What tells two phases apart and a tree from another is unchanged. *)
LEMMA TreeStays ==
    ASSUME SameCall, stems' = stems, leaves' = leaves,
           actual_max_stem_level' = actual_max_stem_level, TreeOK
    PROVE  TreeOK'
<1>1. /\ Levels' = Levels /\ StemsUsed' = StemsUsed /\ source' = source
      /\ max_stem_level' = max_stem_level
  BY DEF SameCall, Levels, StemsUsed
<1>2. WrittenOK(StemsUsed, stems)'
  BY <1>1 DEF TreeOK, WrittenOK
<1>3. LeavesRouted(StemsUsed, stems)'
  BY <1>1 DEF TreeOK, LeavesRouted, LeafStem
<1>4. QED
  BY <1>1, <1>2, <1>3 DEF TreeOK

(* When the root's call has returned no other frame is left.               *)
LEMMA CollectKeeps ==
    ASSUME TypeOK, PartitioningOK, CollectStems
    PROVE  /\ TypeOK' /\ WritingOK' /\ phase' = "writing"
           /\ \A i \in DOMAIN frames' : frames'[i].pc # "called"
<1>1. /\ phase = "partitioning" /\ phase' = "writing" /\ Returned(RootIdx)
      /\ stems' = [i \in DOMAIN stems |->
                      IF i \in DOMAIN locks THEN locks[i] ELSE stems[i]]
      /\ actual_max_stem_level'
            = Greater(actual_max_stem_level, max_stem_level)
      /\ source' = source /\ max_stem_level' = max_stem_level
      /\ sort_index' = sort_index /\ leaves' = leaves /\ frames' = frames
      /\ leaf_ranges' = leaf_ranges
  BY DEF CollectStems, call_vars, task_vars
<1>2. SameCall /\ Levels' = Levels /\ StemsUsed' = StemsUsed
  BY <1>1 DEF SameCall, Levels, StemsUsed
<1>3. /\ Levels \in Nat /\ max_stem_level \in Int /\ SourceOK
      /\ leaves \in Seq(Seq(Nat))
  BY DEF TypeOK
<1>4. /\ RoomForStems /\ RangesType /\ FramesOK(frames) /\ leaves = <<>>
      /\ actual_max_stem_level = -1
      /\ Halfway(OpenCalls(frames), DOMAIN locks, locks, sort_index)
      /\ RangesRouted(leaf_ranges, OpenCalls(frames), DOMAIN locks, locks,
                      sort_index)
  BY <1>1 DEF PartitioningOK, Partitioned
<1>5. DOMAIN frames = {RootIdx} /\ frames[RootIdx].pc = "returned"
  <2>1. RootIdx \in DOMAIN frames /\ frames[RootIdx].pc = "returned"
    BY <1>1 DEF Returned
  <2>2. ASSUME NEW i \in DOMAIN frames, i # RootIdx PROVE FALSE
    <3>1. i \in Nat \ {0}
      BY <1>4 DEF FramesOK, FramesType
    <3>2. Under(i, RootIdx)
      BY <3>1, UnderRoot
    <3>3. frames[RootIdx].pc \in Waiting
      BY <2>2, <3>2, <1>4 DEF FramesOK, MadeByWaiting, RootIdx
    <3>4. QED
      BY <2>1, <3>3 DEF Waiting
  <2>3. QED
    BY <2>1, <2>2
<1>6. OpenCalls(frames) = {}
  BY <1>5 DEF OpenCalls
<1>7. DOMAIN locks = StemsUsed
  <2>1. DOMAIN locks \subseteq 1 .. 2 ^ Levels - 1
    BY <1>4 DEF Halfway, WrittenOK
  <2>2. \A s \in 1 .. 2 ^ Levels - 1 : s \in DOMAIN locks
    BY <1>4, <1>6 DEF Halfway, Reached
  <2>3. QED
    BY <2>1, <2>2 DEF StemsUsed, Levels
<1>8. \A i \in StemsUsed : stems'[i] = locks[i]
  <2>1. /\ stems \in Seq(Int) /\ Len(stems) \in Nat
        /\ DOMAIN stems = 1 .. Len(stems)
        /\ 2 ^ Levels - 1 <= Len(stems) /\ 2 ^ Levels \in Nat
    BY <1>3, <1>4, LenProperties, PowerType DEF RoomForStems
  <2>2. StemsUsed \subseteq DOMAIN stems
    BY <2>1 DEF StemsUsed, Levels
  <2>3. QED
    BY <2>2, <1>1, <1>7
<1>9. WrittenOK(StemsUsed, stems')
  BY <1>3, <1>4, <1>7, <1>8, WrittenSame DEF Halfway
<1>10. WrittenOK(StemsUsed, stems)'
  BY <1>2, <1>9 DEF WrittenOK
<1>11. RangesRouted(leaf_ranges, {}, StemsUsed, stems', sort_index)
  <2>1. RangesRouted(leaf_ranges, {}, StemsUsed, locks, sort_index)
    BY <1>4, <1>6, <1>7
  <2>2. ASSUME NEW e, NEW s, Way(source, e, s, Levels, StemsUsed, locks)
        PROVE  Way(source, e, s, Levels, StemsUsed, stems')
    <3>1. SameAt(StemsUsed, locks, stems')
      BY <1>8 DEF SameAt
    <3>2. QED
      BY <2>2, <3>1, <1>3, WayKept
  <2>3. QED
    BY <2>1, <2>2 DEF RangesRouted
<1>12. RangesRouted(leaf_ranges, {}, StemsUsed, stems, sort_index)'
  <2>1. RangesRouted(leaf_ranges', {}, StemsUsed', stems', sort_index')
    BY <1>1, <1>2, <1>11
  <2>2. QED
    BY <2>1, <1>2, RangesStay
<1>13. actual_max_stem_level' = max_stem_level'
  <2>1. max_stem_level >= -1
    BY <1>3 DEF Levels
  <2>2. QED
    BY <2>1, <1>1, <1>3, <1>4 DEF Greater
<1>14. LeavesRouted(StemsUsed, stems)'
  BY <1>1, <1>4 DEF LeavesRouted
<1>15. Listing(sort_index, Len(source))' /\ RangesType'
  BY <1>1, <1>2, <1>4 DEF Halfway, RangesType, Listing
<1>16. TypeOK'
  <2>1. SourceOK'
    BY <1>1, <1>3 DEF SourceOK, PointsOK, Coord
  <2>2. QED
    BY <2>1, <1>1, <1>2, <1>3 DEF TypeOK, Phases
<1>17. WritingOK'
  BY <1>10, <1>12, <1>13, <1>14, <1>15 DEF WritingOK, TreeOK
<1>18. QED
  BY <1>1, <1>5, <1>16, <1>17

(* The next range is that of the next leaf. *)
LEMMA WriteRangeKeeps ==
    ASSUME TypeOK, WritingOK, WriteRange
    PROVE  TypeOK' /\ WritingOK' /\ phase' \in {"writing", "refused"}
           /\ frames' = frames
<1> DEFINE k == Len(leaves) + 1
           range == leaf_ranges[k]
           c == [offset |-> range[1], len |-> range[2]]
<1>1. /\ phase = "writing" /\ Len(leaves) < Len(leaf_ranges)
      /\ WriteLeaf(NextRange)
      /\ source' = source /\ max_stem_level' = max_stem_level
      /\ sort_index' = sort_index /\ stems' = stems /\ frames' = frames
      /\ leaf_ranges' = leaf_ranges
      /\ actual_max_stem_level' = actual_max_stem_level
  BY DEF WriteRange, call_vars, task_vars
<1>2. /\ TreeOK /\ Listing(sort_index, Len(source)) /\ RangesType
      /\ RangesRouted(leaf_ranges, {}, StemsUsed, stems, sort_index)
  BY <1>1 DEF WritingOK
<1>3. /\ Levels \in Nat /\ max_stem_level \in Int /\ SourceOK /\ PointsOK
      /\ leaves \in Seq(Seq(Nat)) /\ phase \in Phases
  BY DEF TypeOK, SourceOK
<1>4. SameCall /\ Levels' = Levels /\ StemsUsed' = StemsUsed
  BY <1>1 DEF SameCall, Levels, StemsUsed
<1>5. Len(leaf_ranges) = 2 ^ Levels /\ 2 ^ Levels \in Nat
  <2> DEFINE x == 2 ^ Levels
  <2>1. x \in Nat /\ leaf_ranges \in [1 .. x -> Nat \X Nat]
    BY <1>2, <1>3, PowerType DEF RangesType
  <2> HIDE DEF x
  <2>2. Len(leaf_ranges) = x
    BY <2>1
  <2>3. QED
    BY <2>1, <2>2 DEF x
<1>6. k \in 1 .. 2 ^ Levels /\ Len(leaves) \in Nat
  <2>1. Len(leaves) \in Nat
    BY <1>3, LenProperties
  <2>2. QED
    BY <2>1, <1>1, <1>5
<1>7. /\ range[1] \in Nat /\ range[2] \in Nat
      /\ range[1] + range[2] <= Len(source)
      /\ \A m \in RangePart(range) :
            Way(source, sort_index[m], LeafStem(k), Levels, StemsUsed, stems)
  BY <1>2, <1>6 DEF RangesRouted, RangesType
<1>8. /\ NextRange = Slice(c) /\ c.offset = range[1] /\ c.len = range[2]
      /\ Parts(c) = RangePart(range)
  BY DEF NextRange, Slice, Parts, RangePart
<1> HIDE DEF k, range, c
<1>9. /\ DOMAIN Slice(c) = 1 .. c.len
      /\ Slice(c) \in Seq(Nat)
      /\ \A i \in 1 .. c.len : /\ c.offset + i \in Parts(c)
                               /\ Slice(c)[i] = sort_index[c.offset + i]
  <2>1. /\ c.offset \in Nat /\ c.len \in Nat
        /\ c.offset + c.len <= Len(source)
    BY <1>7, <1>8
  <2>2. /\ Slice(c) \in [1 .. c.len -> {sort_index[m] : m \in Parts(c)}]
        /\ DOMAIN Slice(c) = 1 .. c.len
        /\ \A i \in 1 .. c.len : /\ c.offset + i \in Parts(c)
                                 /\ Slice(c)[i] = sort_index[c.offset + i]
        /\ \A m \in Parts(c) : \A d \in 0 .. K - 1 :
              sort_index[m] \in Nat /\ Coord(sort_index[m], d) \in Int
    BY <2>1, <1>2, <1>3, SliceType
  <2>3. 0 \in 0 .. K - 1
    BY SoftAssumption
  <2>4. Slice(c) \in [1 .. c.len -> Nat]
    BY <2>2, <2>3
  <2>5. QED
    BY <2>1, <2>2, <2>4
<1>10. SourceOK'
  BY <1>1, <1>3 DEF SourceOK, PointsOK, Coord
<1>11. CASE LeafRefused(NextRange)
  <2>1. phase' = "refused" /\ leaves' = leaves
    BY <1>11 DEF LeafRefused
  <2>2. TypeOK'
    BY <2>1, <1>1, <1>3, <1>4, <1>10 DEF TypeOK, Phases
  <2>3. QED
    BY <2>1, <2>2, <1>1 DEF WritingOK
<1>12. CASE LeafWritten(NextRange)
  <2>1. phase' = phase
    BY <1>12 DEF LeafWritten
  <2>2. LeafWritten(Slice(c)) /\ LeavesRouted(StemsUsed, stems)
    BY <1>2, <1>8, <1>12 DEF TreeOK
  <2>3. /\ Len(leaves) < 2 ^ Levels
        /\ \A j \in DOMAIN Slice(c) :
              Way(source, Slice(c)[j], LeafStem(Len(leaves) + 1), Levels,
                  StemsUsed, stems)
    BY <1>1, <1>5, <1>7, <1>8, <1>9 DEF k
  <2>4. PICK used : used = StemsUsed
    OBVIOUS
  <2>5. PICK pv : pv = stems
    OBVIOUS
  <2>6. /\ leaves' \in Seq(Seq(Nat))
        /\ LeavesRouted(used, pv)'
    BY <2>2, <2>3, <2>4, <2>5, <1>4, <1>9, LeafAppends
  <2>7. LeavesRouted(StemsUsed, stems)'
    BY <2>4, <2>5, <2>6, <1>1, <1>4
  <2>8. WrittenOK(StemsUsed, stems)'
    BY <1>1, <1>2, <1>4 DEF TreeOK, WrittenOK
  <2>9. RangesRouted(leaf_ranges, {}, StemsUsed, stems, sort_index)'
    <3>1. RangesRouted(leaf_ranges', {}, StemsUsed', stems', sort_index')
      BY <1>1, <1>2, <1>4
    <3>2. QED
      BY <3>1, <1>4, RangesStay
  <2>10. TypeOK'
    BY <2>1, <2>6, <1>1, <1>3, <1>4, <1>10 DEF TypeOK
  <2>11. TreeOK'
    BY <2>7, <2>8, <1>1, <1>2 DEF TreeOK
  <2>12. Listing(sort_index, Len(source))' /\ RangesType'
    BY <1>1, <1>2, <1>4 DEF Listing, RangesType
  <2>13. WritingOK'
    BY <2>9, <2>11, <2>12 DEF WritingOK
  <2>14. QED
    BY <2>1, <2>10, <2>13, <1>1
<1>13. QED
  BY <1>1, <1>11, <1>12 DEF WriteLeaf

-----------------------------------------------------------------------------
(* A construction begins.                                                  *)
RootState ==
    /\ SourceOK
    /\ Levels = StemsDepth(LeafNodeCount(Len(source)))

RootFacts ==
    /\ RootCall(Len(source)) \in Call(Levels, Len(source))
    /\ \A pv : Halfway({RootCall(Len(source))}, {}, pv, Identity(Len(source)))

LEMMA RootOpensState == RootState => RootFacts
BY RootOpens DEF RootState, RootFacts

LEMMA RootOpensNext == (RootState => RootFacts)'
BY RootOpensState, PTL

LEMMA ConstructFacts ==
    ASSUME Construct
    PROVE  /\ SourceOK' /\ RootFacts' /\ max_stem_level' \in Int
           /\ Levels' = StemsDepth(LeafNodeCount(Len(source')))
           /\ Levels' \in Nat /\ phase = "idle"
           /\ Len(source') \in Nat
<1>1. /\ phase = "idle" /\ source' \in Sources
      /\ max_stem_level' = StemsDepth(LeafNodeCount(Len(source'))) - 1
  BY DEF Construct
<1>2. source' \in Seq([0 .. K - 1 -> Int])
  BY <1>1, SoftAssumption
<1>3. SourceOK'
  BY <1>1, <1>2, SoftAssumption DEF SourceOK, PointsOK, Coord
<1>4. Len(source') \in Nat
  BY <1>2, LenProperties
<1>5. StemsDepth(LeafNodeCount(Len(source'))) \in Nat
  BY <1>4, LeafNodeCountType, StemsDepthType
<1>6. /\ Levels' = StemsDepth(LeafNodeCount(Len(source')))
      /\ max_stem_level' \in Int
  BY <1>1, <1>5 DEF Levels
<1>7. RootState'
  BY <1>3, <1>6 DEF RootState
<1>8. RootFacts'
  BY <1>7, RootOpensNext
<1>9. QED
  BY <1>1, <1>3, <1>4, <1>5, <1>6, <1>8

LEMMA NoStemsBegins ==
    ASSUME TypeOK, IdleOK, Construct, ConstructNoStems
    PROVE  TypeOK' /\ SingleOK' /\ phase' = "single" /\ frames' = <<>>
<1>1. /\ SourceOK' /\ max_stem_level' \in Int /\ phase = "idle"
      /\ Levels' = StemsDepth(LeafNodeCount(Len(source')))
      /\ Len(source') \in Nat
  BY ConstructFacts
<1>2. /\ LeafNodeCount(Len(source')) < 2
      /\ sort_index' = Identity(Len(source')) /\ phase' = "single"
      /\ frames' = frames /\ leaves' = leaves
      /\ actual_max_stem_level' = actual_max_stem_level
  BY DEF ConstructNoStems, task_vars, result_vars
<1>3. Levels' = 0
  BY <1>1, <1>2, LeafNodeCountType, StemsDepthType
<1>4. /\ frames' = <<>> /\ leaves' = <<>> /\ actual_max_stem_level' = -1
  BY <1>1, <1>2 DEF IdleOK
<1>5. sort_index' \in Seq(Nat)
  BY <1>1, <1>2 DEF Identity
<1>6. TypeOK'
  BY <1>1, <1>2, <1>3, <1>4 DEF TypeOK, Phases
<1>7. QED
  BY <1>2, <1>3, <1>4, <1>5, <1>6 DEF SingleOK

LEMMA WithStemsFacts ==
    ASSUME TypeOK, IdleOK, Construct, ConstructWithStems
    PROVE  /\ TypeOK' /\ Levels' # 0 /\ RoomForStems'
           /\ sort_index' = Identity(Len(source'))
           /\ leaves' = <<>> /\ actual_max_stem_level' = -1
           /\ frames = <<>> /\ locks = <<>>
           /\ actual_max_stem_level' <= max_stem_level'
           /\ RootFacts' /\ RootCall(Len(source')).budget = 2 ^ Levels'
           /\ RootCall(Len(source')).leaf = 0
           /\ RootCall(Len(source')).stem = 1
           /\ Levels' \in Nat
<1> DEFINE n == Len(source')
<1>1. /\ SourceOK' /\ RootFacts' /\ max_stem_level' \in Int /\ phase = "idle"
      /\ Levels' = StemsDepth(LeafNodeCount(n)) /\ Levels' \in Nat
      /\ n \in Nat
  BY ConstructFacts
<1>2. /\ LeafNodeCount(n) >= 2
      /\ sort_index' = Identity(n)
      /\ stems' = [i \in 1 .. StemCount(n) |-> MaxValue]
      /\ phase' \in {"serial", "partitioning"}
      /\ leaves' = leaves
      /\ actual_max_stem_level' = actual_max_stem_level
  BY DEF ConstructWithStems, result_vars
<1>3. /\ frames = <<>> /\ locks = <<>> /\ leaves' = <<>>
      /\ actual_max_stem_level' = -1
  BY <1>1, <1>2 DEF IdleOK
<1> HIDE DEF n
<1>4. Levels' # 0
  BY <1>1, <1>2, LeafNodeCountType, StemsDepthType
<1>5. StemCount(n) \in Nat /\ 2 ^ Levels' <= StemCount(n) /\ 2 ^ Levels' \in Nat
  BY <1>1, StemCountFits, PowerType
<1>6. RoomForStems'
  <2> DEFINE x == 2 ^ Levels'
             y == StemCount(n)
  <2>1. x \in Nat /\ y \in Nat /\ x <= y /\ stems' = [i \in 1 .. y |-> MaxValue]
    BY <1>2, <1>5
  <2> HIDE DEF x, y
  <2>2. stems' \in Seq(Int) /\ x - 1 <= Len(stems')
    BY <2>1, SoftAssumption
  <2>3. QED
    BY <2>2 DEF RoomForStems, x
<1>7. TypeOK'
  BY <1>1, <1>2, <1>3 DEF TypeOK, Phases
<1>8. actual_max_stem_level' <= max_stem_level'
  <2>1. Levels' = max_stem_level' + 1
    BY DEF Levels
  <2>2. Levels' >= 0 /\ max_stem_level' \in Int
    BY <1>1
  <2> HIDE DEF Levels
  <2>3. max_stem_level' + 1 >= 0
    BY <2>1, <2>2
  <2>4. \A m \in Int : m + 1 >= 0 => -1 <= m
    OBVIOUS
  <2>5. -1 <= max_stem_level'
    BY <2>2, <2>3, <2>4
  <2>6. QED
    BY <2>5, <1>3
<1>9. /\ RootCall(n).budget = 2 ^ Levels' /\ RootCall(n).leaf = 0
      /\ RootCall(n).stem = 1
  BY <1>1 DEF RootCall, RootIdx
<1>10. QED
  BY <1>1, <1>2, <1>3, <1>4, <1>6, <1>7, <1>8, <1>9 DEF n

LEMMA SerialBegins ==
    ASSUME TypeOK, IdleOK, Construct, ConstructWithStems, phase' = "serial"
    PROVE  TypeOK' /\ SerialOK' /\ frames' = <<>>
<1> PICK r : r = RootCall(Len(source'))
  OBVIOUS
<1> PICK none : none = {}
  OBVIOUS
<1> PICK root : root = {r}
  OBVIOUS
<1> PICK index : index = Identity(Len(source'))
  OBVIOUS
<1>1. /\ TypeOK' /\ Levels' # 0 /\ RoomForStems'
      /\ sort_index' = index
      /\ leaves' = <<>> /\ actual_max_stem_level' = -1
      /\ frames = <<>> /\ actual_max_stem_level' <= max_stem_level'
      /\ RootFacts' /\ r.leaf = 0 /\ Levels' \in Nat
  BY WithStemsFacts
<1>2. calls' = <<r>> /\ frames' = frames
  BY DEF ConstructWithStems, task_vars
<1>3. /\ r \in Call(Levels', Len(source'))
      /\ \A pv : Halfway(root, none, pv, index)'
  BY <1>1 DEF RootFacts
<1>4. /\ Len(calls') = 1 /\ calls'[1] = r
      /\ calls' \in Seq(Call(Levels', Len(source')))
  BY <1>2, <1>3
<1>5. Members(calls') = root
  BY <1>4 DEF Members
<1>6. Queued(calls, Len(leaves))'
  <2>1. Len(leaves') = 0
    BY <1>1
  <2>2. QED
    BY <2>1, <1>1, <1>4 DEF Queued
<1>8. Halfway(Members(calls), none, stems, sort_index)'
  BY <1>1, <1>3, <1>5
<1>9. LeavesRouted(none, stems)'
  BY <1>1 DEF LeavesRouted
<1>10. SerialWritten(none)'
  BY <1>8, <1>9 DEF SerialWritten
<1>11. QED
  BY <1>1, <1>2, <1>6, <1>10 DEF SerialOK

LEMMA OneCall ==
    ASSUME NEW c
    PROVE  /\ DOMAIN WithCalls(<<>>, {c}) = {c.stem}
           /\ WithCalls(<<>>, {c})[c.stem] = Called(c)
<1>1. (CHOOSE d \in {c} : d.stem = c.stem) = c
  OBVIOUS
<1>2. {d.stem : d \in {c}} = {c.stem}
  OBVIOUS
<1>3. DOMAIN <<>> \cup {d.stem : d \in {c}} = {c.stem}
  BY <1>2
<1>4. \E d \in {c} : d.stem = c.stem
  OBVIOUS
<1>5. QED
  BY <1>1, <1>3, <1>4 DEF WithCalls

LEMMA PartitionBegins ==
    ASSUME TypeOK, IdleOK, Construct, ConstructWithStems,
           phase' = "partitioning"
    PROVE  TypeOK' /\ PartitioningOK'
<1> PICK r : r = RootCall(Len(source'))
  OBVIOUS
<1> PICK none : none = {}
  OBVIOUS
<1> PICK root : root = {r}
  OBVIOUS
<1> PICK index : index = Identity(Len(source'))
  OBVIOUS
<1>1. /\ TypeOK' /\ Levels' # 0 /\ RoomForStems'
      /\ sort_index' = index
      /\ leaves' = <<>> /\ actual_max_stem_level' = -1
      /\ frames = <<>> /\ locks = <<>>
      /\ RootFacts' /\ r.budget = 2 ^ Levels' /\ r.stem = 1 /\ Levels' \in Nat
  BY WithStemsFacts
<1>2. /\ frames' = WithCalls(frames, {r}) /\ locks' = locks
      /\ leaf_ranges' = [k \in 1 .. r.budget |-> <<0, 0>>]
  BY DEF ConstructWithStems
<1>3. /\ r \in Call(Levels', Len(source'))
      /\ \A pv : Halfway(root, none, pv, index)'
  BY <1>1 DEF RootFacts
<1>4. DOMAIN frames' = {1} /\ frames'[1] = Called(r)
  <2>1. frames' = WithCalls(<<>>, {r})
    BY <1>1, <1>2
  <2>2. QED
    BY <2>1, <1>1, OneCall
<1>5. frames'[1].call = r /\ frames'[1].pc = "called" /\ frames'[1] \in Frame'
  BY <1>3, <1>4 DEF Called, Frame
<1>6. OpenCalls(frames') = root
  BY <1>4, <1>5 DEF OpenCalls
<1>7. FramesOK(frames)'
  <2>1. FramesType(frames)'
    BY <1>1, <1>4, <1>5 DEF FramesType
  <2>2. Nested(frames')
    BY <1>4 DEF Nested
  <2>3. MadeByWaiting(frames')
    <3>1. ASSUME NEW j \in Nat \ {0}, Under(1, j) PROVE j = 1
      <4>1. j <= 1
        BY <3>1, UnderSmaller
      <4>2. QED
        BY <4>1
    <3>2. QED
      BY <3>1, <1>4 DEF MadeByWaiting
  <2>4. LeftOK(frames)'
    BY <1>4, <1>5 DEF LeftOK
  <2>5. QED
    BY <2>1, <2>2, <2>3, <2>4 DEF FramesOK
<1>8. Halfway(OpenCalls(frames), DOMAIN locks, locks, sort_index)'
  <2>1. DOMAIN locks' = none
    BY <1>1, <1>2
  <2>2. QED
    BY <2>1, <1>1, <1>3, <1>6
<1>9. RangesType'
  BY <1>1, <1>2 DEF RangesType
<1>10. RangesRouted(leaf_ranges, OpenCalls(frames), DOMAIN locks, locks,
                    sort_index)'
  <2>1. ASSUME NEW k \in 1 .. 2 ^ Levels' PROVE Under(LeafStem(k)', r.stem)
    <3>1. 2 ^ Levels' \in Nat
      BY <1>1, PowerType
    <3>2. LeafStem(k)' \in Nat \ {0}
      <4> DEFINE x == 2 ^ Levels'
      <4>1. LeafStem(k)' = x + k - 1 /\ x \in Nat /\ k \in 1 .. x
        BY <3>1 DEF LeafStem
      <4> HIDE DEF x
      <4>2. QED
        BY <4>1
    <3>3. QED
      BY <3>2, <1>1, UnderRoot DEF RootIdx
  <2>2. QED
    BY <2>1, <1>6 DEF RangesRouted
<1>11. Partitioned'
  BY <1>7, <1>8, <1>10 DEF Partitioned
<1>12. QED
  BY <1>1, <1>9, <1>11 DEF PartitioningOK

LEMMA SingleKeeps ==
    ASSUME TypeOK, SingleOK, SingleLeaf
    PROVE  /\ TypeOK' /\ phase' \in {"built", "refused"}
           /\ frames' = <<>>
           /\ phase' = "built" => TreeOK'
<1>1. /\ phase = "single" /\ phase' \in {"built", "refused"}
      /\ source' = source /\ max_stem_level' = max_stem_level
      /\ frames' = frames /\ actual_max_stem_level' = actual_max_stem_level
      /\ leaves' = <<sort_index>> \/ leaves' = leaves
      /\ phase' = "built" => leaves' = <<sort_index>>
  BY DEF SingleLeaf, call_vars, task_vars
<1>2. /\ Levels = 0 /\ frames = <<>> /\ leaves = <<>>
      /\ sort_index \in Seq(Nat) /\ actual_max_stem_level = -1
  BY <1>1 DEF SingleOK
<1>3. /\ Levels' = Levels /\ SourceOK' /\ max_stem_level' \in Int
  BY <1>1 DEF Levels, TypeOK, SourceOK, PointsOK, Coord
<1>4. TypeOK'
  <2>1. \A s \in Seq(Nat) : <<s>> \in Seq(Seq(Nat))
    OBVIOUS
  <2>2. leaves' \in Seq(Seq(Nat))
    BY <2>1, <1>1, <1>2 DEF TypeOK
  <2>3. Levels' \in Nat /\ phase' \in Phases
    BY <1>1, <1>2, <1>3 DEF Phases
  <2>4. QED
    BY <2>2, <2>3, <1>3 DEF TypeOK
<1>5. ASSUME phase' = "built" PROVE TreeOK'
  <2> PICK leaf : leaf = sort_index
    OBVIOUS
  <2>1. /\ leaves' = <<leaf>> /\ Levels' = 0 /\ actual_max_stem_level' = -1
    BY <1>1, <1>2, <1>3, <1>5
  <2>2. max_stem_level' = -1
    <3>1. max_stem_level' + 1 = 0 /\ max_stem_level' \in Int
      BY <2>1, <1>3 DEF Levels
    <3>2. \A m \in Int : m + 1 = 0 => m = -1
      OBVIOUS
    <3>3. QED
      BY <3>1, <3>2
  <2>3. 2 ^ Levels' = 1
    BY <2>1, PowerZero
  <2>4. StemsUsed' = {}
    <3>1. StemsUsed' = 1 .. 2 ^ Levels' - 1
      BY DEF StemsUsed, Levels
    <3>2. QED
      BY <3>1, <2>3
  <2>5. WrittenOK(StemsUsed, stems)'
    BY <2>4 DEF WrittenOK
  <2>6. LeavesRouted(StemsUsed, stems)'
    <3>1. DOMAIN leaves' = {1} /\ 1 \in 1 .. 2 ^ Levels'
      BY <2>1, <2>3
    <3>2. 0 .. Levels' - 1 = {}
      BY <2>1
    <3>3. ASSUME NEW src, NEW e, NEW s, NEW written, NEW pv
          PROVE  Way(src, e, s, Levels', written, pv)
      BY <3>2 DEF Way
    <3>4. QED
      BY <3>1, <3>3 DEF LeavesRouted
  <2>7. QED
    BY <2>1, <2>2, <2>5, <2>6 DEF TreeOK
<1>6. QED
  BY <1>1, <1>2, <1>4, <1>5

LEMMA WriteReturnsKeeps ==
    ASSUME TypeOK, WritingOK, WriteReturns
    PROVE  TypeOK' /\ TreeOK' /\ phase' = "built" /\ frames' = frames
<1>1. /\ phase = "writing" /\ phase' = "built" /\ frames' = frames
      /\ source' = source /\ max_stem_level' = max_stem_level
      /\ stems' = stems /\ leaves' = leaves
      /\ actual_max_stem_level' = actual_max_stem_level
  BY DEF WriteReturns, call_vars, task_vars, result_vars
<1>2. TreeOK'
  BY <1>1, TreeStays DEF SameCall, WritingOK
<1>3. Levels' = Levels /\ SourceOK'
  BY <1>1 DEF Levels, TypeOK, SourceOK, PointsOK, Coord
<1>4. TypeOK'
  BY <1>1, <1>3 DEF TypeOK, Phases
<1>5. QED
  BY <1>1, <1>2, <1>4

-----------------------------------------------------------------------------
(* The inductive invariant: of the phases, only the one that a             *)
(* construction is in says anything.                                       *)
SoftInv ==
    /\ TypeOK
    /\ IdleOK
    /\ SingleOK
    /\ SerialOK
    /\ PartitioningOK
    /\ WritingOK
    /\ BuiltOK
    /\ QuietOK

LEMMA SoftInvInit == Init => SoftInv
<1> SUFFICES ASSUME Init PROVE SoftInv
  OBVIOUS
<1>1. /\ phase = "idle" /\ source = <<>> /\ max_stem_level = -1
      /\ frames = <<>> /\ locks = <<>> /\ leaves = <<>>
      /\ actual_max_stem_level = -1
  BY DEF Init
<1>2. max_stem_level \in Int /\ Levels \in Nat
  <2>1. -1 \in Int /\ (-1) + 1 = 0
    OBVIOUS
  <2>2. QED
    BY <2>1, <1>1 DEF Levels
<1>3. SourceOK
  BY <1>1 DEF SourceOK, PointsOK
<1>4. TypeOK
  BY <1>1, <1>2, <1>3 DEF TypeOK, Phases
<1>5. QED
  BY <1>1, <1>4 DEF SoftInv, IdleOK, SingleOK, SerialOK, PartitioningOK,
                    WritingOK, BuiltOK, QuietOK

(* A step that changes nothing. *)
LEMMA PhaseStays ==
    ASSUME SoftInv, UNCHANGED vars
    PROVE  SoftInv'
<1>1. /\ source' = source /\ max_stem_level' = max_stem_level
      /\ phase' = phase /\ sort_index' = sort_index /\ stems' = stems
      /\ calls' = calls /\ frames' = frames /\ locks' = locks
      /\ leaf_ranges' = leaf_ranges /\ leaves' = leaves
      /\ actual_max_stem_level' = actual_max_stem_level
  BY DEF vars, call_vars, task_vars, result_vars
<1>2. SameCall /\ Levels' = Levels /\ StemsUsed' = StemsUsed
  BY <1>1 DEF SameCall, Levels, StemsUsed
<1>3. TypeOK'
  BY <1>1, <1>2 DEF SoftInv, TypeOK, SourceOK, PointsOK, Coord
<1>4. IdleOK' /\ SingleOK' /\ QuietOK'
  BY <1>1, <1>2 DEF SoftInv, IdleOK, SingleOK, QuietOK
<1>5. RoomForStems => RoomForStems'
  BY <1>1, <1>2 DEF RoomForStems
<1>6. SerialOK'
  <2>1. SUFFICES ASSUME phase = "serial" PROVE SerialOK'
    BY <1>1 DEF SerialOK
  <2>2. PICK written : SerialWritten(written)
    BY <2>1 DEF SoftInv, SerialOK
  <2>3. SerialWritten(written)'
    <3> PICK open : open = Members(calls)
      OBVIOUS
    <3> PICK pv : pv = stems
      OBVIOUS
    <3> PICK si : si = sort_index
      OBVIOUS
    <3>1. Members(calls)' = open
      BY <1>1 DEF Members
    <3>2. Halfway(open, written, pv, si)'
      BY <2>2, <1>2, HalfwayStays DEF SerialWritten
    <3>3. Halfway(Members(calls), written, stems, sort_index)'
      BY <1>1, <3>1, <3>2
    <3>4. LeavesRouted(written, stems)'
      BY <2>2, <1>1, <1>2 DEF SerialWritten, LeavesRouted, LeafStem
    <3>5. QED
      BY <2>2, <1>1, <3>3, <3>4 DEF SerialWritten
  <2>4. Queued(calls, Len(leaves))'
    BY <2>1, <1>1, <1>2 DEF SoftInv, SerialOK, Queued
  <2>5. QED
    BY <2>1, <2>3, <2>4, <1>1, <1>2, <1>5 DEF SoftInv, SerialOK
<1>7. PartitioningOK'
  <2>1. SUFFICES ASSUME phase = "partitioning" PROVE PartitioningOK'
    BY <1>1 DEF PartitioningOK
  <2>2. RangesType' /\ RangesType /\ Partitioned
    BY <2>1, <1>1, <1>2 DEF SoftInv, PartitioningOK, RangesType
  <2>3. Partitioned'
    <3> PICK open : open = OpenCalls(frames)
      OBVIOUS
    <3> PICK pv : pv = locks
      OBVIOUS
    <3> PICK si : si = sort_index
      OBVIOUS
    <3> PICK fs : fs = frames
      OBVIOUS
    <3> PICK ranges : ranges = leaf_ranges
      OBVIOUS
    <3>1. /\ FramesOK(fs) /\ Halfway(open, DOMAIN pv, pv, si)
          /\ RangesRouted(ranges, open, DOMAIN pv, pv, si)
      BY <2>2 DEF Partitioned
    <3>2. FramesOK(fs)'
      BY <3>1, <1>2, FramesStay
    <3>3. Halfway(open, DOMAIN pv, pv, si)'
      BY <3>1, <1>2, HalfwayStays
    <3>4. RangesRouted(ranges, open, DOMAIN pv, pv, si)'
      BY <3>1, <1>2, RangesStay
    <3>5. OpenCalls(frames)' = open
      BY <1>1 DEF OpenCalls, Later
    <3>6. QED
      BY <1>1, <3>2, <3>3, <3>4, <3>5 DEF Partitioned
  <2>4. QED
    BY <2>1, <2>2, <2>3, <1>1, <1>2, <1>3, TaskStays
       DEF SoftInv, vars, call_vars, result_vars
<1>8. TreeOK => TreeOK'
  BY <1>1, <1>2, TreeStays
<1>9. BuiltOK'
  BY <1>1, <1>8 DEF SoftInv, BuiltOK
<1>10. WritingOK'
  <2>1. SUFFICES ASSUME phase = "writing" PROVE WritingOK'
    BY <1>1 DEF WritingOK
  <2>2. /\ TreeOK /\ Listing(sort_index, Len(source)) /\ RangesType
        /\ RangesRouted(leaf_ranges, {}, StemsUsed, stems, sort_index)
    BY <2>1 DEF SoftInv, WritingOK
  <2>3. RangesRouted(leaf_ranges, {}, StemsUsed, stems, sort_index)'
    <3> PICK used : used = StemsUsed
      OBVIOUS
    <3> PICK pv : pv = stems
      OBVIOUS
    <3> PICK si : si = sort_index
      OBVIOUS
    <3> PICK ranges : ranges = leaf_ranges
      OBVIOUS
    <3> PICK none : none = {}
      OBVIOUS
    <3>1. RangesRouted(ranges, none, used, pv, si)'
      BY <2>2, <1>2, RangesStay
    <3>2. QED
      BY <3>1, <1>1, <1>2
  <2>4. Listing(sort_index, Len(source))' /\ RangesType'
    BY <2>2, <1>1, <1>2 DEF RangesType, Listing
  <2>5. QED
    BY <2>2, <2>3, <2>4, <1>8 DEF WritingOK
<1>11. QED
  BY <1>3, <1>4, <1>6, <1>7, <1>9, <1>10 DEF SoftInv

LEMMA SoftInvStep == SoftInv /\ [Next]_vars => SoftInv'
<1> SUFFICES ASSUME SoftInv, [Next]_vars PROVE SoftInv'
  OBVIOUS
<1> USE DEF SoftInv
<1> DEFINE Quiet == \A i \in DOMAIN frames' : frames'[i].pc # "called"
<1>1. ASSUME TypeOK', SingleOK', phase' = "single", frames' = <<>>
      PROVE  SoftInv'
  BY <1>1 DEF IdleOK, SerialOK, PartitioningOK, WritingOK, BuiltOK, QuietOK
<1>2. ASSUME TypeOK', SerialOK', phase' = "serial", frames' = <<>>
      PROVE  SoftInv'
  BY <1>2 DEF IdleOK, SingleOK, PartitioningOK, WritingOK, BuiltOK, QuietOK
<1>3. ASSUME TypeOK', PartitioningOK', phase' = "partitioning"
      PROVE  SoftInv'
  BY <1>3 DEF IdleOK, SingleOK, SerialOK, WritingOK, BuiltOK, QuietOK
<1>4. ASSUME TypeOK', WritingOK', phase' = "writing", Quiet
      PROVE  SoftInv'
  BY <1>4 DEF IdleOK, SingleOK, SerialOK, PartitioningOK, BuiltOK, QuietOK
<1>5. ASSUME TypeOK', TreeOK', phase' = "built", Quiet
      PROVE  SoftInv'
  BY <1>5 DEF IdleOK, SingleOK, SerialOK, PartitioningOK, WritingOK, BuiltOK,
              QuietOK
<1>6. ASSUME TypeOK', phase' = "refused", Quiet
      PROVE  SoftInv'
  BY <1>6 DEF IdleOK, SingleOK, SerialOK, PartitioningOK, WritingOK, BuiltOK,
              QuietOK
<1>7. frames' = <<>> => Quiet
  OBVIOUS
<1>8. phase = "writing" /\ frames' = frames => Quiet
  BY DEF QuietOK
<1> HIDE DEF SoftInv, Quiet
<1>9. /\ TypeOK /\ IdleOK /\ SingleOK /\ SerialOK /\ PartitioningOK
      /\ WritingOK /\ BuiltOK /\ QuietOK
  BY DEF SoftInv
<1>10. CASE Construct
  <2>1. phase = "idle" /\ frames = <<>>
    BY <1>9, <1>10 DEF Construct, IdleOK
  <2>2. CASE ConstructNoStems
    BY <2>2, <1>1, <1>9, <1>10, NoStemsBegins
  <2>3. CASE ConstructWithStems
    <3>1. phase' \in {"serial", "partitioning"}
      BY <2>3 DEF ConstructWithStems
    <3>2. CASE phase' = "serial"
      BY <3>2, <2>1, <2>3, <1>2, <1>9, <1>10, SerialBegins
    <3>3. CASE phase' = "partitioning"
      BY <3>3, <2>1, <2>3, <1>3, <1>9, <1>10, PartitionBegins
    <3>4. QED
      BY <3>1, <3>2, <3>3
  <2>4. QED
    BY <2>2, <2>3, <1>10 DEF Construct
<1>11. CASE SingleLeaf
  BY <1>5, <1>6, <1>7, <1>9, <1>11, SingleKeeps
<1>12. CASE PopulateLeaf
  BY <1>2, <1>6, <1>7, <1>9, <1>12, SerialLeaf
<1>13. CASE PopulateSplit
  BY <1>2, <1>9, <1>13, SerialSplit
<1>14. CASE PopulateReturns
  BY <1>5, <1>7, <1>9, <1>14, SerialReturns
<1>15. CASE Task
  <2>1. TypeOK' /\ PartitioningOK' /\ phase' = "partitioning"
    BY <1>9, <1>15, TaskLeafKeeps, TaskRightKeeps, TaskJoinKeeps,
       TaskSplitKeeps DEF Task
  <2>2. QED
    BY <2>1, <1>3
<1>16. CASE CollectStems
  <2>1. /\ TypeOK' /\ WritingOK' /\ phase' = "writing"
        /\ \A i \in DOMAIN frames' : frames'[i].pc # "called"
    BY <1>9, <1>16, CollectKeeps
  <2>2. QED
    BY <2>1, <1>4 DEF Quiet
<1>17. CASE WriteRange
  <2>1. phase = "writing"
    BY <1>17 DEF WriteRange
  <2>2. QED
    BY <2>1, <1>4, <1>6, <1>8, <1>9, <1>17, WriteRangeKeeps
<1>18. CASE WriteReturns
  <2>1. phase = "writing"
    BY <1>18 DEF WriteReturns
  <2>2. QED
    BY <2>1, <1>5, <1>8, <1>9, <1>18, WriteReturnsKeeps
<1>19. CASE UNCHANGED vars
  BY <1>19, PhaseStays
<1>20. QED
  BY <1>10, <1>11, <1>12, <1>13, <1>14, <1>15, <1>16, <1>17, <1>18, <1>19
     DEF Next, Populate, Serial, Parallel

-----------------------------------------------------------------------------
(* Where arithmetic leads an entry that shares no coordinate: to the stem  *)
(* it has its way to, for the stems from the root down to it are the only  *)
(* ones the visit can see.                                                 *)
LEMMA WayLeads ==
    ASSUME NEW top \in Nat, actual_max_stem_level + 1 = top,
           NEW s \in Nat, At(s, top),
           NEW e, NEW written, Way(source, e, s, top, written, stems),
           ~SharesCoordinate(e),
           \A i \in written : stems[i] \in Int
    PROVE  LeafIdx(source[e]) = s - 2 ^ top
<1> DEFINE p == source[e]
           Below == 0 .. top
           On(stem, l) == Child(stem, p[(l - 1) % K] >= stems[stem])
           Visits(f) == f = [l \in Below |-> IF l = 0 THEN RootIdx
                                             ELSE On(f[l - 1], l)]
           visit == [l \in Below |-> Up(s, top - l)]
<1>1. \A l \in Below : l \in Nat /\ (l # 0 => l - 1 \in Below)
  OBVIOUS
<1>2. visit[0] = RootIdx
  <2>1. visit[0] = Up(s, top)
    OBVIOUS
  <2>2. QED
    BY <2>1, UpToRoot
<1>3. \A l \in Below : l # 0 => visit[l] = On(visit[l - 1], l)
  <2> SUFFICES ASSUME NEW l \in Below, l # 0
               PROVE  visit[l] = On(visit[l - 1], l)
    OBVIOUS
  <2> DEFINE n == top - l
  <2>1. /\ n \in 0 .. top - 1 /\ top - n - 1 = l - 1 /\ n + 1 = top - (l - 1)
        /\ l - 1 \in Below
    OBVIOUS
  <2>2. visit[l] = Up(s, n) /\ visit[l - 1] = Up(s, n + 1)
    BY <2>1
  <2> HIDE DEF n
  <2>3. Up(s, n) = Child(Up(s, n + 1),
                         p[(top - n - 1) % K] >= stems[Up(s, n + 1)])
    <3> DEFINE a == Up(s, n + 1)
               x == p[(top - n - 1) % K]
    <3>1. /\ a \in written
          /\ Up(s, n) \in {LeftChild(a), RightChild(a)}
          /\ Up(s, n) = LeftChild(a) =>
                LeftSide(source, e, (top - n - 1) % K, stems[a])
          /\ Up(s, n) = RightChild(a) => x >= stems[a]
      BY <2>1 DEF Way
    <3>2. ~Tied(source, e)
      BY DEF Tied, SharesCoordinate, Coord
    <3>3. Up(s, n) = LeftChild(a) => ~(x >= stems[a])
      <4>1. stems[a] \in Int
        BY <3>1
      <4> HIDE DEF a
      <4>2. QED
        BY <3>1, <3>2, <4>1 DEF LeftSide
    <3> HIDE DEF a, x
    <3>4. Up(s, n) = Child(a, x >= stems[a])
      BY <3>1, <3>3 DEF Child
    <3>5. QED
      BY <3>4 DEF a, x
  <2> HIDE DEF visit, Below
  <2>4. QED
    BY <2>1, <2>2, <2>3
<1>4. Visits(visit)
  <2>1. \A l \in Below : visit[l] = IF l = 0 THEN RootIdx
                                    ELSE On(visit[l - 1], l)
    <3> HIDE DEF On, visit, Below
    <3> QED
      BY <1>2, <1>3
  <2>2. visit = [l \in Below |-> visit[l]]
    OBVIOUS
  <2> HIDE DEF visit, On, Below
  <2>3. QED
    BY <2>1, <2>2
<1>5. ASSUME NEW f, Visits(f) PROVE \A l \in Below : f[l] = visit[l]
  <2>1. SUFFICES ASSUME NEW k \in Below, f[k] # visit[k] PROVE FALSE
    OBVIOUS
  <2>2. \A l \in Below : f[l] = IF l = 0 THEN RootIdx ELSE On(f[l - 1], l)
    <3> HIDE DEF On, Below
    <3> QED
      BY <1>5
  <2> HIDE DEF visit, On, Visits
  <2> DEFINE bad == {l \in Below : f[l] # visit[l]}
  <2>3. bad \in SUBSET Nat /\ bad # {}
    <3> HIDE DEF Below
    <3> QED
      BY <1>1, <2>1
  <2>4. PICK l \in bad : \A j \in bad : l <= j
    <3> HIDE DEF bad
    <3> QED
      BY <2>3, LeastNatural
  <2>5. l \in Below /\ f[l] # visit[l] /\ l \in Nat
    BY <2>3
  <2>6. l # 0
    BY <2>2, <2>5, <1>2
  <2>7. l - 1 \in Below /\ ~(l <= l - 1)
    BY <1>1, <2>5, <2>6
  <2>8. f[l - 1] = visit[l - 1]
    BY <2>4, <2>7
  <2>9. f[l] = visit[l]
    BY <2>2, <2>5, <2>6, <2>8, <1>3
  <2>10. QED
    BY <2>5, <2>9
<1> HIDE DEF p
<1>6. LeafIdx(p) = (CHOOSE f : Visits(f))[top] - 2 ^ top
  BY DEF LeafIdx
<1>7. Visits(CHOOSE f : Visits(f))
  <2> HIDE DEF Visits, visit
  <2> QED
    BY <1>4
<1>8. visit[top] = s
  <2>1. visit[top] = Up(s, top - top) /\ top - top = 0
    OBVIOUS
  <2>2. QED
    BY <2>1, UpZero
<1>9. top \in Below
  OBVIOUS
<1> HIDE DEF Visits, visit, Below
<1>10. QED
  BY <1>5, <1>6, <1>7, <1>8, <1>9 DEF p

LEMMA LeafStemAt ==
    ASSUME Levels \in Nat, NEW k \in 1 .. 2 ^ Levels
    PROVE  /\ LeafStem(k) \in Nat /\ At(LeafStem(k), Levels)
           /\ LeafStem(k) - 2 ^ Levels = k - 1
<1> DEFINE x == 2 ^ Levels
<1>1. x \in Nat /\ 2 ^ (Levels + 1) = 2 * x
  BY PowerType, PowerDoubles
<1>2. LeafStem(k) = x + k - 1 /\ k \in 1 .. x
  BY DEF LeafStem
<1> HIDE DEF x
<1>3. /\ LeafStem(k) \in Nat /\ x <= LeafStem(k) /\ LeafStem(k) < 2 * x
      /\ LeafStem(k) - x = k - 1
  BY <1>1, <1>2
<1>4. QED
  BY <1>1, <1>3 DEF At, x

(* What Way says of the stems above a leaf, one by one. *)
LEMMA WayWithin ==
    ASSUME NEW top \in Nat, actual_max_stem_level \in Int,
           actual_max_stem_level + 1 = top,
           NEW s \in Nat, NEW e, NEW written,
           Way(source, e, s, top, written, stems),
           \A i \in written : stems[i] \in Int
    PROVE  Within(source[e], s)
<1> SUFFICES ASSUME NEW l \in 0 .. actual_max_stem_level
             PROVE  LET below == s \div 2 ^ (actual_max_stem_level - l)
                        stem  == stems[below \div 2]
                    IN  IF below = LeftChild(below \div 2)
                        THEN source[e][l % K] <= stem
                        ELSE source[e][l % K] >= stem
  BY DEF Within
<1> DEFINE n == actual_max_stem_level - l
           a == Up(s, n + 1)
<1>1. /\ n \in 0 .. top - 1 /\ n \in Nat /\ top - n - 1 = l
  <2>1. actual_max_stem_level = top - 1
    OBVIOUS
  <2>2. QED
    BY <2>1
<1>2. /\ a \in written
      /\ Up(s, n) \in {LeftChild(a), RightChild(a)}
      /\ Up(s, n) = LeftChild(a) => LeftSide(source, e, l % K, stems[a])
      /\ Up(s, n) = RightChild(a) => source[e][l % K] >= stems[a]
  <2> HIDE DEF n
  <2>1. \A m \in 0 .. top - 1 :
           /\ Up(s, m + 1) \in written
           /\ Up(s, m) \in {LeftChild(Up(s, m + 1)), RightChild(Up(s, m + 1))}
           /\ Up(s, m) = LeftChild(Up(s, m + 1)) =>
                 LeftSide(source, e, (top - m - 1) % K, stems[Up(s, m + 1)])
           /\ Up(s, m) = RightChild(Up(s, m + 1)) =>
                 source[e][(top - m - 1) % K] >= stems[Up(s, m + 1)]
    BY DEF Way
  <2>2. QED
    BY <2>1, <1>1
<1> HIDE DEF n
<1>3. Up(s, n) \div 2 = a
  BY <1>1, UpNext
<1> HIDE DEF a
<1>4. stems[a] \in Int
  BY <1>2
<1>5. IF Up(s, n) = LeftChild(a) THEN source[e][l % K] <= stems[a]
      ELSE source[e][l % K] >= stems[a]
  BY <1>2, <1>4 DEF LeftSide
<1>6. QED
  BY <1>3, <1>5 DEF Up, n

LEMMA InvWithin == SoftInv => EntriesAreWithinTheirStems
<1> SUFFICES ASSUME SoftInv, phase = "built",
                    NEW k \in DOMAIN leaves, NEW j \in DOMAIN leaves[k]
             PROVE  LET i == leaves[k][j] IN
                    /\ Within(source[i],
                              2 ^ (actual_max_stem_level + 1) + k - 1)
                    /\ LeafIdx(source[i]) = k - 1 \/ SharesCoordinate(i)
  BY DEF EntriesAreWithinTheirStems
<1> DEFINE e == leaves[k][j]
<1>1. /\ actual_max_stem_level + 1 = Levels /\ Levels \in Nat
      /\ actual_max_stem_level \in Int
      /\ WrittenOK(StemsUsed, stems) /\ LeavesRouted(StemsUsed, stems)
  BY DEF SoftInv, BuiltOK, TreeOK, TypeOK, Levels
<1>2. k \in 1 .. 2 ^ Levels
  BY <1>1 DEF LeavesRouted
<1>3. Way(source, e, LeafStem(k), Levels, StemsUsed, stems)
  BY <1>1 DEF LeavesRouted
<1>4. \A i \in StemsUsed : stems[i] \in Int
  BY <1>1 DEF WrittenOK
<1>5. /\ LeafStem(k) \in Nat /\ At(LeafStem(k), Levels)
      /\ LeafStem(k) - 2 ^ Levels = k - 1
  BY <1>1, <1>2, LeafStemAt
<1> HIDE DEF e
<1>6. Within(source[e], LeafStem(k))
  BY <1>1, <1>3, <1>4, <1>5, WayWithin
<1>7. LeafStem(k) = 2 ^ (actual_max_stem_level + 1) + k - 1
  BY <1>1 DEF LeafStem
<1>8. ~SharesCoordinate(e) => LeafIdx(source[e]) = k - 1
  BY <1>1, <1>3, <1>4, <1>5, WayLeads
<1>9. QED
  BY <1>6, <1>7, <1>8 DEF e

(* Along one axis a stem lies between the ones that bound it. *)
LEMMA InvInKeyOrder == SoftInv => PivotsInKeyOrder
<1> SUFFICES ASSUME SoftInv, phase = "built",
                    NEW i \in StemsUsed, NEW a \in StemsUsed,
                    NEW l \in 0 .. max_stem_level,
                    NEW m \in 0 .. max_stem_level,
                    2 ^ l <= i, i < 2 ^ (l + 1),
                    2 ^ m <= a, a < 2 ^ (m + 1),
                    m < l, l % K = m % K
             PROVE  /\ i \div 2 ^ (l - m - 1) = LeftChild(a)
                          => stems[i] <= stems[a]
                    /\ i \div 2 ^ (l - m - 1) = RightChild(a)
                          => stems[i] >= stems[a]
  BY DEF PivotsInKeyOrder
<1> DEFINE n == l - m - 1
<1>1. WrittenOK(StemsUsed, stems) /\ max_stem_level \in Int
  BY DEF SoftInv, BuiltOK, TreeOK, TypeOK
<1>2. /\ l \in Nat /\ m \in Nat /\ n \in 0 .. l - 1 /\ l - n - 1 = m
      /\ n \in Nat
  BY <1>1
<1>3. i \in Nat /\ a \in Nat /\ stems[i] \in Int /\ stems[a] \in Int
  <2>1. \A s \in StemsUsed : s \in Nat
    BY DEF StemsUsed
  <2>2. QED
    BY <1>1, <2>1 DEF WrittenOK
<1>4. InOrder(i, l, stems)
  BY <1>1, <1>2 DEF WrittenOK, At
<1> HIDE DEF n
<1>5. LET b == Up(i, n + 1) IN
      /\ Up(i, n) = LeftChild(b) => stems[i] <= stems[b]
      /\ Up(i, n) = RightChild(b) => stems[b] <= stems[i]
  BY <1>2, <1>4 DEF InOrder
<1>6. Up(i, n) \in {LeftChild(a), RightChild(a)} => Up(i, n + 1) = a
  <2>1. LeftChild(a) \div 2 = a /\ RightChild(a) \div 2 = a
    BY <1>3 DEF LeftChild, RightChild
  <2>2. QED
    BY <2>1, <1>2, <1>3, UpNext
<1>7. Up(i, n) = i \div 2 ^ (l - m - 1)
  BY DEF Up, n
<1>8. QED
  BY <1>3, <1>5, <1>6, <1>7

LEMMA InvTasksNeverPanic == SoftInv => TasksNeverPanic
<1> SUFFICES ASSUME SoftInv, NEW i \in DOMAIN frames, frames[i].pc = "called"
             PROVE  LET c == frames[i].call IN
                    IF IsLeafCall(c) THEN c.budget = 1
                    ELSE c.stem \in DOMAIN stems \ DOMAIN locks
  BY DEF TasksNeverPanic
<1> DEFINE c == frames[i].call
<1>1. phase = "partitioning"
  BY DEF SoftInv, QuietOK
<1>2. /\ Levels \in Nat /\ Partitioned /\ c \in Call(Levels, Len(source))
      /\ IsLeafCall(c) <=> ~(c.level < Levels)
      /\ c \in OpenCalls(frames)
  BY <1>1, TaskFacts DEF SoftInv
<1>3. RoomForStems
  BY <1>1 DEF SoftInv, PartitioningOK
<1> HIDE DEF c
<1>4. CASE IsLeafCall(c)
  BY <1>2, <1>4, LeafCall DEF c
<1>5. CASE ~IsLeafCall(c)
  <2>1. c.stem \notin DOMAIN locks
    BY <1>2 DEF Partitioned, Halfway, OpenOK
  <2>2. /\ c.stem \in Nat /\ c.stem >= 1 /\ c.stem < 2 ^ (c.level + 1)
        /\ c.level \in Nat /\ c.level < Levels
    <3>1. c.stem \in Nat \ {0} /\ c.level \in Nat /\ At(c.stem, c.level)
      BY <1>2 DEF Call
    <3>2. QED
      BY <3>1, <1>2, <1>5 DEF At
  <2>3. /\ 2 ^ (c.level + 1) <= 2 ^ Levels
        /\ 2 ^ (c.level + 1) \in Nat /\ 2 ^ Levels \in Nat
    BY <1>2, <2>2, PowerGrows, PowerType, PowerOrder
  <2>4. c.stem \in DOMAIN stems
    <3> DEFINE x == 2 ^ Levels
               y == 2 ^ (c.level + 1)
    <3>1. /\ x \in Nat /\ y \in Nat /\ y <= x /\ c.stem < y
          /\ x - 1 <= Len(stems) /\ stems \in Seq(Int)
      BY <2>2, <2>3, <1>3 DEF RoomForStems
    <3> HIDE DEF x, y
    <3>2. Len(stems) \in Nat /\ DOMAIN stems = 1 .. Len(stems)
      BY <3>1, LenProperties
    <3>3. QED
      BY <2>2, <3>1, <3>2
  <2>5. QED
    BY <2>1, <2>4, <1>5 DEF c
<1>6. QED
  BY <1>4, <1>5

LEMMA InvTasksAreApart == SoftInv => TasksAreApart
<1> SUFFICES ASSUME SoftInv, NEW i \in OpenTasks, NEW j \in DOMAIN frames \ {i}
             PROVE  LET c == frames[i].call
                        d == frames[j].call
                        above == \E l \in 1 .. c.level :
                                    c.stem \div 2 ^ l = d.stem
                    IN  IF above
                        THEN /\ Parts(c) \subseteq Parts(d)
                             /\ Owned(c) \subseteq Owned(d)
                        ELSE /\ Parts(c) \cap Parts(d) = {}
                             /\ Owned(c) \cap Owned(d) = {}
  BY DEF TasksAreApart
<1> DEFINE c == frames[i].call
           d == frames[j].call
           above == \E l \in 1 .. c.level : c.stem \div 2 ^ l = d.stem
<1>1. i \in DOMAIN frames /\ frames[i].pc = "called" /\ j \in DOMAIN frames
      /\ j # i
  BY DEF OpenTasks
<1>2. phase = "partitioning"
  BY <1>1 DEF SoftInv, QuietOK
<1>3. /\ FramesOK(frames) /\ i \in Nat \ {0} /\ j \in Nat \ {0}
      /\ c.stem = i /\ d.stem = j /\ c \in Call(Levels, Len(source))
  BY <1>1, <1>2, TaskFacts DEF SoftInv
<1>4. At(i, c.level) /\ c.level \in Nat
  <2>1. Levels \in Nat
    BY DEF SoftInv, TypeOK
  <2>2. QED
    BY <1>3, <2>1 DEF Call
<1>5. above <=> Under(i, j)
  <2>1. above => Under(i, j)
    BY <1>3, <1>4 DEF Under, Up
  <2>2. ASSUME NEW n \in Nat, Up(i, n) = j PROVE above
    <3>1. n # 0
      BY <2>2, <1>1, <1>3, UpZero
    <3>2. ~(n > c.level)
      BY <2>2, <1>3, <1>4, UpToRoot
    <3>3. n \in 1 .. c.level
      BY <3>1, <3>2, <1>4
    <3>4. QED
      BY <3>3, <2>2, <1>3 DEF Up
  <2>3. QED
    BY <2>1, <2>2 DEF Under
<1>6. ~Under(j, i)
  <2>1. SUFFICES ASSUME Under(j, i) PROVE FALSE
    OBVIOUS
  <2>2. frames[i].pc \in Waiting
    BY <2>1, <1>1, <1>3 DEF FramesOK, MadeByWaiting
  <2>3. QED
    BY <2>2, <1>1 DEF Waiting
<1>7. CASE above
  BY <1>1, <1>3, <1>5, <1>7 DEF FramesOK, Nested, Inside
<1>8. CASE ~above
  <2> HIDE DEF above, c, d
  <2>1. Apart(c, d)
    BY <1>1, <1>3, <1>5, <1>6, <1>8 DEF FramesOK, Nested, c, d
  <2>2. QED
    BY <2>1, <1>8 DEF Apart, above, c, d
<1>9. QED
  BY <1>7, <1>8

-----------------------------------------------------------------------------
(* The inductive invariant holds of every construction.                    *)
THEOREM SoftSafety == Spec => []SoftInv
BY SoftInvInit, SoftInvStep, PTL DEF Spec

(* No task ever panics, however the tasks interleave: no two set one       *)
(* OnceLock, each stem has one, and beyond the stems a call's leaves are   *)
(* a single one.                                                           *)
THEOREM NoTaskPanics == Spec => []TasksNeverPanic
BY SoftSafety, InvTasksNeverPanic, PTL

(* Tasks that may run at once own disjoint parts of the sort index and of  *)
(* the leaves, so the unsynchronised writes of                             *)
(* partition_recursive_soft_parallel never meet.                           *)
THEOREM OpenTasksAreApart == Spec => []TasksAreApart
BY SoftSafety, InvTasksAreApart, PTL

(* The pivots of a finished tree are in key order, those of the nodes that *)
(* were not cut included, whether one thread built it or many.             *)
THEOREM StemsInKeyOrder == Spec => []PivotsInKeyOrder
BY SoftSafety, InvInKeyOrder, PTL

(* However the library's selection places equal keys: every entry of a     *)
(* finished tree is on the right side of the stems above its leaf, and one *)
(* that shares no coordinate is in the leaf get_leaf_idx finds for it.     *)
THEOREM BuiltTreesKeepWithin == Spec => []EntriesAreWithinTheirStems
BY SoftSafety, InvWithin, PTL
=============================================================================
