--------------------------- MODULE CommonTheorems ---------------------------
(***************************************************************************)
(* What the proofs share: members of finite sets of numbers that are the   *)
(* greatest or the least, counting, powers of two, and the n nearest of    *)
(* the distances a collection was given.                                   *)
(***************************************************************************)
EXTENDS Collections, FiniteSetTheorems, SequenceTheorems,
        WellFoundedInduction, TLAPS

-----------------------------------------------------------------------------
(* Finite sets.                                                            *)

(* The image of a finite set is finite. *)
LEMMA FiniteImage ==
    ASSUME NEW S, IsFiniteSet(S), NEW T, NEW f \in [S -> T],
           \A t \in T : \E s \in S : f[s] = t
    PROVE  IsFiniteSet(T)
<1>1. f \in Surjection(S, T)
  BY DEF Surjection
<1>2. QED
  BY <1>1, FS_Surjection

LEMMA DisjointCount ==
    ASSUME NEW S, NEW T, IsFiniteSet(S), IsFiniteSet(T), S \cap T = {}
    PROVE  /\ IsFiniteSet(S \cup T)
           /\ Cardinality(S \cup T) = Cardinality(S) + Cardinality(T)
<1>1. /\ IsFiniteSet(S \cup T)
      /\ Cardinality(S \cup T) =
            Cardinality(S) + Cardinality(T) - Cardinality(S \cap T)
  BY FS_Union
<1>2. Cardinality(S \cap T) = 0
  BY FS_EmptySet
<1>3. Cardinality(S) \in Nat /\ Cardinality(T) \in Nat
  BY FS_CardinalityType
<1>4. QED
  BY <1>1, <1>2, <1>3

(* A finite set of numbers that is not empty has a greatest member: the    *)
(* one with the fewest members above it.                                   *)
LEMMA GreatestMember ==
    ASSUME NEW S \in SUBSET Int, IsFiniteSet(S), S # {}
    PROVE  \E m \in S : \A n \in S : n <= m
<1> DEFINE above(m) == {n \in S : n > m}
           all == {above(m) : m \in S}
           R == StrictSubsetOrdering(S)
           F == FiniteSubsetsOf(S)
<1>1. all \subseteq F
  BY FS_Subset DEF FiniteSubsetsOf
<1>0. all # {}
  OBVIOUS
<1>2. IsWellFoundedOn(R, F)
  BY FS_StrictSubsetOrderingWellFounded
<1>3. PICK x \in all : \A y \in all : ~(<<y, x>> \in R)
  <2> HIDE DEF all, R, F
  <2> QED
    BY <1>0, <1>1, <1>2, WFMin
<1>4. PICK m \in S : x = above(m)
  BY <1>3
<1>5. ASSUME NEW n \in S, n > m PROVE FALSE
  <2>1. above(n) \subseteq above(m)
    <3>1. SUFFICES ASSUME NEW q \in S, q > n PROVE q > m
      OBVIOUS
    <3>2. q \in Int /\ n \in Int /\ m \in Int
      OBVIOUS
    <3>3. QED
      BY <3>1, <3>2, <1>5
  <2>2. n \in above(m) /\ n \notin above(n)
    BY <1>5
  <2>3. <<above(n), above(m)>> \in R
    BY <2>1, <2>2 DEF StrictSubsetOrdering
  <2>4. QED
    BY <2>3, <1>3, <1>4
<1>6. QED
  BY <1>5

(* And a least one. *)
LEMMA LeastMember ==
    ASSUME NEW S \in SUBSET Int, IsFiniteSet(S), S # {}
    PROVE  \E m \in S : \A n \in S : m <= n
<1> DEFINE T == {-n : n \in S}
           f == [n \in S |-> -n]
<1>1. T \in SUBSET Int /\ T # {}
  OBVIOUS
<1>2. IsFiniteSet(T)
  <2>1. f \in [S -> T]
    OBVIOUS
  <2>2. \A t \in T : \E n \in S : f[n] = t
    OBVIOUS
  <2> HIDE DEF f, T
  <2>3. QED
    BY <2>1, <2>2, FiniteImage
<1>3. PICK t \in T : \A u \in T : u <= t
  <2> HIDE DEF T
  <2> QED
    BY <1>1, <1>2, GreatestMember
<1>4. PICK m \in S : t = -m
  OBVIOUS
<1>5. \A n \in S : m <= n
  <2> TAKE n \in S
  <2>1. -n \in T
    OBVIOUS
  <2>2. -n <= -m
    BY <2>1, <1>3, <1>4
  <2> QED
    BY <2>2
<1>6. QED
  BY <1>5

(* A set of naturals that is not empty has a least one: of those up to     *)
(* some member x, the one with the greatest distance from x.               *)
LEMMA LeastNatural ==
    ASSUME NEW S \in SUBSET Nat, S # {}
    PROVE  \E m \in S : \A n \in S : m <= n
<1>1. PICK x \in S : x \in Nat
  OBVIOUS
<1> DEFINE T == {d \in 0 .. x : x - d \in S}
<1>2. T \in SUBSET Int /\ IsFiniteSet(T)
  <2>1. IsFiniteSet(0 .. x)
    BY <1>1, FS_Interval
  <2>2. T \subseteq 0 .. x /\ \A d \in 0 .. x : d \in Int
    OBVIOUS
  <2> HIDE DEF T
  <2>3. QED
    BY <2>1, <2>2, FS_Subset
<1>3. 0 \in T
  BY <1>1
<1>4. PICK g \in T : \A d \in T : d <= g
  <2> HIDE DEF T
  <2> QED
    BY <1>2, <1>3, GreatestMember
<1>5. \A n \in S : x - g <= n
  <2> TAKE n \in S
  <2>1. n \in Nat /\ g \in 0 .. x
    BY <1>4
  <2>2. CASE n <= x
    <3>1. x - n \in 0 .. x /\ x - (x - n) = n
      BY <1>1, <2>1, <2>2
    <3>2. x - n <= g
      BY <3>1, <1>4
    <3>3. QED
      BY <3>2, <2>1, <1>1
  <2>3. QED
    BY <2>1, <2>2, <1>1
<1>6. QED
  BY <1>5

-----------------------------------------------------------------------------
(* Powers of two.  They are the numbers of subsets; that is all the        *)
(* provers know of them.                                                   *)
LEMMA PowerCounts ==
    ASSUME NEW n \in Nat
    PROVE  /\ IsFiniteSet(SUBSET (1 .. n))
           /\ Cardinality(SUBSET (1 .. n)) = 2 ^ n
<1>1. IsFiniteSet(1 .. n) /\ Cardinality(1 .. n) = n
  BY FS_Interval
<1>2. QED
  BY <1>1, FS_SUBSET

LEMMA PowerZero == 2 ^ 0 = 1
<1>1. SUBSET (1 .. 0) = {{}}
  OBVIOUS
<1>2. Cardinality({{}}) = 1
  BY FS_Singleton
<1>3. QED
  BY <1>1, <1>2, PowerCounts

LEMMA PowerType == ASSUME NEW n \in Nat PROVE 2 ^ n \in Nat /\ n < 2 ^ n
<1> DEFINE S == 0 .. n
           f == [x \in S |-> IF x = 0 THEN {} ELSE {x}]
<1>1. IsFiniteSet(S) /\ Cardinality(S) = n + 1
  <2>1. IsFiniteSet(S) /\ Cardinality(S) = n - 0 + 1
    BY FS_Interval
  <2>2. QED
    BY <2>1
<1>2. f \in Injection(S, SUBSET (1 .. n))
  BY DEF Injection, IsInjective
<1>3. Cardinality(S) <= Cardinality(SUBSET (1 .. n))
  <2> HIDE DEF S, f
  <2> QED
    BY <1>2, PowerCounts, FS_Injection
<1>4. 2 ^ n \in Nat
  BY PowerCounts, FS_CardinalityType
<1>5. n + 1 <= 2 ^ n
  <2> HIDE DEF S
  <2> QED
    BY <1>1, <1>3, PowerCounts
<1>6. QED
  BY <1>4, <1>5

LEMMA PowerGrows ==
    ASSUME NEW m \in Nat, NEW n \in Nat, m <= n
    PROVE  2 ^ m <= 2 ^ n
<1>1. SUBSET (1 .. m) \subseteq SUBSET (1 .. n)
  OBVIOUS
<1>2. Cardinality(SUBSET (1 .. m)) <= Cardinality(SUBSET (1 .. n))
  BY <1>1, PowerCounts, FS_Subset
<1>3. QED
  BY <1>2, PowerCounts

(* Half the subsets of 1 .. n + 1 have n + 1, half do not.                 *)
LEMMA PowerDoubles == ASSUME NEW n \in Nat PROVE 2 ^ (n + 1) = 2 * 2 ^ n
<1> DEFINE A == SUBSET (1 .. n)
           C == {s \cup {n + 1} : s \in A}
           f == [s \in A |-> s \cup {n + 1}]
<1>1. IsFiniteSet(A) /\ Cardinality(A) = 2 ^ n
  BY PowerCounts
<1>2. IsFiniteSet(C) /\ Cardinality(C) = 2 ^ n
  <2>1. f \in Bijection(A, C)
    <3>1. f \in [A -> C]
      OBVIOUS
    <3>2. \A s, t \in A : f[s] = f[t] => s = t
      <4> SUFFICES ASSUME NEW s \in A, NEW t \in A, f[s] = f[t] PROVE s = t
        OBVIOUS
      <4>1. n + 1 \notin s /\ n + 1 \notin t
        OBVIOUS
      <4>2. s \cup {n + 1} = t \cup {n + 1}
        OBVIOUS
      <4>3. QED
        BY <4>1, <4>2
    <3>3. \A u \in C : \E s \in A : f[s] = u
      OBVIOUS
    <3> HIDE DEF A, C, f
    <3>4. QED
      BY <3>1, <3>2, <3>3
      DEF Bijection, Injection, IsInjective, Surjection
  <2> HIDE DEF A, C, f
  <2>2. ExistsBijection(A, C)
    BY <2>1 DEF ExistsBijection
  <2>3. QED
    BY <2>2, <1>1, FS_Bijection
<1>3. A \cap C = {}
  <2>1. ASSUME NEW s \in A, s \in C PROVE FALSE
    <3>1. n + 1 \in s
      BY <2>1
    <3>2. QED
      BY <3>1, <2>1
  <2>2. QED
    BY <2>1
<1>4. SUBSET (1 .. n + 1) = A \cup C
  <2>1. A \cup C \subseteq SUBSET (1 .. n + 1)
    <3>1. 1 .. n \subseteq 1 .. n + 1 /\ n + 1 \in 1 .. n + 1
      OBVIOUS
    <3>2. QED
      BY <3>1
  <2>2. ASSUME NEW s \in SUBSET (1 .. n + 1), s \notin A PROVE s \in C
    <3>1. n + 1 \in s
      <4>1. \A i \in 1 .. n + 1 : i # n + 1 => i \in 1 .. n
        OBVIOUS
      <4>2. QED
        BY <4>1, <2>2
    <3>2. s \ {n + 1} \in A
      OBVIOUS
    <3>3. s = (s \ {n + 1}) \cup {n + 1}
      BY <3>1
    <3>4. QED
      BY <3>2, <3>3
  <2>3. QED
    BY <2>1, <2>2
<1>5. Cardinality(A \cup C) = 2 ^ n + 2 ^ n - Cardinality(A \cap C)
  <2> HIDE DEF A, C
  <2> QED
    BY <1>1, <1>2, FS_Union
<1>6. Cardinality(A \cap C) = 0
  <2> HIDE DEF A, C
  <2> QED
    BY <1>3, FS_EmptySet
<1>7. Cardinality(SUBSET (1 .. n + 1)) = 2 ^ (n + 1)
  BY PowerCounts
<1>8. 2 ^ n \in Nat
  BY PowerType
<1>9. Cardinality(A \cup C) = 2 ^ (n + 1)
  BY <1>4, <1>7
<1> HIDE DEF A, C, f
<1>10. QED
  BY <1>5, <1>6, <1>8, <1>9

LEMMA PowerTwice ==
    ASSUME NEW n \in Nat \ {0}
    PROVE  2 ^ n = 2 * 2 ^ (n - 1)
<1>1. n - 1 \in Nat /\ (n - 1) + 1 = n
  OBVIOUS
<1>2. QED
  BY <1>1, PowerDoubles

-----------------------------------------------------------------------------
(* The n nearest.                                                          *)

(* Distances collected, and entries that have one. *)
IsCollection(got, found) ==
    /\ got \in Seq(Int)
    /\ IsFiniteSet(found)
    /\ \A s \in found : s.dist \in Int

LEMMA SeqDomain ==
    ASSUME NEW got \in Seq(Int)
    PROVE  /\ DOMAIN got = 1 .. Len(got) /\ Len(got) \in Nat
           /\ IsFiniteSet(DOMAIN got) /\ Cardinality(DOMAIN got) = Len(got)
           /\ \A i \in DOMAIN got : got[i] \in Int
<1>1. DOMAIN got = 1 .. Len(got) /\ Len(got) \in Nat
      /\ \A i \in DOMAIN got : got[i] \in Int
  BY LenProperties
<1>2. PICK n \in Nat : n = Len(got)
  BY <1>1
<1>3. IsFiniteSet(1 .. n) /\ Cardinality(1 .. n) = n
  BY FS_Interval
<1>4. QED
  BY <1>1, <1>2, <1>3

LEMMA UpToType ==
    ASSUME NEW got, NEW found, IsCollection(got, found)
    PROVE  /\ \A x \in Int : /\ UpTo(got, found, x) \in Nat
                             /\ UpTo(got, found, x) <= Len(got) + Cardinality(found)
           /\ \A x, y \in Int : x <= y => UpTo(got, found, x) <= UpTo(got, found, y)
<1> DEFINE G(x) == {i \in DOMAIN got : got[i] <= x}
           T(x) == {s \in found : s.dist <= x}
<1>1. /\ DOMAIN got = 1 .. Len(got) /\ Len(got) \in Nat
      /\ IsFiniteSet(DOMAIN got) /\ Cardinality(DOMAIN got) = Len(got)
      /\ \A i \in DOMAIN got : got[i] \in Int
  BY SeqDomain DEF IsCollection
<1>2. IsFiniteSet(found) /\ \A s \in found : s.dist \in Int
  BY DEF IsCollection
<1>3. ASSUME NEW x \in Int
      PROVE  /\ IsFiniteSet(G(x)) /\ Cardinality(G(x)) \in Nat
             /\ Cardinality(G(x)) <= Len(got)
             /\ IsFiniteSet(T(x)) /\ Cardinality(T(x)) \in Nat
             /\ Cardinality(T(x)) <= Cardinality(found)
  <2>1. G(x) \subseteq DOMAIN got /\ T(x) \subseteq found
    OBVIOUS
  <2> HIDE DEF G, T
  <2>2. IsFiniteSet(G(x)) /\ Cardinality(G(x)) <= Cardinality(DOMAIN got)
    BY <2>1, <1>1, FS_Subset
  <2>3. IsFiniteSet(T(x)) /\ Cardinality(T(x)) <= Cardinality(found)
    BY <2>1, <1>2, FS_Subset
  <2>4. QED
    BY <2>2, <2>3, <1>1, FS_CardinalityType
<1>4. Cardinality(found) \in Nat
  BY <1>2, FS_CardinalityType
<1>5. \A x : UpTo(got, found, x) = Cardinality(G(x)) + Cardinality(T(x))
  BY DEF UpTo
<1>6. ASSUME NEW x \in Int, NEW y \in Int, x <= y
      PROVE  /\ Cardinality(G(x)) <= Cardinality(G(y))
             /\ Cardinality(T(x)) <= Cardinality(T(y))
  <2>1. G(x) \subseteq G(y)
    BY <1>1, <1>6
  <2>2. T(x) \subseteq T(y)
    BY <1>2, <1>6
  <2>3. IsFiniteSet(G(y)) /\ IsFiniteSet(T(y))
    BY <1>3
  <2> HIDE DEF G, T
  <2>4. QED
    BY <2>1, <2>2, <2>3, FS_Subset
<1> HIDE DEF G, T
<1>7. QED
  <2>1. ASSUME NEW x \in Int
        PROVE  /\ UpTo(got, found, x) \in Nat
               /\ UpTo(got, found, x) <= Len(got) + Cardinality(found)
    <3>1. /\ Cardinality(G(x)) \in Nat /\ Cardinality(T(x)) \in Nat
          /\ Cardinality(G(x)) <= Len(got)
          /\ Cardinality(T(x)) <= Cardinality(found)
      BY <1>3
    <3>2. UpTo(got, found, x) = Cardinality(G(x)) + Cardinality(T(x))
      BY <1>5
    <3>3. Len(got) \in Nat
      BY <1>1
    <3>4. QED
      BY <3>1, <3>2, <3>3, <1>4
  <2>2. ASSUME NEW x \in Int, NEW y \in Int, x <= y
        PROVE  UpTo(got, found, x) <= UpTo(got, found, y)
    BY <2>2, <1>3, <1>5, <1>6
  <2>3. QED
    BY <2>1, <2>2

(* What of the distances there is. *)
Values(got, found) == Range(got) \cup {s.dist : s \in found}

(* From the greatest value on all are counted, and the count goes up at    *)
(* values only.                                                            *)
LEMMA UpToValues ==
    ASSUME NEW got, NEW found, IsCollection(got, found)
    PROVE  /\ IsFiniteSet(Values(got, found)) /\ Values(got, found) \subseteq Int
           /\ Len(got) + Cardinality(found) > 0 =>
                 \E v \in Values(got, found) :
                    UpTo(got, found, v) = Len(got) + Cardinality(found)
           /\ \A x \in Int : UpTo(got, found, x) > 0 =>
                 \E v \in Values(got, found) :
                    v <= x /\ UpTo(got, found, v) = UpTo(got, found, x)
<1> DEFINE V == Values(got, found)
           N == Len(got) + Cardinality(found)
<1>1. /\ DOMAIN got = 1 .. Len(got) /\ Len(got) \in Nat
      /\ IsFiniteSet(DOMAIN got) /\ Cardinality(DOMAIN got) = Len(got)
      /\ \A i \in DOMAIN got : got[i] \in Int
  BY SeqDomain DEF IsCollection
<1>2. /\ IsFiniteSet(found) /\ \A s \in found : s.dist \in Int
      /\ Cardinality(found) \in Nat
  BY FS_CardinalityType DEF IsCollection
<1>3. /\ \A i \in DOMAIN got : got[i] \in V
      /\ \A s \in found : s.dist \in V
      /\ \A v \in V : \/ \E i \in DOMAIN got : v = got[i]
                      \/ \E s \in found : v = s.dist
  BY DEF Values, Range
<1>4. IsFiniteSet(V)
  <2> DEFINE R == Range(got)
             D == {s.dist : s \in found}
             f == [i \in DOMAIN got |-> got[i]]
             g == [s \in found |-> s.dist]
  <2>1. f \in [DOMAIN got -> R] /\ \A v \in R : \E i \in DOMAIN got : f[i] = v
    BY DEF Range
  <2>2. g \in [found -> D] /\ \A v \in D : \E s \in found : g[s] = v
    OBVIOUS
  <2>3. V = R \cup D
    BY DEF Values
  <2> HIDE DEF f, g, R, D, V
  <2>4. IsFiniteSet(R)
    BY <2>1, <1>1, FiniteImage
  <2>5. IsFiniteSet(D)
    BY <2>2, <1>2, FiniteImage
  <2>6. QED
    BY <2>3, <2>4, <2>5, FS_Union
<1>5. V \subseteq Int
  BY <1>1, <1>2, <1>3
<1> HIDE DEF V
<1>6. ASSUME N > 0 PROVE \E v \in V : UpTo(got, found, v) = N
  <2>1. V # {}
    <3>1. CASE Len(got) > 0
      <4>1. 1 \in DOMAIN got
        BY <3>1, <1>1
      <4>2. QED
        BY <4>1, <1>3
    <3>2. CASE Cardinality(found) > 0
      <4>1. found # {}
        BY <3>2, FS_EmptySet
      <4>2. QED
        BY <4>1, <1>3
    <3>3. QED
      BY <3>1, <3>2, <1>6, <1>1, <1>2
  <2>2. PICK v \in V : \A w \in V : w <= v
    BY <2>1, <1>4, <1>5, GreatestMember
  <2>3. {i \in DOMAIN got : got[i] <= v} = DOMAIN got
    BY <2>2, <1>3
  <2>4. {s \in found : s.dist <= v} = found
    BY <2>2, <1>3
  <2>5. QED
    BY <2>3, <2>4, <1>1 DEF UpTo
<1>7. ASSUME NEW x \in Int, UpTo(got, found, x) > 0
      PROVE  \E v \in V : v <= x /\ UpTo(got, found, v) = UpTo(got, found, x)
  <2> DEFINE low == {v \in V : v <= x}
  <2>1. low # {}
    <3>1. ASSUME low = {} PROVE FALSE
      <4>1. {i \in DOMAIN got : got[i] <= x} = {}
        BY <3>1, <1>3
      <4>2. {s \in found : s.dist <= x} = {}
        BY <3>1, <1>3
      <4>3. UpTo(got, found, x) = Cardinality({}) + Cardinality({})
        BY <4>1, <4>2, Zenon DEF UpTo
      <4>4. UpTo(got, found, x) = 0
        BY <4>3, FS_EmptySet
      <4>5. QED
        BY <4>4, <1>7
    <3>2. QED
      BY <3>1
  <2>2. low \in SUBSET Int /\ IsFiniteSet(low)
    BY <1>4, <1>5, FS_Subset
  <2>3. PICK v \in low : \A w \in low : w <= v
    <3> HIDE DEF low
    <3> QED
      BY <2>1, <2>2, GreatestMember
  <2>4. v \in Int /\ v <= x /\ v \in V
    BY <1>5
  <2>5. \A w \in V : w \in Int /\ (w <= v <=> w <= x)
    BY <2>3, <2>4, <1>5
  <2>6. {i \in DOMAIN got : got[i] <= v} = {i \in DOMAIN got : got[i] <= x}
    BY <2>5, <1>3
  <2>7. {s \in found : s.dist <= v} = {s \in found : s.dist <= x}
    BY <2>5, <1>3
  <2>8. QED
    BY <2>4, <2>6, <2>7 DEF UpTo
<1>8. QED
  BY <1>4, <1>5, <1>6, <1>7 DEF V

(* What Nearest gives: as many as there are, up to n, each with its place  *)
(* among all of them.                                                      *)
Ranks(r, n, got, found) ==
    /\ r \in Seq(Int)
    /\ Len(r) = Capped(n, Len(got) + Cardinality(found))
    /\ \A i \in 1 .. Len(r) : \A x \in Int : r[i] <= x <=> i <= UpTo(got, found, x)

LEMMA NearestRanks ==
    ASSUME NEW got, NEW found, IsCollection(got, found), NEW n \in Nat
    PROVE  Ranks(NearestAmong(n, got, found), n, got, found)
<1> DEFINE V == Values(got, found)
           N == Len(got) + Cardinality(found)
           Up(x) == UpTo(got, found, x)
           upto == [x \in V |-> Up(x)]
           Least(i) == CHOOSE x \in V :
                          /\ upto[x] >= i
                          /\ \A y \in V : upto[y] >= i => x <= y
           r == [i \in 1 .. Capped(n, N) |-> Least(i)]
<1>1. NearestAmong(n, got, found) = r
  BY DEF NearestAmong, Values
<1>2. N \in Nat
  BY SeqDomain, FS_CardinalityType DEF IsCollection
<1>3. Capped(n, N) \in Nat /\ Capped(n, N) <= N
  BY <1>2 DEF Capped
<1>4. /\ IsFiniteSet(V) /\ V \in SUBSET Int
      /\ N > 0 => \E v \in V : Up(v) = N
      /\ \A x \in Int : Up(x) > 0 => \E v \in V : v <= x /\ Up(v) = Up(x)
  BY UpToValues
<1>5. /\ \A x \in Int : Up(x) \in Nat
      /\ \A x, y \in Int : x <= y => Up(x) <= Up(y)
  BY UpToType
<1>11. \A x \in V : upto[x] = Up(x)
  OBVIOUS
<1> HIDE DEF V, N, Up, upto
<1>6. ASSUME NEW i \in 1 .. Capped(n, N)
      PROVE  /\ Least(i) \in Int
             /\ \A x \in Int : Least(i) <= x <=> i <= Up(x)
  <2>1. i \in Nat \ {0} /\ i <= N /\ N > 0
    BY <1>2, <1>3
  <2> DEFINE S == {v \in V : Up(v) >= i}
  <2>2. S # {}
    BY <2>1, <1>2, <1>4
  <2>3. S \in SUBSET Int /\ IsFiniteSet(S)
    BY <1>4, FS_Subset
  <2>4. PICK m \in S : \A v \in S : m <= v
    <3> HIDE DEF S
    <3> QED
      BY <2>2, <2>3, LeastMember
  <2>5. \E m1 \in V : upto[m1] >= i /\ \A y \in V : upto[y] >= i => m1 <= y
    BY <2>4, <1>11
  <2>11. /\ Least(i) \in V /\ upto[Least(i)] >= i
         /\ \A y \in V : upto[y] >= i => Least(i) <= y
    BY <2>5
  <2> HIDE DEF Least
  <2>6. /\ Least(i) \in V /\ Up(Least(i)) >= i
        /\ \A y \in V : Up(y) >= i => Least(i) <= y
    BY <2>11, <1>11
  <2> HIDE DEF Least, S
  <2>7. Least(i) \in Int
    BY <2>6, <1>4
  <2>8. ASSUME NEW x \in Int, Least(i) <= x PROVE i <= Up(x)
    <3>1. Up(Least(i)) <= Up(x) /\ Up(Least(i)) \in Nat /\ Up(x) \in Nat
      BY <2>7, <2>8, <1>5
    <3>2. QED
      BY <3>1, <2>6, <2>1
  <2>9. ASSUME NEW x \in Int, i <= Up(x) PROVE Least(i) <= x
    <3>1. Up(x) > 0 /\ Up(x) \in Nat
      BY <2>9, <2>1, <1>5
    <3>2. PICK v \in V : v <= x /\ Up(v) = Up(x)
      BY <3>1, <1>4
    <3>3. v \in Int /\ Least(i) <= v
      BY <3>1, <3>2, <2>6, <2>9, <2>1, <1>4
    <3>4. QED
      BY <3>2, <3>3, <2>7
  <2>10. QED
    BY <2>7, <2>8, <2>9
<1> HIDE DEF Least
<1>7. r \in Seq(Int) /\ Len(r) = Capped(n, N)
  BY <1>3, <1>6
<1>8. \A i \in 1 .. Len(r) : \A x \in Int : r[i] <= x <=> i <= Up(x)
  BY <1>6, <1>7
<1> HIDE DEF r
<1>9. Ranks(r, n, got, found)
  BY <1>7, <1>8 DEF Ranks, N, Up
<1>10. QED
  BY <1>1, <1>9

(* They are in order. *)
LEMMA RanksAscend ==
    ASSUME NEW got, NEW found, IsCollection(got, found), NEW n \in Nat,
           NEW r, Ranks(r, n, got, found)
    PROVE  /\ r \in Seq(Int) /\ Len(r) \in Nat /\ Len(r) <= n
           /\ Len(r) <= Len(got) + Cardinality(found)
           /\ \A i, j \in 1 .. Len(r) : i <= j => r[i] <= r[j]
<1>1. r \in Seq(Int) /\ Len(r) = Capped(n, Len(got) + Cardinality(found))
  BY DEF Ranks
<1>2. Len(got) + Cardinality(found) \in Nat
  BY SeqDomain, FS_CardinalityType DEF IsCollection
<1>3. /\ Len(r) \in Nat /\ Len(r) <= n
      /\ Len(r) <= Len(got) + Cardinality(found)
      /\ \A i \in 1 .. Len(r) : r[i] \in Int
  <2>1. \A i \in 1 .. Len(r) : r[i] \in Int
    BY <1>1, SeqDomain
  <2>2. QED
    BY <2>1, <1>1, <1>2 DEF Capped
<1>4. ASSUME NEW i \in 1 .. Len(r), NEW j \in 1 .. Len(r), i <= j
      PROVE  r[i] <= r[j]
  <2>1. r[j] \in Int /\ r[j] <= r[j]
    BY <1>3
  <2>2. j <= UpTo(got, found, r[j])
    BY <2>1 DEF Ranks
  <2>3. UpTo(got, found, r[j]) \in Nat
    BY <2>1, UpToType
  <2>4. i <= UpTo(got, found, r[j])
    BY <2>2, <2>3, <1>3, <1>4
  <2>5. QED
    BY <2>1, <2>4 DEF Ranks
<1>5. QED
  BY <1>1, <1>3, <1>4

(* Where no value has more up to it, the n nearest are no fewer, and none  *)
(* is nearer.                                                              *)
LEMMA RanksCompare ==
    ASSUME NEW got, NEW found, IsCollection(got, found),
           NEW got2, NEW found2, IsCollection(got2, found2),
           NEW n \in Nat, NEW r, Ranks(r, n, got, found),
           NEW r2, Ranks(r2, n, got2, found2),
           \A x \in Int : Capped(n, UpTo(got, found, x))
                             = Capped(n, UpTo(got2, found2, x))
    PROVE  Len(r) <= Len(r2) /\ \A i \in 1 .. Len(r) : r2[i] <= r[i]
<1> DEFINE N2 == Len(got2) + Cardinality(found2)
<1>1. /\ r \in Seq(Int) /\ Len(r) \in Nat /\ Len(r) <= n
      /\ r2 \in Seq(Int) /\ Len(r2) \in Nat
  BY RanksAscend
<1>2. \A i \in 1 .. Len(r) : r[i] \in Int
  BY <1>1, SeqDomain
<1>3. Len(r2) = Capped(n, N2) /\ N2 \in Nat
  BY SeqDomain, FS_CardinalityType DEF Ranks, IsCollection
<1>4. ASSUME NEW i \in 1 .. Len(r)
      PROVE  /\ i <= UpTo(got2, found2, r[i])
             /\ UpTo(got2, found2, r[i]) \in Nat
             /\ UpTo(got2, found2, r[i]) <= N2
  <2>1. r[i] \in Int /\ r[i] <= r[i]
    BY <1>2
  <2>2. i <= UpTo(got, found, r[i])
    BY <2>1 DEF Ranks
  <2>3. /\ UpTo(got, found, r[i]) \in Nat
        /\ UpTo(got2, found2, r[i]) \in Nat
        /\ UpTo(got2, found2, r[i]) <= N2
    BY <2>1, UpToType
  <2>4. Capped(n, UpTo(got, found, r[i])) = Capped(n, UpTo(got2, found2, r[i]))
    BY <2>1
  <2>5. i <= n /\ i \in Nat
    BY <1>1
  <2>6. QED
    BY <2>2, <2>3, <2>4, <2>5 DEF Capped
<1> HIDE DEF N2
<1>5. Len(r) <= Len(r2)
  <2>1. CASE Len(r) = 0
    BY <2>1, <1>1
  <2>2. CASE Len(r) > 0
    <3>1. Len(r) \in 1 .. Len(r)
      BY <2>2, <1>1
    <3>2. Len(r) <= N2
      BY <3>1, <1>1, <1>3, <1>4, SMTT(30)
    <3>3. QED
      BY <3>2, <1>1, <1>3 DEF Capped
  <2>3. QED
    BY <2>1, <2>2, <1>1
<1>6. ASSUME NEW i \in 1 .. Len(r) PROVE r2[i] <= r[i]
  <2>1. i \in 1 .. Len(r2)
    BY <1>1, <1>5
  <2>2. r[i] \in Int /\ i <= UpTo(got2, found2, r[i])
    BY <1>2, <1>4
  <2>3. QED
    BY <2>1, <2>2 DEF Ranks
<1>7. QED
  BY <1>5, <1>6

(* So the n nearest are known by how many there are up to each value, as   *)
(* far as n of them.                                                       *)
LEMMA NearestByCount ==
    ASSUME NEW got, NEW found, IsCollection(got, found),
           NEW got2, NEW found2, IsCollection(got2, found2), NEW n \in Nat,
           \A x \in Int : Capped(n, UpTo(got, found, x))
                             = Capped(n, UpTo(got2, found2, x))
    PROVE  NearestAmong(n, got, found) = NearestAmong(n, got2, found2)
<1> DEFINE r == NearestAmong(n, got, found)
           r2 == NearestAmong(n, got2, found2)
<1>1. Ranks(r, n, got, found) /\ Ranks(r2, n, got2, found2)
  BY NearestRanks
<1> HIDE DEF r, r2
<1>2. Len(r) <= Len(r2) /\ \A i \in 1 .. Len(r) : r2[i] <= r[i]
  BY <1>1, RanksCompare
<1>3. Len(r2) <= Len(r) /\ \A i \in 1 .. Len(r2) : r[i] <= r2[i]
  BY <1>1, RanksCompare
<1>4. /\ r \in Seq(Int) /\ r2 \in Seq(Int)
      /\ Len(r) \in Nat /\ Len(r2) \in Nat
  BY <1>1, RanksAscend
<1>5. Len(r) = Len(r2)
  BY <1>2, <1>3, <1>4
<1>6. \A i \in 1 .. Len(r) : r[i] = r2[i]
  <2> TAKE i \in 1 .. Len(r)
  <2>1. r[i] \in Int /\ r2[i] \in Int
    BY <1>4, <1>5, SeqDomain
  <2>2. r[i] <= r2[i] /\ r2[i] <= r[i]
    BY <1>2, <1>3, <1>5
  <2> QED
    BY <2>1, <2>2
<1>7. r = r2
  BY <1>4, <1>5, <1>6, SeqEqual
<1>8. QED
  BY <1>7 DEF r, r2

(* Ascending distances. *)
Ascending(got) == \A i, j \in 1 .. Len(got) : i <= j => got[i] <= got[j]

(* Entries that are not nearer than the last of n that were collected make   *)
(* no difference.                                                          *)
LEMMA FartherIsNotMissed ==
    ASSUME NEW got, NEW found, IsCollection(got, found), Ascending(got),
           NEW n \in Nat \ {0}, NEW fewer \in SUBSET found,
           \A s \in found \ fewer : Len(got) = n /\ got[n] <= s.dist
    PROVE  NearestAmong(n, got, fewer) = NearestAmong(n, got, found)
<1>1. /\ DOMAIN got = 1 .. Len(got) /\ Len(got) \in Nat
      /\ Cardinality(DOMAIN got) = Len(got)
      /\ \A i \in DOMAIN got : got[i] \in Int
  BY SeqDomain DEF IsCollection
<1>2. /\ IsFiniteSet(found) /\ IsFiniteSet(fewer)
      /\ \A s \in found : s.dist \in Int
  BY FS_Subset DEF IsCollection
<1>3. IsCollection(got, fewer)
  BY <1>2 DEF IsCollection
<1>4. ASSUME NEW x \in Int
      PROVE  Capped(n, UpTo(got, fewer, x)) = Capped(n, UpTo(got, found, x))
  <2> DEFINE G == {i \in DOMAIN got : got[i] <= x}
             T == {s \in found : s.dist <= x}
             F == {s \in fewer : s.dist <= x}
  <2>1. UpTo(got, fewer, x) = Cardinality(G) + Cardinality(F)
        /\ UpTo(got, found, x) = Cardinality(G) + Cardinality(T)
    BY DEF UpTo
  <2>2. CASE \E s \in found \ fewer : s.dist <= x
    <3>1. PICK s \in found \ fewer : s.dist <= x
      BY <2>2
    <3>2. Len(got) = n /\ got[n] <= s.dist /\ s.dist \in Int
      BY <1>2
    <3>3. n \in 1 .. Len(got) /\ got[n] \in Int
      BY <3>2, <1>1
    <3>4. \A i \in DOMAIN got : got[i] <= x
      <4> TAKE i \in DOMAIN got
      <4>1. i \in 1 .. Len(got) /\ i <= n /\ got[i] \in Int
        BY <1>1, <3>2
      <4>2. got[i] <= got[n]
        BY <4>1, <3>3 DEF Ascending
      <4> QED
        BY <4>1, <4>2, <3>1, <3>2, <3>3
    <3>5. Cardinality(G) = n
      <4>1. G = DOMAIN got
        BY <3>4
      <4>2. QED
        BY <4>1, <1>1, <3>2
    <3>6. Cardinality(T) \in Nat /\ Cardinality(F) \in Nat
      BY <1>2, FS_Subset, FS_CardinalityType
    <3> HIDE DEF G, T, F
    <3>7. QED
      BY <2>1, <3>5, <3>6 DEF Capped
  <2>3. CASE \A s \in found \ fewer : ~(s.dist <= x)
    <3>1. T = F
      BY <2>3
    <3>2. QED
      BY <2>1, <3>1
  <2>4. QED
    BY <2>2, <2>3
<1>5. QED
  BY <1>3, <1>4, NearestByCount

(* To collect in two turns is to collect at once. *)
LEMMA NearestOfBoth ==
    ASSUME NEW got, NEW found, IsCollection(got, found), NEW n \in Nat,
           NEW others, IsCollection(got, others), found \cap others = {}
    PROVE  NearestAmong(n, NearestAmong(n, got, found), others)
              = NearestAmong(n, got, found \cup others)
<1> DEFINE r == NearestAmong(n, got, found)
<1>1. Ranks(r, n, got, found)
  BY NearestRanks
<1> HIDE DEF r
<1>2. /\ r \in Seq(Int) /\ Len(r) \in Nat /\ Len(r) <= n
      /\ Len(r) = Capped(n, Len(got) + Cardinality(found))
  BY <1>1, RanksAscend DEF Ranks
<1>3. IsCollection(r, others) /\ IsCollection(got, found \cup others)
  BY <1>2, FS_Union DEF IsCollection
<1>4. /\ IsFiniteSet(found) /\ IsFiniteSet(others)
      /\ Len(got) + Cardinality(found) \in Nat
  BY SeqDomain, FS_CardinalityType DEF IsCollection
<1>5. ASSUME NEW x \in Int
      PROVE  Capped(n, UpTo(r, others, x))
                = Capped(n, UpTo(got, found \cup others, x))
  <2> DEFINE a == UpTo(got, found, x)
             S == {s \in found : s.dist <= x}
             T == {s \in others : s.dist <= x}
             G == {i \in DOMAIN got : got[i] <= x}
             R == {i \in DOMAIN r : r[i] <= x}
  <2>1. a \in Nat /\ a <= Len(got) + Cardinality(found)
    BY UpToType
  <2>2. a = Cardinality(G) + Cardinality(S)
    BY DEF UpTo
  <2>3. IsFiniteSet(S) /\ IsFiniteSet(T) /\ S \cap T = {}
    BY <1>4, FS_Subset
  <2>4. Cardinality(S) \in Nat /\ Cardinality(T) \in Nat
    BY <2>3, FS_CardinalityType
  <2>5. {s \in found \cup others : s.dist <= x} = S \cup T
    OBVIOUS
  <2>6. UpTo(got, found \cup others, x) = a + Cardinality(T)
    <3>1. UpTo(got, found \cup others, x) = Cardinality(G) + Cardinality(S \cup T)
      BY <2>5 DEF UpTo
    <3>2. Cardinality(S \cup T) = Cardinality(S) + Cardinality(T)
      <4> HIDE DEF S, T
      <4> QED
        BY <2>3, DisjointCount
    <3>3. Cardinality(G) \in Nat
      <4>1. IsFiniteSet(DOMAIN got)
        BY SeqDomain DEF IsCollection
      <4>2. IsFiniteSet(G)
        BY <4>1, FS_Subset
      <4>3. QED
        BY <4>2, FS_CardinalityType
    <3> HIDE DEF a, S, T, G
    <3>4. QED
      BY <3>1, <3>2, <3>3, <2>2, <2>4
  <2>7. Cardinality(R) = Capped(n, a)
    <3>1. \A i \in 1 .. Len(r) : r[i] <= x <=> i <= a
      BY <1>1 DEF Ranks
    <3>2. DOMAIN r = 1 .. Len(r)
      BY <1>2, SeqDomain
    <3>3. Capped(n, a) \in Nat /\ Capped(n, a) = Capped(Len(r), a)
      <4> HIDE DEF a
      <4> QED
        BY <2>1, <1>2, <1>4 DEF Capped
    <3>4. R = 1 .. Capped(n, a)
      <4> HIDE DEF a
      <4>1. \A i \in Nat : i <= Capped(n, a) <=> i <= Len(r) /\ i <= a
        BY <3>3, <2>1, <1>2 DEF Capped
      <4>2. QED
        BY <4>1, <3>1, <3>2, <3>3, <1>2
    <3>5. PICK k \in Nat : k = Capped(n, a)
      BY <3>3
    <3>6. Cardinality(1 .. k) = k
      BY FS_Interval
    <3>7. QED
      BY <3>4, <3>5, <3>6
  <2>8. UpTo(r, others, x) = Capped(n, a) + Cardinality(T)
    BY <2>7 DEF UpTo
  <2> HIDE DEF a, S, T, G, R
  <2>9. QED
    BY <2>1, <2>4, <2>6, <2>8 DEF Capped
<1>6. NearestAmong(n, r, others) = NearestAmong(n, got, found \cup others)
  <2> DEFINE both == found \cup others
  <2>1. IsCollection(r, others) /\ IsCollection(got, both)
    BY <1>3
  <2>2. \A x \in Int : Capped(n, UpTo(r, others, x)) = Capped(n, UpTo(got, both, x))
    BY <1>5
  <2> HIDE DEF both
  <2>3. NearestAmong(n, r, others) = NearestAmong(n, got, both)
    BY <2>1, <2>2, NearestByCount
  <2>4. QED
    BY <2>3 DEF both
<1>7. QED
  BY <1>6 DEF r

(* To collect nothing more leaves what is collected as it is. *)
LEMMA NothingMore ==
    ASSUME NEW got \in Seq(Int), Ascending(got), NEW n \in Nat, Len(got) <= n
    PROVE  NearestAmong(n, got, {}) = got
<1> DEFINE r == NearestAmong(n, got, {})
<1>1. /\ DOMAIN got = 1 .. Len(got) /\ Len(got) \in Nat
      /\ \A i \in DOMAIN got : got[i] \in Int
  BY SeqDomain
<1>2. IsCollection(got, {}) /\ Cardinality({}) = 0
  BY FS_EmptySet DEF IsCollection
<1>3. Ranks(got, n, got, {})
  <2>1. ASSUME NEW i \in 1 .. Len(got), NEW x \in Int
        PROVE  got[i] <= x <=> i <= UpTo(got, {}, x)
    <3> DEFINE G == {j \in DOMAIN got : got[j] <= x}
    <3>1. IsFiniteSet(DOMAIN got) /\ IsFiniteSet(G) /\ Cardinality(G) \in Nat
      <4>1. IsFiniteSet(DOMAIN got)
        BY SeqDomain
      <4>2. QED
        BY <4>1, FS_Subset, FS_CardinalityType
    <3>2. UpTo(got, {}, x) = Cardinality(G)
      <4>1. {e \in {} : e.dist <= x} = {}
        OBVIOUS
      <4>2. UpTo(got, {}, x) = Cardinality(G) + 0
        BY <4>1, <1>2 DEF UpTo
      <4>3. QED
        BY <4>2, <3>1
    <3>3. CASE got[i] <= x
      <4>1. ASSUME NEW j \in 1 .. i PROVE j \in G
        <5>1. j \in 1 .. Len(got) /\ j <= i
          BY <2>1, <4>1, <1>1
        <5>2. got[j] <= got[i] /\ got[j] \in Int /\ got[i] \in Int
          BY <5>1, <1>1 DEF Ascending
        <5>3. QED
          BY <5>1, <5>2, <3>3, <1>1
      <4>2. 1 .. i \subseteq G /\ i \in Nat
        BY <4>1
      <4>3. Cardinality(1 .. i) = i
        BY <4>2, FS_Interval
      <4> HIDE DEF G
      <4>4. Cardinality(1 .. i) <= Cardinality(G)
        BY <4>2, <3>1, FS_Subset
      <4>5. QED
        BY <4>3, <4>4, <3>2, <3>3
    <3>4. CASE ~(got[i] <= x)
      <4>1. ASSUME NEW j \in G PROVE j \in 1 .. i - 1
        <5>1. j \in 1 .. Len(got) /\ got[j] <= x /\ got[j] \in Int /\ got[i] \in Int
          BY <1>1
        <5>2. CASE i <= j
          <6>1. got[i] <= got[j]
            BY <5>1, <5>2 DEF Ascending
          <6>2. QED
            BY <6>1, <5>1, <3>4
        <5>3. QED
          BY <5>1, <5>2, <1>1
      <4>2. G \subseteq 1 .. i - 1 /\ i - 1 \in Nat /\ i \in Nat
        BY <4>1, <1>1
      <4>3. IsFiniteSet(1 .. i - 1) /\ Cardinality(1 .. i - 1) = i - 1
        BY <4>2, FS_Interval
      <4> HIDE DEF G
      <4>4. Cardinality(G) <= i - 1
        BY <4>2, <4>3, FS_Subset
      <4>5. QED
        BY <4>2, <4>4, <3>1, <3>2, <3>4
    <3>5. QED
      BY <3>3, <3>4
  <2>2. Len(got) = Capped(n, Len(got) + Cardinality({}))
    <3>1. Len(got) + Cardinality({}) = Len(got)
      BY <1>1, <1>2
    <3>2. Capped(n, Len(got)) = Len(got)
      <4>1. ASSUME NEW m \in Nat, m <= n PROVE Capped(n, m) = m
        BY <4>1 DEF Capped
      <4>2. QED
        BY <4>1, <1>1
    <3>3. QED
      BY <3>1, <3>2
  <2>3. QED
    BY <2>1, <2>2 DEF Ranks
<1>4. Ranks(r, n, got, {})
  BY <1>2, NearestRanks
<1> HIDE DEF r
<1>5. \A x \in Int : Capped(n, UpTo(got, {}, x)) = Capped(n, UpTo(got, {}, x))
  OBVIOUS
<1>6. /\ Len(r) = Len(got) /\ r \in Seq(Int)
      /\ \A i \in 1 .. Len(got) : r[i] = got[i]
  <2>1. Len(got) <= Len(r) /\ \A i \in 1 .. Len(got) : r[i] <= got[i]
    BY <1>2, <1>3, <1>4, <1>5, RanksCompare
  <2>2. Len(r) <= Len(got) /\ \A i \in 1 .. Len(r) : got[i] <= r[i]
    BY <1>2, <1>3, <1>4, <1>5, RanksCompare
  <2>3. r \in Seq(Int) /\ Len(r) \in Nat
    BY <1>2, <1>4, RanksAscend
  <2>4. Len(r) = Len(got)
    BY <2>1, <2>2, <2>3, <1>1
  <2>5. \A i \in 1 .. Len(got) : r[i] \in Int /\ got[i] \in Int
    BY <2>3, <2>4, <1>1, ElementOfSeq
  <2>6. QED
    BY <2>1, <2>2, <2>3, <2>4, <2>5
<1>7. r = got
  BY <1>6, <1>1, SeqEqual
<1>8. QED
  BY <1>7 DEF r
=============================================================================
