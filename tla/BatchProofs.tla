----------------------------- MODULE BatchProofs -----------------------------
(***************************************************************************)
(* Every query of a batch is answered once, with an answer of its own, for *)
(* every batch, executor and collection of entries.                        *)
(***************************************************************************)
EXTENDS BatchProperties, TLAPS

(* The inductive invariant: the ranges are ranges of the batch, a running  *)
(* one has been given no point but that of its query, and until execute    *)
(* nothing is there.                                                       *)
Ranged ==
    /\ queries \in Batches
    /\ executor \in Executors
    /\ phase \in {"configuring", "running", "done"}
    /\ waiting \subseteq [first : 1 .. Size, end : 1 .. Size]
    /\ running \subseteq [at : 1 .. Size, end : 1 .. Size, point : Int]
    /\ \A t \in waiting : t.first <= t.end
    /\ \A r \in running : r.at <= r.end
    /\ DOMAIN outcome = 1 .. Size
    /\ \A i \in 1 .. Size :
          outcome[i] = <<>> \/ outcome[i] = <<outcome[i][1]>>

OwnPoints ==
    \A r \in running : r.point \in {None, queries[r.at]}

NothingYet ==
    phase = "configuring" =>
        /\ waiting = {}
        /\ running = {}
        /\ \A i \in 1 .. Size : outcome[i] = <<>>

IInv == Ranged /\ OwnPoints /\ NothingYet /\ EveryQueryOnce /\ AnswersAreSingle

-----------------------------------------------------------------------------
LEMMA SizeIsNat == ASSUME Ranged PROVE Size \in Nat
  BY BatchAssumption DEF Ranged, Size

(* A task is never split into nothing. *)
LEMMA ChunkLenPositive == ASSUME Ranged PROVE StaticChunkLen \in Nat \ {0}
<1> DEFINE chunks == executor.threads * executor.multiplier
           share  == (Size + chunks - 1) \div chunks
<1>1. /\ executor.threads \in Nat \ {0}
      /\ executor.multiplier \in {None} \cup (Nat \ {0})
      /\ MaxStaticChunkQueries \in Nat \ {0}
  BY BatchAssumption DEF Ranged
<1>2. CASE executor.multiplier = None
  BY <1>2 DEF StaticChunkLen
<1>3. CASE executor.multiplier \in Nat \ {0}
  <2>1. chunks \in Nat \ {0}
    BY <1>1, <1>3
  <2>2. share \in Int
    <3> HIDE DEF chunks
    <3> QED BY <2>1, SizeIsNat
  <2> HIDE DEF share
  <2>3. StaticChunkLen = IF executor.multiplier = None \/ share < 1 THEN 1
                         ELSE IF share > MaxStaticChunkQueries
                              THEN MaxStaticChunkQueries ELSE share
    BY DEF StaticChunkLen, share
  <2> QED BY <1>1, <2>2, <2>3
<1> QED BY <1>1, <1>2, <1>3

(* The halves of a range are ranges that meet in the middle. *)
LEMMA HalvesMeet ==
  ASSUME NEW n \in Nat, NEW t \in [first : 1 .. n, end : 1 .. n],
         Length(t) \div 2 >= 1
  PROVE  \E mid \in 1 .. n :
            /\ t.first < mid /\ mid <= t.end
            /\ Halves(t) = {[first |-> t.first, end |-> mid - 1],
                            [first |-> mid, end |-> t.end]}
<1> DEFINE mid == t.first + Length(t) \div 2
<1>1. t.first \in 1 .. n /\ t.end \in 1 .. n
  OBVIOUS
<1>2. mid \in Int /\ t.first < mid /\ mid <= t.end
  BY <1>1 DEF Length
<1>3. Halves(t) = {[first |-> t.first, end |-> mid - 1],
                   [first |-> mid, end |-> t.end]}
  BY DEF Halves
<1> HIDE DEF mid
<1> QED BY <1>1, <1>2, <1>3

-----------------------------------------------------------------------------
LEMMA InitIInv == ASSUME Init PROVE IInv
<1>1. queries \in Batches /\ Size \in Nat
  BY BatchAssumption DEF Init, Size
<1> QED BY <1>1 DEF Init, IInv, Ranged, OwnPoints, NothingYet, EveryQueryOnce,
              WaitingApart, RunningApart, WaitingApartFromRunning,
              AnsweredOnce, AnswersAreSingle

LEMMA ConfigureStep ==
  ASSUME IInv, NEW call \in Calls, Configure(call) PROVE IInv'
BY DEF Configure, IInv, Ranged, OwnPoints, NothingYet, EveryQueryOnce,
       WaitingApart, RunningApart, WaitingApartFromRunning, AnsweredOnce,
       AnswersAreSingle, ToBeRun, Size

(* Execute: all of the batch is waiting in one range. *)
LEMMA ExecuteStep ==
  ASSUME IInv, NEW visiting \in BOOLEAN, Execute(visiting) PROVE IInv'
<1>1. /\ phase = "configuring" /\ phase' = "running"
      /\ waiting' = IF queries = <<>> THEN {} ELSE {Whole}
      /\ UNCHANGED <<prototype, queries, said, executor, running, outcome>>
  BY DEF Execute, client_vars
<1>2. /\ waiting = {} /\ running = {}
      /\ \A i \in 1 .. Size : outcome[i] = <<>>
  BY <1>1 DEF IInv, NothingYet
<1>3. Size \in Nat /\ Size' = Size /\ (queries # <<>> => Size > 0)
  BY <1>1, BatchAssumption DEF IInv, Ranged, Size
<1>4. Ranged'
  BY <1>1, <1>2, <1>3 DEF IInv, Ranged, Whole
<1>5. OwnPoints' /\ NothingYet' /\ AnswersAreSingle'
  BY <1>1, <1>2, <1>3 DEF OwnPoints, NothingYet, AnswersAreSingle
<1>6. EveryQueryOnce'
  <2>1. WaitingApart' /\ RunningApart' /\ WaitingApartFromRunning'
    BY <1>1, <1>2 DEF WaitingApart, RunningApart, WaitingApartFromRunning
  <2>2. AnsweredOnce'
    <3> SUFFICES ASSUME NEW i \in 1 .. Size
                 PROVE  ToBeRun(i)' /\ outcome'[i] = <<>>
      BY <1>3 DEF AnsweredOnce
    <3>1. queries # <<>>
      BY <1>3, BatchAssumption DEF Size
    <3>2. /\ waiting' = {Whole}
          /\ Whole.first = 1 /\ Whole.end = Size
      BY <1>1, <3>1 DEF Whole
    <3>3. Whole \in waiting' /\ Whole.first <= i /\ i <= Whole.end
      BY <1>3, <3>2
    <3> QED BY <1>1, <1>2, <3>3 DEF ToBeRun
  <2> QED BY <2>1, <2>2 DEF EveryQueryOnce
<1> QED BY <1>4, <1>5, <1>6 DEF IInv

(* Split: the halves cover what the range covered and nothing else. *)
LEMMA SplitStep ==
  ASSUME IInv, phase = "running", NEW t \in waiting, Split(t) PROVE IInv'
<1>1. /\ waiting' = (waiting \ {t}) \cup Halves(t)
      /\ UNCHANGED <<prototype, queries, said, executor, phase, running,
                     outcome>>
  BY DEF Split, client_vars
<1>2. Size \in Nat /\ Size' = Size
  BY <1>1, SizeIsNat DEF IInv, Size
<1>3. t \in [first : 1 .. Size, end : 1 .. Size]
  BY DEF IInv, Ranged
<1>4. Length(t) \div 2 >= 1
  <2>1. Length(t) \div 2 \in Int
    BY <1>2, <1>3 DEF Length
  <2>2. Length(t) \div 2 >= StaticChunkLen /\ StaticChunkLen \in Nat \ {0}
    BY ChunkLenPositive DEF Split, IInv
  <2> QED BY <2>1, <2>2
<1>5. PICK mid \in 1 .. Size :
         /\ t.first < mid /\ mid <= t.end
         /\ Halves(t) = {[first |-> t.first, end |-> mid - 1],
                         [first |-> mid, end |-> t.end]}
  BY <1>2, <1>3, <1>4, HalvesMeet
<1> DEFINE l == [first |-> t.first, end |-> mid - 1]
           r == [first |-> mid, end |-> t.end]
<1>6. /\ waiting' = (waiting \ {t}) \cup {l, r}
      /\ l.first = t.first /\ l.end = mid - 1
      /\ r.first = mid /\ r.end = t.end
      /\ l \in [first : 1 .. Size, end : 1 .. Size] /\ l.first <= l.end
      /\ r \in [first : 1 .. Size, end : 1 .. Size] /\ r.first <= r.end
  BY <1>1, <1>2, <1>3, <1>5
<1> HIDE DEF l, r
<1>7. /\ \A u \in waiting : u.first \in 1 .. Size /\ u.end \in 1 .. Size
      /\ \A u \in running : u.at \in 1 .. Size /\ u.end \in 1 .. Size
      /\ t.first \in 1 .. Size /\ t.end \in 1 .. Size
  BY DEF IInv, Ranged
<1>8. Ranged'
  BY <1>1, <1>2, <1>6 DEF IInv, Ranged
<1>9. OwnPoints' /\ NothingYet' /\ AnswersAreSingle'
  BY <1>1, <1>2
  DEF IInv, OwnPoints, NothingYet, AnswersAreSingle, PointedAt
<1>10. EveryQueryOnce'
  <2>1. WaitingApart'
    <3> SUFFICES ASSUME NEW u \in waiting', NEW v \in waiting'
                 PROVE  u = v \/ u.end < v.first \/ v.end < u.first
      BY DEF WaitingApart
    <3>1. CASE u \in waiting \ {t} /\ v \in waiting \ {t}
      BY <3>1 DEF IInv, EveryQueryOnce, WaitingApart
    <3>2. CASE u \in {l, r} /\ v \in waiting \ {t}
      <4>1. t.end < v.first \/ v.end < t.first
        BY <3>2 DEF IInv, EveryQueryOnce, WaitingApart
      <4> QED BY <1>2, <1>5, <1>6, <1>7, <3>2, <4>1
    <3>3. CASE u \in waiting \ {t} /\ v \in {l, r}
      <4>1. t.end < u.first \/ u.end < t.first
        BY <3>3 DEF IInv, EveryQueryOnce, WaitingApart
      <4> QED BY <1>2, <1>5, <1>6, <1>7, <3>3, <4>1
    <3>4. CASE u \in {l, r} /\ v \in {l, r}
      BY <1>2, <1>5, <1>6, <1>7, <3>4
    <3> QED BY <1>6, <3>1, <3>2, <3>3, <3>4
  <2>2. RunningApart'
    BY <1>1 DEF IInv, EveryQueryOnce, RunningApart
  <2>3. WaitingApartFromRunning'
    <3> SUFFICES ASSUME NEW u \in waiting', NEW x \in running
                 PROVE  u.end < x.at \/ x.end < u.first
      BY <1>1 DEF WaitingApartFromRunning
    <3>1. t.end < x.at \/ x.end < t.first
      BY DEF IInv, EveryQueryOnce, WaitingApartFromRunning
    <3>2. CASE u \in waiting \ {t}
      BY <3>2 DEF IInv, EveryQueryOnce, WaitingApartFromRunning
    <3>3. CASE u \in {l, r}
      BY <1>2, <1>5, <1>6, <1>7, <3>1, <3>3
    <3> QED BY <1>6, <3>2, <3>3
  <2>4. AnsweredOnce'
    <3>1. \A i \in 1 .. Size :
             (t.first <= i /\ i <= t.end) <=>
                \/ l.first <= i /\ i <= l.end
                \/ r.first <= i /\ i <= r.end
      BY <1>2, <1>5, <1>6, <1>7
    <3>2. \A i \in 1 .. Size : ToBeRun(i)' <=> ToBeRun(i)
      BY <1>1, <1>6, <3>1 DEF ToBeRun
    <3> QED BY <1>1, <1>2, <3>2 DEF IInv, EveryQueryOnce, AnsweredOnce
  <2> QED BY <2>1, <2>2, <2>3, <2>4 DEF EveryQueryOnce
<1> QED BY <1>8, <1>9, <1>10 DEF IInv

LEMMA BeginStep ==
  ASSUME IInv, phase = "running", NEW t \in waiting, Begin(t) PROVE IInv'
<1> DEFINE b == [at |-> t.first, end |-> t.end, point |-> None]
<1>1. /\ waiting' = waiting \ {t}
      /\ running' = running \cup {b}
      /\ UNCHANGED <<prototype, queries, said, executor, phase, outcome>>
  BY DEF Begin, client_vars
<1>2. Size \in Nat /\ Size' = Size
  BY <1>1, SizeIsNat DEF IInv, Size
<1>3. /\ \A u \in waiting : u.first \in 1 .. Size /\ u.end \in 1 .. Size
      /\ \A u \in running : u.at \in 1 .. Size /\ u.end \in 1 .. Size
      /\ t.first <= t.end
  BY DEF IInv, Ranged
<1>4. /\ b.at = t.first /\ b.end = t.end /\ b.point = None
      /\ b \in [at : 1 .. Size, end : 1 .. Size, point : Int]
  BY <1>3 DEF None
<1> HIDE DEF b
<1>5. Ranged'
  BY <1>1, <1>2, <1>3, <1>4 DEF IInv, Ranged
<1>6. OwnPoints' /\ NothingYet' /\ AnswersAreSingle'
  BY <1>1, <1>2, <1>4
  DEF IInv, OwnPoints, NothingYet, AnswersAreSingle, PointedAt
<1>7. EveryQueryOnce'
  <2>1. \A u \in waiting' : u.end < b.at \/ b.end < u.first
    BY <1>1, <1>3, <1>4 DEF IInv, EveryQueryOnce, WaitingApart
  <2>2. \A r \in running : r.end < b.at \/ b.end < r.at
    BY <1>3, <1>4 DEF IInv, EveryQueryOnce, WaitingApartFromRunning
  <2>3. WaitingApart'
    BY <1>1 DEF IInv, EveryQueryOnce, WaitingApart
  <2>4. RunningApart'
    BY <1>1, <2>2 DEF IInv, EveryQueryOnce, RunningApart
  <2>5. WaitingApartFromRunning'
    BY <1>1, <2>1 DEF IInv, EveryQueryOnce, WaitingApartFromRunning
  <2>6. AnsweredOnce'
    <3>1. \A i \in 1 .. Size : ToBeRun(i)' <=> ToBeRun(i)
      BY <1>1, <1>4 DEF ToBeRun
    <3> QED BY <1>1, <1>2, <3>1 DEF IInv, EveryQueryOnce, AnsweredOnce
  <2> QED BY <2>3, <2>4, <2>5, <2>6 DEF EveryQueryOnce
<1> QED BY <1>5, <1>6, <1>7 DEF IInv

(* SetQueryPoint: the copy is given the point of its own query. *)
LEMMA SetQueryPointStep ==
  ASSUME IInv, phase = "running", NEW r \in running, SetQueryPoint(r)
  PROVE  IInv'
<1> DEFINE b == [r EXCEPT !.point = queries[r.at]]
<1>1. /\ running' = (running \ {r}) \cup {b}
      /\ UNCHANGED <<prototype, queries, said, executor, phase, waiting,
                     outcome>>
  BY DEF SetQueryPoint, client_vars
<1>2. Size \in Nat /\ Size' = Size
  BY <1>1, SizeIsNat DEF IInv, Size
<1>3. r \in [at : 1 .. Size, end : 1 .. Size, point : Int] /\ r.at <= r.end
  BY DEF IInv, Ranged
<1>4. queries[r.at] \in Int
  BY <1>3, BatchAssumption DEF IInv, Ranged, Size
<1>5. /\ b.at = r.at /\ b.end = r.end /\ b.point = queries[r.at]
      /\ b \in [at : 1 .. Size, end : 1 .. Size, point : Int]
  BY <1>3, <1>4
<1> HIDE DEF b
<1>6. Ranged'
  BY <1>1, <1>2, <1>3, <1>5 DEF IInv, Ranged
<1>7. OwnPoints' /\ NothingYet' /\ AnswersAreSingle'
  BY <1>1, <1>2, <1>5
  DEF IInv, OwnPoints, NothingYet, AnswersAreSingle, PointedAt
<1>8. EveryQueryOnce'
  <2>1. WaitingApart' /\ RunningApart' /\ WaitingApartFromRunning'
    BY <1>1, <1>5
    DEF IInv, EveryQueryOnce, WaitingApart, RunningApart,
        WaitingApartFromRunning
  <2>2. \A i \in 1 .. Size : ToBeRun(i)' <=> ToBeRun(i)
    BY <1>1, <1>5 DEF ToBeRun
  <2>3. AnsweredOnce'
    BY <1>1, <1>2, <2>2 DEF IInv, EveryQueryOnce, AnsweredOnce
  <2> QED BY <2>1, <2>3 DEF EveryQueryOnce
<1> QED BY <1>6, <1>7, <1>8 DEF IInv

(* Deliver: the query leaves its range and is answered, once. *)
LEMMA DeliverStep ==
  ASSUME IInv, phase = "running", NEW r \in running, Deliver(r) PROVE IInv'
<1>1. /\ r.point # None
      /\ running' = (running \ {r}) \cup Step(r)
      /\ UNCHANGED <<prototype, queries, said, executor, phase, waiting>>
  BY DEF Deliver, client_vars
<1>2. PICK a \in Answers(Builder(r)) :
         outcome' = [outcome EXCEPT ![r.at] = Append(@, a)]
  BY DEF Deliver
<1>3. Size \in Nat /\ Size' = Size
  BY <1>1, SizeIsNat DEF IInv, Size
<1>4. /\ \A u \in waiting : u.first \in 1 .. Size /\ u.end \in 1 .. Size
      /\ \A u \in running : u.at \in 1 .. Size /\ u.end \in 1 .. Size
      /\ r.at <= r.end
  BY DEF IInv, Ranged
<1>5. outcome[r.at] = <<>>
  <2>1. ToBeRun(r.at)
    BY <1>4 DEF ToBeRun
  <2> QED BY <1>4, <2>1 DEF IInv, EveryQueryOnce, AnsweredOnce
<1>6. /\ outcome'[r.at] = <<a>>
      /\ \A i \in 1 .. Size : i # r.at => outcome'[i] = outcome[i]
      /\ DOMAIN outcome' = 1 .. Size
  BY <1>2, <1>4, <1>5 DEF IInv, Ranged
<1>7. a \in Answers(PointedAt(queries[r.at]))
  BY <1>1, <1>2 DEF Builder, IInv, OwnPoints
<1>8. \A b \in Step(r) : /\ b.at = r.at + 1 /\ b.end = r.end /\ b.at <= b.end
                         /\ b.point = None
                         /\ b \in [at : 1 .. Size, end : 1 .. Size, point : Int]
  BY <1>3, <1>4 DEF Step, None
<1>9. Ranged'
  BY <1>1, <1>3, <1>6, <1>8 DEF IInv, Ranged
<1>10. OwnPoints' /\ NothingYet'
  BY <1>1, <1>3, <1>8 DEF IInv, OwnPoints, NothingYet
<1>11. AnswersAreSingle'
  <2> SUFFICES ASSUME NEW i \in 1 .. Size, outcome'[i] # <<>>
               PROVE  outcome'[i][1] \in Answers(PointedAt(queries[i]))
    BY <1>1, <1>3 DEF AnswersAreSingle, PointedAt
  <2>1. CASE i = r.at
    BY <1>6, <1>7, <2>1
  <2>2. CASE i # r.at
    BY <1>6, <2>2 DEF IInv, AnswersAreSingle
  <2> QED BY <2>1, <2>2
<1>12. EveryQueryOnce'
  <2>1. WaitingApart'
    BY <1>1 DEF IInv, EveryQueryOnce, WaitingApart
  <2>2. RunningApart'
    <3>1. \A x \in running \ {r} : x.end < r.at \/ r.end < x.at
      BY DEF IInv, EveryQueryOnce, RunningApart
    <3>2. \A x \in running \ {r}, b \in Step(r) : x.end < b.at \/ b.end < x.at
      BY <1>3, <1>4, <1>8, <3>1
    <3>3. \A b, c \in Step(r) : b = c
      BY DEF Step
    <3> QED BY <1>1, <3>2, <3>3 DEF IInv, EveryQueryOnce, RunningApart
  <2>3. WaitingApartFromRunning'
    <3>1. \A t \in waiting : t.end < r.at \/ r.end < t.first
      BY DEF IInv, EveryQueryOnce, WaitingApartFromRunning
    <3>2. \A t \in waiting, b \in Step(r) : t.end < b.at \/ b.end < t.first
      BY <1>3, <1>4, <1>8, <3>1
    <3> QED BY <1>1, <3>2 DEF IInv, EveryQueryOnce, WaitingApartFromRunning
  <2>4. AnsweredOnce'
    <3> SUFFICES ASSUME NEW i \in 1 .. Size
                 PROVE  IF ToBeRun(i)' THEN outcome'[i] = <<>>
                        ELSE Len(outcome'[i]) = 1
      BY <1>3 DEF AnsweredOnce
    <3>1. CASE i = r.at
      <4>1. ~ToBeRun(i)'
        <5>1. \A t \in waiting : t.end < i \/ r.end < t.first
          BY <3>1 DEF IInv, EveryQueryOnce, WaitingApartFromRunning
        <5>2. \A x \in running \ {r} : x.end < i \/ r.end < x.at
          BY <3>1 DEF IInv, EveryQueryOnce, RunningApart
        <5>3. \A b \in Step(r) : i < b.at
          BY <1>3, <1>4, <1>8, <3>1
        <5>4. \A x \in running' : ~(x.at <= i /\ i <= x.end)
          BY <1>1, <1>3, <1>4, <1>8, <3>1, <5>2, <5>3
        <5>5. \A t \in waiting' : ~(t.first <= i /\ i <= t.end)
          BY <1>1, <1>3, <1>4, <3>1, <5>1
        <5> QED BY <5>4, <5>5 DEF ToBeRun
      <4> QED BY <1>6, <3>1, <4>1
    <3>2. CASE i # r.at
      <4>1. ToBeRun(i)' <=> ToBeRun(i)
        <5>1. (r.at <= i /\ i <= r.end) <=>
                 \E b \in Step(r) : b.at <= i /\ i <= b.end
          <6>1. CASE r.at = r.end
            BY <1>3, <1>4, <3>2, <6>1 DEF Step
          <6>2. CASE r.at # r.end
            <7>1. \E b \in Step(r) : TRUE
              BY <6>2 DEF Step
            <7> QED BY <1>3, <1>4, <1>8, <3>2, <7>1
          <6> QED BY <6>1, <6>2
        <5> QED BY <1>1, <5>1 DEF ToBeRun
      <4> QED BY <1>6, <3>2, <4>1 DEF IInv, EveryQueryOnce, AnsweredOnce
    <3> QED BY <3>1, <3>2
  <2> QED BY <2>1, <2>2, <2>3, <2>4 DEF EveryQueryOnce
<1> QED BY <1>9, <1>10, <1>11, <1>12 DEF IInv

(* Collect: each answer is what it was, or the same results in an order.   *)
LEMMA CollectOutcome ==
  ASSUME IInv, phase = "running", Collect
  PROVE  /\ \A i \in 1 .. Size : outcome[i] = <<outcome[i][1]>>
         /\ DOMAIN outcome' = 1 .. Size
         /\ \A i \in 1 .. Size :
               /\ outcome'[i] = <<outcome'[i][1]>>
               /\ \/ outcome'[i][1] = outcome[i][1]
                  \/ outcome'[i][1] \in Reordered(outcome[i][1])
<1>1. \A i \in 1 .. Size : ~ToBeRun(i)
  BY DEF Collect, ToBeRun
<1>2. \A i \in 1 .. Size : outcome[i] = <<outcome[i][1]>>
  <2> TAKE i \in 1 .. Size
  <2>1. Len(outcome[i]) = 1
    BY <1>1 DEF IInv, EveryQueryOnce, AnsweredOnce
  <2> QED BY <2>1 DEF IInv, Ranged
<1>3. DOMAIN outcome = 1 .. Size
  BY DEF IInv, Ranged
<1>4. CASE in_place \/ prototype.family # "best_n_within"
  BY <1>2, <1>3, <1>4 DEF Collect
<1>5. CASE ~in_place /\ prototype.family = "best_n_within"
  <2>1. PICK sorted \in [1 .. Size -> UNION {Collected(outcome[i][1]) :
                                               i \in 1 .. Size}] :
           /\ \A i \in 1 .. Size : sorted[i] \in Collected(outcome[i][1])
           /\ outcome' = [i \in 1 .. Size |-> <<sorted[i]>>]
    BY <1>5 DEF Collect
  <2>2. ASSUME NEW i \in 1 .. Size
        PROVE  /\ outcome'[i] = <<outcome'[i][1]>>
               /\ outcome'[i][1] \in Reordered(outcome[i][1])
    <3>1. outcome'[i] = <<sorted[i]>>
      BY <2>1
    <3>2. sorted[i] \in Reordered(outcome[i][1])
      BY <2>1 DEF Collected
    <3> QED BY <3>1, <3>2
  <2> QED BY <1>2, <2>1, <2>2
<1> QED BY <1>4, <1>5

(* So nothing is added and nothing dropped. *)
LEMMA CollectStep ==
  ASSUME IInv, phase = "running", Collect PROVE IInv'
<1>1. /\ phase' = "done"
      /\ UNCHANGED <<prototype, queries, said, executor, waiting, running>>
      /\ waiting = {} /\ running = {}
  BY DEF Collect, client_vars
<1>2. Size \in Nat /\ Size' = Size
  BY <1>1, SizeIsNat DEF IInv, Size
<1>3. \A i \in 1 .. Size : ~ToBeRun(i)'
  BY <1>1 DEF ToBeRun
<1>4. /\ DOMAIN outcome' = 1 .. Size
      /\ \A i \in 1 .. Size : outcome'[i] = <<outcome'[i][1]>>
  BY CollectOutcome
<1>5. \A i \in 1 .. Size : Len(outcome'[i]) = 1
  <2> TAKE i \in 1 .. Size
  <2> DEFINE x == outcome'[i][1]
  <2>1. outcome'[i] = <<x>>
    BY <1>4
  <2> HIDE DEF x
  <2> QED BY <2>1
<1>6. Ranged'
  BY <1>1, <1>2, <1>4 DEF IInv, Ranged
<1>7. OwnPoints' /\ NothingYet' /\ AnswersAreSingle'
  BY <1>1 DEF OwnPoints, NothingYet, AnswersAreSingle
<1>8. EveryQueryOnce'
  BY <1>1, <1>2, <1>3, <1>5
  DEF EveryQueryOnce, WaitingApart, RunningApart, WaitingApartFromRunning,
      AnsweredOnce
<1> QED BY <1>6, <1>7, <1>8 DEF IInv

-----------------------------------------------------------------------------
LEMMA NextStep == ASSUME IInv, [Next]_vars PROVE IInv'
<1>1. CASE UNCHANGED vars
  BY <1>1 DEF vars, client_vars, IInv, Ranged, OwnPoints, NothingYet,
     EveryQueryOnce, WaitingApart, RunningApart, WaitingApartFromRunning,
     AnsweredOnce, AnswersAreSingle, ToBeRun, Size, PointedAt
<1>2. CASE Call
  BY <1>2, ConfigureStep, ExecuteStep DEF Call
<1>3. CASE Work
  BY <1>3, SplitStep, BeginStep, SetQueryPointStep, DeliverStep, CollectStep
  DEF Work
<1> QED BY <1>1, <1>2, <1>3 DEF Next

(* The steps of a batch, and of the caller before it, keep the invariant.  *)
THEOREM Invariance == Spec => []IInv
BY InitIInv, NextStep, PTL DEF Spec

(* None of a batch's queries is left out or run twice (BatchResults and    *)
(* the visitor of for_each get one answer per index), for every batch,     *)
(* number of threads and way of halving.                                   *)
THEOREM EveryQueryOnceTheorem == Spec => []EveryQueryOnce
<1>1. IInv => EveryQueryOnce
  BY DEF IInv
<1> QED BY <1>1, Invariance, PTL

(* Every answer is one to the point of its own query, for every builder,   *)
(* batch and interleaving of the threads.                                  *)
THEOREM AnswersAreSingleTheorem == Spec => []AnswersAreSingle
<1>1. IInv => AnswersAreSingle
  BY DEF IInv
<1> QED BY <1>1, Invariance, PTL

-----------------------------------------------------------------------------
(* The builder: whatever methods its type offers, what its family and its  *)
(* space need has been given.                                              *)
Complete(b) ==
    /\ b.space = "periodic" => b.box_size # None
    /\ b.family \in {"nearest_n", "nearest_n_within", "best_n_within"}
          => b.max_qty # None

Builders ==
    [query : Int, box_size : Int, max_qty : Int, result_capacity : Int,
     radius : Int,
     family : {"root", "nearest_one", "approx_nearest_one", "nearest_n",
               "nearest_n_within", "within", "best_n_within"},
     space : {"cartesian", "periodic"}, wants : SUBSET Fields,
     sorted : BOOLEAN, exclusive : BOOLEAN]

BuilderInv ==
    /\ prototype \in Builders
    /\ Complete(prototype)
    /\ phase # "configuring" => prototype.family # "root"

LEMMA RootComplete ==
  ASSUME NEW query \in Int
  PROVE  Root(query) \in Builders /\ Complete(Root(query))
BY DEF Root, Builders, Complete, None, Fields

LEMMA SelectComplete ==
  ASSUME NEW b \in Builders, Complete(b), NEW qty \in Int, NEW radius \in Int,
         NEW family \in {"root", "nearest_one", "nearest_n", "within",
                         "best_n_within"},
         family \in {"nearest_n", "best_n_within"} => qty # None
  PROVE  /\ Select(b, family, qty, radius) \in Builders
         /\ Complete(Select(b, family, qty, radius))
BY DEF Select, Builders, Complete, Fields

(* A method leads from a complete builder to a complete one. *)
LEMMA ApplyComplete ==
  ASSUME NEW b \in Builders, Complete(b), NEW call \in Calls, Offers(b, call)
  PROVE  Apply(b, call) \in Builders /\ Complete(Apply(b, call))
<1>1. /\ None \in Int /\ Infinity \in Int
      /\ \A n \in Quantities : n \in Int /\ n # None
      /\ \A box \in Boxes : box \in Int /\ box # None
      /\ \A r \in Radii : r \in Int
  BY ArgumentsAssumption DEF None
<1>2. CASE call.op = "periodic_boundary_condition"
  <2> DEFINE box == call.box
  <2>1. box \in Int /\ box # None
    <3>1. call.box \in Boxes
      BY <1>2 DEF Calls
    <3> QED BY <1>1, <3>1
  <2> HIDE DEF box
  <2>2. /\ Select(b, "root", None, None) \in Builders
        /\ Complete(Select(b, "root", None, None))
    BY <1>1, SelectComplete
  <2>3. /\ PeriodicBoundaryCondition(b, box) \in Builders
        /\ Complete(PeriodicBoundaryCondition(b, box))
    <3> DEFINE selected == Select(b, "root", None, None)
    <3>1. PeriodicBoundaryCondition(b, box) =
             [selected EXCEPT !.space = "periodic", !.box_size = box]
      BY DEF PeriodicBoundaryCondition
    <3>2. selected \in Builders /\ Complete(selected)
      BY <2>2
    <3> HIDE DEF selected
    <3>3. PeriodicBoundaryCondition(b, box) \in Builders
      BY <2>1, <3>1, <3>2 DEF Builders
    <3> QED BY <2>1, <3>1, <3>2, <3>3 DEF Builders, Complete
  <2> QED BY <1>2, <2>3 DEF Apply, box
<1>3. CASE call.op = "nearest_one"
  BY <1>1, <1>3, SelectComplete DEF Apply
<1>4. CASE call.op \in {"nearest_n", "best_n_within"}
  <2>1. call.n \in Int /\ call.n # None
    <3>1. call.n \in Quantities
      BY <1>4 DEF Calls
    <3> QED BY <1>1, <3>1
  <2>2. call.op = "best_n_within" => call.radius \in Radii
    BY <1>4 DEF Calls
  <2>3. CASE call.op = "nearest_n"
    <3>1. Apply(b, call) = Select(b, "nearest_n", call.n, Infinity)
      BY <2>3 DEF Apply
    <3> QED BY <1>1, <2>1, <3>1, SelectComplete
  <2>4. CASE call.op = "best_n_within"
    <3>1. Apply(b, call) = Select(b, "best_n_within", call.n, call.radius)
      BY <2>4 DEF Apply
    <3>2. call.radius \in Int
      BY <1>1, <2>2, <2>4
    <3> QED BY <2>1, <3>1, <3>2, SelectComplete
  <2> QED BY <1>4, <2>3, <2>4
<1>5. CASE call.op = "within"
  <2>1. call.radius \in Int /\ b.family \in {"root", "nearest_n"}
    <3>1. call.radius \in Radii
      BY <1>5 DEF Calls
    <3> QED BY <1>1, <1>5, <3>1 DEF Offers
  <2>2. CASE b.family = "root"
    <3>1. Apply(b, call) = Select(b, "within", None, call.radius)
      BY <1>5, <2>2 DEF Apply
    <3> QED BY <1>1, <2>1, <3>1, SelectComplete
  <2>3. CASE b.family = "nearest_n"
    <3>1. Apply(b, call) = AddRadius(b, call.radius)
      BY <1>5, <2>3 DEF Apply
    <3> QED BY <2>1, <2>3, <3>1 DEF AddRadius, Builders, Complete
  <2> QED BY <2>1, <2>2, <2>3
<1>6. CASE call.op = "approx"
  BY <1>1, <1>6 DEF Apply, Approx, Builders, Complete
<1>7. CASE call.op \in {"unsorted", "exclusive_boundaries"}
  BY <1>7 DEF Apply, Unsorted, ExclusiveBoundaries, Builders, Complete
<1>8. CASE call.op = "with_result_capacity"
  <2>1. call.n \in Int
    <3>1. call.n \in Quantities
      BY <1>8 DEF Calls
    <3> QED BY <1>1, <3>1
  <2> QED BY <1>8, <2>1 DEF Apply, WithResultCapacity, Builders, Complete
<1>9. CASE call.op \in {"with", "without"}
  <2>1. call.field \in Fields
    BY <1>9 DEF Calls
  <2> QED BY <1>9, <2>1 DEF Apply, Including, Excluding, Builders, Complete
<1> QED BY <1>2, <1>3, <1>4, <1>5, <1>6, <1>7, <1>8, <1>9 DEF Calls

LEMMA BuilderInvInit == Init => BuilderInv
<1> SUFFICES ASSUME Init PROVE BuilderInv
  OBVIOUS
<1>1. (IF queries = <<>> THEN None ELSE queries[1]) \in Int
  BY BatchAssumption DEF Init, None
<1> QED BY <1>1, RootComplete DEF Init, BuilderInv

LEMMA BuilderInvStep == BuilderInv /\ [Next]_vars => BuilderInv'
<1> SUFFICES ASSUME BuilderInv, [Next]_vars PROVE BuilderInv'
  OBVIOUS
<1>1. ASSUME NEW call \in Calls, Configure(call) PROVE BuilderInv'
  BY <1>1, ApplyComplete DEF Configure, BuilderInv
<1>2. ASSUME NEW v \in BOOLEAN, Execute(v) PROVE BuilderInv'
  BY <1>2 DEF Execute, BuilderInv, client_vars, Complete
<1>3. ASSUME Work PROVE BuilderInv'
  BY <1>3 DEF Work, Split, Begin, SetQueryPoint, Deliver, Collect,
              BuilderInv, client_vars, Complete
<1>4. CASE UNCHANGED vars
  BY <1>4 DEF vars, client_vars, BuilderInv, Complete
<1> QED BY <1>1, <1>2, <1>3, <1>4 DEF Next, Call

(* The unwraps of execute never fail: no sequence of the methods a builder *)
(* offers leads to a periodic query without a box, or to a query for n     *)
(* entries without an n, for any arguments that are not zero.              *)
THEOREM NothingMissingTheorem == Spec => []NothingMissing
<1>1. BuilderInv => NothingMissing
  BY DEF BuilderInv, NothingMissing, Executable, Complete
<1>2. Spec => []BuilderInv
  BY BuilderInvInit, BuilderInvStep, PTL DEF Spec
<1> QED BY <1>1, <1>2, PTL

-----------------------------------------------------------------------------
(* The refinement.  The prototype, the queries, the phase and what was     *)
(* delivered are those of the promise; each step is one of its steps or    *)
(* leaves them as they are.                                                *)
LEMMA BatchInitImplements == Init => Abstract!Init
BY BatchAssumption DEF Init, Abstract!Init, Size

LEMMA DeliverImplements ==
  ASSUME IInv, phase = "running", NEW r \in running, Deliver(r)
  PROVE  \E i \in DOMAIN queries : Abstract!Deliver(i)
<1>1. r.point = queries[r.at]
  BY DEF Deliver, IInv, OwnPoints
<1>2. r.at \in 1 .. Size /\ r.at <= r.end
  BY DEF IInv, Ranged
<1>3. outcome[r.at] = <<>>
  <2>1. r.end \in 1 .. Size
    BY DEF IInv, Ranged
  <2>2. ToBeRun(r.at)
    BY <1>2, <2>1, SizeIsNat DEF ToBeRun, IInv
  <2> QED BY <1>2, <2>2 DEF IInv, EveryQueryOnce, AnsweredOnce
<1>4. PICK a \in Answers(Builder(r)) :
         outcome' = [outcome EXCEPT ![r.at] = Append(@, a)]
  BY DEF Deliver
<1>5. outcome' = [outcome EXCEPT ![r.at] = <<a>>]
  BY <1>2, <1>3, <1>4 DEF IInv, Ranged
<1>6. a \in Answers(Abstract!Single(r.at))
  BY <1>1, <1>4 DEF Builder, PointedAt, Abstract!Single
<1>7. r.at \in DOMAIN queries
  BY <1>2, BatchAssumption DEF IInv, Ranged, Size
<1>8. UNCHANGED <<prototype, queries, phase>>
  BY DEF Deliver, client_vars
<1> QED BY <1>3, <1>5, <1>6, <1>7, <1>8 DEF Abstract!Deliver

LEMMA CollectImplements ==
  ASSUME IInv, phase = "running", Collect PROVE Abstract!Return
<1>1. DOMAIN queries = 1 .. Size
  BY BatchAssumption DEF IInv, Ranged, Size
<1>2. \A i \in 1 .. Size : outcome[i] # <<>>
  <2> TAKE i \in 1 .. Size
  <2>1. outcome[i] = <<outcome[i][1]>>
    BY CollectOutcome
  <2> QED BY <2>1
<1>3. ASSUME NEW i \in 1 .. Size
      PROVE  outcome'[i][1] \in Reordered(outcome[i][1])
  <2>1. CASE outcome'[i][1] \in Reordered(outcome[i][1])
    BY <2>1
  <2>2. CASE outcome'[i][1] = outcome[i][1]
    <3> DEFINE a == outcome[i][1]
    <3>1. a = [k \in DOMAIN a |-> a[k]]
      <4>1. outcome[i][1] \in Answers(PointedAt(queries[i]))
        BY <1>2 DEF IInv, AnswersAreSingle
      <4> QED BY <4>1 DEF Answers
    <3> HIDE DEF a
    <3> DEFINE same == [n \in DOMAIN a |-> n]
    <3>2. same \in Bijection(DOMAIN a, DOMAIN a)
      BY DEF Bijection, Injection, Surjection, IsInjective
    <3>3. [k \in DOMAIN a |-> a[same[k]]] = [k \in DOMAIN a |-> a[k]]
      OBVIOUS
    <3> HIDE DEF same
    <3>4. a \in Reordered(a)
      BY <3>1, <3>2, <3>3 DEF Reordered
    <3> QED BY <2>2, <3>4 DEF a
  <2> QED BY <2>1, <2>2, CollectOutcome
<1>4. phase' = "done" /\ UNCHANGED <<prototype, queries>>
  BY DEF Collect, client_vars
<1>5. \A a : Abstract!Reordered(a) = Reordered(a)
  BY DEF Abstract!Reordered, Reordered, Abstract!Bijection, Bijection,
         Abstract!Injection, Injection, Abstract!Surjection, Surjection,
         Abstract!IsInjective, IsInjective
<1> QED BY <1>1, <1>2, <1>3, <1>4, <1>5, CollectOutcome DEF Abstract!Return

LEMMA BatchStepImplements ==
  IInv /\ [Next]_vars => [Abstract!Next]_(Abstract!vars)
<1> SUFFICES ASSUME IInv, [Next]_vars
             PROVE  Abstract!Next \/ UNCHANGED Abstract!vars
  OBVIOUS
<1>1. ASSUME NEW call \in Calls, Configure(call) PROVE Abstract!Configure
  BY <1>1 DEF Configure, Abstract!Configure
<1>2. ASSUME NEW v \in BOOLEAN, Execute(v) PROVE Abstract!Configure
  BY <1>2 DEF Execute, Abstract!Configure, client_vars
<1>3. ASSUME NEW t \in waiting, Split(t) \/ Begin(t)
      PROVE  UNCHANGED Abstract!vars
  BY <1>3 DEF Split, Begin, client_vars, Abstract!vars
<1>4. ASSUME NEW r \in running, SetQueryPoint(r)
      PROVE  UNCHANGED Abstract!vars
  BY <1>4 DEF SetQueryPoint, client_vars, Abstract!vars
<1>5. CASE UNCHANGED vars
  BY <1>5 DEF vars, client_vars, Abstract!vars
<1> QED
  BY <1>1, <1>2, <1>3, <1>4, <1>5, DeliverImplements, CollectImplements
  DEF Next, Call, Work, Abstract!Next

(* A batch implements the promise of QueryBatch, for every builder, batch  *)
(* and pool: however the range is halved and the threads interleave, what  *)
(* is delivered for a query is one of the answers of the query alone, it   *)
(* is delivered once, and collect_batch hands all of it over.              *)
THEOREM BatchImplements == Spec => ImplementsQueryBatch
<1>1. Spec => []IInv
  BY Invariance
<1> QED
  BY <1>1, BatchInitImplements, BatchStepImplements, PTL
  DEF Spec, ImplementsQueryBatch, Abstract!Spec
=============================================================================
