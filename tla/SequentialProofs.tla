-------------------------- MODULE SequentialProofs --------------------------
(***************************************************************************)
(* Proofs about the three parts that run on their own: the evaluation      *)
(* command, for every gold set, every set of predictions and caches, and   *)
(* every target; the email parser, for every message; and a tool call, for *)
(* every table and whatever arguments.                                     *)
(***************************************************************************)
EXTENDS Evaluation, EmailParsing, Toolbox, FiniteSetTheorems, TLAPS

-----------------------------------------------------------------------------
(***************************************************************************)
(* Induction over numbers, without an operator as a parameter: what is to  *)
(* be shown of each number is given as the set of those it holds of, and a *)
(* number outside has a least one below it.  And what recursion defines is *)
(* a function, its step given as a function too.                           *)
(***************************************************************************)

\* A set of natural numbers has a least element: the interval from 0 to it is
\* a least one among the intervals from 0 to the numbers of the set.
LEMMA LeastElement ==
  ASSUME NEW S, S \subseteq Nat, S # {}
  PROVE  \E x \in S : \A y \in S : x <= y
<1> DEFINE Intervals == {0 .. x : x \in S}
           Below     == StrictSubsetOrdering(Nat)
<1>1. Intervals \subseteq FiniteSubsetsOf(Nat)
  <2> SUFFICES ASSUME NEW x \in S
               PROVE  0 .. x \in FiniteSubsetsOf(Nat)
    OBVIOUS
  <2>1. x \in Int /\ 0 \in Int
    OBVIOUS
  <2>2. IsFiniteSet(0 .. x)
    BY <2>1, FS_Interval
  <2> QED BY <2>2 DEF FiniteSubsetsOf
<1>2. IsWellFoundedOn(Below, FiniteSubsetsOf(Nat))
  BY FS_StrictSubsetOrderingWellFounded
<1>3. \E m \in Intervals : \A y \in Intervals : <<y, m>> \notin Below
  <2>1. Intervals # {}
    OBVIOUS
  <2> HIDE DEF Intervals, Below
  <2> QED BY <1>1, <1>2, <2>1, WFMin
<1>4. PICK x \in S : \A y \in Intervals : <<y, 0 .. x>> \notin Below
  BY <1>3
<1>5. ASSUME NEW y \in S, y < x
      PROVE  FALSE
  <2>1. 0 .. y \in Intervals
    OBVIOUS
  <2>2. x \in 0 .. x /\ x \notin 0 .. y /\ 0 .. y \subseteq 0 .. x
    BY <1>5
  <2>3. 0 .. y \in SUBSET Nat /\ 0 .. x \in SUBSET Nat
    OBVIOUS
  <2>4. <<0 .. y, 0 .. x>> \in Below
    BY <2>2, <2>3 DEF StrictSubsetOrdering
  <2> QED BY <1>4, <2>1, <2>4
<1> QED BY <1>5

\* Induction, for the numbers that are in a set.
LEMMA InductionUpTo ==
  ASSUME NEW N \in Nat, NEW S, 0 \in S,
         \A n \in 0 .. N : n + 1 \in 0 .. N /\ n \in S => n + 1 \in S
  PROVE  0 .. N \subseteq S
<1> SUFFICES ASSUME 0 .. N \ S # {} PROVE FALSE
  OBVIOUS
<1>1. PICK x \in 0 .. N \ S : \A y \in 0 .. N \ S : x <= y
  <2>1. 0 .. N \ S \subseteq Nat
    OBVIOUS
  <2> QED BY <2>1, LeastElement
<1>2. x # 0 /\ x - 1 \in 0 .. N /\ x - 1 \in S
  BY <1>1
<1> QED BY <1>1, <1>2

\* f follows the recursion up to m: it starts at base and step G[n, v] leads
\* from value v at n - 1 to the value at n.
Follows(f, m, V, base, G) ==
  /\ f \in [0 .. m -> V]
  /\ f[0] = base
  /\ \A n \in 1 .. m : f[n] = G[n, f[n - 1]]

LEMMA FollowsFurther ==
  ASSUME NEW N \in Nat, NEW V, NEW base \in V, NEW G \in [(1 .. N) \X V -> V],
         NEW m \in 0 .. N, m + 1 \in 0 .. N, NEW f, Follows(f, m, V, base, G)
  PROVE  \E g : Follows(g, m + 1, V, base, G)
<1>1. PICK v \in V : v = G[m + 1, f[m]]
  <2>1. m + 1 \in 1 .. N /\ m \in 0 .. m
    OBVIOUS
  <2>2. f[m] \in V
    BY <2>1 DEF Follows
  <2>3. <<m + 1, f[m]>> \in (1 .. N) \X V
    BY <2>1, <2>2
  <2>4. G[m + 1, f[m]] \in V
    BY <2>3
  <2> QED BY <2>4
<1>2. PICK g : g = [n \in 0 .. m + 1 |-> IF n = m + 1 THEN v ELSE f[n]]
  OBVIOUS
<1>3. \A n \in 0 .. m : g[n] = f[n] /\ f[n] \in V
  <2>1. \A n \in 0 .. m : n \in 0 .. m + 1 /\ n # m + 1
    OBVIOUS
  <2>2. \A n \in 0 .. m : f[n] \in V
    BY DEF Follows
  <2> QED BY <1>2, <2>1, <2>2
<1>4. g[m + 1] = v
  BY <1>2
<1>5. g \in [0 .. m + 1 -> V]
  <2>1. \A n \in 0 .. m + 1 : n # m + 1 => n \in 0 .. m
    OBVIOUS
  <2> QED BY <1>2, <1>3, <2>1
<1>6. g[0] = base
  <2>1. f[0] = base
    BY DEF Follows
  <2>2. 0 \in 0 .. m
    OBVIOUS
  <2> QED BY <1>3, <2>1, <2>2
<1>7. ASSUME NEW n \in 1 .. m + 1
      PROVE  g[n] = G[n, g[n - 1]]
  <2>1. CASE n = m + 1
    <3>1. n - 1 = m /\ m \in 0 .. m
      BY <2>1
    <3>2. g[n - 1] = f[m]
      BY <1>3, <3>1
    <3> QED BY <1>1, <1>4, <2>1, <3>2
  <2>2. CASE n # m + 1
    <3>1. n \in 1 .. m /\ n \in 0 .. m /\ n - 1 \in 0 .. m
      BY <2>2
    <3>2. f[n] = G[n, f[n - 1]]
      BY <3>1 DEF Follows
    <3> QED BY <1>3, <3>1, <3>2
  <2> QED BY <2>1, <2>2
<1> QED BY <1>5, <1>6, <1>7 DEF Follows

\* A function that is defined by recursion on 0 .. N exists.
LEMMA RecursionExists ==
  ASSUME NEW N \in Nat, NEW V, NEW base \in V, NEW G \in [(1 .. N) \X V -> V]
  PROVE  \E f : Follows(f, N, V, base, G)
<1> DEFINE S == {m \in 0 .. N : \E f : Follows(f, m, V, base, G)}
<1>1. 0 \in S
  <2>1. Follows([n \in 0 .. 0 |-> base], 0, V, base, G)
    BY DEF Follows
  <2> QED BY <2>1
<1>2. ASSUME NEW n \in 0 .. N, n + 1 \in 0 .. N, n \in S
      PROVE  n + 1 \in S
  BY <1>2, FollowsFurther
<1> HIDE DEF S
<1>3. N \in S
  BY <1>1, <1>2, InductionUpTo
<1> QED BY <1>3 DEF S

-----------------------------------------------------------------------------
(***************************************************************************)
(* The sweep                                                               *)
(***************************************************************************)

\* The emails that a threshold routes can be counted.
LEMMA PassingIsFinite ==
  ASSUME NEW t
  PROVE  /\ IsFiniteSet(Passing(t))
         /\ Cardinality(Passing(t)) \in Nat /\ Cardinality(Good(t)) \in Nat
<1>1. IsFiniteSet(DOMAIN Gold)
  <2>1. DOMAIN Gold = 1 .. Len(Gold) /\ Len(Gold) \in Nat
    BY GoldAssumption
  <2>. QED
    BY <2>1, FS_Interval
<1>2. Passing(t) \subseteq DOMAIN Gold /\ Good(t) \subseteq DOMAIN Gold
  BY DEF Passing, Good
<1>3. IsFiniteSet(Passing(t)) /\ IsFiniteSet(Good(t))
  BY <1>1, <1>2, FS_Subset
<1>. QED
  BY <1>3, FS_CardinalityType

\* A row meets the target exactly if its threshold suffices.
LEMMA RowMeets ==
  ASSUME NEW t
  PROVE  Row(t).threshold = t /\ (Meets(Row(t)) <=> Suffices(t))
<1>1. Routed(t) = Passing(t) /\ {i \in Routed(t) : Correct(i)} = Good(t)
  BY DEF Routed, Passing, Good, Predicted
<1>2. Row(t) = [threshold |-> t, routed |-> Cardinality(Passing(t)),
                  correct |-> Cardinality(Good(t))]
  BY <1>1 DEF Row
<1>3. Cardinality(Passing(t)) > 0 <=> Passing(t) # {}
  BY PassingIsFinite, FS_EmptySet
<1>. QED
  BY <1>2, <1>3 DEF Meets, Suffices

\* A higher threshold routes no email that a lower one does not.
LEMMA PassingShrinks ==
  ASSUME NEW j \in Sweeps, NEW k \in Sweeps, k <= j,
         \A x \in DOMAIN preds : preds[x] \in Prediction
  PROVE  Passing(Threshold(j)) \subseteq Passing(Threshold(k))
<1>1. Threshold(k) <= Threshold(j) /\ Threshold(k) \in Int /\ Threshold(j) \in Int
  BY DEF Threshold, Sweeps, Lowest, Increment
<1>2. ASSUME NEW i \in Passing(Threshold(j))
      PROVE  i \in Passing(Threshold(k))
  <2>1. i \in DOMAIN Gold /\ Gold[i].id \in DOMAIN preds
        /\ preds[Gold[i].id].confidence >= Threshold(j)
    BY DEF Passing
  <2>2. preds[Gold[i].id].confidence \in Int
    BY <2>1, PredictionAssumption
  <2>3. preds[Gold[i].id].confidence >= Threshold(k)
    BY <1>1, <2>1, <2>2
  <2>. QED
    BY <2>1, <2>3 DEF Passing
<1>. QED
  BY <1>2

-----------------------------------------------------------------------------
(***************************************************************************)
(* The invariant: the rows of the sweep are those of its thresholds, and   *)
(* the rows that were passed over do not suffice.                          *)
(***************************************************************************)
PredsAreRead == \A x \in DOMAIN preds : preds[x] \in Prediction

CacheIsRead ==
  cache \notin {Absent, Torn} => \A x \in DOMAIN cache : cache[x] \in Prediction

RowsAreSwept ==
  /\ rows \in Seq([threshold : Int, routed : Nat, correct : Nat]) /\ Len(rows) <= 10
  /\ step \in {"sweep", "pick"} =>
       \A k \in 1 .. Len(rows) : rows[k] = Row(Threshold(k))

\* The variable of the sweep is off by an error for each addition.
SweptSoFar ==
  /\ thr \in Int
  /\ step \in {"record", "write"} => thr = Lowest * Unit
  /\ step = "sweep" =>
       /\ thr >= Threshold(Len(rows) + 1) * Unit - Len(rows)
       /\ thr <= Threshold(Len(rows) + 1) * Unit + Len(rows)

NotPicked ==
  /\ step \in {"record", "write"} => rows = << >> /\ pick = 1
  /\ step \in {"record", "write", "sweep", "pick"} =>
       recommended = Highest /\ targetMet = FALSE
  /\ step = "sweep" => pick = 1
  /\ step = "pick" =>
       /\ Len(rows) = 10 /\ pick \in 1 .. 11
       /\ \A j \in 1 .. pick - 1 : ~Suffices(Threshold(j))

StepType == step \in {"over", "record", "write", "sweep", "pick", "report"}

EvalInv == /\ StepType /\ PredsAreRead /\ CacheIsRead /\ SweptSoFar
           /\ RowsAreSwept /\ NotPicked /\ RecommendedIsLowest

\* It holds at first.
LEMMA EvalInvInit == EvalInit => EvalInv
<1>. SUFFICES ASSUME EvalInit PROVE EvalInv
  OBVIOUS
<1>1. StepType /\ RowsAreSwept /\ NotPicked /\ RecommendedIsLowest
  BY DEF EvalInit, StepType, RowsAreSwept, NotPicked, RecommendedIsLowest
<1>2. PredsAreRead
  BY DEF EvalInit, PredsAreRead
<1>3. CacheIsRead
  BY CacheAssumption DEF EvalInit, CacheIsRead
<1>4. SweptSoFar
  BY FloatAssumption DEF EvalInit, SweptSoFar, Lowest
<1>. QED
  BY <1>1, <1>2, <1>3, <1>4 DEF EvalInv

\* The steps that start and end a run leave no row.
LEMMA RunSteps ==
  ASSUME EvalInv, Replay \/ Record \/ Predict \/ Truncate \/ Write \/ End
  PROVE  EvalInv'
<1>. USE DEF EvalInv
<1>0. SweptSoFar'
  <2>1. Lowest * Unit \in Int /\ Threshold(1) = Lowest
    BY FloatAssumption DEF Threshold, Lowest, Increment
  <2>2. CASE Replay \/ Record \/ Predict \/ Truncate \/ Write
    <3>1. thr' = Lowest * Unit
      BY <2>2 DEF Replay, Record, Predict, Truncate, Write, Calibrating, SweptSoFar
    <3>2. step' = "sweep" => Len(rows') = 0
      BY <2>2 DEF Replay, Record, Predict, Truncate, Write, Calibrating, NotPicked
    <3>. QED
      BY <2>1, <3>1, <3>2 DEF SweptSoFar
  <2>3. CASE End
    BY <2>3 DEF End, SweptSoFar
  <2>. QED
    BY <2>2, <2>3
<1>1. CASE Replay
  <2>1. rows' = << >> /\ pick' = 1 /\ recommended' = Highest /\ targetMet' = FALSE
        /\ step' \in {"sweep", "over"} /\ cache' = cache
    BY <1>1 DEF Replay, Calibrating
  <2>2. PredsAreRead' /\ CacheIsRead'
    BY <1>1 DEF Replay, PredsAreRead, CacheIsRead
  <2>3. StepType' /\ RecommendedIsLowest'
    BY <2>1 DEF StepType, RecommendedIsLowest
  <2>4. RowsAreSwept'
    BY <2>1 DEF RowsAreSwept
  <2>5. NotPicked'
    BY <2>1 DEF NotPicked
  <2>. QED
    BY <1>0, <2>2, <2>3, <2>4, <2>5
<1>2. CASE Record
  <2>1. rows' = << >> /\ pick' = 1 /\ recommended' = Highest /\ targetMet' = FALSE
        /\ step' = "record" /\ cache' = cache /\ preds' = << >>
    BY <1>2 DEF Record, Calibrating
  <2>. QED
    BY <1>0, <2>1 DEF StepType, RowsAreSwept, NotPicked, RecommendedIsLowest, PredsAreRead, CacheIsRead
<1>3. CASE Predict
  <2>1. step = "record" /\ step' = "record" /\ cache' = cache /\ rows' = rows
        /\ pick' = pick /\ recommended' = recommended /\ targetMet' = targetMet
    BY <1>3 DEF Predict
  <2>2. PICK i \in Unpredicted, p \in Prediction : preds' = Extend(preds, Gold[i].id, p)
    BY <1>3 DEF Predict
  <2>3. PredsAreRead'
    BY <2>2 DEF PredsAreRead, Extend
  <2>. QED
    BY <1>0, <2>1, <2>3 DEF StepType, RowsAreSwept, NotPicked, RecommendedIsLowest, CacheIsRead
<1>4. CASE Truncate
  <2>1. step = "record" /\ step' = "write" /\ cache' = Torn /\ preds' = preds /\ rows' = rows
        /\ pick' = pick /\ recommended' = recommended /\ targetMet' = targetMet
    BY <1>4 DEF Truncate
  <2>. QED
    BY <1>0, <2>1 DEF StepType, RowsAreSwept, NotPicked, RecommendedIsLowest, PredsAreRead, CacheIsRead
<1>5. CASE Write
  <2>1. step = "write" /\ step' = "sweep" /\ cache' = preds /\ preds' = preds /\ rows' = rows
        /\ pick' = pick /\ recommended' = recommended /\ targetMet' = targetMet
    BY <1>5 DEF Write
  <2>2. rows = << >> /\ pick = 1
    BY <2>1 DEF NotPicked
  <2>. QED
    BY <1>0, <2>1, <2>2 DEF StepType, RowsAreSwept, NotPicked, RecommendedIsLowest, PredsAreRead, CacheIsRead
<1>6. CASE End
  BY <1>0, <1>6 DEF End, StepType, RowsAreSwept, NotPicked, RecommendedIsLowest, PredsAreRead, CacheIsRead
<1>. QED
  BY <1>1, <1>2, <1>3, <1>4, <1>5, <1>6

\* Truncation undoes what an error below half a hundredth did.
LEMMA RoundsBack ==
  ASSUME NEW c \in Int, NEW f \in Int, f >= c * Unit - 9, f <= c * Unit + 9
  PROVE  Round2(f) = c
<1>1. Unit \in Nat \ {0} /\ Unit \div 2 \in Nat
      /\ Unit \div 2 >= 9 /\ Unit \div 2 + 9 < Unit
  BY FloatAssumption
<1> DEFINE product == c * Unit
           left    == (f - product) + Unit \div 2
<1>2. product \in Int
  BY <1>1
<1>3. left \in 0 .. Unit - 1 /\ f + Unit \div 2 = product + left
  <2>1. f >= product - 9 /\ f <= product + 9
    OBVIOUS
  <2>. HIDE DEF product
  <2>. QED
    BY <1>1, <1>2, <2>1
<1>4. \A r \in 0 .. Unit - 1 : (c * Unit + r) \div Unit = c
  BY <1>1, Z3
<1>. QED
  BY <1>3, <1>4 DEF Round2

\* The loop goes on for ten thresholds, and for no more.
LEMMA TenRows ==
  ASSUME RowsAreSwept, SweptSoFar, step = "sweep"
  PROVE  /\ Len(rows) \in Nat /\ Len(rows) <= 10
         /\ SweepGoesOn <=> Len(rows) < 10
         /\ SweepGoesOn => Round2(thr) = Threshold(Len(rows) + 1)
<1>0. Len(rows) \in Nat /\ Len(rows) <= 10
  BY DEF RowsAreSwept
<1>2. Unit \in Nat /\ Slack \in Nat /\ 10 <= Slack /\ 2 * Slack < Unit
  BY FloatAssumption
<1>. DEFINE n == Len(rows)
            c == Threshold(n + 1)
<1>1. n \in Nat /\ n <= 10 /\ thr \in Int
  BY <1>0 DEF SweptSoFar
<1>3. c \in Int /\ c = 50 + 5 * n
  BY <1>1 DEF Threshold, Lowest, Increment
<1>4. thr >= c * Unit - n /\ thr <= c * Unit + n
  BY DEF SweptSoFar
<1>. HIDE DEF c, n
<1>5. CASE n = 10
  <2>1. thr >= 100 * Unit - 10
    BY <1>3, <1>4, <1>5
  <2>. QED
    BY <1>1, <1>2, <1>5, <2>1 DEF SweepGoesOn, Highest, n
<1>6. CASE n < 10
  <2>1. n \in 0 .. 9
    BY <1>1, <1>6
  <2>2. c * Unit <= 95 * Unit
    <3>1. c \in Int /\ c <= 95
      BY <1>3, <2>1
    <3>. QED
      BY <1>2, <3>1, Z3
  <2>3. c * Unit \in Int
    BY <1>2, <1>3
  <2>4. thr <= 95 * Unit + Slack
    BY <1>1, <1>2, <1>4, <2>1, <2>2, <2>3
  <2>5. Round2(thr) = c
    <3>1. thr >= c * Unit - 9 /\ thr <= c * Unit + 9
      BY <1>1, <1>4, <2>1, <2>3
    <3>. QED
      BY <1>1, <1>3, <3>1, RoundsBack
  <2>. QED
    BY <1>1, <1>6, <2>4, <2>5 DEF SweepGoesOn, Highest, n, c
<1>7. n = 10 \/ n < 10
  BY <1>1
<1>. QED
  BY <1>0, <1>5, <1>6, <1>7

\* The first loop adds the row of the next threshold.
LEMMA SweepStep ==
  ASSUME EvalInv, SweepRow
  PROVE  EvalInv'
<1>. USE DEF EvalInv
<1>0. step = "sweep" /\ SweepGoesOn
  BY DEF SweepRow
<1>1. step = "sweep" /\ step' = "sweep" /\ Len(rows) < 10 /\ cache' = cache /\ preds' = preds
      /\ target' = target /\ pick' = pick /\ recommended' = recommended /\ targetMet' = targetMet
      /\ rows' = Append(rows, Row(Threshold(Len(rows) + 1)))
  BY <1>0, TenRows DEF SweepRow
<1>2. Len(rows) \in Nat /\ Threshold(Len(rows) + 1) \in Int
  BY DEF RowsAreSwept, Threshold, Lowest, Increment
<1>3. Row(Threshold(Len(rows) + 1)) \in [threshold : Int, routed : Nat, correct : Nat]
  <2>. DEFINE t == Threshold(Len(rows) + 1)
  <2>1. Routed(t) = Passing(t) /\ {i \in Routed(t) : Correct(i)} = Good(t)
    BY DEF Routed, Passing, Good, Predicted
  <2>2. Cardinality(Passing(t)) \in Nat /\ Cardinality(Good(t)) \in Nat
    BY PassingIsFinite
  <2>. QED
    BY <1>2, <2>1, <2>2 DEF Row
<1>4. RowsAreSwept'
  <2>1. rows' \in Seq([threshold : Int, routed : Nat, correct : Nat]) /\ Len(rows') = Len(rows) + 1
    BY <1>1, <1>3 DEF RowsAreSwept
  <2>2. ASSUME NEW k \in 1 .. Len(rows')
        PROVE  rows'[k] = Row(Threshold(k))
    <3>1. CASE k = Len(rows) + 1
      BY <1>1, <1>2, <3>1 DEF RowsAreSwept
    <3>2. CASE k # Len(rows) + 1
      <4>1. k \in 1 .. Len(rows)
        BY <1>2, <2>1, <3>2
      <4>2. rows'[k] = rows[k]
        BY <1>1, <4>1 DEF RowsAreSwept
      <4>. QED
        BY <1>1, <4>1, <4>2 DEF RowsAreSwept
    <3>. QED
      BY <3>1, <3>2
  <2>3. \A k \in 1 .. Len(rows') : Row(Threshold(k))' = Row(Threshold(k))
    BY <1>1 DEF Row, Routed, Predicted, Correct, Threshold
  <2>. QED
    BY <1>1, <1>2, <2>1, <2>2, <2>3 DEF RowsAreSwept
<1>7. SweptSoFar'
  <2>1. Len(rows') = Len(rows) + 1
    BY <1>1, <1>3 DEF RowsAreSwept
  <2>2. PICK err \in {-1, 0, 1} : thr' = thr + 5 * Unit + err
    BY DEF SweepRow, Increment
  <2>. DEFINE c == Threshold(Len(rows) + 1)
              d == Threshold(Len(rows') + 1)
  <2>3. c \in Int /\ d = c + 5
    BY <1>2, <2>1 DEF Threshold, Lowest, Increment
  <2>4. thr \in Int /\ thr >= c * Unit - Len(rows) /\ thr <= c * Unit + Len(rows)
    BY <1>0 DEF SweptSoFar
  <2>. HIDE DEF c, d
  <2>5. d * Unit = c * Unit + 5 * Unit /\ c * Unit \in Int /\ Unit \in Int
    BY <2>3, FloatAssumption
  <2>6. /\ thr' \in Int
        /\ thr' >= d * Unit - Len(rows') /\ thr' <= d * Unit + Len(rows')
    BY <1>2, <2>1, <2>2, <2>4, <2>5
  <2>. QED
    BY <1>1, <2>6 DEF SweptSoFar, d, Threshold
<1>5. pick = 1
  BY <1>1 DEF NotPicked
<1>6. NotPicked'
  BY <1>1, <1>5 DEF NotPicked
<1>. QED
  BY <1>1, <1>4, <1>6, <1>7 DEF StepType, RecommendedIsLowest, PredsAreRead, CacheIsRead

\* Then the thresholds are all there.
LEMMA SweepEndStep ==
  ASSUME EvalInv, SweepEnds
  PROVE  EvalInv'
<1>. USE DEF EvalInv
<1>1. /\ step = "sweep" /\ step' = "pick" /\ cache' = cache /\ preds' = preds
      /\ target' = target /\ pick' = pick /\ recommended' = recommended
      /\ targetMet' = targetMet /\ rows' = rows /\ thr' = Lowest * Unit
  BY DEF SweepEnds
<1>2. Len(rows) = 10
  <2>1. Len(rows) \in Nat /\ Len(rows) <= 10 /\ ~(Len(rows) < 10)
    BY <1>1, TenRows DEF SweepEnds
  <2>2. \A n \in Nat : n <= 10 /\ ~(n < 10) => n = 10
    OBVIOUS
  <2>. QED
    BY <2>1, <2>2
<1>3. RowsAreSwept'
  BY <1>1 DEF RowsAreSwept, Row, Routed, Predicted, Correct, Threshold
<1>4. NotPicked'
  BY <1>1, <1>2 DEF NotPicked
<1>5. SweptSoFar'
  BY <1>1, FloatAssumption DEF SweptSoFar, Lowest
<1>. QED
  BY <1>1, <1>3, <1>4, <1>5 DEF StepType, RecommendedIsLowest, PredsAreRead, CacheIsRead

\* The second loop stops at the first row that meets the target.
LEMMA PickStep ==
  ASSUME EvalInv, PickRow
  PROVE  EvalInv'
<1>. USE DEF EvalInv
<1>1. step = "pick" /\ Len(rows) = 10 /\ thr' = thr /\ cache' = cache /\ preds' = preds
      /\ target' = target /\ rows' = rows
  BY DEF PickRow, NotPicked
<1>2. recommended = Highest /\ targetMet = FALSE /\ pick \in 1 .. 11
      /\ \A j \in 1 .. pick - 1 : ~Suffices(Threshold(j))
  BY <1>1 DEF NotPicked
<1>3. \A k \in Sweeps : rows[k].threshold = Threshold(k)
                       /\ (Meets(rows[k]) <=> Suffices(Threshold(k)))
  BY <1>1, RowMeets DEF RowsAreSwept, Sweeps
<1>4. step' \in {"pick", "report"} /\ thr' \in Int
  BY <1>1 DEF PickRow, SweptSoFar
<1>5. PredsAreRead' /\ CacheIsRead' /\ SweptSoFar'
  BY <1>1, <1>4 DEF PredsAreRead, CacheIsRead, SweptSoFar
<1>6. CASE pick <= 10 /\ ~Meets(rows[pick])
  <2>1. pick' = pick + 1 /\ step' = step /\ recommended' = recommended /\ targetMet' = targetMet
    BY <1>1, <1>2, <1>6 DEF PickRow
  <2>2. ~Suffices(Threshold(pick)) /\ pick \in Sweeps
    BY <1>2, <1>3, <1>6 DEF Sweeps
  <2>3. \A j \in 1 .. pick' - 1 : ~Suffices(Threshold(j))
    BY <1>2, <2>1, <2>2
  <2>4. \A j \in 1 .. pick' - 1 : ~Suffices(Threshold(j))'
    BY <1>1, <2>3 DEF Suffices, Passing, Good, Correct, Threshold
  <2>5. NotPicked'
    <3>1. pick' \in 1 .. 11 /\ Len(rows') = 10 /\ step' = "pick"
      BY <1>1, <1>2, <1>6, <2>1
    <3>. QED
      BY <1>2, <2>1, <2>4, <3>1 DEF NotPicked
  <2>6. RowsAreSwept'
    BY <1>1, <2>1 DEF RowsAreSwept, Row, Routed, Predicted, Correct, Threshold
  <2>. QED
    BY <1>1, <1>5, <2>1, <2>5, <2>6 DEF StepType, RecommendedIsLowest
<1>7. CASE pick <= 10 /\ Meets(rows[pick])
  <2>1. recommended' = Threshold(pick) /\ targetMet' = TRUE /\ step' = "report" /\ pick' = pick
    BY <1>1, <1>2, <1>3, <1>7 DEF PickRow, Sweeps
  <2>2. pick \in Sweeps /\ Suffices(Threshold(pick))
    BY <1>2, <1>3, <1>7 DEF Sweeps
  <2>3. ASSUME NEW j \in Sweeps, Suffices(Threshold(j))
        PROVE  Passing(Threshold(j)) \subseteq Passing(Threshold(pick))
    <3>1. pick <= j
      BY <1>2, <2>3 DEF Sweeps
    <3>. QED
      BY <2>2, <3>1, PassingShrinks DEF PredsAreRead
  <2>4. RecommendedIsLowest'
    <3>1. \A j \in Sweeps : Suffices(Threshold(j))' <=> Suffices(Threshold(j))
      BY <1>1 DEF Suffices, Passing, Good, Correct, Threshold
    <3>2. \A j \in Sweeps : Passing(Threshold(j))' = Passing(Threshold(j))
      BY <1>1 DEF Passing, Threshold
    <3>3. Passing(recommended)' = Passing(Threshold(pick))
      BY <1>1, <2>1 DEF Passing
    <3>4. \A j \in 1 .. pick - 1 : j \in Sweeps /\ ~Suffices(Threshold(j))'
      BY <1>2, <3>1, <1>7 DEF Sweeps
    <3>5. /\ recommended' = Threshold(pick) /\ Suffices(Threshold(pick))'
          /\ \A j \in Sweeps : Suffices(Threshold(j))' =>
               Passing(Threshold(j))' \subseteq Passing(recommended)'
      BY <2>1, <2>2, <2>3, <3>1, <3>2, <3>3
    <3>. QED
      BY <2>1, <2>2, <3>4, <3>5 DEF RecommendedIsLowest, Threshold
  <2>5. RowsAreSwept' /\ NotPicked' /\ StepType'
    BY <1>1, <2>1 DEF RowsAreSwept, NotPicked, StepType
  <2>. QED
    BY <1>5, <2>4, <2>5
<1>8. CASE pick > 10
  <2>1. recommended' = Highest /\ targetMet' = FALSE /\ step' = "report" /\ pick' = pick
    BY <1>1, <1>2, <1>8 DEF PickRow
  <2>2. \A j \in Sweeps : ~Suffices(Threshold(j))
    BY <1>2, <1>8 DEF Sweeps
  <2>3. \A j \in Sweeps : ~Suffices(Threshold(j))'
    BY <1>1, <2>2 DEF Suffices, Passing, Good, Correct, Threshold
  <2>4. RecommendedIsLowest'
    BY <2>1, <2>3 DEF RecommendedIsLowest
  <2>5. RowsAreSwept' /\ NotPicked' /\ StepType'
    BY <1>1, <2>1 DEF RowsAreSwept, NotPicked, StepType
  <2>. QED
    BY <1>5, <2>4, <2>5
<1>. QED
  BY <1>2, <1>6, <1>7, <1>8

\* Every step preserves the invariant.
LEMMA EvalInvNext == EvalInv /\ [EvalNext]_xvars => EvalInv'
<1>. SUFFICES ASSUME EvalInv, [EvalNext]_xvars PROVE EvalInv'
  OBVIOUS
<1>1. CASE EvalNext
  BY <1>1, RunSteps, SweepStep, SweepEndStep, PickStep DEF EvalNext
<1>2. CASE UNCHANGED xvars
  <2>1. /\ cache' = cache /\ target' = target /\ step' = step /\ preds' = preds
        /\ thr' = thr /\ rows' = rows /\ pick' = pick /\ recommended' = recommended /\ targetMet' = targetMet
    BY <1>2 DEF xvars, runVars
  <2>2. StepType' /\ PredsAreRead' /\ CacheIsRead' /\ SweptSoFar'
    BY <2>1 DEF EvalInv, StepType, PredsAreRead, CacheIsRead, SweptSoFar, Threshold
  <2>3. RowsAreSwept'
    BY <2>1 DEF EvalInv, RowsAreSwept, Row, Routed, Predicted, Correct, Threshold
  <2>4. NotPicked'
    BY <2>1 DEF EvalInv, NotPicked, Suffices, Passing, Good, Correct, Threshold
  <2>5. RecommendedIsLowest'
    <3>2. /\ \A j : Suffices(Threshold(j))' <=> Suffices(Threshold(j))
          /\ \A j : Passing(Threshold(j))' = Passing(Threshold(j))
      BY <2>1 DEF Suffices, Passing, Good, Correct, Threshold
    <3>3. Passing(recommended)' = Passing(recommended)
      BY <2>1 DEF Passing
    <3>. QED
      BY <2>1, <3>2, <3>3 DEF EvalInv, RecommendedIsLowest, Threshold
  <2>. QED
    BY <2>2, <2>3, <2>4, <2>5 DEF EvalInv
<1>. QED
  BY <1>1, <1>2

\* Calibrate recommends the lowest threshold that suffices, which of those
\* routes the most, for every gold set, prediction and target.
THEOREM LowestIsRecommended == EvalSpec => []RecommendedIsLowest
<1>1. EvalInv => RecommendedIsLowest
  BY DEF EvalInv
<1>. QED
  BY <1>1, EvalInvInit, EvalInvNext, PTL DEF EvalSpec

-----------------------------------------------------------------------------
(***************************************************************************)
(* The report                                                              *)
(***************************************************************************)

\* Total adds a column up from its first number to its last.
LEMMA TotalUnfolds ==
  ASSUME NEW column \in Seq(Nat)
  PROVE  \E sum : /\ sum[0] = 0
                  /\ \A n \in 1 .. Len(column) : sum[n] = sum[n - 1] + column[n]
                  /\ Total(column) = sum[Len(column)]
<1> DEFINE N == Len(column)
           Sum(f) == f = [n \in 0 .. N |-> IF n = 0 THEN 0 ELSE f[n - 1] + column[n]]
           sum == CHOOSE f : Sum(f)
<1>1. N \in Nat /\ \A n \in 1 .. N : column[n] \in Nat
  OBVIOUS
<1>2. \E f : Sum(f)
  <2> HIDE DEF N
  <2> DEFINE G == [p \in (1 .. N) \X Nat |-> p[2] + column[p[1]]]
  <2>1. G \in [(1 .. N) \X Nat -> Nat]
    BY <1>1
  <2>2. PICK f : Follows(f, N, Nat, 0, G)
    <3> HIDE DEF G
    <3> QED BY <1>1, <2>1, RecursionExists
  <2>3. f \in [0 .. N -> Nat] /\ f[0] = 0
    BY <2>2 DEF Follows
  <2>4. ASSUME NEW n \in 1 .. N
        PROVE  f[n] = f[n - 1] + column[n]
    <3>1. f[n] = G[n, f[n - 1]]
      BY <2>2 DEF Follows
    <3>2. n - 1 \in 0 .. N
      BY <1>1
    <3> QED BY <2>3, <3>1, <3>2
  <2>5. \A n \in 0 .. N : n # 0 => n \in 1 .. N
    OBVIOUS
  <2>6. Sum(f)
    BY <2>3, <2>4, <2>5
  <2> QED BY <2>6
<1>3. Sum(sum)
  BY <1>2
<1>4. Total(column) = sum[N]
  BY DEF Total
<1>5. \A n \in 1 .. N : n \in 0 .. N /\ n # 0
  OBVIOUS
<1> QED
  <2> HIDE DEF sum, N
  <2>1. sum[0] = 0 /\ \A n \in 1 .. N : sum[n] = sum[n - 1] + column[n]
    BY <1>1, <1>3, <1>5
  <2> QED BY <1>4, <2>1 DEF N

\* The members of I in one class, and in any of the first n classes.
Class(I, class, l)          == {i \in I : class[i] = l}
Classes(I, class, label, n) == {i \in I : \E m \in 1 .. n : class[i] = label[m]}

\* The numbers of the members of each class add up to the number of those
\* that are in some class, as long as no class is listed twice.
LEMMA ClassesAddUp ==
  ASSUME NEW I, IsFiniteSet(I), NEW class, NEW N \in Nat, NEW label,
         \A m, n \in 1 .. N : label[m] = label[n] => m = n,
         NEW column \in Seq(Nat), Len(column) = N,
         \A n \in 1 .. N : column[n] = Cardinality(Class(I, class, label[n]))
  PROVE  Total(column) = Cardinality(Classes(I, class, label, N))
<1> DEFINE Upto(n) == Classes(I, class, label, n)
           Nth(n)  == Class(I, class, label[n])
<1>1. PICK sum : /\ sum[0] = 0
                 /\ \A n \in 1 .. N : sum[n] = sum[n - 1] + column[n]
                 /\ Total(column) = sum[N]
  BY TotalUnfolds
<1>2. \A n \in Nat : IsFiniteSet(Upto(n)) /\ IsFiniteSet(Nth(n))
  <2>1. \A n \in Nat : Upto(n) \subseteq I /\ Nth(n) \subseteq I
    BY DEF Class, Classes
  <2> HIDE DEF Upto, Nth
  <2> QED BY <2>1, FS_Subset
<1> DEFINE Done == {n \in 0 .. N : sum[n] = Cardinality(Upto(n))}
<1>3. 0 \in Done
  <2>1. Upto(0) = {} /\ 0 \in 0 .. N
    BY DEF Classes
  <2>2. Cardinality({}) = 0
    BY FS_EmptySet
  <2> QED BY <1>1, <2>1, <2>2
<1>4. ASSUME NEW n \in 0 .. N, n + 1 \in 0 .. N, n \in Done
      PROVE  n + 1 \in Done
  <2>1. n \in Nat /\ n + 1 \in 1 .. N /\ n + 1 - 1 = n
    BY <1>4
  <2>2. Upto(n + 1) = Upto(n) \cup Nth(n + 1)
    <3>1. \A m \in 1 .. n + 1 : m \in 1 .. n \/ m = n + 1
      BY <2>1
    <3>2. \A m \in 1 .. n : m \in 1 .. n + 1
      BY <2>1
    <3> QED BY <2>1, <3>1, <3>2 DEF Class, Classes
  <2>3. Upto(n) \cap Nth(n + 1) = {}
    <3>1. \A m \in 1 .. n : m \in 1 .. N /\ m # n + 1
      BY <2>1
    <3> QED BY <2>1, <3>1 DEF Class, Classes
  <2>4. column[n + 1] = Cardinality(Nth(n + 1))
    BY <2>1
  <2> HIDE DEF Upto, Nth
  <2>5. Cardinality(Upto(n + 1)) =
          Cardinality(Upto(n)) + Cardinality(Nth(n + 1)) - Cardinality({})
    BY <1>2, <2>1, <2>2, <2>3, FS_Union
  <2>6. /\ Cardinality(Upto(n)) \in Nat /\ Cardinality(Nth(n + 1)) \in Nat
        /\ Cardinality({}) = 0
    <3>1. IsFiniteSet(Upto(n)) /\ IsFiniteSet(Nth(n + 1))
      BY <1>2, <2>1
    <3>2. Cardinality({}) = 0
      BY FS_EmptySet
    <3> QED BY <3>1, <3>2, FS_CardinalityType
  <2>7. sum[n + 1] = sum[n] + column[n + 1]
    <3>1. \A m \in 1 .. N : m - 1 = n => sum[m] = sum[n] + column[m]
      BY <1>1
    <3> QED BY <2>1, <3>1
  <2>8. sum[n] = Cardinality(Upto(n))
    BY <1>4
  <2> QED BY <1>4, <2>4, <2>5, <2>6, <2>7, <2>8
<1> HIDE DEF Done
<1>5. N \in Done
  <2>1. 0 .. N \subseteq Done
    BY <1>3, <1>4, InductionUpTo
  <2> QED BY <2>1
<1> QED BY <1>1, <1>5 DEF Done

\* What the two lists of labels have in common: no label is listed twice and
\* none is the empty string, and each value of the taxonomy is listed.
LEMMA LabelLists ==
  ASSUME NEW d \in DOMAIN ClassLabels
  PROVE  /\ Len(ClassLabels[d]) \in Nat
         /\ \A m, n \in 1 .. Len(ClassLabels[d]) :
              ClassLabels[d][m] = ClassLabels[d][n] => m = n
         /\ \A n \in 1 .. Len(ClassLabels[d]) : ClassLabels[d][n] # ""
<1>1. CASE d = "urgency"
  <2>1. ClassLabels[d] = <<"low", "normal", "high", "critical">>
    BY <1>1 DEF ClassLabels
  <2>2. /\ Len(ClassLabels[d]) = 4
        /\ ClassLabels[d][1] = "low" /\ ClassLabels[d][2] = "normal"
        /\ ClassLabels[d][3] = "high" /\ ClassLabels[d][4] = "critical"
    BY <2>1
  <2>3. \A n \in 1 .. 4 : n = 1 \/ n = 2 \/ n = 3 \/ n = 4
    OBVIOUS
  <2>4. ASSUME NEW m \in 1 .. Len(ClassLabels[d]), NEW n \in 1 .. Len(ClassLabels[d]),
               ClassLabels[d][m] = ClassLabels[d][n]
        PROVE  m = n
    BY <2>2, <2>3, <2>4
  <2>5. ASSUME NEW n \in 1 .. Len(ClassLabels[d])
        PROVE  ClassLabels[d][n] # ""
    BY <2>2, <2>3
  <2>6. Len(ClassLabels[d]) \in Nat
    BY <2>2
  <2>. QED
    BY <2>4, <2>5, <2>6, Zenon
<1>2. CASE d = "type"
  <2>1. ClassLabels[d] = <<"billing", "technical", "account", "feature_request", "general">>
    BY <1>2 DEF ClassLabels
  <2>2. /\ Len(ClassLabels[d]) = 5
        /\ ClassLabels[d][1] = "billing" /\ ClassLabels[d][2] = "technical"
        /\ ClassLabels[d][3] = "account" /\ ClassLabels[d][4] = "feature_request"
        /\ ClassLabels[d][5] = "general"
    BY <2>1
  <2>3. \A n \in 1 .. 5 : n = 1 \/ n = 2 \/ n = 3 \/ n = 4 \/ n = 5
    OBVIOUS
  <2>4. ASSUME NEW m \in 1 .. Len(ClassLabels[d]), NEW n \in 1 .. Len(ClassLabels[d]),
               ClassLabels[d][m] = ClassLabels[d][n]
        PROVE  m = n
    BY <2>2, <2>3, <2>4
  <2>5. ASSUME NEW n \in 1 .. Len(ClassLabels[d])
        PROVE  ClassLabels[d][n] # ""
    BY <2>2, <2>3
  <2>6. Len(ClassLabels[d]) \in Nat
    BY <2>2
  <2>. QED
    BY <2>4, <2>5, <2>6, Zenon
<1>. QED
  BY <1>1, <1>2 DEF ClassLabels

Listing(d, x) == \E n \in 1 .. Len(ClassLabels[d]) : x = ClassLabels[d][n]

LEMMA TaxonomyIsListed ==
  /\ \A x \in Urgency : Listing("urgency", x)
  /\ \A x \in TicketType : Listing("type", x)
<1>1. ASSUME NEW x \in Urgency PROVE Listing("urgency", x)
  <2>1. ClassLabels["urgency"] = <<"low", "normal", "high", "critical">>
    BY DEF ClassLabels
  <2>2. x = "low" \/ x = "normal" \/ x = "high" \/ x = "critical"
    BY DEF Urgency
  <2>. QED
    BY <2>1, <2>2 DEF Listing
<1>2. ASSUME NEW x \in TicketType PROVE Listing("type", x)
  <2>1. ClassLabels["type"] =
          <<"billing", "technical", "account", "feature_request", "general">>
    BY DEF ClassLabels
  <2>2. x = "billing" \/ x = "technical" \/ x = "account" \/ x = "feature_request"
        \/ x = "general"
    BY DEF TicketType
  <2>. QED
    BY <2>1, <2>2 DEF Listing
<1>. QED
  BY <1>1, <1>2

\* Every email is in a class of the gold set, and every email with a
\* prediction is predicted to be in one.
LEMMA EmailsAreListed ==
  ASSUME PredsAreRead, NEW d \in DOMAIN ClassLabels, NEW i \in DOMAIN Gold
  PROVE  /\ Listing(d, GoldOf(d, i))
         /\ i \in Predicted => Listing(d, PredOf(d, i))
         /\ i \notin Predicted => ~Listing(d, PredOf(d, i))
<1>1. d = "urgency" \/ d = "type"
  BY DEF ClassLabels
<1>2. Gold[i].urgency \in Urgency /\ Gold[i].type \in TicketType
  <2>1. DOMAIN Gold = 1 .. Len(Gold)
    BY GoldAssumption
  <2>. DEFINE Email == [id : STRING, urgency : Urgency, type : TicketType]
  <2>2. Gold[i] \in Email
    <3>1. Gold \in Seq(Email)
      BY GoldAssumption
    <3>. HIDE DEF Email
    <3>. QED
      BY <2>1, <3>1
  <2>. QED
    BY <2>2
<1>3. Listing(d, GoldOf(d, i))
  BY <1>1, <1>2, TaxonomyIsListed DEF GoldOf
<1>4. ASSUME i \in Predicted PROVE Listing(d, PredOf(d, i))
  <2>1. preds[Gold[i].id].urgency \in Urgency /\ preds[Gold[i].id].type \in TicketType
    BY <1>4, PredictionAssumption DEF Predicted, PredsAreRead
  <2>. QED
    BY <1>1, <1>4, <2>1, TaxonomyIsListed DEF PredOf
<1>5. ASSUME i \notin Predicted PROVE ~Listing(d, PredOf(d, i))
  BY <1>5, LabelLists DEF PredOf, Listing
<1>. QED
  BY <1>3, <1>4, <1>5

\* The emails that are hits and those that are misses, of any class.
Hit(d)  == {i \in DOMAIN Gold : GoldOf(d, i) = PredOf(d, i)}
Miss(d) == {i \in DOMAIN Gold : GoldOf(d, i) # PredOf(d, i)}

LEMMA GoldIsFinite ==
  /\ IsFiniteSet(DOMAIN Gold) /\ Cardinality(DOMAIN Gold) = Len(Gold)
  /\ \A I \in SUBSET DOMAIN Gold : IsFiniteSet(I) /\ Cardinality(I) \in Nat
<1>1. DOMAIN Gold = 1 .. Len(Gold) /\ Len(Gold) \in Nat
  BY GoldAssumption
<1>2. 1 \in Int /\ Len(Gold) \in Int /\ (1 > Len(Gold) => Len(Gold) = 0)
  BY <1>1
<1>3. IsFiniteSet(DOMAIN Gold) /\ Cardinality(DOMAIN Gold) = Len(Gold)
  BY <1>1, <1>2, FS_Interval
<1>. QED
  BY <1>3, FS_Subset, FS_CardinalityType

\* Each column sums to the emails it is about.
LEMMA ColumnsAddUp ==
  ASSUME PredsAreRead, NEW d \in DOMAIN ClassLabels
  PROVE  /\ Total(Hits(d)) = Cardinality(Hit(d))
         /\ Total(Misses(d)) = Cardinality(Miss(d))
         /\ Total(FalseAlarms(d)) = Cardinality(Miss(d) \cap Predicted)
<1> DEFINE N == Len(ClassLabels[d])
           label == ClassLabels[d]
<1>1. N \in Nat /\ \A m, n \in 1 .. N : label[m] = label[n] => m = n
  BY LabelLists
<1>2. ASSUME NEW I \in SUBSET DOMAIN Gold, NEW class, NEW column,
             column = [n \in 1 .. N |-> Cardinality(Class(I, class, label[n]))]
      PROVE  Total(column) = Cardinality({i \in I : Listing(d, class[i])})
  <2>1. \A J \in SUBSET I : IsFiniteSet(J) /\ Cardinality(J) \in Nat
    BY GoldIsFinite
  <2>2. \A n \in 1 .. N : Cardinality(Class(I, class, label[n])) \in Nat
    BY <2>1 DEF Class
  <2>. HIDE DEF N, label
  <2>3. /\ column \in Seq(Nat) /\ Len(column) = N
        /\ \A n \in 1 .. N : column[n] = Cardinality(Class(I, class, label[n]))
    BY <1>1, <1>2, <2>2
  <2>4. Total(column) = Cardinality(Classes(I, class, label, N))
    BY <1>1, <2>1, <2>3, ClassesAddUp
  <2>. QED
    BY <2>4 DEF Classes, Listing, N, label
<1> DEFINE gold == [i \in DOMAIN Gold |-> GoldOf(d, i)]
           pred == [i \in DOMAIN Gold |-> PredOf(d, i)]
<1>. HIDE DEF N, label
<1>3. Total(Hits(d)) = Cardinality(Hit(d))
  <2>1. \A c : {i \in DOMAIN Gold : GoldOf(d, i) = c /\ PredOf(d, i) = c}
                 = Class(Hit(d), gold, c)
    BY DEF Hit, Class
  <2>2. Hits(d) = [n \in 1 .. N |-> Cardinality(Class(Hit(d), gold, label[n]))]
    BY <2>1 DEF Hits, TruePositives, N, label
  <2>3. Hit(d) \in SUBSET DOMAIN Gold /\ Hit(d) = {i \in Hit(d) : Listing(d, gold[i])}
    BY EmailsAreListed DEF Hit
  <2>. HIDE DEF gold
  <2>4. Total(Hits(d)) = Cardinality({i \in Hit(d) : Listing(d, gold[i])})
    BY <1>2, <2>2, <2>3
  <2>. QED
    BY <2>3, <2>4
<1>4. Total(Misses(d)) = Cardinality(Miss(d))
  <2>1. \A c : {i \in DOMAIN Gold : GoldOf(d, i) = c /\ PredOf(d, i) # c}
                 = Class(Miss(d), gold, c)
    BY DEF Miss, Class
  <2>2. Misses(d) = [n \in 1 .. N |-> Cardinality(Class(Miss(d), gold, label[n]))]
    BY <2>1 DEF Misses, FalseNegatives, N, label
  <2>3. Miss(d) \in SUBSET DOMAIN Gold /\ Miss(d) = {i \in Miss(d) : Listing(d, gold[i])}
    BY EmailsAreListed DEF Miss
  <2>. HIDE DEF gold
  <2>4. Total(Misses(d)) = Cardinality({i \in Miss(d) : Listing(d, gold[i])})
    BY <1>2, <2>2, <2>3
  <2>. QED
    BY <2>3, <2>4
<1>5. Total(FalseAlarms(d)) = Cardinality(Miss(d) \cap Predicted)
  <2>1. \A c : {i \in DOMAIN Gold : GoldOf(d, i) # c /\ PredOf(d, i) = c}
                 = Class(Miss(d), pred, c)
    BY DEF Miss, Class
  <2>2. FalseAlarms(d) = [n \in 1 .. N |-> Cardinality(Class(Miss(d), pred, label[n]))]
    BY <2>1 DEF FalseAlarms, FalsePositives, N, label
  <2>3. Miss(d) \in SUBSET DOMAIN Gold
        /\ Miss(d) \cap Predicted = {i \in Miss(d) : Listing(d, pred[i])}
    BY EmailsAreListed DEF Miss
  <2>. HIDE DEF pred
  <2>4. Total(FalseAlarms(d)) = Cardinality({i \in Miss(d) : Listing(d, pred[i])})
    BY <1>2, <2>2, <2>3
  <2>. QED
    BY <2>3, <2>4
<1>. QED
  BY <1>3, <1>4, <1>5

\* The tables of Dimension agree with each other for every gold set and every
\* set of predictions: every email is a hit or a miss of its own class, and
\* every miss is one without a prediction or a false alarm of another class.
THEOREM TablesAddUp == EvalSpec => []ReportAddsUp
<1>1. EvalInv => ReportAddsUp
  <2>. SUFFICES ASSUME EvalInv, NEW d \in DOMAIN ClassLabels
                PROVE  /\ Total(Hits(d)) + Total(Misses(d)) = Len(Gold)
                       /\ Total(Misses(d)) = Total(FalseAlarms(d))
                                             + Cardinality(DOMAIN Gold \ Predicted)
    BY DEF ReportAddsUp
  <2>. DEFINE none == DOMAIN Gold \ Predicted
  <2>1. PredsAreRead
    BY DEF EvalInv
  <2>2. Hit(d) \cup Miss(d) = DOMAIN Gold /\ Hit(d) \cap Miss(d) = {}
    BY DEF Hit, Miss
  <2>3. (Miss(d) \cap Predicted) \cup none = Miss(d)
        /\ (Miss(d) \cap Predicted) \cap none = {}
    BY <2>1, EmailsAreListed DEF Miss
  <2>4. Miss(d) \subseteq DOMAIN Gold /\ Hit(d) \subseteq DOMAIN Gold
        /\ none \subseteq DOMAIN Gold
    BY DEF Hit, Miss
  <2>. HIDE DEF none
  <2>5. /\ IsFiniteSet(Hit(d)) /\ IsFiniteSet(Miss(d)) /\ IsFiniteSet(none)
        /\ IsFiniteSet(Miss(d) \cap Predicted)
        /\ Cardinality(Hit(d)) \in Nat /\ Cardinality(Miss(d)) \in Nat
        /\ Cardinality(none) \in Nat /\ Cardinality(Miss(d) \cap Predicted) \in Nat
    BY <2>4, GoldIsFinite
  <2>6. Cardinality({}) = 0
    BY FS_EmptySet
  <2>7. Cardinality(Hit(d)) + Cardinality(Miss(d)) = Len(Gold)
    <3>1. Cardinality(DOMAIN Gold) =
            Cardinality(Hit(d)) + Cardinality(Miss(d)) - Cardinality({})
      BY <2>2, <2>5, FS_Union
    <3>. QED
      BY <2>5, <2>6, <3>1, GoldIsFinite
  <2>8. Cardinality(Miss(d)) = Cardinality(Miss(d) \cap Predicted) + Cardinality(none)
    <3>1. Cardinality(Miss(d)) =
            Cardinality(Miss(d) \cap Predicted) + Cardinality(none) - Cardinality({})
      BY <2>3, <2>5, FS_Union
    <3>. QED
      BY <2>5, <2>6, <3>1
  <2>. QED
    BY <2>1, <2>7, <2>8, ColumnsAddUp DEF none
<1>. QED
  BY <1>1, EvalInvInit, EvalInvNext, PTL DEF EvalSpec

-----------------------------------------------------------------------------
(***************************************************************************)
(* The cache.  Besides what is in hand: only a recording of this gold set  *)
(* gets to the write.                                                      *)
(***************************************************************************)
RecordsGold ==
  /\ StepType
  /\ step \in {"record", "write"} => DOMAIN preds \subseteq Id
  /\ step = "write" => DOMAIN preds = Id

\* It holds at first and is preserved.
LEMMA RecordsGoldHolds ==
  /\ EvalInit => RecordsGold
  /\ RecordsGold /\ [EvalNext]_xvars => RecordsGold'
<1>1. EvalInit => RecordsGold
  BY DEF EvalInit, RecordsGold, StepType
<1>2. ASSUME RecordsGold, [EvalNext]_xvars PROVE RecordsGold'
  <2>1. CASE Predict
    <3>1. PICK i \in Unpredicted, p \in Prediction : preds' = Extend(preds, Gold[i].id, p)
      BY <2>1 DEF Predict
    <3>2. Gold[i].id \in Id /\ DOMAIN preds' = DOMAIN preds \cup {Gold[i].id}
      BY <3>1 DEF Extend, Unpredicted, Id
    <3>. QED
      BY <1>2, <2>1, <3>2 DEF RecordsGold, StepType, Predict, Id
  <2>2. CASE Truncate
    BY <1>2, <2>2 DEF RecordsGold, StepType, Truncate, Unpredicted, Id
  <2>3. CASE Record
    BY <1>2, <2>3 DEF RecordsGold, StepType, Record, Calibrating, Id
  <2>4. CASE Replay \/ Write \/ End \/ SweepRow \/ SweepEnds \/ PickRow \/ UNCHANGED xvars
    BY <1>2, <2>4 DEF RecordsGold, StepType, Replay, Write, End, SweepRow, SweepEnds, PickRow, xvars, runVars, Id
  <2>. QED
    BY <1>2, <2>1, <2>2, <2>3, <2>4 DEF EvalNext
<1>. QED
  BY <1>1, <1>2

\* The cache changes to a full recording or to a torn file, which is never
\* replayed, whatever fails and however often the command is run.
THEOREM CacheIsKept == EvalSpec => RecordingIsAllOrNothing
<1>1. RecordsGold /\ [EvalNext]_xvars =>
        [ /\ cache' # cache => cache' = Torn \/ DOMAIN cache' = Id
          /\ cache = Torn /\ step = "over" => step' # "sweep" ]_xvars
  <2>. SUFFICES ASSUME RecordsGold, EvalNext
                PROVE  /\ cache' # cache => cache' = Torn \/ DOMAIN cache' = Id
                       /\ cache = Torn /\ step = "over" => step' # "sweep"
    OBVIOUS
  <2>1. CASE Write
    BY <2>1 DEF RecordsGold, Write
  <2>2. CASE Replay \/ Record \/ Predict \/ Truncate \/ End \/ SweepRow \/ SweepEnds \/ PickRow
    BY <2>2 DEF Replay, Record, Predict, Truncate, End, SweepRow, SweepEnds, PickRow
  <2>. QED
    BY <2>1, <2>2 DEF EvalNext
<1>. QED
  BY <1>1, RecordsGoldHolds, PTL DEF EvalSpec, RecordingIsAllOrNothing

-----------------------------------------------------------------------------
(***************************************************************************)
(* The email parser                                                        *)
(***************************************************************************)

\* Part p is a text of type type that can be used and says something.
Says(p, type) == Usable(p) /\ p.type = type /\ p.text # Blank

\* text is the first such text of the first n parts, or there is none.
FirstOf(parts, n, type, text) ==
  \/ text = Blank /\ \A j \in 1 .. n : ~Says(parts[j], type)
  \/ /\ text # Blank
     /\ \E i \in 1 .. n : /\ Says(parts[i], type) /\ parts[i].text = text
                          /\ \A j \in 1 .. i - 1 : ~Says(parts[j], type)

WalkOK ==
  /\ walk \in {"header", "refused", "parts", "body", "done"}
  /\ next \in 1 .. Len(raw.parts) + 1
  /\ walk = "header" \/ raw.opens = "error" => next = 1
  /\ raw.opens = "error" => walk # "parts"
  /\ walk \in {"body", "done"} /\ raw.opens # "error" => next = Len(raw.parts) + 1
  /\ walk = "refused" => ~raw.readable

TextsOK ==
  /\ plainText \in PlainText \cup {Blank} /\ FirstOf(raw.parts, next - 1, "text/plain", plainText)
  /\ htmlText \in Html \cup {Blank} /\ FirstOf(raw.parts, next - 1, "text/html", htmlText)

ParsedOK ==
  walk = "done" =>
    \E from, subject \in Header :
      parsed = [from |-> from, subject |-> subject, body |-> Body,
                key  |-> IF raw.id # NoId THEN raw.id ELSE HashKey(from, subject, Body)]

ParseInv == raw \in Raw /\ WalkOK /\ TextsOK /\ ParsedOK

\* One more part: the text that is kept is still the first.
LEMMA FirstStaysFirst ==
  ASSUME NEW parts, NEW n \in Nat \ {0}, NEW type, NEW text,
         FirstOf(parts, n - 1, type, text),
         NEW kept, kept = IF Usable(parts[n]) /\ parts[n].type = type
                          THEN Keep(text, parts[n].text) ELSE text
  PROVE  FirstOf(parts, n, type, kept)
<1>1. n - 1 \in Nat /\ 1 .. n = (1 .. n - 1) \cup {n}
  OBVIOUS
<1>2. CASE text # Blank
  BY <1>1, <1>2 DEF FirstOf, Keep
<1>3. CASE text = Blank /\ Says(parts[n], type)
  <2>1. kept = parts[n].text /\ kept # Blank
    BY <1>3 DEF Says, Keep
  <2>2. \A j \in 1 .. n - 1 : ~Says(parts[j], type)
    BY <1>3 DEF FirstOf
  <2>. QED
    BY <1>1, <1>3, <2>1, <2>2 DEF FirstOf
<1>4. CASE text = Blank /\ ~Says(parts[n], type)
  <2>1. kept = Blank
    BY <1>4 DEF Says, Keep
  <2>2. \A j \in 1 .. n - 1 : ~Says(parts[j], type)
    BY <1>4 DEF FirstOf
  <2>. QED
    BY <1>1, <1>4, <2>1, <2>2 DEF FirstOf
<1>. QED
  BY <1>2, <1>3, <1>4

LEMMA ParseInvHolds == ParseSpec => []ParseInv
<1>1. ParseInit => ParseInv
  BY RawAssumption
  DEF ParseInit, ParseInv, WalkOK, TextsOK, ParsedOK, FirstOf, RawMessage
<1>2. ParseInv /\ [ParseNext]_evars => ParseInv'
  <2> SUFFICES ASSUME ParseInv, [ParseNext]_evars PROVE ParseInv'
    OBVIOUS
  <2>1. raw \in RawMessage /\ raw.parts \in Seq(MimePart) /\ Len(raw.parts) \in Nat
    BY RawAssumption DEF ParseInv, RawMessage
  <2>2. CASE ReadHeader
    <3>1. TextsOK'
      BY <2>2 DEF ReadHeader, ParseInv, TextsOK
    <3>. QED
      BY <2>1, <2>2, <3>1 DEF ReadHeader, ParseInv, WalkOK, ParsedOK
  <2>3. CASE TakePart
    <3>1. next \in 1 .. Len(raw.parts) /\ UNCHANGED raw /\ next' = next + 1
      BY <2>1, <2>3 DEF TakePart, ParseInv, WalkOK
    <3>2. raw.parts[next] \in MimePart
      BY <2>1, <3>1
    <3>3. plainText' \in PlainText \cup {Blank} /\ htmlText' \in Html \cup {Blank}
      BY <2>3, <3>2 DEF TakePart, ParseInv, TextsOK, MimePart, Keep
    <3>4. next \in Nat \ {0} /\ next' - 1 = next
      BY <2>1, <3>1
    <3>5. FirstOf(raw.parts, next, "text/plain", plainText')
          /\ FirstOf(raw.parts, next, "text/html", htmlText')
      BY <2>3, <3>4, FirstStaysFirst DEF TakePart, ParseInv, TextsOK
    <3>6. WalkOK'
      BY <2>1, <2>3, <3>1 DEF TakePart, ParseInv, WalkOK
    <3>. QED
      BY <2>3, <3>1, <3>3, <3>4, <3>5, <3>6 DEF TakePart, ParseInv, TextsOK, ParsedOK
  <2>4. CASE EndParts
    <3>1. TextsOK'
      BY <2>4 DEF EndParts, ParseInv, TextsOK
    <3>. QED
      BY <2>1, <2>4, <3>1 DEF EndParts, ParseInv, WalkOK, ParsedOK
  <2>5. CASE BuildEmail
    <3>1. TextsOK' /\ WalkOK' /\ Body' = Body
      BY <2>1, <2>5
      DEF BuildEmail, ParseInv, TextsOK, WalkOK, Body
    <3>2. ParseAddress[raw.from] \in Header /\ DecodeHeader[raw.subject] \in Header
      BY <2>1, TextAssumption DEF RawMessage
    <3>3. ParsedOK'
      BY <2>5, <3>1, <3>2 DEF BuildEmail, ParsedOK
    <3>. QED
      BY <2>5, <3>1, <3>3 DEF BuildEmail, ParseInv
  <2>6. CASE UNCHANGED evars
    BY <2>6
    DEF evars, ParseInv, WalkOK, TextsOK, ParsedOK, Body
  <2>. QED
    BY <2>2, <2>3, <2>4, <2>5, <2>6 DEF ParseNext
<1>. QED
  BY <1>1, <1>2, PTL DEF ParseSpec

\* Once the walk is over, what was kept is what First speaks of.
LEMMA KeptIsFirst ==
  ASSUME ParseInv, walk = "done", raw.opens # "error", NEW type, NEW text,
         FirstOf(raw.parts, next - 1, type, text)
  PROVE  IF text = Blank THEN \A any : ~First(type, any) ELSE First(type, text)
<1>1. next - 1 = Len(raw.parts)
  BY RawAssumption DEF ParseInv, WalkOK, RawMessage
<1>. QED
  BY <1>1 DEF FirstOf, Says, First

\* BodyIsBest of extractBody: whatever the parts of a message, the body is
\* its first plain text, else its first HTML, else what follows the header.
THEOREM BestPartWins == ParseSpec => []BodyIsBest
<1>1. ParseInv => BodyIsBest
  <2> SUFFICES ASSUME ParseInv, walk = "done" PROVE BodyIsBest
    BY DEF ParseInv, WalkOK, BodyIsBest
  <2>1. parsed.body = Body
    BY DEF ParseInv, ParsedOK
  <2>2. CASE raw.opens = "error"
    <3>1. plainText = Blank /\ htmlText = Blank
      BY <2>2 DEF ParseInv, WalkOK, TextsOK, FirstOf
    <3>. QED
      BY <2>1, <2>2, <3>1 DEF BodyIsBest, Has, Body
  <2>3. CASE raw.opens # "error"
    <3>1. IF plainText = Blank THEN ~Has("text/plain")
          ELSE Has("text/plain") /\ First("text/plain", plainText)
      BY <2>3, KeptIsFirst DEF ParseInv, TextsOK, Has
    <3>2. IF htmlText = Blank THEN ~Has("text/html")
          ELSE Has("text/html") /\ First("text/html", htmlText) /\ htmlText \in Html
      BY <2>3, KeptIsFirst DEF ParseInv, TextsOK, Has
    <3>. QED
      BY <2>1, <3>1, <3>2 DEF BodyIsBest, Body
  <2>. QED
    BY <2>2, <2>3
<1>. QED
  BY <1>1, ParseInvHolds, PTL

\* SameKeyOverHttp of messageKey: without a Message-ID the key is the one
\* that the HTTP adapter computes, and no key is empty.
THEOREM KeysAgree == ParseSpec => []SameKeyOverHttp
<1>1. ParseInv => SameKeyOverHttp
  <2> SUFFICES ASSUME ParseInv, walk = "done" PROVE SameKeyOverHttp
    BY DEF SameKeyOverHttp
  <2>1. Body \in PlainText
    BY RawAssumption, TextAssumption DEF Body, ParseInv, TextsOK, RawMessage
  <2>2. PICK from \in Header, subject \in Header :
          parsed = [from |-> from, subject |-> subject, body |-> Body,
                    key |-> IF raw.id # NoId THEN raw.id
                            ELSE HashKey(from, subject, Body)]
    BY DEF ParseInv, ParsedOK
  <2>3. parsed.from = from /\ parsed.subject = subject /\ parsed.body = Body
        /\ parsed.key = IF raw.id # NoId THEN raw.id ELSE HashKey(from, subject, Body)
    BY <2>2
  <2>4. HashKey(from, subject, Body) # NoId
    BY <2>1, KeyAssumption
  <2>. QED
    BY <2>3, <2>4 DEF SameKeyOverHttp, SubmittedKey, Submits
<1>. QED
  BY <1>1, ParseInvHolds, PTL

-----------------------------------------------------------------------------
(***************************************************************************)
(* The tools                                                               *)
(***************************************************************************)

\* What the server is asked for.
SentArgs == Encoded(args)

ToolInv ==
  /\ tickets \in Tables /\ tool \in Tool /\ args \in Args
  /\ stage \in {"dial", "mcp", "local", "called", "result", "answered"}
  /\ stage \in {"dial", "mcp", "local"} => wire = NoAnswer
  /\ stage = "called" => wire = SentArgs
  /\ stage = "result" => wire = BoxInvoke(tickets, tool, SentArgs)
  /\ stage = "answered" /\ ~lost =>
       answer = BoxInvoke(tickets, tool, IF wire = NoAnswer THEN args ELSE SentArgs)

\* What the server puts on the wire the client takes from it unchanged.
LEMMA AnswersTravel ==
  ASSUME NEW table, NEW name, NEW given, NEW a, a = BoxInvoke(table, name, given)
  PROVE  a = IF a.err THEN Error ELSE Answer(a.text)
<1>1. \A text : Answer(text).err = FALSE /\ Answer(text).text = text
  BY DEF Answer
<1>2. Error.err
  BY DEF Error
<1>3. FindSimilarTickets(table, given.value) = Error
        \/ \E text : FindSimilarTickets(table, given.value) = Answer(text)
  BY Zenon DEF FindSimilarTickets
<1>4. GetCustomer(given.value) = Answer(<<given.value \in Customer>>)
  BY DEF GetCustomer
<1>5. a = Error \/ \E text : a = Answer(text)
  BY <1>3, <1>4 DEF BoxInvoke
<1>. QED
  BY <1>1, <1>2, <1>5

\* What the client sends are arguments too; proper ones stay so, with the
\* field that counts when the keys are in order.
LEMMA SentIsArgs ==
  ASSUME args \in Args
  PROVE  /\ SentArgs \in Args
         /\ Decodes(args) => Decodes(SentArgs) /\ SentArgs.value = args.sorted
<1>1. CASE args.form = "empty"
  BY <1>1 DEF SentArgs, Encoded, Null, Args, Decodes
<1>2. CASE args.form # "empty"
  BY <1>2, LookupAssumption DEF SentArgs, Encoded, Args, Decodes, NotAString
<1>. QED
  BY <1>1, <1>2

\* Every step of a call preserves what is known of it.
LEMMA ToolInvHolds == ToolSpec => []ToolInv
<1>1. ToolInit => ToolInv
  BY DEF ToolInit, ToolInv
<1>2. ToolInv /\ [ToolNext]_tvars => ToolInv'
  <2> SUFFICES ASSUME ToolInv, [ToolNext]_tvars PROVE ToolInv'
    OBVIOUS
  <2>1. CASE UNCHANGED tvars
    BY <2>1 DEF tvars, ToolInv, SentArgs
  <2>2. CASE Dial
    BY <2>2 DEF Dial, ToolInv, SentArgs
  <2>3. CASE InvokeLocal
    BY <2>3 DEF InvokeLocal, Return, ToolInv, SentArgs
  <2>4. CASE SendCall
    <3>1. BoxInvoke(tickets, tool, args) = Error
            \/ args.form = "empty" \/ DecodesToMap(args)
      BY DEF BoxInvoke, Decodes, DecodesToMap
    <3>. QED
      BY <2>4, <3>1 DEF SendCall, Return, ToolInv, SentArgs
  <2>5. CASE ServeCall
    BY <2>5 DEF ServeCall, ToolInv, SentArgs
  <2>6. CASE ReceiveResult
    <3>1. wire = BoxInvoke(tickets, tool, SentArgs) /\ stage' = "answered" /\ answer' = wire
          /\ UNCHANGED <<tickets, tool, args, wire, lost>>
      BY <2>6, AnswersTravel DEF ReceiveResult, Return, ToolInv
    <3>2. wire # NoAnswer
      BY <3>1, SentIsArgs, NoAnswerAssumption DEF ToolInv
    <3>. QED
      BY <3>1, <3>2 DEF ToolInv, SentArgs
  <2>7. CASE LoseCall
    BY <2>7 DEF LoseCall, Return, ToolInv, SentArgs
  <2>. QED
    BY <2>1, <2>2, <2>3, <2>4, <2>5, <2>6, <2>7 DEF ToolNext
<1>. QED
  BY <1>1, <1>2, PTL DEF ToolSpec

\* SameOverMcp of the MCP client and server: whatever arguments the model
\* wrote, the answer over MCP is the answer in the process, but for a call
\* without arguments and for a field written twice.
THEOREM SameAnswerOverMcp == ToolSpec => []SameOverMcp
<1>1. ToolInv => SameOverMcp
  <2> SUFFICES ASSUME ToolInv, stage = "answered", ~lost, wire # NoAnswer
               PROVE  SameOverMcp
    BY DEF ToolInv, SameOverMcp
  <2>1. answer = BoxInvoke(tickets, tool, SentArgs)
    BY DEF ToolInv
  <2>2. CASE args.form = "empty"
    BY <2>1, <2>2 DEF SentArgs, Encoded, SameOverMcp
  <2>3. CASE args.form = "object" /\ args.sorted # args.value
    BY <2>1, <2>3 DEF SentArgs, Encoded, SameOverMcp
  <2>4. CASE args.form # "empty" /\ args.sorted = args.value
    <3>1. SentArgs = args
      BY <2>4 DEF SentArgs, Encoded, ToolInv, Args
    <3>. QED
      BY <2>1, <3>1 DEF SameOverMcp
  <2>. QED
    BY <2>2, <2>3, <2>4 DEF ToolInv, Args
<1>. QED
  BY <1>1, ToolInvHolds, PTL

\* The result set is built up from the first ticket to the last.
LEMMA FoundUnfolds ==
  ASSUME NEW table \in Seq(TicketRow), NEW query
  PROVE  \E f : /\ f \in [0 .. Len(table) -> Seq(TicketRow)]
                /\ f[0] = << >>
                /\ \A n \in 1 .. Len(table) :
                     f[n] = IF Shown(table[n], query) /\ Len(f[n - 1]) < Limit
                            THEN Append(f[n - 1], table[n])
                            ELSE f[n - 1]
                /\ Found(table, query) = f[Len(table)]
<1>. DEFINE N == Len(table)
            Grown(n, s) == IF Shown(table[n], query) /\ Len(s) < Limit
                           THEN Append(s, table[n]) ELSE s
            Builds(f) == f = [n \in 0 .. N |-> IF n = 0 THEN << >> ELSE Grown(n, f[n - 1])]
            found == CHOOSE f : Builds(f)
<1>1. N \in Nat /\ \A n \in 1 .. N : table[n] \in TicketRow
  <2>. HIDE DEF Builds, Grown
  <2>. QED
    OBVIOUS
<1>2. \A n \in 1 .. N, s \in Seq(TicketRow) : Grown(n, s) \in Seq(TicketRow)
  <2>. HIDE DEF N
  <2>. QED
    BY <1>1
<1>3. PICK f : /\ f \in [0 .. N -> Seq(TicketRow)]
               /\ f[0] = << >>
               /\ \A n \in 1 .. N : f[n] = Grown(n, f[n - 1])
  <2>. HIDE DEF N, Grown
  <2>. DEFINE G == [p \in (1 .. N) \X Seq(TicketRow) |-> Grown(p[1], p[2])]
  <2>1. G \in [(1 .. N) \X Seq(TicketRow) -> Seq(TicketRow)]
    BY <1>2
  <2>2. PICK f : Follows(f, N, Seq(TicketRow), << >>, G)
    <3>1. << >> \in Seq(TicketRow)
      OBVIOUS
    <3>. HIDE DEF G
    <3>. QED
      BY <1>1, <2>1, <3>1, RecursionExists
  <2>3. f \in [0 .. N -> Seq(TicketRow)] /\ f[0] = << >>
    BY <2>2 DEF Follows
  <2>4. ASSUME NEW n \in 1 .. N
        PROVE  f[n] = Grown(n, f[n - 1])
    <3>1. f[n] = G[n, f[n - 1]]
      BY <2>2 DEF Follows
    <3>2. n - 1 \in 0 .. N
      BY <1>1
    <3>3. f[n - 1] \in Seq(TicketRow)
      BY <2>3, <3>2
    <3>. QED
      BY <3>1, <3>3
  <2>. QED
    BY <2>3, <2>4
<1>4. Builds(f)
  <2>. HIDE DEF N, Grown
  <2>1. \A n \in 0 .. N : n # 0 => n \in 1 .. N
    BY <1>1
  <2>. QED
    BY <1>3, <2>1
<1>5. Builds(found)
  <2>. HIDE DEF Builds
  <2>. QED
    BY <1>4
<1>6. Found(table, query) = found[N]
  BY DEF Found
<1>7. /\ found[0] = << >>
      /\ \A n \in 1 .. N : found[n] = Grown(n, found[n - 1])
  <2>. HIDE DEF N, Grown, found
  <2>1. \A n \in 1 .. N : n \in 0 .. N /\ n # 0
    BY <1>1
  <2>2. 0 \in 0 .. N
    BY <1>1
  <2>. QED
    BY <1>5, <2>1, <2>2
<1>8. ASSUME NEW n \in 0 .. N
      PROVE  found[n] \in Seq(TicketRow)
  <2>. HIDE DEF N, Grown, found, Builds
  <2>. DEFINE S == {m \in 0 .. N : found[m] \in Seq(TicketRow)}
  <2>1. 0 \in S
    <3>1. << >> \in Seq(TicketRow) /\ 0 \in 0 .. N
      BY <1>1
    <3>. QED
      BY <1>7, <3>1
  <2>2. ASSUME NEW m \in 0 .. N, m + 1 \in 0 .. N, m \in S
        PROVE  m + 1 \in S
    <3>1. m + 1 \in 1 .. N /\ m + 1 - 1 = m
      BY <1>1, <2>2
    <3>2. found[m + 1] = Grown(m + 1, found[m])
      BY <1>7, <3>1
    <3>. QED
      BY <1>2, <2>2, <3>1, <3>2
  <2>. HIDE DEF S
  <2>3. 0 .. N \subseteq S
    BY <1>1, <2>1, <2>2, InductionUpTo
  <2>. QED
    BY <2>3 DEF S
<1>9. found \in [0 .. N -> Seq(TicketRow)]
  <2>. HIDE DEF N, Grown, found
  <2>. QED
    BY <1>5, <1>8
<1>. HIDE DEF found, Builds
<1>10. \A n \in 1 .. N :
         found[n] = IF Shown(table[n], query) /\ Len(found[n - 1]) < Limit
                    THEN Append(found[n - 1], table[n])
                    ELSE found[n - 1]
  BY <1>7
<1>. QED
  BY <1>6, <1>7, <1>9, <1>10

\* The tickets a look-up may show, and how many of those are before ticket i.
Shows(table, query) == {i \in 1 .. Len(table) : Shown(table[i], query)}
Before(I, i)        == {j \in I : j < i}

\* Those of the first n tickets that it shows.
Newest(I, n) == {i \in I : i <= n /\ Cardinality(Before(I, i)) < Limit}

Rows(table, I) == {table[i] : i \in I}

LEMMA AppendToSet ==
  ASSUME NEW R, NEW s \in Seq(R), NEW r \in R
  PROVE  ToSet(Append(s, r)) = ToSet(s) \cup {r}
<1>1. Len(s) \in Nat /\ DOMAIN s = 1 .. Len(s) /\ DOMAIN Append(s, r) = 1 .. Len(s) + 1
  OBVIOUS
<1>2. /\ \A i \in 1 .. Len(s) : Append(s, r)[i] = s[i]
      /\ Append(s, r)[Len(s) + 1] = r
  OBVIOUS
<1>3. \A i \in 1 .. Len(s) + 1 : i \in 1 .. Len(s) \/ i = Len(s) + 1
  BY <1>1
<1>4. \A i \in 1 .. Len(s) : i \in 1 .. Len(s) + 1
  BY <1>1
<1>5. Len(s) + 1 \in 1 .. Len(s) + 1
  BY <1>1
<1>. QED
  BY <1>1, <1>2, <1>3, <1>4, <1>5 DEF ToSet

\* What the rows that were found are, after each ticket of the table.
LEMMA FoundIsNewest ==
  ASSUME NEW table \in Seq(TicketRow), NEW query
  PROVE  /\ Found(table, query) \in Seq(TicketRow)
         /\ ToSet(Found(table, query))
              = Rows(table, Newest(Shows(table, query), Len(table)))
<1>1. PICK f : /\ f \in [0 .. Len(table) -> Seq(TicketRow)]
               /\ f[0] = << >>
               /\ \A n \in 1 .. Len(table) :
                    f[n] = IF Shown(table[n], query) /\ Len(f[n - 1]) < Limit
                           THEN Append(f[n - 1], table[n])
                           ELSE f[n - 1]
               /\ Found(table, query) = f[Len(table)]
  BY FoundUnfolds
<1>. DEFINE N == Len(table)
            I == Shows(table, query)
            Passed(n) == Cardinality(Before(I, n + 1))
            Done == {n \in 0 .. N :
                       /\ Len(f[n]) = IF Passed(n) < Limit THEN Passed(n) ELSE Limit
                       /\ ToSet(f[n]) = Rows(table, Newest(I, n))}
<1>2. N \in Nat /\ (\A n \in 1 .. N : table[n] \in TicketRow) /\ I \subseteq 1 .. N
  <2>. HIDE DEF I
  <2>1. I \subseteq 1 .. N
    BY DEF I, Shows
  <2>. QED
    BY <2>1
<1>. HIDE DEF N, I
<1>3. \A i \in I : i \in Nat /\ i >= 1
  BY <1>2
<1>4. Limit \in Nat \ {0}
  BY LookupAssumption
<1>5. \A n \in Nat : IsFiniteSet(Before(I, n)) /\ Cardinality(Before(I, n)) \in Nat
  <2>1. 1 \in Int /\ N \in Int
    BY <1>2
  <2>2. IsFiniteSet(1 .. N)
    BY <2>1, FS_Interval
  <2>3. \A n \in Nat : Before(I, n) \subseteq 1 .. N
    BY <1>2 DEF Before
  <2>. QED
    BY <2>2, <2>3, FS_Subset, FS_CardinalityType
<1>6. 0 \in Done
  <2>1. 0 + 1 = 1 /\ 0 \in 0 .. N /\ \A i \in I : ~(i < 1) /\ ~(i <= 0)
    BY <1>3, <1>2
  <2>2. Before(I, 0 + 1) = {} /\ Newest(I, 0) = {}
    BY <2>1 DEF Before, Newest
  <2>3. Passed(0) = 0
    BY <2>2, FS_EmptySet
  <2>4. ToSet(<< >>) = {} /\ Rows(table, {}) = {} /\ Len(<< >>) = 0
    BY DEF ToSet, Rows
  <2>. HIDE DEF Passed
  <2>5. Len(f[0]) = IF Passed(0) < Limit THEN Passed(0) ELSE Limit
    BY <1>1, <1>4, <2>3, <2>4
  <2>. QED
    BY <1>1, <2>1, <2>2, <2>4, <2>5
<1>7. ASSUME NEW n \in 0 .. N, n + 1 \in 0 .. N, n \in Done
      PROVE  n + 1 \in Done
  <2>1. n \in Nat /\ n + 1 \in 1 .. N /\ n + 1 - 1 = n
    BY <1>2, <1>7
  <2>2. f[n] \in Seq(TicketRow) /\ table[n + 1] \in TicketRow /\ Len(f[n]) \in Nat
    BY <1>1, <1>2, <1>7, <2>1 DEF N
  <2>3. f[n + 1] = IF Shown(table[n + 1], query) /\ Len(f[n]) < Limit
                   THEN Append(f[n], table[n + 1])
                   ELSE f[n]
    <3>1. \A m \in 1 .. N : m - 1 = n =>
            f[m] = IF Shown(table[m], query) /\ Len(f[n]) < Limit
                   THEN Append(f[n], table[m])
                   ELSE f[n]
      BY <1>1 DEF N
    <3>. QED
      BY <2>1, <3>1
  <2>4. /\ Len(f[n]) = IF Passed(n) < Limit THEN Passed(n) ELSE Limit
        /\ ToSet(f[n]) = Rows(table, Newest(I, n))
        /\ Passed(n) \in Nat
    BY <1>5, <1>7, <2>1
  <2>5. n + 1 \in I <=> Shown(table[n + 1], query)
    BY <2>1 DEF I, N, Shows
  <2>6. \A j \in I : /\ j < n + 1 + 1 <=> j < n + 1 \/ j = n + 1
                     /\ j <= n + 1 <=> j <= n \/ j = n + 1
                     /\ ~(n + 1 < n + 1) /\ ~(n + 1 <= n)
    BY <1>3, <2>1
  <2>7. CASE n + 1 \notin I
    <3>1. Before(I, n + 1 + 1) = Before(I, n + 1)
      BY <2>7, <2>6 DEF Before
    <3>2. Newest(I, n + 1) = Newest(I, n)
      BY <2>7, <2>6 DEF Newest
    <3>3. f[n + 1] = f[n]
      BY <2>3, <2>5, <2>7
    <3>. QED
      BY <1>7, <2>4, <3>1, <3>2, <3>3
  <2>8. CASE n + 1 \in I
    <3>1. Before(I, n + 1 + 1) = Before(I, n + 1) \cup {n + 1} /\ n + 1 \notin Before(I, n + 1)
      BY <2>8, <2>6 DEF Before
    <3>2. Passed(n + 1) = Passed(n) + 1
      <4>1. IsFiniteSet(Before(I, n + 1))
        BY <1>5, <2>1
      <4>. QED
        BY <3>1, <4>1, FS_AddElement
    <3>3. CASE Passed(n) < Limit
      <4>1. f[n + 1] = Append(f[n], table[n + 1])
        BY <2>3, <2>4, <2>5, <2>8, <3>3
      <4>2. Newest(I, n + 1) = Newest(I, n) \cup {n + 1}
        BY <2>8, <2>6, <3>3 DEF Newest
      <4>3. Rows(table, Newest(I, n + 1)) = Rows(table, Newest(I, n)) \cup {table[n + 1]}
        BY <4>2 DEF Rows
      <4>4. ToSet(f[n + 1]) = ToSet(f[n]) \cup {table[n + 1]}
        BY <2>2, <4>1, AppendToSet
      <4>5. Len(f[n + 1]) = Len(f[n]) + 1
        BY <2>2, <4>1
      <4>6. Len(f[n + 1]) = IF Passed(n + 1) < Limit THEN Passed(n + 1) ELSE Limit
        <5>. HIDE DEF Passed
        <5>. QED
          BY <1>4, <2>4, <3>2, <3>3, <4>5
      <4>. QED
        BY <1>7, <2>4, <4>3, <4>4, <4>6
    <3>4. CASE ~(Passed(n) < Limit)
      <4>1. f[n + 1] = f[n]
        BY <1>4, <2>3, <2>4, <3>4
      <4>2. Newest(I, n + 1) = Newest(I, n)
        BY <2>8, <2>6, <3>4 DEF Newest
      <4>3. Len(f[n + 1]) = IF Passed(n + 1) < Limit THEN Passed(n + 1) ELSE Limit
        <5>. HIDE DEF Passed
        <5>. QED
          BY <1>4, <2>4, <3>2, <3>4, <4>1
      <4>. QED
        BY <1>7, <2>4, <4>1, <4>2, <4>3
    <3>. QED
      BY <3>3, <3>4
  <2>. QED
    BY <2>7, <2>8
<1>. HIDE DEF Done
<1>8. N \in Done
  <2>1. 0 .. N \subseteq Done
    BY <1>2, <1>6, <1>7, InductionUpTo
  <2>. QED
    BY <1>2, <2>1
<1>9. f[N] \in Seq(TicketRow)
  BY <1>1, <1>2 DEF N
<1>. QED
  BY <1>1, <1>8, <1>9 DEF Done, N, I

\* lookup_similar_tickets shows the newest classified tickets that match, as
\* many as there are up to the limit, whichever way it is called.
THEOREM SimilarAreTheNewest == ToolSpec => []SimilarAreNewest
<1>1. ToolInv => SimilarAreNewest
  <2>. SUFFICES ASSUME ToolInv, stage = "answered", tool = "lookup_similar_tickets",
                       Decodes(args), ~lost
                PROVE  LET top == {i \in Listed : Cardinality({j \in Listed : j < i}) < Limit}
                       IN  IF \E i \in top : tickets[i].urgency = Unset THEN answer.err
                           ELSE ~answer.err /\ ToSet(answer.text) = {tickets[i] : i \in top}
    BY DEF SimilarAreNewest
  <2>. DEFINE found == Found(tickets, Asked)
              top   == Newest(Listed, Len(tickets))
  <2>1. answer = FindSimilarTickets(tickets, Asked)
    <3>1. CASE wire = NoAnswer
      BY <3>1 DEF ToolInv, BoxInvoke, Asked
    <3>2. CASE wire # NoAnswer
      BY <3>2, SentIsArgs DEF ToolInv, BoxInvoke, Asked
    <3>. QED
      BY <3>1, <3>2
  <2>2. tickets \in Seq(TicketRow)
    BY TablesAssumption DEF ToolInv
  <2>3. Listed = Shows(tickets, Asked)
    BY DEF Listed, Shows, Shown
  <2>4. found \in Seq(TicketRow) /\ ToSet(found) = Rows(tickets, top)
    BY <2>2, <2>3, FoundIsNewest
  <2>5. top = {i \in Listed : Cardinality({j \in Listed : j < i}) < Limit}
    <3>1. Listed \subseteq 1 .. Len(tickets)
      BY DEF Listed
    <3>2. \A i \in Listed : i <= Len(tickets)
      BY <2>2, <3>1
    <3>. QED
      BY <3>2 DEF Newest, Before
  <2>6. ToSet(found) = {found[i] : i \in 1 .. Len(found)}
    BY <2>4 DEF ToSet
  <2>7. Rows(tickets, top) = {tickets[i] : i \in top}
    BY DEF Rows
  <2>. HIDE DEF found, top
  <2>8. (\E i \in 1 .. Len(found) : found[i].urgency = Unset)
          <=> \E i \in top : tickets[i].urgency = Unset
    <3>1. (\E i \in 1 .. Len(found) : found[i].urgency = Unset)
            <=> \E row \in ToSet(found) : row.urgency = Unset
      BY <2>6
    <3>2. (\E i \in top : tickets[i].urgency = Unset)
            <=> \E row \in Rows(tickets, top) : row.urgency = Unset
      BY <2>7
    <3>. QED
      BY <2>4, <3>1, <3>2
  <2>9. answer = IF \E i \in 1 .. Len(found) : found[i].urgency = Unset
                 THEN Error ELSE Answer(found)
    BY <2>1 DEF FindSimilarTickets, found
  <2>10. Error.err /\ Answer(found).err = FALSE /\ Answer(found).text = found
    BY DEF Error, Answer
  <2>11. IF \E i \in top : tickets[i].urgency = Unset THEN answer.err
         ELSE ~answer.err /\ ToSet(answer.text) = {tickets[i] : i \in top}
    BY <2>4, <2>7, <2>8, <2>9, <2>10
  <2>. QED
    BY <2>5, <2>11
<1>. QED
  BY <1>1, ToolInvHolds, PTL

=============================================================================
