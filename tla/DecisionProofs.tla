--------------------------- MODULE DecisionProofs ---------------------------
(***************************************************************************)
(* Proofs about Decision, for every forecast, charge and load and for all  *)
(* values of the configuration.                                            *)
(***************************************************************************)
EXTENDS Decision, WellFoundedInduction, TLAPS

---------------------------------------------------------------------------
(* Arithmetic *)

LEMMA DivIsBelow ==
  ASSUME NEW n \in Nat, NEW d \in Nat \ {0}
  PROVE  n \div d \in Nat /\ n % d \in 0..(d - 1) /\ n = d * (n \div d) + (n % d)
  OBVIOUS

LEMMA MulMonotone ==
  ASSUME NEW a \in Int, NEW b \in Int, NEW c \in Nat, a <= b
  PROVE  a * c <= b * c
<1>1. (b - a) * c >= 0
  OBVIOUS
<1> QED
  BY <1>1

LEMMA MulNatNat ==
  ASSUME NEW a \in Nat, NEW b \in Nat
  PROVE  a * b \in Nat
  OBVIOUS

LEMMA Cancel ==
  ASSUME NEW a \in Int, NEW b \in Int, NEW c \in Nat \ {0}, a * c <= b * c
  PROVE  a <= b
<1>1. SUFFICES ASSUME a >= b + 1 PROVE FALSE
  OBVIOUS
<1>2. (b + 1) * c <= a * c
  BY <1>1, MulMonotone
<1> QED
  BY <1>2

\* Rounding to the nearest integer never doubles a fraction: what is below a half
\* becomes zero.
LEMMA RoundingAtMostDoubles ==
  ASSUME NEW n \in Nat, NEW d \in Nat \ {0}
  PROVE  RoundUpwards(n, d) \in Nat /\ RoundUpwards(n, d) * d <= 2 * n
<1> DEFINE q == n \div d
           r == n % d
<1>1. q \in Nat /\ r \in Nat /\ r < d /\ n = d * q + r
  BY DivIsBelow
<1>2. d * q \in Nat /\ d * q = q * d
  BY <1>1
<1>3. CASE 2 * r < d \/ (2 * r = d /\ q % 2 = 0)
  <2>1. RoundUpwards(n, d) = q
    BY <1>3 DEF RoundUpwards
  <2> QED
    BY <1>1, <1>2, <2>1
<1>4. CASE ~(2 * r < d \/ (2 * r = d /\ q % 2 = 0))
  <2>1. RoundUpwards(n, d) = q + 1
    BY <1>4 DEF RoundUpwards
  <2>2. (q + 1) * d = d * q + d /\ 2 * r >= d
    BY <1>1, <1>4
  <2> QED
    BY <1>1, <1>2, <2>1, <2>2
<1> QED
  BY <1>3, <1>4

---------------------------------------------------------------------------
(* One row *)

LEMMA RowTypes ==
  ASSUME NEW r \in Row
  PROVE  /\ \A i \in 1..5 : r.fan[i] \in Int
         /\ \A i \in 1..4 : r.fan[i] <= r.fan[i + 1]
         /\ r.charge \in Nat /\ r.load \in Nat
         /\ Net5(r) \in Int
         /\ Direction(r) \in {-1, 1}
<1>1. r.fan \in Fans /\ r.charge \in Charges /\ r.load \in Loads
  BY DEF Row
<1>2. /\ \A i \in 1..5 : r.fan[i] \in Int
      /\ \A i \in 1..4 : r.fan[i] <= r.fan[i + 1]
      /\ r.charge \in Nat /\ r.load \in Nat
  BY <1>1, FansAssumption, InputsAssumption
<1>3. Direction(r) \in {-1, 1}
  BY DEF Direction
<1>4. ExpectedSpread5(r) \in Int
  BY <1>2 DEF ExpectedSpread5
<1>5. 5 * Direction(r) * r.charge \in Int
  <2>1. 5 * Direction(r) \in Int
    BY <1>3
  <2> QED
    BY <1>2, <2>1
<1>6. Net5(r) \in Int
  BY <1>4, <1>5 DEF Net5
<1> QED
  BY <1>2, <1>3, <1>6

\* A volume that points where the net edge points and whose own impact on the spread
\* does not use that edge up.
Pays(delta, r) ==
  /\ delta \in Int
  /\ delta > 0 => Direction(r) = 1 /\ 5 * Eta * delta <= Net5(r)
  /\ delta < 0 => Direction(r) = -1 /\ 5 * Eta * (-delta) <= -Net5(r)

\* The grid may round a small position up, but no further than to twice its size,
\* which is where its impact uses the edge up (sizing.py:53-60).
LEMMA TargetPays ==
  ASSUME NEW r \in Row
  PROVE  Pays(TargetDelta(r), r)
<1> DEFINE e == NetEdge5(r)
           d == 1000 * Eta * Step
<1>1. Net5(r) \in Int /\ Direction(r) \in {-1, 1}
  BY RowTypes
<1>2. e \in Int
  BY <1>1 DEF NetEdge5
<1>3. Eta * Step \in Nat \ {0}
  BY SizingAssumption
<1>4. d \in Nat \ {0} /\ d = 1000 * (Eta * Step)
  BY <1>3, SizingAssumption
<1>5. ASSUME NEW m \in Nat, NEW k \in Nat, k = RoundUpwards(m * Aggr, d)
      PROVE  Step * k \in Nat /\ 5 * Eta * (Step * k) <= m
  <2>1. m * Aggr \in Nat
    BY SizingAssumption, MulNatNat
  <2>2. k * d <= 2 * (m * Aggr)
    BY <1>4, <1>5, <2>1, RoundingAtMostDoubles
  <2>3. m * Aggr <= m * 100
    BY MulMonotone, SizingAssumption
  <2>4. k * d = 200 * (5 * Eta * (Step * k))
    BY <1>4, SizingAssumption
  <2>5. 5 * Eta * (Step * k) \in Int
    BY SizingAssumption
  <2> QED
    BY <2>2, <2>3, <2>4, <2>5, <2>1, SizingAssumption
<1>6. CASE e < 0
  <2>1. e = Net5(r) /\ Direction(r) = -1
    BY <1>1, <1>6 DEF NetEdge5, Sign
  <2>2. e * Aggr = -((-e) * Aggr) /\ (-e) * Aggr \in Nat
    BY <1>2, <1>6, SizingAssumption
  <2> DEFINE k == RoundUpwards((-e) * Aggr, d)
  <2>3. k \in Nat /\ k * d <= 2 * ((-e) * Aggr)
    BY <2>2, <1>4, RoundingAtMostDoubles
  <2>4. Round(e * Aggr, d) = -k
    <3>1. CASE e * Aggr < 0
      BY <2>2, <2>3, <3>1 DEF Round
    <3>2. CASE e * Aggr = 0
      <4>1. Round(e * Aggr, d) = k
        BY <3>2, <2>2, <2>3 DEF Round
      <4>2. k * d <= 0
        BY <2>2, <2>3, <3>2
      <4>3. k = 0
        BY <2>3, <4>2, <1>4
      <4> QED
        BY <4>1, <4>3
    <3> QED
      BY <2>2, <3>1, <3>2
  <2>5. TargetDelta(r) = -(Step * k)
    <3>1. TargetDelta(r) = Step * (-k)
      BY <2>4 DEF TargetDelta
    <3> QED
      BY <2>3, <3>1, SizingAssumption
  <2>6. Step * k \in Nat /\ 5 * Eta * (Step * k) <= -e
    BY <1>2, <1>5, <1>6, <2>3
  <2> QED
    BY <2>1, <2>5, <2>6 DEF Pays
<1>7. CASE e >= 0
  <2>1. e > 0 => e = Net5(r) /\ Direction(r) = 1
    BY <1>1 DEF NetEdge5, Sign
  <2>2. e * Aggr \in Nat
    BY <1>2, <1>7, SizingAssumption
  <2> DEFINE k == RoundUpwards(e * Aggr, d)
  <2>3. k \in Nat
    BY <2>2, <1>4, RoundingAtMostDoubles
  <2>4. TargetDelta(r) = Step * k
    BY <2>2, <2>3 DEF TargetDelta, Round
  <2>5. Step * k \in Nat /\ 5 * Eta * (Step * k) <= e
    BY <1>2, <1>5, <1>7, <2>3
  <2>6. Step * k > 0 => e > 0
    <3>1. Step * k <= (Step * k) * (5 * Eta)
      BY <2>5, SizingAssumption
    <3> QED
      BY <2>5, <3>1, <1>2, <1>7, SizingAssumption
  <2> QED
    BY <2>1, <2>4, <2>5, <2>6 DEF Pays
<1> QED
  BY <1>2, <1>6, <1>7

\* Clipping shortens a volume and keeps its direction (limits.py:37-47).
LEMMA ClipShortens ==
  ASSUME NEW delta \in Int, NEW load \in Nat
  PROVE  /\ Clip(delta, load) \in -MtuCap..MtuCap
         /\ Abs(Clip(delta, load)) <= load * PctLoad
         /\ delta >= 0 => Clip(delta, load) \in 0..delta
         /\ delta <= 0 => Clip(delta, load) \in delta..0
<1> DEFINE cap == PerMtuCap(load)
<1>1. load * PctLoad \in Nat
  BY MulNatNat, LimitsAssumption
<1>2. cap \in Nat /\ cap <= MtuCap /\ cap <= load * PctLoad
  BY <1>1, LimitsAssumption DEF PerMtuCap
<1>3. CASE Abs(delta) <= cap
  BY <1>1, <1>2, <1>3, LimitsAssumption DEF Clip, Abs
<1>4. CASE ~(Abs(delta) <= cap)
  <2>1. Sign(delta) \in {-1, 0, 1} /\ Clip(delta, load) = Sign(delta) * cap
    BY <1>4 DEF Clip, Sign
  <2>2. \/ delta > 0 /\ Clip(delta, load) = cap /\ cap < delta
        \/ delta < 0 /\ Clip(delta, load) = -cap /\ cap < -delta
    BY <1>2, <1>4, <2>1 DEF Sign, Abs
  <2> QED
    BY <1>1, <1>2, <2>2, LimitsAssumption DEF Abs
<1> QED
  BY <1>3, <1>4

LEMMA ShorterPays ==
  ASSUME NEW r \in Row, NEW long \in Int, NEW short \in Int, Pays(long, r),
         short \in 0..long \/ short \in long..0
  PROVE  Pays(short, r)
<1>1. Net5(r) \in Int /\ 5 * Eta \in Nat
  BY RowTypes, SizingAssumption
<1>2. CASE short > 0
  <2>1. short <= long /\ short * (5 * Eta) <= long * (5 * Eta)
    BY <1>1, <1>2, MulMonotone
  <2> QED
    BY <1>1, <1>2, <2>1 DEF Pays
<1>3. CASE short < 0
  <2>1. -short <= -long /\ (-short) * (5 * Eta) <= (-long) * (5 * Eta)
    BY <1>1, <1>3, MulMonotone
  <2> QED
    BY <1>1, <1>3, <2>1 DEF Pays
<1>4. CASE short = 0
  BY <1>4 DEF Pays
<1> QED
  BY <1>2, <1>3, <1>4

\* What holds of each recommendation from the moment it is made.
Sound(rec) ==
  /\ rec \in Rec
  /\ Pays(rec.delta, rec.row)
  /\ Abs(rec.delta) <= rec.row.load * PctLoad
  /\ rec.delta # 0 => CvarOk(rec.row)

LEMMA RecommendationsAreSound ==
  ASSUME NEW r \in Row
  PROVE  Sound(Recommendation(r))
<1> DEFINE target == IF Abstention(r) = "sized" THEN TargetDelta(r) ELSE 0
           clipped == Clip(target, r.load)
           stopped == target # 0 /\ ~CvarOk(r)
           delta == IF stopped THEN 0 ELSE clipped
<1>1. r.load \in Nat /\ Net5(r) \in Int
  BY RowTypes
<1>2. target \in Int /\ Pays(target, r)
  BY TargetPays DEF Pays
<1>3. /\ clipped \in -MtuCap..MtuCap
      /\ Abs(clipped) <= r.load * PctLoad
      /\ clipped \in 0..target \/ clipped \in target..0
  <2> HIDE DEF target
  <2>1. target >= 0 \/ target <= 0
    BY <1>2
  <2> QED
    BY <1>1, <1>2, <2>1, ClipShortens
<1>4. Pays(clipped, r) /\ (clipped # 0 => target # 0)
  BY <1>2, <1>3, ShorterPays
<1>5. /\ delta \in -MtuCap..MtuCap
      /\ Pays(delta, r)
      /\ Abs(delta) <= r.load * PctLoad
      /\ delta # 0 => CvarOk(r)
  BY <1>1, <1>3, <1>4, LimitsAssumption, MulNatNat DEF Pays, Abs
<1>6. Margin5(r, delta) \in Int
  <2>1. 5 * Eta * delta \in Int
    BY <1>5, SizingAssumption
  <2> QED
    BY <1>1, <1>5, <2>1 DEF Margin5
<1>7. Recommendation(r) =
        [row |-> r,
         delta |-> delta,
         reason |-> IF stopped THEN "cvar_limit" ELSE Abstention(r),
         binding |-> IF clipped # target THEN "per_mtu_cap" ELSE "none",
         margin5 |-> Margin5(r, delta)]
  BY DEF Recommendation
<1>8. Abstention(r) \in Reasons
  BY DEF Abstention, Reasons
<1> HIDE DEF delta, stopped, clipped
<1>9. Recommendation(r) \in Rec
  BY <1>5, <1>6, <1>7, <1>8 DEF Rec, Bindings, Reasons
<1> QED
  BY <1>5, <1>7, <1>9 DEF Sound

---------------------------------------------------------------------------
(* The frame *)

ScaleOK ==
  \A d \in Days : scale[d].num <= scale[d].den

\* The inductive invariant: recommendations are sound before the daily cap, and the
\* cap neither turns nor enlarges them.
DecisionInv ==
  /\ TypeOK
  /\ ScaleOK
  /\ \A i \in DOMAIN recs : Sound(recs[i])

LEMMA InitDecisionInv == Init => DecisionInv
<1> SUFFICES ASSUME Init PROVE DecisionInv
  OBVIOUS
<1>1. recs \in Seq(Rec) /\ Len(recs) = 0 /\ DOMAIN recs = {}
  BY DEF Init
<1>2. total \in [Days -> Nat] /\ scale \in [Days -> [num : Nat, den : Nat \ {0}]]
  BY DEF Init
<1>3. ScaleOK
  BY DEF Init, ScaleOK
<1>4. TypeOK
  <2>1. done \in BOOLEAN
    BY DEF Init
  <2>2. Len(recs) <= MaxRows
    BY <1>1, InputsAssumption
  <2> QED
    BY <1>1, <1>2, <2>1, <2>2 DEF TypeOK
<1>5. \A i \in DOMAIN recs : Sound(recs[i])
  BY <1>1
<1> QED
  BY <1>3, <1>4, <1>5 DEF DecisionInv

LEMMA RecommendKeepsInv ==
  ASSUME DecisionInv, NEW r \in Row, Recommend(r)
  PROVE  DecisionInv'
<1> DEFINE rec == Recommendation(r)
<1>1. Sound(rec) /\ rec \in Rec
  BY RecommendationsAreSound DEF Sound
<1> HIDE DEF rec
<1>2. /\ recs' = Append(recs, rec)
      /\ recs \in Seq(Rec)
      /\ Len(recs) < MaxRows
  BY DEF Recommend, DecisionInv, TypeOK, rec
<1>3. recs' \in Seq(Rec) /\ Len(recs') <= MaxRows
  BY <1>1, <1>2, InputsAssumption
<1>4. \A i \in DOMAIN recs' : Sound(recs'[i])
  BY <1>1, <1>2 DEF DecisionInv
<1>5. total' \in [Days -> Nat]
  <2>1. Volume(rec.delta) \in Nat
    BY <1>1, LimitsAssumption DEF Rec, Volume, Abs
  <2>2. total \in [Days -> Nat] /\ r.day \in Days
    BY DEF DecisionInv, TypeOK, Row
  <2>3. total' = [total EXCEPT ![r.day] = total[r.day] + Volume(rec.delta)]
    BY DEF Recommend, rec
  <2> QED
    BY <2>1, <2>2, <2>3
<1>6. UNCHANGED <<scale, done>>
  BY DEF Recommend
<1> QED
  BY <1>3, <1>4, <1>5, <1>6 DEF DecisionInv, TypeOK, ScaleOK, Sound

LEMMA CappedStaysSound ==
  ASSUME NEW rec, Sound(rec)
  PROVE  Sound(Capped(rec)) /\ Capped(rec) \in Rec
<1>1. rec \in Rec
  BY DEF Sound
<1>2. Capped(rec) \in Rec
  <2> DEFINE m == IF DailyCap > 0 THEN rec.margin5 ELSE 0
             capped == [rec EXCEPT !.binding = "daily_cap", !.margin5 = m]
  <2>1. m \in Int
    BY <1>1 DEF Rec
  <2> HIDE DEF m
  <2>2. capped \in Rec
    BY <1>1, <2>1 DEF Rec, Bindings
  <2>3. Capped(rec) = rec \/ Capped(rec) = capped
    BY DEF Capped, m
  <2> QED
    BY <1>1, <2>2, <2>3
<1>3. Capped(rec).delta = rec.delta /\ Capped(rec).row = rec.row
  BY <1>1 DEF Capped, Rec
<1> QED
  BY <1>2, <1>3 DEF Sound

LEMMA CapKeepsInv ==
  ASSUME DecisionInv, ApplyDailyCap
  PROVE  DecisionInv'
<1>1. recs \in Seq(Rec) /\ \A i \in DOMAIN recs : Sound(recs[i])
  BY DEF DecisionInv, TypeOK
<1>2. recs' = [i \in DOMAIN recs |-> Capped(recs[i])]
  BY DEF ApplyDailyCap
<1>3. \A i \in DOMAIN recs : Sound(Capped(recs[i])) /\ Capped(recs[i]) \in Rec
  BY <1>1, CappedStaysSound
<1>4. recs' \in Seq(Rec) /\ Len(recs') = Len(recs)
  <2>1. DOMAIN recs = 1..Len(recs) /\ Len(recs) \in Nat
    BY <1>1
  <2>2. recs' \in [1..Len(recs) -> Rec]
    BY <1>2, <1>3, <2>1
  <2> QED
    BY <2>1, <2>2
<1>5. \A i \in DOMAIN recs' : Sound(recs'[i])
  BY <1>2, <1>3
<1>6. /\ scale' \in [Days -> [num : Nat, den : Nat \ {0}]]
      /\ ScaleOK'
  <2>1. total \in [Days -> Nat] /\ scale \in [Days -> [num : Nat, den : Nat \ {0}]]
    BY DEF DecisionInv, TypeOK
  <2>2. scale' = [d \in Days |-> IF Overfull(d) THEN [num |-> DailyCap, den |-> total[d]]
                                 ELSE scale[d]]
    BY DEF ApplyDailyCap
  <2>3. ASSUME NEW d \in Days
        PROVE  scale'[d] \in [num : Nat, den : Nat \ {0}] /\ scale'[d].num <= scale'[d].den
    <3>1. CASE Overfull(d)
      <4>1. scale'[d] = [num |-> DailyCap, den |-> total[d]]
        BY <2>2, <2>3, <3>1
      <4>2. DailyCap \in Nat /\ total[d] \in Nat /\ DailyCap < total[d]
        BY <2>1, <2>3, <3>1, LimitsAssumption DEF Overfull
      <4> QED
        BY <4>1, <4>2
    <3>2. CASE ~Overfull(d)
      <4>1. scale'[d] = scale[d]
        BY <2>2, <2>3, <3>2
      <4> QED
        BY <2>1, <2>3, <4>1 DEF DecisionInv, ScaleOK
    <3> QED
      BY <3>1, <3>2
  <2> QED
    BY <2>2, <2>3 DEF ScaleOK
<1>7. total' = total /\ done' \in BOOLEAN
  BY DEF ApplyDailyCap
<1> QED
  BY <1>4, <1>5, <1>6, <1>7 DEF DecisionInv, TypeOK

THEOREM DecisionInvariant == Spec => []DecisionInv
<1>1. DecisionInv /\ [Next]_vars => DecisionInv'
  <2> SUFFICES ASSUME DecisionInv, [Next]_vars PROVE DecisionInv'
    OBVIOUS
  <2>1. CASE ApplyDailyCap
    BY <2>1, CapKeepsInv
  <2>2. ASSUME NEW r \in Row, Recommend(r) PROVE DecisionInv'
    BY <2>2, RecommendKeepsInv
  <2>3. CASE UNCHANGED vars
    BY <2>3 DEF vars, DecisionInv, TypeOK, ScaleOK, Sound
  <2> QED
    BY <2>1, <2>2, <2>3 DEF Next
<1> QED
  BY <1>1, InitDecisionInv, PTL DEF Spec

---------------------------------------------------------------------------
(* Properties *)

\* Whatever the forecast and the configuration: volumes are within the cap per MTU,
\* and what recommend_frame keeps has its type.
THEOREM DecisionTyped == Spec => []TypeOK
<1>1. DecisionInv => TypeOK
  BY DEF DecisionInv
<1> QED
  BY <1>1, DecisionInvariant, PTL

\* No recommended volume has a negative expected margin, for every forecast, charge,
\* load and grid, as long as aggressiveness does not exceed one: a rounded position
\* is at most twice the optimum, and clipping and the daily cap only shorten it.
THEOREM NoTradeLoses == Spec => []NoLosingTrade
<1>1. DecisionInv => NoLosingTrade
  <2> SUFFICES ASSUME DecisionInv, NEW i \in DOMAIN recs
               PROVE  recs[i].delta * (Net5(recs[i].row) * F(recs[i]).den
                        - 5 * Eta * recs[i].delta * F(recs[i]).num) >= 0
    BY DEF NoLosingTrade
  <2> DEFINE delta == recs[i].delta
             net == Net5(recs[i].row)
             num == F(recs[i]).num
             den == F(recs[i]).den
  <2>1. Sound(recs[i]) /\ recs[i].row \in Row
    BY DEF DecisionInv, Sound, Rec
  <2>2. net \in Int /\ Pays(delta, recs[i].row)
    BY <2>1, RowTypes DEF Sound
  <2>3. num \in Nat /\ den \in Nat \ {0} /\ num <= den
    <3>1. recs[i].row.day \in Days
      BY <2>1 DEF Row
    <3> QED
      BY <3>1 DEF DecisionInv, TypeOK, ScaleOK, F
  <2> HIDE DEF delta, net, num, den
  <2>4. CASE delta > 0
    <3> DEFINE used == 5 * Eta * delta
    <3>1. used \in Nat /\ used <= net /\ delta \in Nat
      BY <2>2, <2>4, SizingAssumption, MulNatNat DEF Pays, net
    <3> HIDE DEF used
    <3>2. used * num <= used * den
      BY <2>3, <3>1, MulMonotone
    <3>3. used * den <= net * den
      BY <2>2, <2>3, <3>1, MulMonotone
    <3>4. net * den - used * num \in Nat
      BY <2>2, <2>3, <3>1, <3>2, <3>3
    <3>5. delta * (net * den - used * num) \in Nat
      BY <3>1, <3>4, MulNatNat
    <3> QED
      BY <3>5 DEF used, delta, net, num, den
  <2>5. CASE delta < 0
    <3> DEFINE used == 5 * Eta * (-delta)
    <3>1. used \in Nat /\ used <= -net /\ -delta \in Nat
      BY <2>2, <2>5, SizingAssumption, MulNatNat DEF Pays, net
    <3> HIDE DEF used
    <3>2. used * num <= used * den
      BY <2>3, <3>1, MulMonotone
    <3>3. used * den <= (-net) * den
      BY <2>2, <2>3, <3>1, MulMonotone
    <3>4. (-net) * den - used * num \in Nat
      BY <2>2, <2>3, <3>1, <3>2, <3>3
    <3>5. (-delta) * ((-net) * den - used * num) \in Nat
      BY <3>1, <3>4, MulNatNat
    <3>6. used = -(5 * Eta * delta)
      BY <2>2, SizingAssumption DEF used, Pays
    <3>7. (-delta) * ((-net) * den - used * num) = delta * (net * den - 5 * Eta * delta * num)
      BY <2>2, <2>3, <3>1, <3>6, SizingAssumption DEF Pays
    <3> QED
      BY <3>5, <3>7 DEF delta, net, num, den
  <2>6. CASE delta = 0
    <3>1. net * den - 5 * Eta * delta * num \in Int
      BY <2>2, <2>3, <2>6, SizingAssumption
    <3> QED
      BY <2>6, <3>1 DEF delta, net, num, den
  <2> QED
    BY <2>2, <2>4, <2>5, <2>6 DEF Pays, delta
<1> QED
  BY <1>1, DecisionInvariant, PTL

\* In no scenario of its forecast does a recommended deviation, long or short, lose
\* more per unit than the CVaR limit.
THEOREM WorstCaseBounded == Spec => []WorstCaseIsBounded
<1>1. DecisionInv => WorstCaseIsBounded
  <2> SUFFICES ASSUME DecisionInv, NEW i \in DOMAIN recs, recs[i].delta # 0, NEW p \in 1..5
               PROVE  Sign(recs[i].delta) * recs[i].row.fan[p] - recs[i].row.charge >= -CvarLimit
    BY DEF WorstCaseIsBounded
  <2> DEFINE row == recs[i].row
  <2>1. Sound(recs[i]) /\ row \in Row
    BY DEF DecisionInv, Sound, Rec
  <2>2. CvarOk(row) /\ Pays(recs[i].delta, row)
    BY <2>1 DEF Sound
  <2>3. Sign(recs[i].delta) = Direction(row) /\ Direction(row) \in {-1, 1}
    BY <2>1, <2>2, RowTypes DEF Pays, Sign
  <2>4. /\ row.charge \in Nat
        /\ \A q \in 1..5 : row.fan[q] \in Int
        /\ row.fan[1] <= row.fan[p] /\ row.fan[p] <= row.fan[5]
    <3>1. /\ row.fan[1] <= row.fan[2] /\ row.fan[2] <= row.fan[3]
          /\ row.fan[3] <= row.fan[4] /\ row.fan[4] <= row.fan[5]
      BY <2>1, RowTypes
    <3>2. row.charge \in Nat /\ \A q \in 1..5 : row.fan[q] \in Int
      BY <2>1, RowTypes
    <3> QED
      BY <3>1, <3>2
  <2> HIDE DEF row
  <2>5. CASE Direction(row) = 1
    BY <2>2, <2>3, <2>4, <2>5, LimitsAssumption DEF CvarOk, WorstCase, row
  <2>6. CASE Direction(row) = -1
    BY <2>2, <2>3, <2>4, <2>6, LimitsAssumption DEF CvarOk, WorstCase, row
  <2> QED
    BY <2>3, <2>5, <2>6
<1> QED
  BY <1>1, DecisionInvariant, PTL

---------------------------------------------------------------------------
(* The daily cap *)

\* A set of numbers has a least element.
LEMMA LeastExists ==
  ASSUME NEW T, T \subseteq Nat, T # {}
  PROVE  \E n \in T : \A m \in T : n <= m
<1>1. PICK n \in T : \A m \in T : ~ (<<m, n>> \in OpToRel(<, Nat))
  BY NatLessThanWellFounded, WFMin
<1>2. \A m \in T : ~ (m < n)
  BY <1>1 DEF OpToRel
<1>. QED
  BY <1>2

\* The running sum of the volumes of day d over the first m rows of a frame.
RunningSum(rs, d, m, g) ==
  g = [n \in 0..m |-> IF n = 0 THEN 0 ELSE g[n - 1] + Share(rs[n], d)]

\* The running sum of the volumes exists, however long the frame.
LEMMA RunningSumExists ==
  ASSUME NEW rs, NEW d, NEW m \in Nat
  PROVE  \E g : RunningSum(rs, d, m, g)
<1> USE DEF RunningSum
<1> DEFINE Bad == {k \in Nat : ~\E g : RunningSum(rs, d, k, g)}
<1>1. SUFFICES ASSUME Bad # {} PROVE FALSE
  BY <1>1
<1>2. PICK k \in Bad : \A j \in Bad : k <= j
  <2>1. Bad \subseteq Nat
    OBVIOUS
  <2> HIDE DEF Bad
  <2>. QED
    BY <1>1, <2>1, LeastExists
<1>3. CASE k = 0
  <2>1. RunningSum(rs, d, 0, [n \in 0..0 |-> 0])
    OBVIOUS
  <2>. QED
    BY <1>2, <1>3, <2>1
<1>4. CASE k # 0
  <2>1. k - 1 \in Nat /\ k - 1 \notin Bad
    BY <1>2, <1>4
  <2>2. PICK g : RunningSum(rs, d, k - 1, g)
    BY <2>1
  <2> DEFINE h == [n \in 0..k |-> IF n = 0 THEN 0 ELSE g[n - 1] + Share(rs[n], d)]
  <2>3. \A n \in 0..(k - 1) : h[n] = g[n]
    BY <1>2, <1>4, <2>2
  <2>4. \A n \in 0..k : n # 0 => n - 1 \in 0..(k - 1)
    BY <1>2
  <2>5. RunningSum(rs, d, k, h)
    BY <2>3, <2>4
  <2>. QED
    BY <1>2, <2>5
<1>. QED
  BY <1>3, <1>4

LEMMA DayVolumeEnds ==
  ASSUME NEW rs \in Seq(Rec), NEW d
  PROVE  \E g : RunningSum(rs, d, Len(rs), g) /\ DayVolume(rs, d) = g[Len(rs)]
<1>1. Len(rs) \in Nat
  OBVIOUS
<1>2. \E g : RunningSum(rs, d, Len(rs), g)
  BY <1>1, RunningSumExists
<1>. QED
  BY <1>2 DEF DayVolume, RunningSum

\* Two frames with the same shares, one row after the other, have the same running sum as
\* far as both go.
LEMMA RunningSumsAgree ==
  ASSUME NEW rs, NEW ts, NEW d, NEW g, NEW h,
         RunningSum(rs, d, Len(rs), g), RunningSum(ts, d, Len(ts), h),
         Len(rs) \in Nat, Len(ts) \in Nat, Len(rs) <= Len(ts),
         \A n \in 1..Len(rs) : Share(rs[n], d) = Share(ts[n], d)
  PROVE  \A n \in 0..Len(rs) : g[n] = h[n]
<1> DEFINE Bad == {n \in 0..Len(rs) : g[n] # h[n]}
<1>1. SUFFICES ASSUME Bad # {} PROVE FALSE
  OBVIOUS
<1>2. PICK k \in Bad : \A j \in Bad : k <= j
  <2>1. Bad \subseteq Nat
    OBVIOUS
  <2> HIDE DEF Bad
  <2>. QED
    BY <1>1, <2>1, LeastExists
<1>3. k # 0
  BY <1>2 DEF RunningSum
<1>4. k - 1 \in 0..Len(rs) /\ k \in 1..Len(rs) /\ k \in 0..Len(ts) /\ k - 1 \notin Bad
  BY <1>2, <1>3
<1>5. g[k] = g[k - 1] + Share(rs[k], d) /\ h[k] = h[k - 1] + Share(ts[k], d)
  BY <1>3, <1>4 DEF RunningSum
<1>. QED
  BY <1>2, <1>4, <1>5

LEMMA SharesAdd ==
  ASSUME NEW rs \in Seq(Rec), NEW rec \in Rec, NEW d
  PROVE  DayVolume(Append(rs, rec), d) = DayVolume(rs, d) + Share(rec, d)
<1> DEFINE ts == Append(rs, rec)
<1>1. /\ ts \in Seq(Rec) /\ Len(ts) = Len(rs) + 1 /\ ts[Len(rs) + 1] = rec /\ Len(rs) \in Nat
      /\ \A n \in 1..Len(rs) : ts[n] = rs[n]
  OBVIOUS
<1>2. PICK g : RunningSum(rs, d, Len(rs), g) /\ DayVolume(rs, d) = g[Len(rs)]
  BY DayVolumeEnds
<1> HIDE DEF ts
<1>3. PICK h : RunningSum(ts, d, Len(ts), h) /\ DayVolume(ts, d) = h[Len(ts)]
  BY <1>1, DayVolumeEnds
<1>4. g[Len(rs)] = h[Len(rs)]
  BY <1>1, <1>2, <1>3, RunningSumsAgree
<1>5. h[Len(ts)] = h[Len(rs)] + Share(rec, d)
  BY <1>1, <1>3 DEF RunningSum
<1>. QED
  BY <1>2, <1>3, <1>4, <1>5 DEF ts

LEMMA SameSharesSameVolume ==
  ASSUME NEW rs \in Seq(Rec), NEW ts \in Seq(Rec), NEW d, Len(rs) = Len(ts),
         \A n \in 1..Len(rs) : Share(rs[n], d) = Share(ts[n], d)
  PROVE  DayVolume(rs, d) = DayVolume(ts, d)
<1>1. PICK g : RunningSum(rs, d, Len(rs), g) /\ DayVolume(rs, d) = g[Len(rs)]
  BY DayVolumeEnds
<1>2. PICK h : RunningSum(ts, d, Len(ts), h) /\ DayVolume(ts, d) = h[Len(ts)]
  BY DayVolumeEnds
<1>. QED
  BY <1>1, <1>2, RunningSumsAgree

\* The daily aggregate is the volume of the rows of its day, and once the frame is finished
\* the factor of a day brings that aggregate down to the cap.
CapInv ==
  /\ \A d \in Days : total[d] = DayVolume(recs, d)
  /\ \A d \in Days :
       /\ done /\ Overfull(d) => scale[d] = [num |-> DailyCap, den |-> total[d]]
       /\ ~done \/ ~Overfull(d) => scale[d] = [num |-> 1, den |-> 1]

LEMMA EmptyDay ==
  ASSUME NEW d
  PROVE  DayVolume(<<>>, d) = 0
<1>1. <<>> \in Seq(Rec) /\ Len(<<>>) = 0
  OBVIOUS
<1>2. PICK g : RunningSum(<<>>, d, 0, g) /\ DayVolume(<<>>, d) = g[0]
  BY <1>1, DayVolumeEnds
<1>. QED
  BY <1>1, <1>2 DEF RunningSum

LEMMA CapInvHolds == Spec => [](DecisionInv /\ CapInv)
<1>1. Init => CapInv
  BY EmptyDay DEF Init, CapInv
<1>2. ASSUME DecisionInv, CapInv, NEW r \in Row, Recommend(r) PROVE CapInv'
  <2> DEFINE rec == Recommendation(r)
  <2>1. rec \in Rec /\ rec.row = r
    <3>1. Sound(rec)
      BY RecommendationsAreSound
    <3>2. rec.row = r
      BY DEF Recommendation
    <3>. QED
      BY <3>1, <3>2 DEF Sound
  <2>2. /\ recs' = Append(recs, rec) /\ ~done
        /\ total' = [total EXCEPT ![r.day] = total[r.day] + Volume(rec.delta)]
        /\ UNCHANGED <<scale, done>>
    BY <1>2 DEF Recommend
  <2> HIDE DEF rec
  <2>3. recs \in Seq(Rec) /\ total \in [Days -> Nat]
    BY <1>2 DEF DecisionInv, TypeOK
  <2>4. \A d \in Days : DayVolume(recs', d) = DayVolume(recs, d) + Share(rec, d)
    BY <2>1, <2>2, <2>3, SharesAdd
  <2>5. ASSUME NEW d \in Days PROVE total'[d] = total[d] + Share(rec, d)
    BY <2>1, <2>2, <2>3 DEF Share, Volume
  <2>. QED
    BY <1>2, <2>2, <2>4, <2>5 DEF CapInv, Overfull
<1>3. ASSUME DecisionInv, CapInv, ApplyDailyCap PROVE CapInv'
  <2>1. recs \in Seq(Rec) /\ \A i \in 1..Len(recs) : recs[i] \in Rec
    BY <1>3 DEF DecisionInv, TypeOK
  <2>2. recs' = [i \in 1..Len(recs) |-> Capped(recs[i])] /\ total' = total /\ done'
    BY <1>3, <2>1 DEF ApplyDailyCap
  <2>3. recs' \in Seq(Rec) /\ Len(recs') = Len(recs)
    <3>1. recs' \in Seq(Rec)
      BY <1>3, CapKeepsInv DEF DecisionInv, TypeOK
    <3>. QED
      BY <2>1, <2>2, <3>1
  <2>4. ASSUME NEW d \in Days, NEW i \in 1..Len(recs) PROVE Share(recs[i], d) = Share(recs'[i], d)
    <3>1. recs'[i] = Capped(recs[i]) /\ recs[i] \in Rec
      BY <2>1, <2>2
    <3>2. Capped(recs[i]).delta = recs[i].delta /\ Capped(recs[i]).row = recs[i].row
      BY <3>1 DEF Capped, Rec
    <3>. QED
      BY <3>1, <3>2 DEF Share
  <2>5. \A d \in Days : DayVolume(recs', d) = DayVolume(recs, d)
    BY <2>1, <2>3, <2>4, SameSharesSameVolume
  <2>6. \A d \in Days : scale'[d] = IF Overfull(d) THEN [num |-> DailyCap, den |-> total[d]]
                                    ELSE scale[d]
    BY <1>3 DEF ApplyDailyCap
  <2>7. ~done /\ recs # <<>>
    BY <1>3 DEF ApplyDailyCap
  <2>. QED
    BY <1>3, <2>2, <2>3, <2>5, <2>6, <2>7 DEF CapInv, Overfull
<1>4. DecisionInv /\ CapInv /\ [Next]_vars => CapInv'
  <2> SUFFICES ASSUME DecisionInv, CapInv, [Next]_vars PROVE CapInv'
    OBVIOUS
  <2>1. CASE UNCHANGED vars
    BY <2>1 DEF vars, CapInv, Overfull
  <2>. QED
    BY <1>2, <1>3, <2>1 DEF Next
<1>. QED
  BY <1>1, <1>4, DecisionInvariant, PTL DEF Spec

\* No deviation exceeds its share of the load or the cap per MTU, and the volumes of one
\* delivery day, long or short, stay together within the daily cap once the frame is
\* finished, for any number of rows and days (limits.py:37-47, 74-90).
THEOREM CapsAreKept == Spec => []CapsHold
<1>1. ASSUME DecisionInv, NEW i \in DOMAIN recs
      PROVE  Abs(recs[i].delta) <= MtuCap /\ Abs(recs[i].delta) <= recs[i].row.load * PctLoad
  <2>1. Sound(recs[i])
    BY <1>1 DEF DecisionInv
  <2>2. recs[i].delta \in -MtuCap..MtuCap
    BY <2>1 DEF Sound, Rec
  <2>. QED
    BY <2>1, <2>2, LimitsAssumption DEF Sound, Abs
<1>2. ASSUME DecisionInv, CapInv, done, NEW d \in Days
      PROVE  DayVolume(recs, d) * scale[d].num <= DailyCap * scale[d].den
  <2>1. total[d] \in Nat /\ DailyCap \in Nat /\ DayVolume(recs, d) = total[d]
    BY <1>2, LimitsAssumption DEF DecisionInv, TypeOK, CapInv
  <2>2. CASE Overfull(d)
    <3>1. scale[d] = [num |-> DailyCap, den |-> total[d]]
      BY <1>2, <2>2, Zenon DEF CapInv
    <3>2. total[d] * DailyCap <= DailyCap * total[d]
      BY <2>1
    <3>. QED
      BY <2>1, <3>1, <3>2
  <2>3. CASE ~Overfull(d)
    <3>1. scale[d] = [num |-> 1, den |-> 1]
      BY <1>2, <2>3, Zenon DEF CapInv
    <3>. QED
      BY <2>1, <2>3, <3>1 DEF Overfull
  <2>. QED
    BY <2>2, <2>3
<1>3. DecisionInv /\ CapInv => CapsHold
  BY <1>1, <1>2 DEF CapsHold
<1>. QED
  BY <1>3, CapInvHolds, PTL

===============================================================================
