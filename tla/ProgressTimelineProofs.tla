----------------------- MODULE ProgressTimelineProofs -----------------------
(***************************************************************************)
(* Proofs about ProgressTimeline and CameraFusion.                         *)
(*                                                                         *)
(* The timeline, for any number of days and any readings up to the         *)
(* ceiling.  The arithmetic comes first: what rounding a fraction to the   *)
(* stored precision preserves, and that blending with a value below the    *)
(* ceiling stays below it.  Then what one result owes to the results       *)
(* before it (the Result lemmas), and the invariant, which appending such  *)
(* a result keeps.                                                         *)
(*                                                                         *)
(* A day, for any cameras, weights and scores: sums over a finite set,     *)
(* photographs counted by them, the two middles of such a count, and what  *)
(* one more photograph does to the middles and to the weighted mean.       *)
(***************************************************************************)
EXTENDS ProgressTimeline, CameraFusion, SequenceTheorems, FiniteSetTheorems,
        WellFoundedInduction, TLAPS

Fractions == [num : Nat, den : Nat \ {0}]
-----------------------------------------------------------------------------
LEMMA DivBounds ==
    ASSUME NEW a \in Nat, NEW b \in Nat, b > 0
    PROVE  /\ a \div b \in Nat
           /\ b * (a \div b) <= a
           /\ a < b * ((a \div b) + 1)
BY Z3

LEMMA LeTimes ==
    ASSUME NEW a \in Int, NEW b \in Int, NEW d \in Nat, a <= b
    PROVE  a * d <= b * d
BY Z3

LEMMA LtTimesConverse ==
    ASSUME NEW a \in Int, NEW b \in Int, NEW d \in Nat, d > 0, a * d < b * d
    PROVE  a < b
BY Z3

(* Rounding to the stored precision never passes a stored value: round    *)
(* (x, 4) of a value on one side of a stored one is on that side or equal.*)
LEMMA RoundOrder ==
    ASSUME NEW x \in Fractions
    PROVE  /\ Round(x) \in Nat
           /\ \A n \in Nat : x.num <= n * x.den => Round(x) <= n
           /\ \A n \in Nat : n * x.den <= x.num => n <= Round(x)
           /\ \A n \in Nat : 2 * x.num + x.den < (2 * n) * x.den => Round(x) < n
<1> DEFINE a == 2 * x.num + x.den
           d == x.den
           c == Round(x)
<1>1. x.num \in Nat /\ d \in Nat /\ d > 0 /\ a \in Nat /\ 2 * d \in Nat /\ 2 * d > 0
  BY DEF Fractions
<1>2. c \in Nat /\ (2 * d) * c <= a /\ a < (2 * d) * (c + 1)
  BY <1>1, DivBounds DEF Round
<1>3. (2 * c) * d <= a /\ a < (2 * c + 2) * d
  <2>1. (2 * d) * c = (2 * c) * d /\ (2 * d) * (c + 1) = (2 * c + 2) * d
    BY <1>1, <1>2, Z3
  <2> QED BY <1>2, <2>1
<1> HIDE DEF c
<1>4. ASSUME NEW n \in Nat, x.num <= n * d
      PROVE  c <= n
  <2>1. (2 * c) * d < (2 * n + 2) * d
    <3>1. (2 * n + 2) * d = 2 * (n * d) + 2 * d
      BY <1>1, Z3
    <3>2. a <= 2 * (n * d) + d
      BY <1>1, <1>4, Z3
    <3> QED BY <1>1, <1>2, <1>3, <3>1, <3>2, Z3
  <2>2. 2 * c < 2 * n + 2
    BY <1>1, <1>2, <2>1, LtTimesConverse
  <2> QED BY <1>2, <2>2
<1>5. ASSUME NEW n \in Nat, n * d <= x.num
      PROVE  n <= c
  <2>1. (2 * n) * d < (2 * c + 2) * d
    <3>1. (2 * n) * d = 2 * (n * d)
      BY <1>1, Z3
    <3>2. 2 * (n * d) <= a
      BY <1>1, <1>5, Z3
    <3> QED BY <1>1, <1>2, <1>3, <3>1, <3>2, Z3
  <2>2. 2 * n < 2 * c + 2
    BY <1>1, <1>2, <2>1, LtTimesConverse
  <2> QED BY <1>2, <2>2
<1>6. ASSUME NEW n \in Nat, a < (2 * n) * d
      PROVE  c < n
  <2>1. (2 * c) * d < (2 * n) * d
    BY <1>1, <1>2, <1>3, <1>6, Z3
  <2>2. 2 * c < 2 * n
    BY <1>1, <1>2, <2>1, LtTimesConverse
  <2> QED BY <1>2, <2>2
<1> QED BY <1>2, <1>4, <1>5, <1>6 DEF c

LEMMA RoundWhole ==
    ASSUME NEW n \in Nat
    PROVE  Whole(n) \in Fractions /\ Round(Whole(n)) = n
<1>1. Whole(n) \in Fractions /\ Whole(n).num = n /\ Whole(n).den = 1
  BY DEF Whole, Fractions
<1>2. n * Whole(n).den = n
  BY <1>1
<1>3. Round(Whole(n)) \in Nat /\ Round(Whole(n)) <= n /\ n <= Round(Whole(n))
  BY <1>1, <1>2, RoundOrder
<1> QED BY <1>1, <1>3

(* What cannot be rounded away: a value whose stored form is below a      *)
(* stored one was itself below it.                                        *)
LEMMA RoundedBelow ==
    ASSUME NEW x \in Fractions, NEW n \in Nat
    PROVE  /\ Round(x) < n => Below(x, n)
           /\ n < Round(x) => Exceeds(x, n)
<1>1. x.num \in Nat /\ x.den \in Nat /\ n * x.den \in Nat
  BY DEF Fractions
<1>2. Round(x) \in Nat /\ (x.num <= n * x.den => Round(x) <= n)
                       /\ (n * x.den <= x.num => n <= Round(x))
  BY RoundOrder
<1> QED BY <1>1, <1>2 DEF Below, Exceeds
-----------------------------------------------------------------------------
Inputs == Raws \union {NoEvidence}

\* All that the proofs need of the ceiling: its value stays folded.
LEMMA CeilingPositive == Ceiling \in Nat /\ Ceiling > 0
BY SMT DEF Ceiling

LEMMA InputType ==
    ASSUME NEW raw \in Inputs, raw # NoEvidence
    PROVE  raw \in Fractions /\ raw.num <= Ceiling * raw.den
BY RawsAssumption DEF Inputs, Fractions

LEMMA PreviousType ==
    ASSUME series \in Seq(Results), series # <<>>
    PROVE  /\ Len(series) \in 1..Len(series)
           /\ Previous \in Results
           /\ Previous.ema \in 0..Ceiling
           /\ Previous.displayed \in 0..Ceiling
           /\ Previous.stage \in Stages
<1>1. Len(series) \in Nat /\ Len(series) > 0
  OBVIOUS
<1>2. Previous \in Results
  BY <1>1 DEF Previous
<1> QED BY <1>1, <1>2 DEF Results

LEMMA BlendArithmetic ==
    ASSUME NEW e \in Nat, NEW n \in Nat, NEW d \in Nat, NEW c \in Nat,
           d > 0, n <= c * d, e <= c
    PROVE  /\ 3 * n + (7 * e) * d <= c * (10 * d)
           /\ e < c => 2 * (3 * n + (7 * e) * d) + 10 * d < (2 * c) * (10 * d)
<1>1. PICK p \in Nat : p = c * d
  BY Z3
<1>2. PICK q \in Nat : q = e * d
  BY Z3
<1>3. (7 * e) * d = 7 * q /\ c * (10 * d) = 10 * p /\ (2 * c) * (10 * d) = 20 * p
  BY <1>1, <1>2, Z3
<1>4. q <= p
  BY <1>1, <1>2, LeTimes
<1>5. ASSUME e < c
      PROVE  q <= p - d
  <2>1. e * d <= (c - 1) * d
    BY <1>5, LeTimes
  <2>2. (c - 1) * d = c * d - d
    BY Z3
  <2> QED BY <1>1, <1>2, <2>1, <2>2
<1> QED BY <1>1, <1>3, <1>4, <1>5

(* The blend of a reading with a smoothed value below the ceiling stays   *)
(* so far below it that rounding does not reach it: three tenths of the   *)
(* way from 79.9999 is stored as 79.9999.                                 *)
LEMMA BlendBelow ==
    ASSUME series \in Seq(Results), series # <<>>,
           NEW raw \in Inputs, raw # NoEvidence
    PROVE  /\ Blend(raw) \in Fractions
           /\ Blend(raw).num <= Ceiling * Blend(raw).den
           /\ Previous.ema < Ceiling => Round(Blend(raw)) < Ceiling
<1> DEFINE e == Previous.ema
           n == raw.num
           d == raw.den
<1>1. e \in 0..Ceiling /\ n \in Nat /\ d \in Nat /\ d > 0 /\ n <= Ceiling * d
  BY PreviousType, InputType DEF Fractions
<1>2. Blend(raw) = [num |-> 3 * n + (7 * e) * d, den |-> 10 * d]
  <2>1. AlphaTenths * n + (10 - AlphaTenths) * e * d = 3 * n + (7 * e) * d
    BY <1>1, Z3 DEF AlphaTenths
  <2> QED BY <2>1 DEF Blend
<1>3. (7 * e) * d \in Nat /\ 10 * d \in Nat \ {0}
  BY <1>1, Z3
<1>4. Blend(raw) \in Fractions
  BY <1>1, <1>2, <1>3 DEF Fractions
<1>c. Ceiling \in Nat /\ e \in Nat /\ e <= Ceiling
  BY <1>1, CeilingPositive
<1> HIDE DEF e, n, d
<1>b. /\ 3 * n + (7 * e) * d <= Ceiling * (10 * d)
      /\ e < Ceiling =>
            2 * (3 * n + (7 * e) * d) + 10 * d < (2 * Ceiling) * (10 * d)
  BY <1>1, <1>c, BlendArithmetic
<1>5. Blend(raw).num <= Ceiling * Blend(raw).den
  BY <1>2, <1>b
<1>6. ASSUME e < Ceiling
      PROVE  Round(Blend(raw)) < Ceiling
  <2>1. 2 * Blend(raw).num + Blend(raw).den < (2 * Ceiling) * Blend(raw).den
    BY <1>2, <1>6, <1>b
  <2> QED BY <1>4, <1>c, <2>1, RoundOrder
<1> QED BY <1>4, <1>5, <1>6 DEF e

LEMMA CappedWithin ==
    ASSUME NEW x \in Fractions
    PROVE  /\ Capped(x) \in Fractions
           /\ Capped(x).num <= Ceiling * Capped(x).den
           /\ x.num <= Ceiling * x.den => Capped(x) = x
<1>1. Whole(Ceiling) \in Fractions /\ Whole(Ceiling).num <= Ceiling * Whole(Ceiling).den
  BY CeilingPositive DEF Whole, Fractions
<1>2. x.num \in Nat /\ x.den \in Nat /\ Ceiling * x.den \in Nat
  BY CeilingPositive DEF Fractions
<1> QED BY <1>1, <1>2 DEF Capped

LEMMA SmoothedType ==
    ASSUME series \in Seq(Results), NEW raw \in Inputs
    PROVE  /\ Smoothed(raw) \in Fractions
           /\ Smoothed(raw).num <= Ceiling * Smoothed(raw).den
           /\ Round(Smoothed(raw)) \in 0..Ceiling
           /\ series # <<>> /\ Previous.ema < Ceiling
                 => Round(Smoothed(raw)) < Ceiling
           /\ series # <<>> /\ raw = NoEvidence
                 => Round(Smoothed(raw)) = Previous.ema
<1>1. Smoothed(raw) \in Fractions /\ Smoothed(raw).num <= Ceiling * Smoothed(raw).den
  <2>1. CASE raw = NoEvidence /\ series = <<>>
    BY <2>1, RoundWhole, CappedWithin DEF Smoothed
  <2>2. CASE raw = NoEvidence /\ series # <<>>
    BY <2>2, PreviousType, RoundWhole, CappedWithin DEF Smoothed
  <2>3. CASE raw # NoEvidence /\ series = <<>>
    BY <2>3, InputType, CappedWithin DEF Smoothed
  <2>4. CASE raw # NoEvidence /\ series # <<>>
    BY <2>4, BlendBelow, CappedWithin DEF Smoothed
  <2> QED BY <2>1, <2>2, <2>3, <2>4
<1>2. Round(Smoothed(raw)) \in 0..Ceiling
  BY <1>1, RoundOrder, CeilingPositive
<1>3. ASSUME series # <<>>, raw = NoEvidence
      PROVE  Round(Smoothed(raw)) = Previous.ema
  <2>1. Previous.ema \in 0..Ceiling
    BY <1>3, PreviousType
  <2>2. Whole(Previous.ema).num <= Ceiling * Whole(Previous.ema).den
    BY <2>1, CeilingPositive DEF Whole
  <2>3. Smoothed(raw) = Whole(Previous.ema)
    BY <1>3, <2>1, <2>2, RoundWhole, CappedWithin DEF Smoothed
  <2> QED BY <2>1, <2>3, RoundWhole
<1>4. ASSUME series # <<>>, Previous.ema < Ceiling
      PROVE  Round(Smoothed(raw)) < Ceiling
  <2>1. CASE raw = NoEvidence
    BY <1>3, <1>4, <2>1
  <2>2. CASE raw # NoEvidence
    <3>1. Smoothed(raw) = Blend(raw)
      BY <1>4, <2>2, BlendBelow, CappedWithin DEF Smoothed
    <3> QED BY <1>4, <2>2, <3>1, BlendBelow
  <2> QED BY <2>1, <2>2
<1> QED BY <1>1, <1>2, <1>3, <1>4
-----------------------------------------------------------------------------
LEMMA FloorType ==
    /\ \A s \in Stages : Floor(s) \in Nat
    /\ Floor(0) = 0
BY SMT DEF Floor, Stages

LEMMA StageForType ==
    ASSUME NEW x \in Fractions
    PROVE  /\ StageFor(x) \in Stages
           /\ Floor(StageFor(x)) * x.den <= x.num
           /\ \A t \in Stages : t > StageFor(x) => Below(x, Floor(t))
<1> DEFINE Holds(s) == Floor(s) * x.den <= x.num
<1>1. x.num \in Nat /\ x.den \in Nat /\ \A s \in Stages : Floor(s) * x.den \in Nat
  BY FloorType DEF Fractions
<1>2. Holds(0)
  <2>1. 0 \in Stages /\ 0 * x.den = 0
    BY <1>1 DEF Stages
  <2> QED BY <1>1, <2>1, FloorType
<1>3. \A s \in Stages : ~Holds(s) => Below(x, Floor(s))
  BY <1>1 DEF Below
<1> HIDE DEF Holds
<1>4. \E s \in Stages : Holds(s) /\ \A t \in Stages : t > s => ~Holds(t)
  <2>1. CASE Holds(4)
    BY <2>1 DEF Stages
  <2>2. CASE ~Holds(4) /\ Holds(3)
    BY <2>2 DEF Stages
  <2>3. CASE ~Holds(4) /\ ~Holds(3) /\ Holds(2)
    BY <2>3 DEF Stages
  <2>4. CASE ~Holds(4) /\ ~Holds(3) /\ ~Holds(2) /\ Holds(1)
    BY <2>4 DEF Stages
  <2>5. CASE ~Holds(4) /\ ~Holds(3) /\ ~Holds(2) /\ ~Holds(1)
    BY <1>2, <2>5 DEF Stages
  <2> QED BY <2>1, <2>2, <2>3, <2>4, <2>5
<1>5. \E s \in Stages : /\ Floor(s) * x.den <= x.num
                        /\ \A t \in Stages : t > s => Below(x, Floor(t))
  BY <1>3, <1>4 DEF Holds
<1> QED BY <1>5 DEF StageFor

(* A number of 0 is in the first stage.                                   *)
LEMMA StageOfNothing == StageFor(Whole(0)) = 0
<1>1. \A t \in Stages : t > 0 => Below(Whole(0), Floor(t))
  BY DEF Stages, Below, Whole, Floor
<1>2. \A s \in Stages : Floor(s) * Whole(0).den <= Whole(0).num => s = 0
  BY DEF Stages, Floor, Whole
<1>3. Floor(0) * Whole(0).den <= Whole(0).num /\ 0 \in Stages
  BY DEF Stages, Floor, Whole
<1> QED BY <1>1, <1>2, <1>3 DEF StageFor

(* The label is chosen from the value before rounding: rounding can carry *)
(* the stored value into the next band, never back into the one before.   *)
LEMMA StageOfRounded ==
    ASSUME NEW x \in Fractions
    PROVE  StageFor(x) <= StageFor(Whole(Round(x)))
<1> DEFINE y == Whole(Round(x))
           s == StageFor(x)
           t == StageFor(y)
<1>1. Round(x) \in Nat /\ y \in Fractions /\ y.num = Round(x) /\ y.den = 1
  BY RoundOrder DEF Whole, Fractions
<1>2. s \in Stages /\ Floor(s) * x.den <= x.num /\ Floor(s) \in Nat
  BY StageForType, FloorType
<1>3. t \in Stages /\ \A u \in Stages : u > t => Below(y, Floor(u))
  BY <1>1, StageForType
<1>4. Floor(s) <= Round(x)
  BY <1>2, RoundOrder
<1>5. ~Below(y, Floor(s))
  BY <1>1, <1>2, <1>4 DEF Below
<1>6. ~(s > t)
  BY <1>2, <1>3, <1>5
<1> HIDE DEF s, t
<1>7. s <= t
  BY <1>2, <1>3, <1>6 DEF Stages
<1> QED BY <1>7 DEF s, t
-----------------------------------------------------------------------------
LEMMA DisplayedType ==
    ASSUME series \in Seq(Results), NEW raw \in Inputs
    PROVE  /\ Displayed(raw) \in Fractions
           /\ Round(Displayed(raw)) \in 0..Ceiling
<1>1. CASE Displayed(raw) = Smoothed(raw)
  BY <1>1, SmoothedType
<1>2. CASE series # <<>> /\ Displayed(raw) = Whole(Previous.displayed)
  <2>1. Previous.displayed \in 0..Ceiling /\ Previous.displayed \in Nat
    BY <1>2, PreviousType, CeilingPositive
  <2> QED BY <1>2, <2>1, RoundWhole
<1> QED BY <1>1, <1>2 DEF Displayed

LEMMA ResultType ==
    ASSUME series \in Seq(Results), NEW raw \in Inputs
    PROVE  Result(raw) \in Results
<1>1. Round(Smoothed(raw)) \in 0..Ceiling /\ Round(Displayed(raw)) \in 0..Ceiling
  BY SmoothedType, DisplayedType
<1>2. GuardedStage(raw) \in Stages
  <2>1. StageFor(Displayed(raw)) \in Stages
    BY DisplayedType, StageForType
  <2>2. series # <<>> => Previous.stage \in Stages
    BY PreviousType
  <2> QED BY <2>1, <2>2 DEF GuardedStage
<1>3. (raw # NoEvidence) \in BOOLEAN /\ Regressed(raw) \in BOOLEAN
  BY DEF Regressed
<1> QED BY <1>1, <1>2, <1>3 DEF Result, Results

(* A first result shows what it smoothed.                                 *)
LEMMA FirstResult ==
    ASSUME series = <<>>, series \in Seq(Results), NEW raw \in Inputs
    PROVE  /\ Result(raw).displayed = Result(raw).ema
           /\ ~Result(raw).regressed
           /\ Result(raw).stage <= StageFor(Whole(Result(raw).displayed))
<1>1. Displayed(raw) = Smoothed(raw) /\ ~Regressed(raw)
  BY DEF Displayed, Regressed, Released
<1>2. Result(raw).stage = StageFor(Displayed(raw))
  BY DEF Result, GuardedStage
<1>3. StageFor(Displayed(raw)) <= StageFor(Whole(Round(Displayed(raw))))
  BY DisplayedType, StageOfRounded
<1> QED BY <1>1, <1>2, <1>3 DEF Result

(* A later result, against the one before it.                             *)
LEMMA NextResult ==
    ASSUME series # <<>>, series \in Seq(Results), NEW raw \in Inputs
    PROVE  LET r == Result(raw)
               p == Previous
           IN  /\ Released(raw) => r.displayed = r.ema
               /\ ~Released(raw) => /\ \/ r.displayed = r.ema
                                      \/ r.displayed = p.displayed
                                   /\ r.ema <= r.displayed
                                   /\ p.displayed <= r.displayed
               /\ Below(Smoothed(raw), p.ema) => r.ema <= p.ema
               /\ r.ema < p.ema => Below(Smoothed(raw), p.ema)
               /\ r.stage <= StageFor(Whole(r.displayed))
               /\ r.stage > p.stage => r.stage = StageFor(Whole(p.displayed))
<1> DEFINE x == Smoothed(raw)
           p == Previous
           candidate == StageFor(Displayed(raw))
<1>1. x \in Fractions /\ p.ema \in Nat /\ p.displayed \in Nat /\ p.stage \in Stages
  BY SmoothedType, PreviousType, CeilingPositive
<1>2. /\ Result(raw).ema = Round(x)
      /\ Result(raw).displayed = Round(Displayed(raw))
      /\ Result(raw).stage = GuardedStage(raw)
  BY DEF Result
<1>3. x.num \in Nat /\ \A n \in Nat : n * x.den \in Nat
  BY <1>1 DEF Fractions
<1>4. Released(raw) => Displayed(raw) = x
  BY DEF Displayed
<1>5. ASSUME ~Released(raw)
      PROVE  /\ Round(Displayed(raw)) = Round(x) \/ Round(Displayed(raw)) = p.displayed
             /\ Round(x) <= Round(Displayed(raw))
             /\ p.displayed <= Round(Displayed(raw))
  <2>1. CASE Exceeds(x, p.displayed)
    <3>1. Displayed(raw) = x
      BY <2>1 DEF Displayed
    <3>2. p.displayed * x.den <= x.num
      BY <1>1, <1>3, <2>1 DEF Exceeds
    <3> QED BY <1>1, <3>1, <3>2, RoundOrder
  <2>2. CASE ~Exceeds(x, p.displayed)
    <3>1. Displayed(raw) = Whole(p.displayed)
      BY <1>5, <2>2 DEF Displayed
    <3>2. Round(Displayed(raw)) = p.displayed
      BY <1>1, <3>1, RoundWhole
    <3>3. x.num <= p.displayed * x.den
      BY <1>1, <1>3, <2>2 DEF Exceeds
    <3>4. Round(x) <= p.displayed
      BY <1>1, <3>3, RoundOrder
    <3> QED BY <1>1, <3>2, <3>4
  <2> QED BY <2>1, <2>2
<1>6. Below(x, p.ema) => Round(x) <= p.ema
  <2>1. p.ema * x.den \in Nat
    BY <1>1, <1>3
  <2>2. Below(x, p.ema) => x.num <= p.ema * x.den
    BY <1>3, <2>1 DEF Below
  <2> QED BY <1>1, <2>2, RoundOrder
<1>7. Round(x) < p.ema => Below(x, p.ema)
  BY <1>1, RoundedBelow
<1>8. candidate \in Stages /\ candidate <= StageFor(Whole(Round(Displayed(raw))))
  BY DisplayedType, StageForType, StageOfRounded
<1>9. GuardedStage(raw) <= candidate
  <2>1. CASE candidate <= p.stage \/ Confirmed(candidate)
    BY <1>8, <2>1 DEF GuardedStage, Stages
  <2>2. CASE ~(candidate <= p.stage \/ Confirmed(candidate))
    BY <1>1, <1>8, <2>2 DEF GuardedStage, Stages
  <2> QED BY <2>1, <2>2
<1>10. GuardedStage(raw) > p.stage => GuardedStage(raw) = StageFor(Whole(p.displayed))
  <2>1. ASSUME GuardedStage(raw) > p.stage
        PROVE  GuardedStage(raw) = candidate /\ Confirmed(candidate)
    BY <1>1, <1>8, <2>1 DEF GuardedStage, Stages
  <2>2. Confirmed(candidate) => StageFor(Whole(p.displayed)) = candidate
    <3>1. Len(series) \in (Len(series) + 2 - AdvanceConfirmations)..Len(series)
      BY DEF AdvanceConfirmations
    <3> QED BY <3>1 DEF Confirmed, Previous
  <2> QED BY <2>1, <2>2
<1>11. GuardedStage(raw) <= StageFor(Whole(Round(Displayed(raw))))
  <2>1. /\ StageFor(Whole(Round(Displayed(raw)))) \in Stages
        /\ GuardedStage(raw) \in Stages
    <3>1. Round(Displayed(raw)) \in Nat
      BY DisplayedType, CeilingPositive
    <3> QED BY <1>1, <1>8, <3>1, RoundWhole, StageForType DEF GuardedStage
  <2> QED BY <1>8, <1>9, <2>1 DEF Stages
<1> QED BY <1>2, <1>4, <1>5, <1>6, <1>7, <1>10, <1>11

(* A window without eligible photographs leaves the number where it is.   *)
LEMMA EmptyWindow ==
    ASSUME series \in Seq(Results)
    PROVE  /\ series = <<>> => Result(NoEvidence).displayed = 0
           /\ series # <<>> /\ Previous.ema <= Previous.displayed
                 => Result(NoEvidence).displayed = Previous.displayed
<1>1. CASE series = <<>>
  <2>1. Smoothed(NoEvidence) = Whole(0)
    BY <1>1, CeilingPositive DEF Smoothed, Capped, Whole
  <2>2. Displayed(NoEvidence) = Whole(0)
    BY <1>1, <2>1 DEF Displayed
  <2> QED BY <1>1, <2>2, RoundWhole DEF Result
<1>2. CASE series # <<>> /\ Previous.ema <= Previous.displayed
  <2>1. Previous.ema \in 0..Ceiling /\ Previous.displayed \in Nat
    BY <1>2, PreviousType, CeilingPositive
  <2>2. Smoothed(NoEvidence) = Whole(Previous.ema)
    <3>1. ~(Previous.ema > Ceiling * 1)
      BY <2>1, CeilingPositive
    <3> QED BY <1>2, <3>1 DEF Smoothed, Capped, Whole
  <2>3. ~Exceeds(Smoothed(NoEvidence), Previous.displayed)
    BY <1>2, <2>1, <2>2, CeilingPositive DEF Exceeds, Whole
  <2>4. ~Released(NoEvidence)
    BY DEF Released, FallingFor
  <2>5. Displayed(NoEvidence) = Whole(Previous.displayed)
    BY <1>2, <2>3, <2>4 DEF Displayed
  <2> QED BY <1>2, <2>1, <2>5, RoundWhole DEF Result
<1> QED BY <1>1, <1>2
-----------------------------------------------------------------------------
(* What AggregateWindow does to the series, for all the steps below.      *)
LEMMA Appended ==
    ASSUME TypeOK, AggregateWindow,
           NEW n \in Nat, n = Len(series),
           NEW m \in Nat, m = n + 1
    PROVE  LET raw == windows[m]
           IN  /\ raw \in Inputs
               /\ series' = Append(series, Result(raw))
               /\ series' \in Seq(Results)
               /\ Len(series') = m
               /\ \A i \in 1..n : series'[i] = series[i] /\ series[i] \in Results
               /\ series'[m] = Result(raw)
               /\ \A i \in 1..n : Fell(i)' <=> Fell(i)
               /\ Fell(m)' <=> /\ n > 0
                                  /\ raw # NoEvidence
                                  /\ Result(raw).ema < series[n].ema
               /\ m <= Len(windows)
<1> DEFINE raw == windows[m]
<1>1. series \in Seq(Results) /\ windows \in Seq(Inputs) /\ n < Len(windows)
  BY DEF TypeOK, AggregateWindow, Inputs
<1>2. raw \in Inputs
  BY <1>1
<1>3. series' = Append(series, Result(raw)) /\ Result(raw) \in Results
  BY <1>1, <1>2, ResultType DEF AggregateWindow
<1> HIDE DEF raw
<1>4. /\ series' \in Seq(Results)
      /\ Len(series') = m
      /\ \A i \in 1..n : series'[i] = series[i] /\ series[i] \in Results
      /\ series'[m] = Result(raw)
  BY <1>1, <1>3
<1>5. \A i \in 1..n : Fell(i)' <=> Fell(i)
  <2>1. ASSUME NEW i \in 1..n
        PROVE  Fell(i)' <=> Fell(i)
    <3>1. series'[i] = series[i] /\ (i > 1 => series'[i - 1] = series[i - 1])
      BY <1>1, <1>4
    <3> QED BY <3>1 DEF Fell
  <2> QED BY <2>1
<1>6. Fell(m)' <=> n > 0 /\ raw # NoEvidence /\ Result(raw).ema < series[n].ema
  <2>1. Result(raw).evidence <=> raw # NoEvidence
    BY DEF Result
  <2>2. n > 0 => series'[n] = series[n]
    BY <1>1, <1>4
  <2>3. m - 1 = n /\ (m > 1 <=> n > 0)
    BY <1>1
  <2>4. Fell(m)' <=> /\ m > 1
                        /\ series'[m].evidence
                        /\ series'[m].ema < series'[n].ema
    BY <2>3 DEF Fell
  <2> QED BY <1>4, <2>1, <2>2, <2>3, <2>4
<1>7. m <= Len(windows)
  BY <1>1
<1> QED BY <1>1, <1>2, <1>3, <1>4, <1>5, <1>6, <1>7 DEF raw

(* The runs the ratchet looks at, in terms of the windows that fell.      *)
LEMMA RunOfThree ==
    ASSUME series # <<>>, series \in Seq(Results), NEW raw \in Inputs
    PROVE  LET n == Len(series)
           IN  /\ Released(raw) <=> /\ raw # NoEvidence
                                    /\ Below(Smoothed(raw), Previous.ema)
                                    /\ Fell(n) /\ Fell(n - 1)
               /\ Regressed(raw) <=> Released(raw) /\ ~Fell(n - 2)
               /\ Released(raw) => n >= 3
<1> DEFINE n == Len(series)
<1>1. n \in Nat /\ n > 0
  OBVIOUS
<1>2. n + 2 - RegressConfirmations = n - 1 /\ n + 2 - (RegressConfirmations + 1) = n - 2
  BY <1>1 DEF RegressConfirmations
<1>3. (n - 1)..n = {n - 1, n} /\ (n - 2)..n = {n - 2, n - 1, n}
  BY <1>1
<1>4. Fell(n - 1) => n >= 3
  BY <1>1 DEF Fell
<1> QED BY <1>2, <1>3, <1>4 DEF Released, Regressed, FallingFor
-----------------------------------------------------------------------------
(* Appending the result of the next window keeps the invariant.           *)
LEMMA AggregateStep ==
    ASSUME IInv, AggregateWindow
    PROVE  IInv'
<1>1. PICK n \in Nat : n = Len(series)
  BY DEF IInv, TypeOK
<1>2. PICK m \in Nat : m = n + 1
  BY <1>1
<1> DEFINE raw == windows[m]
           r   == Result(raw)
<1>3. TypeOK /\ series \in Seq(Results)
  BY DEF IInv, TypeOK
<1>4. /\ raw \in Inputs
      /\ series' \in Seq(Results)
      /\ Len(series') = m
      /\ m <= Len(windows)
  BY <1>1, <1>2, <1>3, Appended
<1>5. /\ \A i \in 1..n : series'[i] = series[i] /\ series[i] \in Results
      /\ series'[m] = r
      /\ \A i \in 1..n : Fell(i)' <=> Fell(i)
  BY <1>1, <1>2, <1>3, Appended
<1>6. Fell(m)' <=> n > 0 /\ raw # NoEvidence /\ r.ema < series[n].ema
  BY <1>1, <1>2, <1>3, Appended
<1>7. r \in Results
  BY <1>3, <1>4, ResultType
<1>8. 1..Len(series') = (1..n) \union {m} /\ m \notin 1..n
  BY <1>1, <1>2, <1>4
<1>9. ASSUME n > 0
      PROVE  /\ series # <<>> /\ Previous = series[n]
             /\ series[n] \in Results
  BY <1>1, <1>3, <1>5, <1>9 DEF Previous
<1>10. ASSUME n = 0
       PROVE  /\ r.displayed = r.ema
              /\ ~r.regressed
              /\ r.stage <= StageFor(Whole(r.displayed))
  <2>1. series = <<>>
    BY <1>1, <1>3, <1>10, EmptySeq
  <2> QED BY <1>3, <1>4, <2>1, FirstResult
<1>11. ASSUME n > 0
       PROVE  LET p == series[n]
              IN  /\ Released(raw) => r.displayed = r.ema
                  /\ ~Released(raw) => /\ \/ r.displayed = r.ema
                                         \/ r.displayed = p.displayed
                                      /\ r.ema <= r.displayed
                                      /\ p.displayed <= r.displayed
                  /\ Below(Smoothed(raw), p.ema) => r.ema <= p.ema
                  /\ r.ema < p.ema => Below(Smoothed(raw), p.ema)
                  /\ r.stage <= StageFor(Whole(r.displayed))
                  /\ r.stage > p.stage => r.stage = StageFor(Whole(p.displayed))
  BY <1>3, <1>4, <1>9, <1>11, NextResult
<1>12. ASSUME n > 0
       PROVE  /\ Released(raw) <=> /\ raw # NoEvidence
                                   /\ Below(Smoothed(raw), series[n].ema)
                                   /\ Fell(n) /\ Fell(n - 1)
              /\ Regressed(raw) <=> Released(raw) /\ ~Fell(n - 2)
              /\ Released(raw) => n >= 3
  BY <1>1, <1>3, <1>4, <1>9, <1>12, RunOfThree
<1>13. (r.regressed <=> Regressed(raw)) /\ (r.evidence <=> raw # NoEvidence)
  BY DEF Result
<1>14. /\ r.ema \in 0..Ceiling /\ r.displayed \in 0..Ceiling
       /\ n > 0 => series[n].ema \in 0..Ceiling /\ series[n].displayed \in 0..Ceiling
  BY <1>7, <1>9 DEF Results
<1>15. Ceiling \in Nat
  BY CeilingPositive
<1> HIDE DEF raw, r
<1>16. TypeOK'
  BY <1>3, <1>4 DEF TypeOK, AggregateWindow
<1>17. ShownWasMeasured'
  <2>1. ASSUME NEW i \in 1..n
        PROVE  /\ series'[i].ema <= series'[i].displayed
               /\ \E j \in 1..i : /\ series'[j].displayed = series'[j].ema
                                 /\ series'[i].displayed = series'[j].ema
    <3>1. /\ series[i].ema <= series[i].displayed
          /\ \E j \in 1..i : /\ series[j].displayed = series[j].ema
                            /\ series[i].displayed = series[j].ema
      BY <1>1 DEF IInv, ShownWasMeasured
    <3> QED BY <1>5, <3>1
  <2>2. /\ series'[m].ema <= series'[m].displayed
        /\ \E j \in 1..m : /\ series'[j].displayed = series'[j].ema
                          /\ series'[m].displayed = series'[j].ema
    <3>1. CASE r.displayed = r.ema
      BY <1>2, <1>5, <1>14, <1>15, <3>1
    <3>2. CASE n > 0 /\ r.displayed = series[n].displayed /\ r.ema <= r.displayed
      <4>1. \E j \in 1..n : /\ series'[j].displayed = series'[j].ema
                           /\ series'[n].displayed = series'[j].ema
        BY <2>1, <3>2
      <4> QED BY <1>2, <1>5, <3>2, <4>1
    <3> QED BY <1>10, <1>11, <3>1, <3>2
  <2> QED BY <1>8, <2>1, <2>2 DEF ShownWasMeasured
<1>18. FallsAreSustained'
  <2> DEFINE Sustained(i) ==
               series[i].displayed < series[i - 1].displayed =>
                 /\ i > RegressConfirmations
                 /\ series[i].evidence
                 /\ series[i].ema <= series[i - 1].ema
                 /\ \A j \in (i - RegressConfirmations + 2)..(i - 1) : Fell(j)
  <2>1. ASSUME NEW i \in 2..n
        PROVE  Sustained(i)'
    <3>1. Sustained(i)
      BY <1>1 DEF IInv, FallsAreSustained
    <3>2. series'[i] = series[i] /\ series'[i - 1] = series[i - 1]
      BY <1>5
    <3>3. ASSUME i > RegressConfirmations
          PROVE  \A j \in (i - RegressConfirmations + 2)..(i - 1) : Fell(j)' <=> Fell(j)
      BY <1>5, <3>3 DEF RegressConfirmations
    <3> QED BY <3>1, <3>2, <3>3
  <2>2. ASSUME n > 0
        PROVE  Sustained(m)'
    <3>1. series'[m - 1] = series[n] /\ series'[m] = r
      BY <1>2, <1>5, <2>2
    <3>2. ASSUME r.displayed < series[n].displayed
          PROVE  /\ Released(raw) /\ n >= 3
                 /\ raw # NoEvidence
                 /\ r.ema <= series[n].ema
                 /\ Fell(n)'
      BY <1>5, <1>11, <1>12, <1>14, <1>15, <2>2, <3>2
    <3>3. (m - RegressConfirmations + 2)..(m - 1) = {n}
      BY <1>2 DEF RegressConfirmations
    <3>4. n >= 3 => m > RegressConfirmations
      BY <1>2 DEF RegressConfirmations
    <3> QED BY <1>13, <3>1, <3>2, <3>3, <3>4
  <2>3. \A i \in 2..Len(series') : i \in 2..n \/ (i = m /\ n > 0)
    BY <1>2, <1>4
  <2> HIDE DEF Sustained
  <2>4. \A i \in 2..Len(series') : Sustained(i)'
    BY <2>1, <2>2, <2>3
  <2> QED BY <2>4 DEF FallsAreSustained, Sustained
<1>19. ASSUME n > 0, Released(raw), Regressed(raw) \/ Fell(m)'
       PROVE  \E j \in 1..m : /\ series'[j].regressed
                             /\ \A k \in (j + 1)..m : Fell(k)'
  <2>1. CASE Regressed(raw)
    <3>1. series'[m].regressed /\ m \in 1..m /\ (m + 1)..m = {}
      BY <1>2, <1>5, <1>13, <2>1
    <3> QED BY <3>1
  <2>2. CASE ~Regressed(raw)
    <3>1. Fell(n) /\ Fell(n - 1) /\ Fell(n - 2)
      BY <1>12, <1>19, <2>2
    <3>2. n >= 4
      BY <3>1 DEF Fell
    <3>3. PICK j \in 1..n : series[j].regressed /\ \A k \in (j + 1)..n : Fell(k)
      BY <1>1, <3>1, <3>2 DEF IInv, DeclineIsFollowed
    <3>4. j \in 1..m /\ series'[j].regressed
      BY <1>2, <1>5, <3>3
    <3>5. \A k \in (j + 1)..m : Fell(k)'
      <4>1. \A k \in (j + 1)..m : k = m \/ (k \in 1..n /\ k \in (j + 1)..n)
        BY <1>2
      <4>2. Fell(m)'
        BY <1>19, <2>2
      <4> QED BY <1>5, <3>3, <4>1, <4>2
    <3> QED BY <3>4, <3>5
  <2> QED BY <2>1, <2>2
<1>20. ASSUME NEW i \in 1..n,
              \E j \in 1..i : series[j].regressed /\ \A k \in (j + 1)..i : Fell(k)
       PROVE  \E j \in 1..i : series'[j].regressed /\ \A k \in (j + 1)..i : Fell(k)'
  <2>1. PICK j \in 1..i : series[j].regressed /\ \A k \in (j + 1)..i : Fell(k)
    BY <1>20
  <2>2. j \in 1..n /\ \A k \in (j + 1)..i : k \in 1..n
    OBVIOUS
  <2> QED BY <1>5, <2>1, <2>2
<1>21. ReportShape'
  <2> DEFINE Shape(i) == series[i].regressed => /\ i > 3
                                                /\ Fell(i - 1)
                                                /\ Fell(i - 2)
                                                /\ ~Fell(i - 3)
  <2>1. ASSUME NEW i \in 1..n
        PROVE  Shape(i)'
    <3>1. Shape(i) /\ series'[i] = series[i]
      BY <1>1, <1>5 DEF IInv, ReportShape
    <3>2. ASSUME i > 3
          PROVE  /\ Fell(i - 1)' <=> Fell(i - 1)
                 /\ Fell(i - 2)' <=> Fell(i - 2)
                 /\ Fell(i - 3)' <=> Fell(i - 3)
      BY <1>5, <3>2
    <3> QED BY <3>1, <3>2
  <2>2. Shape(m)'
    <3>1. ASSUME r.regressed
          PROVE  n >= 3 /\ Fell(n) /\ Fell(n - 1) /\ ~Fell(n - 2)
      BY <1>10, <1>12, <1>13, <3>1
    <3>2. ASSUME n >= 3
          PROVE  /\ Fell(n)' <=> Fell(n)
                 /\ Fell(n - 1)' <=> Fell(n - 1)
                 /\ Fell(n - 2)' <=> Fell(n - 2)
      BY <1>5, <3>2
    <3>3. m - 1 = n /\ m - 2 = n - 1 /\ m - 3 = n - 2 /\ (n >= 3 => m > 3)
      BY <1>2
    <3> QED BY <1>5, <3>1, <3>2, <3>3
  <2> HIDE DEF Shape
  <2>3. \A i \in 1..Len(series') : Shape(i)'
    BY <1>8, <2>1, <2>2
  <2> QED BY <2>3 DEF ReportShape, Shape
<1>22. DeclineIsFollowed'
  <2> DEFINE Followed(i) ==
               Fell(i) /\ Fell(i - 1) /\ Fell(i - 2) =>
                 /\ series[i].displayed = series[i].ema
                 /\ \E j \in 1..i : /\ series[j].regressed
                                   /\ \A k \in (j + 1)..i : Fell(k)
  <2>1. ASSUME NEW i \in 4..n
        PROVE  Followed(i)'
    <3>1. Followed(i)
      BY <1>1 DEF IInv, DeclineIsFollowed
    <3>2. /\ i \in 1..n /\ series'[i] = series[i]
          /\ Fell(i)' <=> Fell(i)
          /\ Fell(i - 1)' <=> Fell(i - 1)
          /\ Fell(i - 2)' <=> Fell(i - 2)
      BY <1>5
    <3> QED BY <1>20, <3>1, <3>2
  <2>2. ASSUME n >= 3
        PROVE  Followed(m)'
    <3>1. SUFFICES ASSUME Fell(m)', Fell(n)', Fell(n - 1)'
                   PROVE  /\ r.displayed = r.ema
                          /\ \E j \in 1..m : /\ series'[j].regressed
                                            /\ \A k \in (j + 1)..m : Fell(k)'
      <4>1. m - 1 = n /\ m - 2 = n - 1
        BY <1>2
      <4> QED BY <1>5, <4>1
    <3>2. Fell(n) /\ Fell(n - 1)
      BY <1>5, <2>2, <3>1
    <3>3. Released(raw)
      BY <1>6, <1>11, <1>12, <2>2, <3>1, <3>2
    <3> QED BY <1>11, <1>19, <2>2, <3>1, <3>3
  <2>3. \A i \in 4..Len(series') : i \in 4..n \/ (i = m /\ n >= 3)
    BY <1>2, <1>4
  <2> HIDE DEF Followed
  <2>4. \A i \in 4..Len(series') : Followed(i)'
    BY <2>1, <2>2, <2>3
  <2> QED BY <2>4 DEF DeclineIsFollowed, Followed
<1>23. OneReportPerDecline'
  <2> DEFINE Reported(i) ==
               series[i].displayed < series[i - 1].displayed =>
                 \E j \in 1..i : /\ series[j].regressed
                                 /\ \A k \in (j + 1)..i : Fell(k)
             Apart(i, j) ==
               series[i].regressed /\ series[j].regressed =>
                 \E k \in j..i : ~Fell(k)
  <2>1. ASSUME NEW i \in 2..n
        PROVE  Reported(i)'
    <3>1. Reported(i)
      BY <1>1 DEF IInv, OneReportPerDecline
    <3>2. i \in 1..n /\ series'[i] = series[i] /\ series'[i - 1] = series[i - 1]
      BY <1>5
    <3> QED BY <1>20, <3>1, <3>2
  <2>2. ASSUME n > 0
        PROVE  Reported(m)'
    <3>1. series'[m - 1] = series[n] /\ series'[m] = r
      BY <1>2, <1>5, <2>2
    <3>2. SUFFICES ASSUME r.displayed < series[n].displayed
                   PROVE  \E j \in 1..m : /\ series'[j].regressed
                                         /\ \A k \in (j + 1)..m : Fell(k)'
      BY <3>1
    <3>3. Released(raw) /\ n >= 3 /\ raw # NoEvidence /\ r.displayed = r.ema
      BY <1>11, <1>12, <1>14, <1>15, <2>2, <3>2
    <3>4. ASSUME ~Regressed(raw)
          PROVE  Fell(m)'
      <4>1. Fell(n) /\ Fell(n - 1) /\ Fell(n - 2)
        BY <1>12, <2>2, <3>3, <3>4
      <4>2. n >= 4
        BY <4>1 DEF Fell
      <4>3. series[n].displayed = series[n].ema
        BY <1>1, <4>1, <4>2 DEF IInv, DeclineIsFollowed
      <4> QED BY <1>6, <2>2, <3>2, <3>3, <4>3
    <3> QED BY <1>19, <2>2, <3>3, <3>4
  <2>3. ASSUME NEW i \in 1..n, NEW j \in 1..(i - 1)
        PROVE  Apart(i, j)'
    <3>1. Apart(i, j)
      BY <1>1 DEF IInv, OneReportPerDecline
    <3>2. series'[i] = series[i] /\ series'[j] = series[j] /\ j..i \subseteq 1..n
      BY <1>5
    <3> QED BY <1>5, <3>1, <3>2
  <2>4. ASSUME NEW j \in 1..n
        PROVE  Apart(m, j)'
    <3>1. SUFFICES ASSUME r.regressed, series[j].regressed
                   PROVE  \E k \in j..m : ~Fell(k)'
      BY <1>5
    <3>2. n >= 3 /\ ~Fell(n - 2)
      BY <1>10, <1>12, <1>13, <3>1
    <3>3. Fell(j - 1) /\ Fell(j - 2)
      BY <1>1, <3>1 DEF IInv, ReportShape
    <3>4. j # n /\ j # n - 1
      BY <3>2, <3>3
    <3>5. n - 2 \in j..m /\ n - 2 \in 1..n
      BY <1>2, <3>2, <3>4
    <3> QED BY <1>5, <3>2, <3>5
  <2>5. /\ \A i \in 2..Len(series') : i \in 2..n \/ (i = m /\ n > 0)
        /\ m - 1 = n
    BY <1>2, <1>4
  <2> HIDE DEF Reported, Apart
  <2>6. \A i \in 2..Len(series') : Reported(i)'
    BY <2>1, <2>2, <2>5
  <2>7. \A i \in 1..Len(series') : \A j \in 1..(i - 1) : Apart(i, j)'
    BY <1>8, <2>3, <2>4, <2>5
  <2> QED BY <2>6, <2>7 DEF OneReportPerDecline, Reported, Apart
<1>24. LabelWithinReach'
  <2> DEFINE Within(i) ==
               /\ series[i].stage <= StageFor(Whole(series[i].displayed))
               /\ i > 1 /\ series[i].stage > series[i - 1].stage => SeenBefore(i)
  <2>1. ASSUME NEW i \in 1..n
        PROVE  Within(i)'
    <3>1. Within(i)
      BY <1>1 DEF IInv, LabelWithinReach
    <3>2. series'[i] = series[i] /\ (i > 1 => series'[i - 1] = series[i - 1])
      BY <1>5
    <3>3. SeenBefore(i) => SeenBefore(i)'
      <4>1. \A j \in 1..(i - 1) : series'[j] = series[j]
        BY <1>2, <1>5
      <4>2. \A j \in 1..(i - 1) : j..(i - 1) \subseteq 1..(i - 1)
        OBVIOUS
      <4> QED BY <3>2, <4>1, <4>2 DEF SeenBefore
    <3> QED BY <3>1, <3>2, <3>3
  <2>2. ASSUME m > 1, r.stage > series[n].stage
        PROVE  SeenBefore(m)'
    <3>1. n > 0 /\ n \in 1..n /\ m - 1 = n
      BY <1>2, <2>2
    <3>2. r.stage = StageFor(Whole(series[n].displayed))
      BY <1>11, <2>2, <3>1
    <3>3. series[n].displayed # 0
      <4>1. series[n].stage \in Stages /\ r.stage \in Stages
        BY <1>7, <1>9, <3>1 DEF Results
      <4>2. r.stage # 0
        BY <2>2, <4>1 DEF Stages
      <4>3. StageFor(Whole(0)) = 0
        BY StageOfNothing
      <4> QED BY <3>2, <4>2, <4>3
    <3>4. PICK j \in 1..n :
             /\ series[j].evidence
             /\ \A k \in j..n : series[k].displayed = series[n].displayed
      BY <1>1, <3>1, <3>3 DEF IInv, HeldSinceSeen
    <3>5. series'[j].evidence /\ \A k \in j..n : series'[k] = series[k]
      BY <1>5, <3>4
    <3> QED BY <1>5, <3>1, <3>2, <3>4, <3>5 DEF SeenBefore
  <2>3. Within(m)'
    <3>1. n > 0 => series'[m - 1] = series[n]
      BY <1>2, <1>5
    <3>2. m > 1 => n > 0
      BY <1>2
    <3>3. series'[m].stage <= StageFor(Whole(series'[m].displayed))
      BY <1>5, <1>10, <1>11
    <3> QED BY <1>5, <2>2, <3>1, <3>2, <3>3
  <2> HIDE DEF Within
  <2>4. \A i \in 1..Len(series') : Within(i)'
    BY <1>8, <2>1, <2>3
  <2> QED BY <2>4 DEF LabelWithinReach, Within
<1>26. HeldSinceSeen'
  <2> DEFINE Held(i) ==
               \/ series[i].displayed = 0
               \/ \E j \in 1..i : /\ series[j].evidence
                                  /\ \A k \in j..i : series[k].displayed = series[i].displayed
  <2>1. ASSUME NEW i \in 1..n
        PROVE  Held(i)'
    <3>1. Held(i)
      BY <1>1 DEF IInv, HeldSinceSeen
    <3>2. \A j \in 1..i : series'[j] = series[j]
      BY <1>5
    <3>3. i \in 1..i /\ \A j \in 1..i : j..i \subseteq 1..i
      OBVIOUS
    <3> QED BY <3>1, <3>2, <3>3
  <2>2. Held(m)'
    <3>1. CASE r.evidence
      <4>1. series'[m].evidence /\ m \in 1..m /\ m..m = {m}
        BY <1>2, <1>5, <3>1
      <4> QED BY <4>1
    <3>2. CASE ~r.evidence /\ n = 0
      <4>1. series = <<>>
        BY <1>1, <1>3, <3>2, EmptySeq
      <4>2. r.displayed = 0
        BY <1>3, <1>13, <3>2, <4>1, EmptyWindow DEF r
      <4> QED BY <1>5, <4>2
    <3>3. CASE ~r.evidence /\ n > 0
      <4>1. n \in 1..n /\ series[n].ema <= series[n].displayed
        BY <1>1, <3>3 DEF IInv, ShownWasMeasured
      <4>2. r.displayed = series[n].displayed
        BY <1>3, <1>9, <1>13, <3>3, <4>1, EmptyWindow DEF r
      <4>3. Held(n)'
        BY <2>1, <4>1
      <4>4. CASE series'[n].displayed = 0
        BY <1>5, <4>1, <4>2, <4>4
      <4>5. CASE series'[n].displayed # 0
        <5>1. PICK j \in 1..n :
                 /\ series'[j].evidence
                 /\ \A k \in j..n : series'[k].displayed = series'[n].displayed
          BY <4>3, <4>5
        <5>2. j \in 1..m /\ \A k \in j..m : k \in j..n \/ k = m
          BY <1>2
        <5>3. series'[m].displayed = series'[n].displayed
          BY <1>5, <4>1, <4>2
        <5> QED BY <5>1, <5>2, <5>3
      <4> QED BY <4>4, <4>5
    <3> QED BY <3>1, <3>2, <3>3
  <2> HIDE DEF Held
  <2>3. \A i \in 1..Len(series') : Held(i)'
    BY <1>8, <2>1, <2>2
  <2> QED BY <2>3 DEF HeldSinceSeen, Held
<1>25. StaysShort'
  <2>1. SUFFICES ASSUME series'[1].ema < Ceiling
                 PROVE  \A i \in 1..Len(series') : /\ series'[i].ema < Ceiling
                                                   /\ series'[i].displayed < Ceiling
    BY DEF StaysShort
  <2>2. CASE n = 0
    <3>1. r.ema < Ceiling /\ r.displayed = r.ema /\ Len(series') = 1
      BY <1>2, <1>4, <1>5, <1>10, <2>1, <2>2
    <3> QED BY <1>2, <1>5, <2>2, <3>1
  <2>3. CASE n > 0
    <3>1. series'[1] = series[1] /\ series # <<>>
      BY <1>5, <1>9, <2>3
    <3>2. \A i \in 1..n : series[i].ema < Ceiling /\ series[i].displayed < Ceiling
      BY <1>1, <2>1, <3>1 DEF IInv, StaysShort
    <3>3. r.ema < Ceiling
      <4>1. r.ema = Round(Smoothed(raw))
        BY DEF r, Result
      <4>2. Previous.ema < Ceiling
        BY <1>9, <2>3, <3>2
      <4> QED BY <1>3, <1>4, <3>1, <4>1, <4>2, SmoothedType
    <3>4. r.displayed < Ceiling
      <4>1. r.displayed = r.ema \/ r.displayed = series[n].displayed
        BY <1>11, <2>3
      <4> QED BY <2>3, <3>2, <3>3, <4>1
    <3> QED BY <1>5, <1>8, <3>2, <3>3, <3>4
  <2> QED BY <2>2, <2>3
<1> QED BY <1>16, <1>17, <1>18, <1>21, <1>22, <1>23, <1>24, <1>25, <1>26 DEF IInv
-----------------------------------------------------------------------------
(* With no results yet there is nothing to break: what is left is typing. *)
LEMMA Empty ==
    ASSUME series = <<>>
    PROVE  /\ ShownWasMeasured /\ FallsAreSustained /\ OneReportPerDecline
           /\ LabelWithinReach /\ HeldSinceSeen /\ StaysShort /\ ReportShape /\ DeclineIsFollowed
<1>1. Len(series) = 0
  OBVIOUS
<1>2. 1..Len(series) = {} /\ 2..Len(series) = {} /\ 4..Len(series) = {}
  BY <1>1
<1> QED BY <1>2 DEF ShownWasMeasured, FallsAreSustained, OneReportPerDecline,
                    LabelWithinReach, SeenBefore, HeldSinceSeen, StaysShort, ReportShape,
                    DeclineIsFollowed

LEMMA InitInv == Init => IInv
<1> SUFFICES ASSUME Init PROVE IInv
  OBVIOUS
<1>1. TypeOK
  <2>1. <<>> \in Seq(Inputs) /\ <<>> \in Seq(Results) /\ Len(<<>>) <= Len(<<>>)
    OBVIOUS
  <2>2. 0 \in 0..(Ceiling \div 100)
    BY SMT DEF Ceiling
  <2>3. 0 \in 0..MaxRecomputes
    BY RawsAssumption
  <2> QED BY <2>1, <2>2, <2>3 DEF Init, TypeOK, Inputs
<1> QED BY <1>1, Empty DEF Init, IInv

(* A percentage of the timeline, rounded again for the project's column.  *)
LEMMA QuantiseWithin ==
    ASSUME NEW p \in Nat, NEW k \in Nat, p <= 100 * k
    PROVE  Quantise(p) \in 0..((100 * k) \div 100)
<1> DEFINE q == Quantise(p)
           c == (100 * k) \div 100
<1>1. q \in Nat /\ 100 * q <= p + 50
  BY DivBounds DEF Quantise
<1>2. c \in Nat /\ 100 * k < 100 * (c + 1)
  BY DivBounds
<1> HIDE DEF q, c
<1>3. q \in 0..c
  BY <1>1, <1>2
<1> QED BY <1>3 DEF q, c

LEMMA CeilingInHundredths == \E k \in Nat : Ceiling = 100 * k
<1>1. Ceiling = 100 * 8000
  BY SMT DEF Ceiling
<1> QED BY <1>1

LEMMA QuantiseType ==
    ASSUME NEW p \in 0..Ceiling
    PROVE  Quantise(p) \in 0..(Ceiling \div 100)
<1>1. PICK k \in Nat : Ceiling = 100 * k
  BY CeilingInHundredths
<1>2. p \in Nat /\ p <= 100 * k
  BY <1>1, CeilingPositive
<1> QED BY <1>1, <1>2, QuantiseWithin

(* Whatever leaves the results alone leaves what is said of them alone.   *)
LEMMA SameSeries ==
    ASSUME IInv, TypeOK', series' = series
    PROVE  IInv'
<1>1. \A i : Fell(i)' <=> Fell(i)
  BY DEF Fell
<1> QED BY <1>1 DEF IInv, ShownWasMeasured, FallsAreSustained, OneReportPerDecline,
                    LabelWithinReach, SeenBefore, HeldSinceSeen, StaysShort, ReportShape,
                    DeclineIsFollowed

LEMMA InvStep == IInv /\ [Next]_vars => IInv'
<1> SUFFICES ASSUME IInv, [Next]_vars PROVE IInv'
  OBVIOUS
<1>1. ASSUME NEW d \in Days, NEW v \in Inputs, Observe(d, v)
      PROVE  IInv'
  <2>1. TypeOK'
    BY <1>1 DEF IInv, TypeOK, Observe, Inputs
  <2> QED BY <1>1, <2>1, SameSeries DEF Observe
<1>2. ASSUME StartRecompute
      PROVE  IInv'
  <2>1. series = <<>> /\ series' = <<>>
    <3>1. Len(series) = 0
      BY <1>2 DEF IInv, TypeOK, StartRecompute
    <3> QED BY <1>2, <3>1, EmptySeq DEF IInv, TypeOK, StartRecompute
  <2>2. PICK first, last \in captured :
             windows' = [i \in 1..(last - first + 1) |-> readings[first + i - 1]]
    BY <1>2 DEF StartRecompute
  <2>3. captured \subseteq Days /\ readings \in [Days -> Inputs]
    BY DEF IInv, TypeOK, Inputs
  <2>4. PICK f, l \in Nat : f = first /\ l = last /\ f \in Days /\ l \in Days
    BY <2>3, RawsAssumption DEF Days
  <2>5. \A i \in 1..(l - f + 1) : f + i - 1 \in Days
    BY <2>4, RawsAssumption DEF Days
  <2>6. windows' \in Seq(Inputs)
    <3>1. CASE l - f + 1 \in Nat
      <4>1. windows' \in [1..(l - f + 1) -> Inputs]
        BY <2>2, <2>3, <2>4, <2>5
      <4> QED BY <3>1, <4>1, SeqDef
    <3>2. CASE l - f + 1 \notin Nat
      <4>1. 1..(l - f + 1) = 1..0
        BY <2>4, <3>2
      <4>2. windows' \in [1..0 -> Inputs]
        BY <2>2, <2>3, <2>4, <2>5, <4>1
      <4> QED BY <4>2, SeqDef
    <3> QED BY <3>1, <3>2
  <2>7. TypeOK'
    <3>1. recomputes' \in 0..MaxRecomputes
      BY <1>2, RawsAssumption DEF IInv, TypeOK, StartRecompute
    <3>2. Len(series') <= Len(windows') /\ series' \in Seq(Results)
      BY <2>1, <2>6
    <3> QED BY <1>2, <2>6, <3>1, <3>2 DEF IInv, TypeOK, StartRecompute, Inputs
  <2> QED BY <2>1, <2>7, SameSeries
<1>3. ASSUME AggregateWindow
      PROVE  IInv'
  BY <1>3, AggregateStep
<1>4. ASSUME ApplyToProject
      PROVE  IInv'
  <2>1. series' = <<>> /\ windows' = <<>>
    BY <1>4 DEF ApplyToProject
  <2>2. series # <<>> /\ series \in Seq(Results)
    BY <1>4, EmptySeq DEF IInv, TypeOK, ApplyToProject
  <2>3. Quantise(Previous.displayed) \in 0..(Ceiling \div 100)
    BY <2>2, PreviousType, QuantiseType
  <2>4. TypeOK'
    <3>1. project' \in [progress : 0..(Ceiling \div 100),
                        approval : {"not_ready", "awaiting_inspection"}]
      BY <1>4, <2>3 DEF IInv, TypeOK, ApplyToProject
    <3>2. /\ series' \in Seq(Results) /\ windows' \in Seq(Inputs)
          /\ Len(series') <= Len(windows')
      BY <2>1
    <3> QED BY <1>4, <3>1, <3>2 DEF IInv, TypeOK, ApplyToProject, Inputs
  <2>5. /\ ShownWasMeasured' /\ FallsAreSustained' /\ OneReportPerDecline'
        /\ LabelWithinReach' /\ HeldSinceSeen' /\ StaysShort' /\ ReportShape' /\ DeclineIsFollowed'
    <3>1. 1..Len(series') = {} /\ 2..Len(series') = {} /\ 4..Len(series') = {}
      BY <2>1
    <3> QED BY <3>1 DEF ShownWasMeasured, FallsAreSustained, OneReportPerDecline,
                        LabelWithinReach, SeenBefore, HeldSinceSeen, StaysShort, ReportShape,
                    DeclineIsFollowed
  <2> QED BY <2>4, <2>5 DEF IInv
<1>5. ASSUME UNCHANGED vars
      PROVE  IInv'
  <2>1. TypeOK'
    BY <1>5 DEF IInv, TypeOK, vars
  <2> QED BY <1>5, <2>1, SameSeries DEF vars
<1> QED BY <1>1, <1>2, <1>3, <1>4, <1>5 DEF Next, Inputs
-----------------------------------------------------------------------------
(* The invariant, for a project of any length and any readings.           *)
THEOREM Invariance == Spec => []IInv
<1>1. Init => IInv
  BY InitInv
<1>2. IInv /\ [Next]_vars => IInv'
  BY InvStep
<1> QED BY <1>1, <1>2, PTL DEF Spec

(* compute_series and _apply_to_project keep to 0..80 and to one result a *)
(* window.                                                                *)
THEOREM TypeCorrect == Spec => []TypeOK
<1>1. IInv => TypeOK
  BY DEF IInv
<1> QED BY <1>1, Invariance, PTL

(* _apply_ratchet shows no number that no window had.                     *)
THEOREM ShownNumbersAreReal == Spec => []ShownWasMeasured
<1>1. IInv => ShownWasMeasured
  BY DEF IInv
<1> QED BY <1>1, Invariance, PTL

(* _apply_ratchet lets go only at the end of a decline with evidence.     *)
THEOREM FallsNeedEvidence == Spec => []FallsAreSustained
<1>1. IInv => FallsAreSustained
  BY DEF IInv
<1> QED BY <1>1, Invariance, PTL

(* The regression is noted once, when the decline is released: the worker *)
(* can hang its remark on that flag.                                      *)
THEOREM ReportedOnce == Spec => []OneReportPerDecline
<1>1. IInv => OneReportPerDecline
  BY DEF IInv
<1> QED BY <1>1, Invariance, PTL

(* compute_series: the number falls on a sustained decline, told once.     *)
THEOREM DeclinesAreToldOnce == Spec => []FallsAreToldOnce
<1>1. IInv => FallsAreToldOnce
  BY DEF IInv, FallsAreToldOnce
<1> QED BY <1>1, Invariance, PTL

(* _guarded_stage never labels above the number, and moves the label up   *)
(* only where eligible photographs of an earlier day had put the number.  *)
THEOREM LabelStaysWithin == Spec => []LabelWithinReach
<1>1. IInv => LabelWithinReach
  BY DEF IInv
<1> QED BY <1>1, Invariance, PTL

(* No sequence of days, however long and however complete, takes a project*)
(* that began short of the ceiling to its inspection.                     *)
THEOREM CeilingOnlyFromTheStart == Spec => OnlyBornComplete
<1> DEFINE Born == project.approval = "not_ready" /\ project'.approval # "not_ready"
                      => series[1].ema = Ceiling
<1>1. ASSUME IInv, Next
      PROVE  Born
  <2>1. CASE ApplyToProject
    <3>1. series # <<>> /\ series \in Seq(Results)
      BY <1>1, <2>1, EmptySeq DEF IInv, TypeOK, ApplyToProject
    <3>2. /\ Len(series) \in 1..Len(series) /\ 1 \in 1..Len(series)
          /\ Previous.displayed \in 0..Ceiling
          /\ series[1].ema \in 0..Ceiling
      <4>1. series[1] \in Results
        BY <3>1
      <4> QED BY <3>1, <4>1, PreviousType DEF Results
    <3>3. series[1].ema < Ceiling => Previous.displayed < Ceiling
      BY <1>1, <3>1, <3>2 DEF IInv, StaysShort, Previous
    <3>4. project.approval = "not_ready" /\ project'.approval # "not_ready"
             => Previous.displayed >= Ceiling
      BY <2>1 DEF ApplyToProject, AsksForInspection
    <3> QED BY <3>2, <3>3, <3>4, CeilingPositive
  <2>2. CASE ~ApplyToProject
    <3>1. project' = project
      BY <1>1, <2>2 DEF Next, Observe, StartRecompute, AggregateWindow
    <3> QED BY <3>1
  <2> QED BY <2>1, <2>2
<1>2. IInv /\ [Next]_vars => [Born]_vars
  BY <1>1
<1> QED BY <1>2, Invariance, PTL DEF Spec, OnlyBornComplete
-----------------------------------------------------------------------------
(* Induction on the subsets of a finite set, as the existence of a        *)
(* smallest subset among those for which something fails.                 *)
LEMMA SmallestSubset ==
  ASSUME NEW S, IsFiniteSet(S), NEW W, W \subseteq SUBSET S, W # {}
  PROVE  \E s \in W : \A t \in W : t \subseteq s => t = s
  <1> DEFINE R == StrictSubsetOrdering(S)
  <1>1. IsWellFoundedOn(R, SUBSET S)
    BY FS_StrictSubsetOrderingWellFounded, FS_FiniteSubsetsOfFinite
  <1>2. \A s, t \in SUBSET S : <<t, s>> \in R <=> t \subseteq s /\ t # s
    BY DEF StrictSubsetOrdering
  <1> HIDE DEF R
  <1>3. PICK s \in W : \A t \in W : ~(<<t, s>> \in R)
    BY <1>1, WFMin, Zenon
  <1>4. ASSUME NEW t \in W, t \subseteq s PROVE t = s
    <2>1. s \in SUBSET S /\ t \in SUBSET S
      OBVIOUS
    <2>2. <<t, s>> \notin R
      BY <1>3
    <2> QED BY <1>2, <1>4, <2>1, <2>2
  <1> QED BY <1>4


(* MapThenSumSet takes its sum from a recursive function on the subsets of*)
(* the set: CHOOSE gives that function only if there is one. Picked is the*)
(* element it takes out, Sums says that a function solves the recursion on*)
(* every subset, SumsUpTo on those of at most k elements.                 *)
Picked(s) == CHOOSE x \in s : TRUE
Summed(f, it, s) == IF s = {} THEN 0 ELSE f[Picked(s)] + it[s \ {Picked(s)}]
SumsUpTo(f, k, S, it) ==
  it = [s \in {t \in SUBSET S : Cardinality(t) <= k} |-> Summed(f, it, s)]
Sums(f, S, it) == it = [s \in SUBSET S |-> Summed(f, it, s)]

LEMMA PickedIn == ASSUME NEW s, s # {} PROVE Picked(s) \in s
  BY DEF Picked

LEMMA LeastNatural ==
  ASSUME NEW T \in SUBSET Nat, T # {}
  PROVE  \E k \in T : \A j \in T : k <= j
  <1> DEFINE R == OpToRel(<, Nat)
  <1>1. \A j, k \in Nat : <<j, k>> \in R <=> j < k
    BY DEF OpToRel
  <1>2. IsWellFoundedOn(R, Nat)
    BY NatLessThanWellFounded
  <1> HIDE DEF R
  <1>3. T \subseteq Nat
    OBVIOUS
  <1>4. PICK k \in T : \A j \in T : ~(<<j, k>> \in R)
    BY <1>2, <1>3, WFMin, Zenon
  <1>5. ASSUME NEW j \in T PROVE k <= j
    <2>1. j \in Nat /\ k \in Nat /\ ~(j < k)
      BY <1>1, <1>3, <1>4
    <2> QED BY <2>1
  <1> QED BY <1>5

LEMMA OneLess ==
  ASSUME NEW S, IsFiniteSet(S), NEW s \in SUBSET S, s # {}
  PROVE  /\ s \ {Picked(s)} \in SUBSET S
         /\ Cardinality(s) \in Nat
         /\ Cardinality(s \ {Picked(s)}) = Cardinality(s) - 1
  <1>1. IsFiniteSet(s)
    BY FS_Subset
  <1>2. Picked(s) \in s
    BY PickedIn
  <1> QED BY <1>1, <1>2, FS_RemoveElement, FS_CardinalityType

(* The recursion has a solution: were there a least size up to which it   *)
(* had none, a solution up to one less could be extended.                 *)
LEMMA SumExists ==
  ASSUME NEW f, NEW S, IsFiniteSet(S)
  PROVE  \E it : Sums(f, S, it)
  <1> DEFINE T == {k \in Nat : ~ \E it : SumsUpTo(f, k, S, it)}
             n == Cardinality(S)
  <1>1. n \in Nat /\ \A t \in SUBSET S : Cardinality(t) \in Nat /\ Cardinality(t) <= n
    BY FS_CardinalityType, FS_Subset
  <1>2. T = {}
    <2> SUFFICES ASSUME T # {} PROVE FALSE
      OBVIOUS
    <2>1. PICK k \in T : \A j \in T : k <= j
      BY LeastNatural
    <2>2. k # 0
      <3> DEFINE few == {t \in SUBSET S : Cardinality(t) <= 0}
                 it == [s \in few |-> 0]
      <3>1. \A s \in few : s = {}
        <4> SUFFICES ASSUME NEW s \in few, s # {} PROVE FALSE
          OBVIOUS
        <4>1. Cardinality(s) = 0 /\ IsFiniteSet(s)
          BY <1>1, FS_Subset
        <4> QED BY <4>1, FS_EmptySet
      <3>2. it = [s \in few |-> Summed(f, it, s)]
        BY <3>1 DEF Summed
      <3>3. SumsUpTo(f, 0, S, it)
        BY <3>2 DEF SumsUpTo
      <3> QED BY <2>1, <3>3
    <2>3. k - 1 \in Nat /\ k - 1 \notin T
      BY <2>1, <2>2
    <2>4. PICK h : SumsUpTo(f, k - 1, S, h)
      BY <2>3
    <2> DEFINE few == {t \in SUBSET S : Cardinality(t) <= k}
               g == [s \in few |-> IF Cardinality(s) = k
                                   THEN f[Picked(s)] + h[s \ {Picked(s)}] ELSE h[s]]
    <2>5. ASSUME NEW s \in few PROVE g[s] = Summed(f, g, s)
      <3>1. CASE s = {}
        <4>1. Cardinality(s) = 0
          BY <3>1, FS_EmptySet
        <4>2. h[s] = 0
          BY <2>3, <2>4, <3>1, <4>1 DEF SumsUpTo, Summed
        <4> QED BY <2>2, <3>1, <4>1, <4>2 DEF Summed
      <3>2. CASE s # {}
        <4> DEFINE t == s \ {Picked(s)}
        <4>1. t \in SUBSET S /\ Cardinality(s) \in Nat /\ Cardinality(t) = Cardinality(s) - 1
          BY <3>2, OneLess
        <4> HIDE DEF t
        <4>2. t \in few /\ Cardinality(t) # k
          BY <2>3, <4>1
        <4>3. g[t] = h[t]
          BY <4>2
        <4>4. CASE Cardinality(s) = k
          <5>1. g[s] = f[Picked(s)] + h[t]
            BY <4>4 DEF t
          <5> QED BY <3>2, <4>3, <5>1 DEF Summed, t
        <4>5. CASE Cardinality(s) # k
          <5>1. Cardinality(s) <= k - 1
            BY <2>3, <4>1, <4>5
          <5>2. h[s] = Summed(f, h, s)
            BY <2>4, <5>1 DEF SumsUpTo
          <5>3. g[s] = f[Picked(s)] + h[t]
            BY <3>2, <4>5, <5>2 DEF Summed, t
          <5> QED BY <3>2, <4>3, <5>3 DEF Summed, t
        <4> QED BY <4>4, <4>5
      <3> QED BY <3>1, <3>2
    <2>6. g = [s \in few |-> Summed(f, g, s)]
      <3>1. g = [s \in few |-> g[s]]
        OBVIOUS
      <3> HIDE DEF g, few
      <3> QED BY <2>5, <3>1
    <2>7. SumsUpTo(f, k, S, g)
      BY <2>6 DEF SumsUpTo
    <2> QED BY <2>1, <2>7
  <1>3. n \notin T
    BY <1>2
  <1>4. PICK it : SumsUpTo(f, n, S, it)
    BY <1>1, <1>3
  <1>5. {t \in SUBSET S : Cardinality(t) <= n} = SUBSET S
    BY <1>1
  <1> QED BY <1>4, <1>5 DEF SumsUpTo, Sums

(* Two solutions agree where the values they sum agree.                   *)
LEMMA SumsAgree ==
  ASSUME NEW f, NEW g, NEW S, NEW R, NEW it, NEW jt, Sums(f, S, it), Sums(g, R, jt),
         NEW U, IsFiniteSet(U), U \subseteq S, U \subseteq R, \A x \in U : f[x] = g[x]
  PROVE  it[U] = jt[U]
  <1> DEFINE W == {u \in SUBSET U : it[u] # jt[u]}
  <1> SUFFICES ASSUME W # {} PROVE FALSE
    OBVIOUS
  <1>1. PICK s \in W : \A t \in W : t \subseteq s => t = s
    <2>1. W \subseteq SUBSET U
      OBVIOUS
    <2> HIDE DEF W
    <2> QED BY <2>1, SmallestSubset
  <1>2. it[s] = Summed(f, it, s) /\ jt[s] = Summed(g, jt, s)
    BY DEF Sums
  <1>3. CASE s = {}
    BY <1>1, <1>2, <1>3 DEF Summed
  <1>4. CASE s # {}
    <2> DEFINE t == s \ {Picked(s)}
    <2>1. Picked(s) \in s
      BY <1>4, PickedIn
    <2>2. t \in SUBSET U /\ t \notin W
      BY <1>1, <2>1
    <2>3. it[t] = jt[t]
      BY <2>2
    <2>4. f[Picked(s)] = g[Picked(s)]
      BY <2>1
    <2> QED BY <1>1, <1>2, <1>4, <2>3, <2>4 DEF Summed
  <1> QED BY <1>3, <1>4

(* So Total is the recursion's sum, and the laws of sums follow: of an    *)
(* element taken out, of a union, of smaller terms, of scaled ones.       *)
LEMMA TotalUnfolds ==
  ASSUME NEW f, NEW S, IsFiniteSet(S)
  PROVE  \E it : Sums(f, S, it) /\ Total(f, S) = it[S]
  <1> DEFINE it == CHOOSE it : it = [s \in SUBSET S |->
                      IF s = {} THEN 0
                      ELSE f[CHOOSE x \in s : TRUE] + it[s \ {CHOOSE x \in s : TRUE}]]
  <1>1. \E jt : jt = [s \in SUBSET S |->
                      IF s = {} THEN 0
                      ELSE f[CHOOSE x \in s : TRUE] + jt[s \ {CHOOSE x \in s : TRUE}]]
    <2>1. PICK jt : Sums(f, S, jt)
      BY SumExists
    <2> QED BY <2>1 DEF Sums, Summed, Picked
  <1>2. it = [s \in SUBSET S |->
                      IF s = {} THEN 0
                      ELSE f[CHOOSE x \in s : TRUE] + it[s \ {CHOOSE x \in s : TRUE}]]
    BY <1>1
  <1>3. Total(f, S) = it[S]
    BY DEF Total, MapThenSumSet, MapThenFoldSet
  <1>4. Sums(f, S, it)
    BY <1>2 DEF Sums, Summed, Picked
  <1> QED BY <1>3, <1>4

LEMMA TotalAgrees ==
  ASSUME NEW f, NEW S, IsFiniteSet(S), NEW g, \A x \in S : f[x] = g[x]
  PROVE  Total(f, S) = Total(g, S)
  <1>1. PICK it : Sums(f, S, it) /\ Total(f, S) = it[S]
    BY TotalUnfolds
  <1>2. PICK jt : Sums(g, S, jt) /\ Total(g, S) = jt[S]
    BY TotalUnfolds
  <1> QED BY <1>1, <1>2, SumsAgree

LEMMA TotalStep ==
  ASSUME NEW f, NEW S, IsFiniteSet(S)
  PROVE  Total(f, S) = IF S = {} THEN 0 ELSE f[Picked(S)] + Total(f, S \ {Picked(S)})
  <1>1. PICK it : Sums(f, S, it) /\ Total(f, S) = it[S]
    BY TotalUnfolds
  <1> DEFINE R == S \ {Picked(S)}
  <1>2. IsFiniteSet(R) /\ R \subseteq S
    BY FS_Subset
  <1>3. PICK jt : Sums(f, R, jt) /\ Total(f, R) = jt[R]
    BY <1>2, TotalUnfolds
  <1>4. it[R] = jt[R]
    BY <1>1, <1>2, <1>3, SumsAgree
  <1>5. it[S] = Summed(f, it, S)
    BY <1>1 DEF Sums
  <1> QED BY <1>1, <1>3, <1>4, <1>5 DEF Summed

LEMMA TotalEmpty == ASSUME NEW f PROVE Total(f, {}) = 0
  BY TotalStep, FS_EmptySet

LEMMA TotalIsInt ==
  ASSUME NEW f, NEW S, IsFiniteSet(S), \A x \in S : f[x] \in Int
  PROVE  Total(f, S) \in Int
  <1> DEFINE W == {s \in SUBSET S : Total(f, s) \notin Int}
  <1> SUFFICES ASSUME W # {} PROVE FALSE
    OBVIOUS
  <1>1. PICK s \in W : \A t \in W : t \subseteq s => t = s
    <2>1. W \subseteq SUBSET S
      OBVIOUS
    <2> HIDE DEF W
    <2> QED BY <2>1, SmallestSubset
  <1>2. IsFiniteSet(s)
    BY FS_Subset
  <1>3. CASE s = {}
    BY <1>1, <1>3, TotalEmpty
  <1>4. CASE s # {}
    <2>1. Picked(s) \in s
      BY <1>4, PickedIn
    <2>2. Total(f, s \ {Picked(s)}) \in Int
      BY <1>1, <2>1
    <2>3. Total(f, s) = f[Picked(s)] + Total(f, s \ {Picked(s)})
      BY <1>2, <1>4, TotalStep
    <2> QED BY <1>1, <2>1, <2>2, <2>3
  <1> QED BY <1>3, <1>4

LEMMA TotalRemove ==
  ASSUME NEW f, NEW S, IsFiniteSet(S), \A x \in S : f[x] \in Int, NEW e \in S
  PROVE  Total(f, S) = f[e] + Total(f, S \ {e})
  <1> DEFINE W == {s \in SUBSET S : \E x \in s : Total(f, s) # f[x] + Total(f, s \ {x})}
  <1> SUFFICES ASSUME W # {} PROVE FALSE
    OBVIOUS
  <1>1. PICK s \in W : \A t \in W : t \subseteq s => t = s
    <2>1. W \subseteq SUBSET S
      OBVIOUS
    <2> HIDE DEF W
    <2> QED BY <2>1, SmallestSubset
  <1>2. PICK x \in s : Total(f, s) # f[x] + Total(f, s \ {x})
    BY <1>1
  <1> DEFINE p == Picked(s)
             rest == (s \ {p}) \ {x}
  <1>3. IsFiniteSet(s) /\ s # {} /\ p \in s
    BY <1>2, FS_Subset, PickedIn
  <1>4. Total(f, s) = f[p] + Total(f, s \ {p})
    BY <1>3, TotalStep
  <1> HIDE DEF p
  <1>5. p # x
    BY <1>2, <1>4
  <1>6. s \ {p} \in SUBSET S /\ s \ {p} \notin W /\ x \in s \ {p}
    BY <1>1, <1>3, <1>5
  <1>7. s \ {x} \in SUBSET S /\ s \ {x} \notin W /\ p \in s \ {x}
    BY <1>1, <1>2, <1>3, <1>5
  <1>8. (s \ {x}) \ {p} = rest
    OBVIOUS
  <1>9. Total(f, s \ {p}) = f[x] + Total(f, rest)
    BY <1>6
  <1>10. Total(f, s \ {x}) = f[p] + Total(f, rest)
    BY <1>7, <1>8
  <1>11. Total(f, rest) \in Int /\ f[x] \in Int /\ f[p] \in Int
    <2>1. IsFiniteSet(rest) /\ \A y \in rest : f[y] \in Int
      BY FS_Subset
    <2>2. Total(f, rest) \in Int
      BY <2>1, TotalIsInt
    <2> QED BY <1>2, <1>3, <2>2
  <1> HIDE DEF rest
  <1> QED BY <1>2, <1>4, <1>9, <1>10, <1>11

LEMMA TotalUnion ==
  ASSUME NEW f, NEW S, IsFiniteSet(S), NEW R, IsFiniteSet(R), S \cap R = {},
         \A x \in S \cup R : f[x] \in Int
  PROVE  Total(f, S \cup R) = Total(f, S) + Total(f, R)
  <1> DEFINE W == {s \in SUBSET S : Total(f, s \cup R) # Total(f, s) + Total(f, R)}
  <1> SUFFICES ASSUME W # {} PROVE FALSE
    OBVIOUS
  <1>1. PICK s \in W : \A t \in W : t \subseteq s => t = s
    <2>1. W \subseteq SUBSET S
      OBVIOUS
    <2> HIDE DEF W
    <2> QED BY <2>1, SmallestSubset
  <1>2. IsFiniteSet(s) /\ IsFiniteSet(s \cup R) /\ \A x \in s \cup R : f[x] \in Int
    BY FS_Subset, FS_Union
  <1>3. Total(f, R) \in Int
    BY TotalIsInt
  <1>4. CASE s = {}
    <2>1. Total(f, s \cup R) = Total(f, R) /\ Total(f, s) = 0
      <3>1. s \cup R = R
        BY <1>4
      <3> HIDE DEF W
      <3> QED BY <1>4, <3>1, TotalEmpty
    <2>2. Total(f, s \cup R) # Total(f, s) + Total(f, R)
      BY <1>1
    <2> HIDE DEF W
    <2> QED BY <1>3, <2>1, <2>2
  <1>5. CASE s # {}
    <2>1. PICK x \in s : TRUE
      BY <1>5
    <2> DEFINE t == s \ {x}
    <2>2. t \in SUBSET S /\ t \notin W
      BY <1>1, <2>1
    <2>3. Total(f, s) = f[x] + Total(f, t)
      BY <1>2, TotalRemove
    <2>4. Total(f, s \cup R) = f[x] + Total(f, (s \cup R) \ {x})
      BY <1>2, TotalRemove
    <2>5. (s \cup R) \ {x} = t \cup R
      OBVIOUS
    <2>6. Total(f, t \cup R) = Total(f, t) + Total(f, R)
      BY <2>2
    <2>7. Total(f, t) \in Int /\ f[x] \in Int
      <3>1. IsFiniteSet(t) /\ \A y \in t : f[y] \in Int
        BY <2>2, FS_Subset
      <3> HIDE DEF t
      <3> QED BY <1>2, <3>1, TotalIsInt
    <2>8. Total(f, s \cup R) # Total(f, s) + Total(f, R)
      BY <1>1
    <2> HIDE DEF t, W
    <2>9. Total(f, s \cup R) = f[x] + (Total(f, t) + Total(f, R))
      BY <2>4, <2>5, <2>6
    <2> QED BY <1>3, <2>3, <2>7, <2>8, <2>9
  <1> QED BY <1>4, <1>5

LEMMA TotalAtMost ==
  ASSUME NEW f, NEW g, NEW S, IsFiniteSet(S),
         \A x \in S : f[x] \in Int /\ g[x] \in Int /\ f[x] <= g[x]
  PROVE  Total(f, S) <= Total(g, S)
  <1> DEFINE W == {s \in SUBSET S : ~(Total(f, s) <= Total(g, s))}
  <1> SUFFICES ASSUME W # {} PROVE FALSE
    OBVIOUS
  <1>1. PICK s \in W : \A t \in W : t \subseteq s => t = s
    <2>1. W \subseteq SUBSET S
      OBVIOUS
    <2> HIDE DEF W
    <2> QED BY <2>1, SmallestSubset
  <1>2. IsFiniteSet(s) /\ \A x \in s : f[x] \in Int /\ g[x] \in Int
    BY FS_Subset
  <1>3. ~(Total(f, s) <= Total(g, s))
    BY <1>1
  <1>4. s # {}
    <2> SUFFICES ASSUME s = {} PROVE FALSE
      OBVIOUS
    <2>1. Total(f, s) = 0 /\ Total(g, s) = 0
      BY TotalEmpty
    <2> HIDE DEF W
    <2> QED BY <1>3, <2>1
  <1>5. PICK x \in s : TRUE
    BY <1>4
  <1> DEFINE t == s \ {x}
  <1>6. t \in SUBSET S /\ t \notin W
    BY <1>1, <1>5
  <1>7. Total(f, s) = f[x] + Total(f, t) /\ Total(g, s) = g[x] + Total(g, t)
    BY <1>2, TotalRemove
  <1>8. Total(f, t) \in Int /\ Total(g, t) \in Int
    <2>1. IsFiniteSet(t) /\ \A y \in t : f[y] \in Int /\ g[y] \in Int
      BY <1>6, FS_Subset
    <2> HIDE DEF t
    <2> QED BY <2>1, TotalIsInt
  <1>9. Total(f, t) <= Total(g, t) /\ f[x] \in Int /\ g[x] \in Int /\ f[x] <= g[x]
    BY <1>5, <1>6
  <1> HIDE DEF t, W
  <1> QED BY <1>3, <1>7, <1>8, <1>9

LEMMA TotalScaled ==
  ASSUME NEW f, NEW g, NEW m \in Int, NEW S, IsFiniteSet(S),
         \A x \in S : g[x] \in Int /\ f[x] = m * g[x]
  PROVE  Total(f, S) = m * Total(g, S)
  <1> DEFINE W == {s \in SUBSET S : Total(f, s) # m * Total(g, s)}
  <1> SUFFICES ASSUME W # {} PROVE FALSE
    OBVIOUS
  <1>1. PICK s \in W : \A t \in W : t \subseteq s => t = s
    <2>1. W \subseteq SUBSET S
      OBVIOUS
    <2> HIDE DEF W
    <2> QED BY <2>1, SmallestSubset
  <1>2. IsFiniteSet(s) /\ \A x \in s : f[x] \in Int /\ g[x] \in Int
    BY FS_Subset
  <1>3. Total(f, s) # m * Total(g, s)
    BY <1>1
  <1>4. s # {}
    <2> SUFFICES ASSUME s = {} PROVE FALSE
      OBVIOUS
    <2>1. Total(f, s) = 0 /\ Total(g, s) = 0
      BY TotalEmpty
    <2> HIDE DEF W
    <2> QED BY <1>3, <2>1
  <1>5. PICK x \in s : TRUE
    BY <1>4
  <1> DEFINE t == s \ {x}
  <1>6. t \in SUBSET S /\ t \notin W
    BY <1>1, <1>5
  <1>7. Total(f, s) = f[x] + Total(f, t) /\ Total(g, s) = g[x] + Total(g, t)
    BY <1>2, TotalRemove
  <1>8. Total(f, t) \in Int /\ Total(g, t) \in Int
    <2>1. IsFiniteSet(t) /\ \A y \in t : f[y] \in Int /\ g[y] \in Int
      BY <1>6, FS_Subset
    <2> HIDE DEF t
    <2> QED BY <2>1, TotalIsInt
  <1>9. Total(f, t) = m * Total(g, t) /\ f[x] \in Int /\ g[x] \in Int /\ f[x] = m * g[x]
    BY <1>5, <1>6
  <1> HIDE DEF t, W
  <1>10. m * (g[x] + Total(g, t)) = m * g[x] + m * Total(g, t)
    BY <1>8, <1>9
  <1> QED BY <1>3, <1>7, <1>9, <1>10

LEMMA TotalIsNat ==
  ASSUME NEW f, NEW S, IsFiniteSet(S), \A x \in S : f[x] \in Nat
  PROVE  Total(f, S) \in Nat
  <1> DEFINE none == [x \in S |-> 0]
  <1>1. Total(f, S) \in Int
    BY TotalIsInt
  <1>2. \A x \in S : none[x] \in Int /\ f[x] \in Int /\ none[x] <= f[x] /\ none[x] = 0 * f[x]
    OBVIOUS
  <1> HIDE DEF none
  <1>3. Total(none, S) <= Total(f, S)
    BY <1>2, TotalAtMost
  <1>4. Total(none, S) = 0 * Total(f, S)
    <2> DEFINE zero == 0
    <2>1. zero \in Int /\ \A x \in S : f[x] \in Int /\ none[x] = zero * f[x]
      BY <1>2
    <2> HIDE DEF zero
    <2>2. Total(none, S) = zero * Total(f, S)
      BY <2>1, TotalScaled
    <2> QED BY <2>2 DEF zero
  <1> QED BY <1>1, <1>3, <1>4

(* A part of a sum of naturals is no greater than the sum.                *)
LEMMA TotalOfPart ==
  ASSUME NEW f, NEW S, IsFiniteSet(S), \A x \in S : f[x] \in Nat, NEW R, R \subseteq S
  PROVE  Total(f, R) <= Total(f, S)
  <1>1. IsFiniteSet(R) /\ IsFiniteSet(S \ R) /\ R \cap (S \ R) = {} /\ R \cup (S \ R) = S
    BY FS_Subset
  <1>2. Total(f, R) \in Nat /\ Total(f, S \ R) \in Nat
    BY <1>1, TotalIsNat
  <1>3. \A x \in S : f[x] \in Int
    OBVIOUS
  <1> DEFINE Q == S \ R
  <1>4. \A x \in R \cup Q : f[x] \in Int
    BY <1>1, <1>3
  <1>5. IsFiniteSet(Q) /\ R \cap Q = {} /\ R \cup Q = S /\ Total(f, Q) \in Nat
    BY <1>1, <1>2
  <1> HIDE DEF Q
  <1>6. Total(f, R \cup Q) = Total(f, R) + Total(f, Q)
    BY <1>1, <1>4, <1>5, TotalUnion
  <1> QED BY <1>2, <1>5, <1>6

-----------------------------------------------------------------------------
(* The votes of a camera are a bag of percentages below the ceiling. Size,*)
(* AtMost and AtLeast count its photographs; With and Without change those*)
(* counts by one.                                                         *)
Percentages == 0 .. MachineCeiling
VoteBags == UNION {[D -> Nat \ {0}] : D \in SUBSET Percentages}

LEMMA BagTyped ==
  ASSUME NEW b \in VoteBags
  PROVE  /\ DOMAIN b \subseteq Percentages /\ b \in [DOMAIN b -> Nat \ {0}]
         /\ \A v \in DOMAIN b : v \in Int /\ v \in Nat /\ b[v] \in Nat /\ b[v] \in Int /\ b[v] >= 1
         /\ IsFiniteSet(DOMAIN b)
         /\ \A R : R \subseteq DOMAIN b => IsFiniteSet(R) /\ Total(b, R) \in Nat
  <1>1. PICK D \in SUBSET Percentages : b \in [D -> Nat \ {0}]
    BY DEF VoteBags
  <1>2. IsFiniteSet(DOMAIN b)
    <2>1. MachineCeiling \in Int /\ 0 \in Int
      BY DEF MachineCeiling
    <2>2. IsFiniteSet(Percentages)
      BY <2>1, FS_Interval DEF Percentages
    <2>3. DOMAIN b \in SUBSET Percentages
      BY <1>1
    <2> QED BY <2>2, <2>3, FS_Subset
  <1>3. /\ DOMAIN b \subseteq Percentages /\ b \in [DOMAIN b -> Nat \ {0}]
        /\ \A v \in DOMAIN b : v \in Int /\ v \in Nat /\ b[v] \in Nat /\ b[v] \in Int /\ b[v] >= 1
    <2>1. DOMAIN b \subseteq Percentages /\ b \in [DOMAIN b -> Nat \ {0}]
      BY <1>1
    <2>2. Percentages \subseteq Nat
      BY DEF Percentages, MachineCeiling
    <2> QED BY <2>1, <2>2
  <1>4. ASSUME NEW R, R \subseteq DOMAIN b PROVE IsFiniteSet(R) /\ Total(b, R) \in Nat
    <2>1. IsFiniteSet(R) /\ \A x \in R : b[x] \in Nat
      BY <1>2, <1>3, <1>4, FS_Subset
    <2> QED BY <2>1, TotalIsNat
  <1> QED BY <1>2, <1>3, <1>4

(* The laws of sums, for the photographs of a bag.                        *)
LEMMA Part ==
  ASSUME NEW b \in VoteBags, NEW R, NEW S, S \subseteq DOMAIN b, R \subseteq S
  PROVE  Total(b, R) <= Total(b, S)
  <1>1. IsFiniteSet(S) /\ \A x \in S : b[x] \in Nat
    BY BagTyped
  <1> QED BY <1>1, TotalOfPart

LEMMA Parts ==
  ASSUME NEW b \in VoteBags, NEW R, NEW S, R \subseteq DOMAIN b, S \subseteq DOMAIN b, R \cap S = {}
  PROVE  Total(b, R) + Total(b, S) = Total(b, R \cup S)
  <1>1. IsFiniteSet(R) /\ IsFiniteSet(S) /\ \A x \in R \cup S : b[x] \in Int
    BY BagTyped
  <1> QED BY <1>1, TotalUnion

LEMMA Nobody == \A b : Total(b, {}) = 0
  BY TotalEmpty

LEMMA WithOne ==
  ASSUME NEW b \in VoteBags, NEW x \in Percentages
  PROVE  /\ With(b, x) \in VoteBags /\ DOMAIN With(b, x) = DOMAIN b \cup {x}
         /\ With(b, x)[x] = (IF x \in DOMAIN b THEN b[x] ELSE 0) + 1
         /\ \A v \in DOMAIN b : v # x => With(b, x)[v] = b[v]
  <1> DEFINE D == DOMAIN b \cup {x}
  <1>1. D \subseteq Percentages /\ b \in [DOMAIN b -> Nat \ {0}]
    BY BagTyped
  <1>2. With(b, x) = [e \in D |-> (IF e \in DOMAIN b THEN b[e] ELSE 0) + (IF e = x THEN 1 ELSE 0)]
    BY DEF With, (+), SetToBag
  <1>3. With(b, x) \in [D -> Nat \ {0}]
    BY <1>1, <1>2
  <1>4. With(b, x) \in VoteBags
    BY <1>1, <1>3 DEF VoteBags
  <1>5. \A v \in DOMAIN b : b[v] \in Nat
    BY <1>1
  <1> QED BY <1>2, <1>4, <1>5

LEMMA WithoutOne ==
  ASSUME NEW b \in VoteBags, NEW x \in DOMAIN b
  PROVE  /\ Without(b, x) \in VoteBags /\ DOMAIN Without(b, x) \subseteq DOMAIN b
         /\ \A v \in DOMAIN Without(b, x) : Without(b, x)[v] <= b[v]
  <1> DEFINE D == {e \in DOMAIN b : (IF e = x THEN b[e] - 1 ELSE b[e]) > 0}
  <1>1. D \subseteq Percentages /\ b \in [DOMAIN b -> Nat \ {0}]
    BY BagTyped
  <1>2. Without(b, x) = [e \in D |-> IF e = x THEN b[e] - 1 ELSE b[e]]
    <2>1. DOMAIN SetToBag({x}) = {x} /\ SetToBag({x})[x] = 1
      BY DEF SetToBag
    <2>2. \A e : e \in {x} <=> e = x
      OBVIOUS
    <2> QED BY <2>1, <2>2 DEF Without, (-)
  <1>3. \A e \in DOMAIN b : b[e] \in Nat /\ b[e] - 1 <= b[e]
    BY <1>1
  <1>4. Without(b, x) \in [D -> Nat \ {0}]
    BY <1>1, <1>2, <1>3
  <1>5. Without(b, x) \in VoteBags
    BY <1>1, <1>4 DEF VoteBags
  <1> QED BY <1>2, <1>3, <1>5

LEMMA AddedElsewhere ==
  ASSUME NEW b \in VoteBags, NEW x \in Percentages, NEW R, R \subseteq DOMAIN b, x \notin R
  PROVE  Total(With(b, x), R) = Total(b, R)
  <1>1. IsFiniteSet(R)
    BY BagTyped
  <1>2. \A v \in DOMAIN b : v # x => With(b, x)[v] = b[v]
    BY WithOne
  <1>3. \A v \in R : With(b, x)[v] = b[v]
    BY <1>2
  <1> QED BY <1>1, <1>3, TotalAgrees

LEMMA AddedHere ==
  ASSUME NEW b \in VoteBags, NEW x \in Percentages, NEW R, R \subseteq DOMAIN b,
         x \in DOMAIN b => x \in R
  PROVE  Total(With(b, x), R \cup {x}) = Total(b, R) + 1
  <1> DEFINE new == With(b, x)
             rest == R \ {x}
             all == R \cup {x}
  <1>1. new \in VoteBags /\ DOMAIN new = DOMAIN b \cup {x} /\ all \ {x} = rest
    BY WithOne
  <1>2. all \subseteq DOMAIN new /\ x \in all /\ rest \subseteq DOMAIN b /\ x \notin rest
    BY <1>1
  <1>3. new[x] = (IF x \in DOMAIN b THEN b[x] ELSE 0) + 1
    BY WithOne
  <1>4. Total(new, rest) = Total(b, rest)
    BY <1>2, AddedElsewhere
  <1> HIDE DEF new, all
  <1>5. Total(new, all) = new[x] + Total(new, rest)
    <2>1. IsFiniteSet(all) /\ \A v \in all : new[v] \in Int
      BY <1>1, <1>2, BagTyped
    <2>2. Total(new, all) = new[x] + Total(new, all \ {x})
      BY <1>2, <2>1, TotalRemove
    <2> QED BY <1>1, <2>2
  <1>6. CASE x \in DOMAIN b
    <2>1. IsFiniteSet(R) /\ \A v \in R : b[v] \in Int
      BY BagTyped
    <2>2. Total(b, R) = b[x] + Total(b, rest)
      BY <1>6, <2>1, TotalRemove
    <2>3. Total(b, R) = b[x] + Total(b, rest)
      BY <2>2
    <2>4. b[x] \in Nat /\ Total(b, rest) \in Nat
      BY <1>2, <1>6, BagTyped
    <2> HIDE DEF rest
    <2>5. Total(new, all) = Total(b, R) + 1
      BY <1>3, <1>4, <1>5, <1>6, <2>3, <2>4
    <2> QED BY <2>5 DEF new, all
  <1>7. CASE x \notin DOMAIN b
    <2>1. rest = R /\ Total(b, R) \in Nat
      BY <1>7, BagTyped
    <2>2. new[x] = 1 /\ Total(new, rest) = Total(b, R)
      <3>1. new[x] = 1
        BY <1>3, <1>7
      <3> HIDE DEF rest
      <3> QED BY <1>4, <2>1, <3>1
    <2>3. Total(new, all) = Total(b, R) + 1
      BY <1>5, <2>1, <2>2
    <2> QED BY <2>3 DEF new, all
  <1> QED BY <1>6, <1>7

-----------------------------------------------------------------------------
(* Min and Max of the finite sets the median takes them of.               *)
LEMMA LeastOf ==
  ASSUME NEW T \in SUBSET Nat, T # {}
  PROVE  Min(T) \in T /\ \A v \in T : Min(T) <= v
  <1>1. \E k \in T : \A j \in T : k <= j
    BY LeastNatural
  <1> QED BY <1>1 DEF Min

LEMMA GreatestOf ==
  ASSUME NEW T \in SUBSET Nat, T # {}, NEW n \in Nat, \A v \in T : v <= n
  PROVE  Max(T) \in T /\ \A v \in T : v <= Max(T)
  <1> DEFINE below == {n - v : v \in T}
  <1>1. below \in SUBSET Nat /\ below # {}
    <2>1. \A v \in T : n - v \in Nat
      OBVIOUS
    <2> QED BY <2>1
  <1>2. PICK k \in below : \A j \in below : k <= j
    BY <1>1, LeastNatural
  <1>3. PICK top \in T : k = n - top
    BY <1>2
  <1>4. ASSUME NEW v \in T PROVE top >= v
    <2>1. n - v \in below
      OBVIOUS
    <2>2. k <= n - v /\ v \in Nat /\ top \in Nat
      BY <1>2, <2>1
    <2> HIDE DEF below
    <2> QED BY <1>3, <2>2
  <1>5. \E y \in T : \A v \in T : y >= v
    BY <1>4
  <1>6. Max(T) \in T /\ \A v \in T : Max(T) >= v
    <2> HIDE DEF below
    <2> QED BY <1>5 DEF Max
  <1> QED BY <1>6

LEMMA Counts ==
  ASSUME NEW b \in VoteBags, NEW v
  PROVE  AtMost(b, v) \in Nat /\ AtLeast(b, v) \in Nat /\ Size(b) \in Nat
         /\ AtMost(b, v) <= Size(b) /\ AtLeast(b, v) <= Size(b)
  <1> DEFINE low == {u \in DOMAIN b : u <= v}
             high == {u \in DOMAIN b : u >= v}
  <1>1. low \subseteq DOMAIN b /\ high \subseteq DOMAIN b
    OBVIOUS
  <1>2. AtMost(b, v) = Total(b, low) /\ AtLeast(b, v) = Total(b, high)
        /\ Size(b) = Total(b, DOMAIN b)
    BY DEF AtMost, AtLeast, Size, BagToSet
  <1> HIDE DEF low, high
  <1> QED BY <1>1, <1>2, BagTyped, Part

(* Photographs at most v and photographs at least u are different ones;   *)
(* together they are all of them if nothing lies between.                 *)
LEMMA Sides ==
  ASSUME NEW b \in VoteBags, NEW v \in Nat, NEW u \in Nat, v < u
  PROVE  AtMost(b, v) + AtLeast(b, u) <= Size(b)
  <1> DEFINE low == {w \in DOMAIN b : w <= v}
             high == {w \in DOMAIN b : w >= u}
  <1>1. low \subseteq DOMAIN b /\ high \subseteq DOMAIN b /\ low \cap high = {}
    BY BagTyped
  <1>2. AtMost(b, v) = Total(b, low) /\ AtLeast(b, u) = Total(b, high)
        /\ Size(b) = Total(b, DOMAIN b)
    BY DEF AtMost, AtLeast, Size, BagToSet
  <1> HIDE DEF low, high
  <1>3. low \cup high \subseteq DOMAIN b
    BY <1>1
  <1>4. Total(b, low) + Total(b, high) = Total(b, low \cup high)
    BY <1>1, Parts
  <1>5. Total(b, low \cup high) <= Total(b, DOMAIN b)
    BY <1>3, Part
  <1> QED BY <1>2, <1>4, <1>5

LEMMA NextTo ==
  ASSUME NEW b \in VoteBags, NEW v \in Nat, NEW u \in Nat, v < u,
         \A w \in DOMAIN b : w <= v \/ w >= u
  PROVE  AtMost(b, v) + AtLeast(b, u) = Size(b)
  <1> DEFINE low == {w \in DOMAIN b : w <= v}
             high == {w \in DOMAIN b : w >= u}
  <1>1. low \subseteq DOMAIN b /\ high \subseteq DOMAIN b /\ low \cap high = {}
        /\ low \cup high = DOMAIN b
    <2>1. \A w \in DOMAIN b : w \in Nat
      BY BagTyped
    <2>2. low \cap high = {}
      BY <2>1
    <2>3. low \cup high = DOMAIN b
      OBVIOUS
    <2> QED BY <2>2, <2>3
  <1>2. AtMost(b, v) = Total(b, low) /\ AtLeast(b, u) = Total(b, high)
        /\ Size(b) = Total(b, DOMAIN b)
    BY DEF AtMost, AtLeast, Size, BagToSet
  <1> HIDE DEF low, high
  <1>4. Total(b, low) + Total(b, high) = Total(b, low \cup high)
    BY <1>1, Parts
  <1> QED BY <1>1, <1>2, <1>4

LEMMA Ends ==
  ASSUME NEW b \in VoteBags, NEW v
  PROVE  /\ (\A w \in DOMAIN b : w <= v) => AtMost(b, v) = Size(b)
         /\ (\A w \in DOMAIN b : w >= v) => AtLeast(b, v) = Size(b)
         /\ (\A w \in DOMAIN b : ~(w <= v)) => AtMost(b, v) = 0
         /\ (\A w \in DOMAIN b : ~(w >= v)) => AtLeast(b, v) = 0
  <1> DEFINE low == {w \in DOMAIN b : w <= v}
             high == {w \in DOMAIN b : w >= v}
  <1>1. AtMost(b, v) = Total(b, low) /\ AtLeast(b, v) = Total(b, high)
        /\ Size(b) = Total(b, DOMAIN b)
    BY DEF AtMost, AtLeast, Size, BagToSet
  <1>2. /\ (\A w \in DOMAIN b : w <= v) => low = DOMAIN b
        /\ (\A w \in DOMAIN b : w >= v) => high = DOMAIN b
        /\ (\A w \in DOMAIN b : ~(w <= v)) => low = {}
        /\ (\A w \in DOMAIN b : ~(w >= v)) => high = {}
    OBVIOUS
  <1> HIDE DEF low, high
  <1> QED BY <1>1, <1>2, Nobody

LEMMA Monotonic ==
  ASSUME NEW b \in VoteBags, NEW v \in Nat, NEW u \in Nat, v <= u
  PROVE  AtMost(b, v) <= AtMost(b, u) /\ AtLeast(b, u) <= AtLeast(b, v)
  <1> DEFINE low(x) == {w \in DOMAIN b : w <= x}
             high(x) == {w \in DOMAIN b : w >= x}
  <1>1. low(v) \subseteq low(u) /\ high(u) \subseteq high(v)
    BY BagTyped
  <1>2. \A x : low(x) \subseteq DOMAIN b /\ high(x) \subseteq DOMAIN b
    OBVIOUS
  <1>3. \A x : AtMost(b, x) = Total(b, low(x)) /\ AtLeast(b, x) = Total(b, high(x))
    BY DEF AtMost, AtLeast, BagToSet
  <1> HIDE DEF low, high
  <1> QED BY <1>1, <1>2, <1>3, Part

(* What one more photograph adds to each count.                           *)
LEMMA CountsWith ==
  ASSUME NEW b \in VoteBags, NEW x \in Percentages, NEW v \in Nat
  PROVE  /\ Size(With(b, x)) = Size(b) + 1
         /\ AtMost(With(b, x), v) = AtMost(b, v) + (IF x <= v THEN 1 ELSE 0)
         /\ AtLeast(With(b, x), v) = AtLeast(b, v) + (IF x >= v THEN 1 ELSE 0)
  <1> DEFINE new == With(b, x)
             low == {w \in DOMAIN b : w <= v}
             high == {w \in DOMAIN b : w >= v}
             newLow == {w \in DOMAIN new : w <= v}
             newHigh == {w \in DOMAIN new : w >= v}
  <1>1. DOMAIN new = DOMAIN b \cup {x}
    BY WithOne
  <1>2. AtMost(b, v) = Total(b, low) /\ AtLeast(b, v) = Total(b, high)
        /\ Size(b) = Total(b, DOMAIN b)
        /\ AtMost(new, v) = Total(new, newLow) /\ AtLeast(new, v) = Total(new, newHigh)
        /\ Size(new) = Total(new, DOMAIN new)
    BY DEF AtMost, AtLeast, Size, BagToSet
  <1>3. low \subseteq DOMAIN b /\ high \subseteq DOMAIN b
    OBVIOUS
  <1>4. Total(new, DOMAIN b \cup {x}) = Total(b, DOMAIN b) + 1
    BY AddedHere
  <1>5. Total(b, low) \in Nat /\ Total(b, high) \in Nat
    BY <1>3, BagTyped
  <1>6. Total(new, newLow) = Total(b, low) + (IF x <= v THEN 1 ELSE 0)
    <2>1. CASE x <= v
      <3>1. newLow = low \cup {x} /\ (x \in DOMAIN b => x \in low)
        BY <1>1, <2>1
      <3>2. Total(new, low \cup {x}) = Total(b, low) + 1
        BY <1>3, <3>1, AddedHere
      <3> HIDE DEF new, low, high, newLow, newHigh
      <3> QED BY <1>5, <2>1, <3>1, <3>2
    <2>2. CASE ~(x <= v)
      <3>1. newLow = low /\ x \notin low
        BY <1>1, <2>2
      <3>2. Total(new, low) = Total(b, low)
        BY <1>3, <3>1, AddedElsewhere
      <3> HIDE DEF new, low, high, newLow, newHigh
      <3> QED BY <1>5, <2>2, <3>1, <3>2
    <2> QED BY <2>1, <2>2
  <1>7. Total(new, newHigh) = Total(b, high) + (IF x >= v THEN 1 ELSE 0)
    <2>1. CASE x >= v
      <3>1. newHigh = high \cup {x} /\ (x \in DOMAIN b => x \in high)
        BY <1>1, <2>1
      <3>2. Total(new, high \cup {x}) = Total(b, high) + 1
        BY <1>3, <3>1, AddedHere
      <3> HIDE DEF new, low, high, newLow, newHigh
      <3> QED BY <1>5, <2>1, <3>1, <3>2
    <2>2. CASE ~(x >= v)
      <3>1. newHigh = high /\ x \notin high
        BY <1>1, <2>2
      <3>2. Total(new, high) = Total(b, high)
        BY <1>3, <3>1, AddedElsewhere
      <3> HIDE DEF new, low, high, newLow, newHigh
      <3> QED BY <1>5, <2>2, <3>1, <3>2
    <2> QED BY <2>1, <2>2
  <1> HIDE DEF new, low, high, newLow, newHigh
  <1>8. /\ Size(new) = Size(b) + 1
        /\ AtMost(new, v) = AtMost(b, v) + (IF x <= v THEN 1 ELSE 0)
        /\ AtLeast(new, v) = AtLeast(b, v) + (IF x >= v THEN 1 ELSE 0)
    BY <1>1, <1>2, <1>4, <1>6, <1>7
  <1> QED BY <1>8 DEF new

(* The two middle photographs of a camera: statistics.median by counting. *)
(* Each is a vote with half of the photographs on its side, and no vote   *)
(* further out has half of them.                                          *)
LEMMA Middles ==
  ASSUME NEW b \in VoteBags, DOMAIN b # {}
  PROVE  /\ LowerMiddle(b) \in DOMAIN b /\ UpperMiddle(b) \in DOMAIN b
         /\ 2 * AtMost(b, LowerMiddle(b)) >= Size(b)
         /\ 2 * AtLeast(b, UpperMiddle(b)) >= Size(b)
         /\ \A v \in DOMAIN b : v < LowerMiddle(b) => 2 * AtMost(b, v) < Size(b)
         /\ \A v \in DOMAIN b : v > UpperMiddle(b) => 2 * AtLeast(b, v) < Size(b)
  <1> DEFINE D == DOMAIN b
             low == {v \in D : 2 * AtMost(b, v) >= Size(b)}
             high == {v \in D : 2 * AtLeast(b, v) >= Size(b)}
  <1>1. D \in SUBSET Nat /\ \A v \in D : v <= MachineCeiling
    <2>1. D \subseteq Percentages
      BY BagTyped
    <2>2. \A v \in Percentages : v \in Nat /\ v <= MachineCeiling
      BY DEF Percentages, MachineCeiling
    <2> HIDE DEF D
    <2>3. \A v \in D : v \in Nat /\ v <= MachineCeiling
      BY <2>1, <2>2
    <2> QED BY <2>3
  <1>2. MachineCeiling \in Nat
    BY DEF MachineCeiling
  <1>3. Size(b) \in Nat
    BY Counts
  <1>4. Max(D) \in low
    <2>1. Max(D) \in D /\ \A v \in D : v <= Max(D)
      BY <1>1, <1>2, GreatestOf
    <2>2. AtMost(b, Max(D)) = Size(b)
      BY <2>1, Ends
    <2> QED BY <1>3, <2>1, <2>2
  <1>5. Min(D) \in high
    <2>1. Min(D) \in D /\ \A v \in D : Min(D) <= v
      BY <1>1, LeastOf
    <2>2. \A v \in D : v >= Min(D)
      BY <1>1, <2>1
    <2>3. AtLeast(b, Min(D)) = Size(b)
      BY <2>2, Ends
    <2> QED BY <1>3, <2>1, <2>3
  <1>6. low \in SUBSET Nat /\ high \in SUBSET Nat /\ \A v \in high : v <= MachineCeiling
    BY <1>1
  <1>7. LowerMiddle(b) = Min(low) /\ UpperMiddle(b) = Max(high)
    BY DEF LowerMiddle, UpperMiddle, BagToSet
  <1>8. Min(low) \in low /\ \A v \in low : Min(low) <= v
    <2>1. low # {}
      BY <1>4
    <2> HIDE DEF low
    <2> QED BY <1>6, <2>1, LeastOf
  <1>9. Max(high) \in high /\ \A v \in high : v <= Max(high)
    <2>1. high # {}
      BY <1>5
    <2> HIDE DEF high
    <2> QED BY <1>2, <1>6, <2>1, GreatestOf
  <1>10. ASSUME NEW v \in D, v < Min(low) PROVE 2 * AtMost(b, v) < Size(b)
    <2>1. v \in Nat /\ Min(low) \in Nat /\ AtMost(b, v) \in Nat
      BY <1>1, <1>8, Counts
    <2>2. v \notin low
      <3> HIDE DEF low
      <3> QED BY <1>8, <1>10, <2>1
    <2> QED BY <1>3, <2>1, <2>2
  <1>11. ASSUME NEW v \in D, v > Max(high) PROVE 2 * AtLeast(b, v) < Size(b)
    <2>1. v \in Nat /\ Max(high) \in Nat /\ AtLeast(b, v) \in Nat
      BY <1>1, <1>9, Counts
    <2>2. v \notin high
      BY <1>9, <1>11, <2>1
    <2> QED BY <1>3, <2>1, <2>2
  <1> QED BY <1>7, <1>8, <1>9, <1>10, <1>11

LEMMA MiddlesAreNat ==
  ASSUME NEW b \in VoteBags, DOMAIN b # {}
  PROVE  /\ LowerMiddle(b) \in Nat /\ UpperMiddle(b) \in Nat
         /\ LowerMiddle(b) \in Percentages /\ UpperMiddle(b) \in Percentages
  BY Middles, BagTyped

(* The lower middle is not above the upper one: between two neighbouring  *)
(* votes out of order, fewer than all the photographs would be counted.   *)
LEMMA MiddlesInOrder ==
  ASSUME NEW b \in VoteBags, DOMAIN b # {}
  PROVE  LowerMiddle(b) <= UpperMiddle(b)
  <1> DEFINE L == LowerMiddle(b)
             U == UpperMiddle(b)
             above == {v \in DOMAIN b : v > U}
  <1>1. L \in Nat /\ U \in Nat /\ L \in DOMAIN b /\ U \in DOMAIN b
    BY Middles, MiddlesAreNat
  <1>2. /\ \A v \in DOMAIN b : v < L => 2 * AtMost(b, v) < Size(b)
        /\ \A v \in DOMAIN b : v > U => 2 * AtLeast(b, v) < Size(b)
    BY Middles
  <1> HIDE DEF L, U
  <1> SUFFICES ASSUME U < L PROVE FALSE
    BY <1>1 DEF L, U
  <1>3. above \in SUBSET Nat /\ above # {}
    BY <1>1, BagTyped
  <1>4. PICK u \in above : \A w \in above : u <= w
    BY <1>3, LeastNatural
  <1>5. u \in Nat /\ u \in DOMAIN b /\ U < u /\ \A w \in DOMAIN b : w <= U \/ w >= u
    <2>1. \A w \in DOMAIN b : w \in Nat
      BY BagTyped
    <2> QED BY <1>1, <1>4, <2>1
  <1>6. AtMost(b, U) + AtLeast(b, u) = Size(b)
    BY <1>1, <1>5, NextTo
  <1>7. 2 * AtMost(b, U) < Size(b) /\ 2 * AtLeast(b, u) < Size(b)
    BY <1>1, <1>2, <1>5
  <1> QED BY <1>6, <1>7, Counts

LEMMA LowerBound ==
  ASSUME NEW b \in VoteBags, DOMAIN b # {}, NEW m \in Nat,
         \A v \in DOMAIN b : v < m => 2 * AtMost(b, v) < Size(b)
  PROVE  m <= LowerMiddle(b)
  <1>1. LowerMiddle(b) \in DOMAIN b /\ LowerMiddle(b) \in Nat
        /\ 2 * AtMost(b, LowerMiddle(b)) >= Size(b)
    BY Middles, MiddlesAreNat
  <1>2. AtMost(b, LowerMiddle(b)) \in Nat /\ Size(b) \in Nat
    BY Counts
  <1>3. ~(LowerMiddle(b) < m)
    BY <1>1, <1>2
  <1> QED BY <1>1, <1>3

LEMMA UpperBound ==
  ASSUME NEW b \in VoteBags, DOMAIN b # {}, NEW m \in Nat,
         \A v \in DOMAIN b : v > m => 2 * AtLeast(b, v) < Size(b)
  PROVE  UpperMiddle(b) <= m
  <1>1. UpperMiddle(b) \in DOMAIN b /\ UpperMiddle(b) \in Nat
        /\ 2 * AtLeast(b, UpperMiddle(b)) >= Size(b)
    BY Middles, MiddlesAreNat
  <1>2. AtLeast(b, UpperMiddle(b)) \in Nat /\ Size(b) \in Nat
    BY Counts
  <1>3. ~(UpperMiddle(b) > m)
    BY <1>1, <1>2
  <1> QED BY <1>1, <1>3

LEMMA Qualifies ==
  ASSUME NEW b \in VoteBags, NEW v \in DOMAIN b
  PROVE  /\ 2 * AtMost(b, v) >= Size(b) => LowerMiddle(b) <= v
         /\ 2 * AtLeast(b, v) >= Size(b) => v <= UpperMiddle(b)
  <1>1. DOMAIN b # {} /\ v \in Nat
    BY BagTyped
  <1>2. /\ v < LowerMiddle(b) => 2 * AtMost(b, v) < Size(b)
        /\ v > UpperMiddle(b) => 2 * AtLeast(b, v) < Size(b)
        /\ LowerMiddle(b) \in Nat /\ UpperMiddle(b) \in Nat
    BY <1>1, Middles, MiddlesAreNat
  <1>3. AtMost(b, v) \in Nat /\ AtLeast(b, v) \in Nat /\ Size(b) \in Nat
    BY Counts
  <1> QED BY <1>1, <1>2, <1>3

-----------------------------------------------------------------------------
(* A photograph that is not below the median does not lower it, and one   *)
(* that is not above does not raise it: where the new vote lies beyond the*)
(* further middle it is that middle's side which grows, and otherwise the *)
(* vote itself bounds both middles.                                       *)
LEMMA RisesWith ==
  ASSUME NEW b \in VoteBags, DOMAIN b # {}, NEW x \in Percentages, 2 * x >= DeviceValue(b)
  PROVE  DeviceValue(With(b, x)) >= DeviceValue(b)
  <1> DEFINE new == With(b, x)
             L == LowerMiddle(b)
             U == UpperMiddle(b)
             n == Size(b)
  <1>1. new \in VoteBags /\ DOMAIN new = DOMAIN b \cup {x} /\ DOMAIN new # {}
    <2>1. new \in VoteBags /\ DOMAIN new = DOMAIN b \cup {x}
      BY WithOne
    <2>2. x \in DOMAIN b \cup {x}
      OBVIOUS
    <2> HIDE DEF new
    <2> QED BY <2>1, <2>2
  <1>2. x \in Nat /\ L \in Nat /\ U \in Nat /\ L <= U /\ U \in DOMAIN b
    BY MiddlesAreNat, MiddlesInOrder, Middles DEF Percentages
  <1>3. LowerMiddle(new) \in Nat /\ UpperMiddle(new) \in Nat
    BY <1>1, MiddlesAreNat
  <1>4. n \in Nat /\ Size(new) = n + 1
    BY <1>2, Counts, CountsWith
  <1>5. /\ 2 * AtLeast(b, U) >= n
        /\ \A v \in DOMAIN b : v < L => 2 * AtMost(b, v) < n
    BY Middles
  <1>6. DeviceValue(b) = L + U /\ DeviceValue(new) = LowerMiddle(new) + UpperMiddle(new)
    BY DEF DeviceValue
  <1>7. \A v \in DOMAIN new : v \in Nat
    BY <1>1, BagTyped
  <1> HIDE DEF L, U, n
  <1>8. CASE x >= U
    <2>1. ASSUME NEW v \in DOMAIN new, v < L PROVE 2 * AtMost(new, v) < Size(new)
      <3>1. v \in Nat /\ v < x /\ v \in DOMAIN b
        BY <1>1, <1>2, <1>7, <1>8, <2>1
      <3>2. AtMost(new, v) = AtMost(b, v) + 0 /\ AtMost(b, v) \in Nat
        BY <1>2, <3>1, CountsWith, Counts
      <3>3. 2 * AtMost(b, v) < n
        BY <1>5, <2>1, <3>1
      <3> QED BY <1>4, <3>2, <3>3
    <2>2. L <= LowerMiddle(new)
      BY <1>1, <1>2, <2>1, LowerBound
    <2>3. AtLeast(new, U) = AtLeast(b, U) + 1 /\ AtLeast(b, U) \in Nat
      BY <1>2, <1>8, CountsWith, Counts
    <2>4. 2 * AtLeast(new, U) >= Size(new)
      BY <1>4, <1>5, <2>3
    <2>5. U <= UpperMiddle(new)
      BY <1>1, <1>2, <2>4, Qualifies
    <2> QED BY <1>2, <1>3, <1>6, <2>2, <2>5
  <1>9. CASE x < U
    <2>1. ASSUME NEW v \in DOMAIN new, v < x PROVE 2 * AtMost(new, v) < Size(new)
      <3>1. v \in Nat /\ v < U
        BY <1>2, <1>7, <1>9, <2>1
      <3>2. AtMost(new, v) = AtMost(b, v) + 0 /\ AtMost(b, v) \in Nat /\ AtLeast(b, U) \in Nat
        BY <1>2, <2>1, <3>1, CountsWith, Counts
      <3>3. AtMost(b, v) + AtLeast(b, U) <= n
        BY <1>2, <3>1, Sides DEF n
      <3> QED BY <1>4, <1>5, <3>2, <3>3
    <2>2. x <= LowerMiddle(new)
      BY <1>1, <1>2, <2>1, LowerBound
    <2>3. AtLeast(new, x) = AtLeast(b, x) + 1 /\ AtLeast(b, x) \in Nat /\ AtLeast(b, U) \in Nat
      BY <1>2, CountsWith, Counts
    <2>4. AtLeast(b, U) <= AtLeast(b, x)
      BY <1>2, <1>9, Monotonic
    <2>5. 2 * AtLeast(new, x) >= Size(new)
      BY <1>4, <1>5, <2>3, <2>4
    <2>6. x <= UpperMiddle(new)
      BY <1>1, <2>5, Qualifies
    <2> QED BY <1>2, <1>3, <1>6, <2>2, <2>6
  <1> QED BY <1>2, <1>8, <1>9

LEMMA FallsWith ==
  ASSUME NEW b \in VoteBags, DOMAIN b # {}, NEW x \in Percentages, 2 * x <= DeviceValue(b)
  PROVE  DeviceValue(With(b, x)) <= DeviceValue(b)
  <1> DEFINE new == With(b, x)
             L == LowerMiddle(b)
             U == UpperMiddle(b)
             n == Size(b)
  <1>1. new \in VoteBags /\ DOMAIN new = DOMAIN b \cup {x} /\ DOMAIN new # {}
    <2>1. new \in VoteBags /\ DOMAIN new = DOMAIN b \cup {x}
      BY WithOne
    <2>2. x \in DOMAIN b \cup {x}
      OBVIOUS
    <2> HIDE DEF new
    <2> QED BY <2>1, <2>2
  <1>2. x \in Nat /\ L \in Nat /\ U \in Nat /\ L <= U /\ L \in DOMAIN b
    BY MiddlesAreNat, MiddlesInOrder, Middles DEF Percentages
  <1>3. LowerMiddle(new) \in Nat /\ UpperMiddle(new) \in Nat
    BY <1>1, MiddlesAreNat
  <1>4. n \in Nat /\ Size(new) = n + 1
    BY <1>2, Counts, CountsWith
  <1>5. /\ 2 * AtMost(b, L) >= n
        /\ \A v \in DOMAIN b : v > U => 2 * AtLeast(b, v) < n
    BY Middles
  <1>6. DeviceValue(b) = L + U /\ DeviceValue(new) = LowerMiddle(new) + UpperMiddle(new)
    BY DEF DeviceValue
  <1>7. \A v \in DOMAIN new : v \in Nat
    BY <1>1, BagTyped
  <1> HIDE DEF L, U, n
  <1>8. CASE x <= L
    <2>1. ASSUME NEW v \in DOMAIN new, v > U PROVE 2 * AtLeast(new, v) < Size(new)
      <3>1. v \in Nat /\ ~(x >= v) /\ v \in DOMAIN b
        BY <1>1, <1>2, <1>7, <1>8, <2>1
      <3>2. AtLeast(new, v) = AtLeast(b, v) + 0 /\ AtLeast(b, v) \in Nat
        BY <1>2, <3>1, CountsWith, Counts
      <3>3. 2 * AtLeast(b, v) < n
        BY <1>5, <2>1, <3>1
      <3> QED BY <1>4, <3>2, <3>3
    <2>2. UpperMiddle(new) <= U
      BY <1>1, <1>2, <2>1, UpperBound
    <2>3. AtMost(new, L) = AtMost(b, L) + 1 /\ AtMost(b, L) \in Nat
      BY <1>2, <1>8, CountsWith, Counts
    <2>4. 2 * AtMost(new, L) >= Size(new)
      BY <1>4, <1>5, <2>3
    <2>5. LowerMiddle(new) <= L
      BY <1>1, <1>2, <2>4, Qualifies
    <2> QED BY <1>2, <1>3, <1>6, <2>2, <2>5
  <1>9. CASE x > L
    <2>1. ASSUME NEW v \in DOMAIN new, v > x PROVE 2 * AtLeast(new, v) < Size(new)
      <3>1. v \in Nat /\ L < v /\ ~(x >= v)
        BY <1>2, <1>7, <1>9, <2>1
      <3>2. AtLeast(new, v) = AtLeast(b, v) + 0 /\ AtLeast(b, v) \in Nat /\ AtMost(b, L) \in Nat
        BY <1>2, <3>1, CountsWith, Counts
      <3>3. AtMost(b, L) + AtLeast(b, v) <= n
        BY <1>2, <3>1, Sides DEF n
      <3> QED BY <1>4, <1>5, <3>2, <3>3
    <2>2. UpperMiddle(new) <= x
      BY <1>1, <1>2, <2>1, UpperBound
    <2>3. AtMost(new, x) = AtMost(b, x) + 1 /\ AtMost(b, x) \in Nat /\ AtMost(b, L) \in Nat
      BY <1>2, CountsWith, Counts
    <2>4. AtMost(b, L) <= AtMost(b, x)
      BY <1>2, <1>9, Monotonic
    <2>5. 2 * AtMost(new, x) >= Size(new)
      BY <1>4, <1>5, <2>3, <2>4
    <2>6. LowerMiddle(new) <= x
      BY <1>1, <2>5, Qualifies
    <2> QED BY <1>2, <1>3, <1>6, <2>2, <2>6
  <1> QED BY <1>2, <1>8, <1>9

(* With two photographs or more, one more leaves both middles between the *)
(* least and the greatest of the others: it is alone on its side.         *)
LEMMA NotDragged ==
  ASSUME NEW b \in VoteBags, Size(b) >= 2, NEW x \in Percentages
  PROVE  /\ 2 * Min(BagToSet(b)) <= DeviceValue(With(b, x))
         /\ DeviceValue(With(b, x)) <= 2 * Max(BagToSet(b))
  <1> DEFINE new == With(b, x)
             least == Min(DOMAIN b)
             most == Max(DOMAIN b)
             n == Size(b)
  <1>1. DOMAIN b # {}
    <2> SUFFICES ASSUME DOMAIN b = {} PROVE FALSE
      OBVIOUS
    <2>1. Size(b) = 0
      BY Nobody DEF Size, BagToSet
    <2> QED BY <2>1
  <1>2. new \in VoteBags /\ DOMAIN new = DOMAIN b \cup {x} /\ DOMAIN new # {}
    <2>1. new \in VoteBags /\ DOMAIN new = DOMAIN b \cup {x}
      BY WithOne
    <2>2. x \in DOMAIN b \cup {x}
      OBVIOUS
    <2> HIDE DEF new
    <2> QED BY <2>1, <2>2
  <1>3. DOMAIN b \in SUBSET Nat /\ x \in Nat /\ MachineCeiling \in Nat
        /\ \A v \in DOMAIN b : v <= MachineCeiling
    <2>1. \A v \in Percentages : v \in Nat /\ v <= MachineCeiling
      BY DEF Percentages, MachineCeiling
    <2> QED BY <2>1, BagTyped DEF MachineCeiling
  <1>4. least \in DOMAIN b /\ \A v \in DOMAIN b : least <= v
    BY <1>1, <1>3, LeastOf
  <1>5. most \in DOMAIN b /\ \A v \in DOMAIN b : v <= most
    BY <1>1, <1>3, GreatestOf
  <1> HIDE DEF least, most
  <1>6. least \in Nat /\ most \in Nat /\ \A v \in DOMAIN b : v \in Nat
    BY <1>3, <1>4, <1>5
  <1>7. n \in Nat /\ n >= 2 /\ Size(new) = n + 1
    BY <1>6, Counts, CountsWith
  <1> HIDE DEF n
  <1>8. least <= LowerMiddle(new)
    <2>1. ASSUME NEW v \in DOMAIN new, v < least PROVE 2 * AtMost(new, v) < Size(new)
      <3>1. v = x /\ \A w \in DOMAIN b : ~(w <= v)
        BY <1>2, <1>3, <1>4, <1>6, <2>1
      <3>2. AtMost(b, v) = 0
        BY <3>1, Ends
      <3>3. AtMost(new, v) = AtMost(b, v) + 1
        BY <1>3, <3>1, CountsWith
      <3> QED BY <1>7, <3>2, <3>3
    <2> QED BY <1>2, <1>6, <2>1, LowerBound
  <1>9. UpperMiddle(new) <= most
    <2>1. ASSUME NEW v \in DOMAIN new, v > most PROVE 2 * AtLeast(new, v) < Size(new)
      <3>1. v = x /\ \A w \in DOMAIN b : ~(w >= v)
        BY <1>2, <1>3, <1>5, <1>6, <2>1
      <3>2. AtLeast(b, v) = 0
        BY <3>1, Ends
      <3>3. AtLeast(new, v) = AtLeast(b, v) + 1
        BY <1>3, <3>1, CountsWith
      <3> QED BY <1>7, <3>2, <3>3
    <2> QED BY <1>2, <1>6, <2>1, UpperBound
  <1>10. LowerMiddle(new) \in Nat /\ UpperMiddle(new) \in Nat /\ LowerMiddle(new) <= UpperMiddle(new)
    BY <1>2, MiddlesAreNat, MiddlesInOrder
  <1>11. DeviceValue(new) = LowerMiddle(new) + UpperMiddle(new)
    BY DEF DeviceValue
  <1>12. 2 * least <= DeviceValue(new) /\ DeviceValue(new) <= 2 * most
    BY <1>6, <1>8, <1>9, <1>10, <1>11
  <1> QED BY <1>12 DEF least, most, new, BagToSet

-----------------------------------------------------------------------------
(* progress_estimator: a fused percentage is within the band of its class,*)
(* hence at most the ceiling of the machine.                              *)
LEMMA ScoreTyped ==
  ASSUME NEW s \in Scores
  PROVE  /\ s.class \in 0..3 /\ s.confidence \in 0..10000
         /\ s.found \in 0..Checklist[s.class + 1]
  <1>1. \A t \in Scores : /\ t.class \in Classes
                          /\ t.confidence \in 0..10000
                          /\ t.found \in 0..Checklist[t.class + 1]
    BY CamerasAssumption, SMTT(60)
  <1>2. s.class \in Classes
    BY <1>1, SMTT(30)
  <1>3. s.confidence \in 0..10000
    BY <1>1, SMTT(30)
  <1>4. s.found \in 0..Checklist[s.class + 1]
    BY <1>1, SMTT(30)
  <1>5. s.class \in 0..3
    BY <1>2 DEF Classes
  <1> QED BY <1>3, <1>4, <1>5, SMTT(30)

LEMMA MachinePercentages ==
  ASSUME NEW s \in Scores
  PROVE  FusedRawPct(s) \in Percentages
  <1> DEFINE k == s.class
             e == Checklist[k + 1]
             p == s.confidence
             q == s.found
             n == 2 * e * 10000 * BandFloor(k) + (p * e + 10000 * q) * BandSpan
             d == 2 * e * 10000
  <1>1. k \in 0..3 /\ p \in 0..10000 /\ q \in 0..e
    BY ScoreTyped
  <1>2. FusedRawPct(s) = HalfUp(n, d)
    BY DEF FusedRawPct
  <1>3. e \in {2, 4, 5}
    <2>1. k = 0 \/ k = 1 \/ k = 2 \/ k = 3
      BY <1>1
    <2> HIDE DEF k
    <2> QED BY <2>1 DEF Checklist
  <1>4. BandFloor(k) = 2000 * k
    BY DEF BandFloor
  <1> HIDE DEF e, p, q, k
  <1>5. n \in Nat /\ d \in Nat /\ d > 0 /\ n <= d * 8000
    <2>1. CASE e = 2
      <3>1. n = 40000 * (2000 * k) + (2 * p + 10000 * q) * 2000 /\ d = 40000
        BY <1>1, <1>4, <2>1 DEF BandSpan
      <3>2. k \in Nat /\ k <= 3 /\ p \in Nat /\ p <= 10000 /\ q \in Nat /\ q <= 2
        BY <1>1, <2>1
      <3> HIDE DEF n, d
      <3> QED BY <3>1, <3>2
    <2>2. CASE e = 4
      <3>1. n = 80000 * (2000 * k) + (4 * p + 10000 * q) * 2000 /\ d = 80000
        BY <1>1, <1>4, <2>2 DEF BandSpan
      <3>2. k \in Nat /\ k <= 3 /\ p \in Nat /\ p <= 10000 /\ q \in Nat /\ q <= 4
        BY <1>1, <2>2
      <3> HIDE DEF n, d
      <3> QED BY <3>1, <3>2
    <2>3. CASE e = 5
      <3>1. n = 100000 * (2000 * k) + (5 * p + 10000 * q) * 2000 /\ d = 100000
        BY <1>1, <1>4, <2>3 DEF BandSpan
      <3>2. k \in Nat /\ k <= 3 /\ p \in Nat /\ p <= 10000 /\ q \in Nat /\ q <= 5
        BY <1>1, <2>3
      <3> HIDE DEF n, d
      <3> QED BY <3>1, <3>2
    <2> QED BY <1>3, <2>1, <2>2, <2>3
  <1> HIDE DEF n, d
  <1>6. HalfUp(n, d) \in 0..8000
    <2> DEFINE a == 2 * n + d
               c == 2 * d
               r == a \div c
    <2>1. a \in Nat /\ c \in Nat /\ c > 0 /\ a < c * 8001
      BY <1>5
    <2> HIDE DEF a, c
    <2>2. r \in Nat /\ c * r <= a
      BY <2>1, DivBounds
    <2> HIDE DEF r
    <2>3. r < 8001
      BY <2>1, <2>2
    <2>4. HalfUp(n, d) = r
      BY DEF HalfUp, a, c, r
    <2> QED BY <2>2, <2>3, <2>4
  <1> QED BY <1>2, <1>6 DEF Percentages, MachineCeiling

FusionTyped == votes \in [Cameras -> VoteBags]

LEMMA ReportingCameras ==
  ASSUME NEW window \in [Cameras -> VoteBags]
  PROVE  /\ Reporting(window) \subseteq Cameras /\ IsFiniteSet(Reporting(window))
         /\ \A c \in Reporting(window) : DOMAIN window[c] # {}
         /\ \A c \in Cameras \ Reporting(window) : DOMAIN window[c] = {}
  <1>1. IsFiniteSet(Cameras)
    BY CamerasAssumption
  <1>2. Reporting(window) \subseteq Cameras
    BY DEF Reporting
  <1>3. \A b \in VoteBags : b = EmptyBag <=> DOMAIN b = {}
    <2>1. \A b \in VoteBags : b = [v \in DOMAIN b |-> b[v]]
      BY DEF VoteBags
    <2> QED BY <2>1 DEF EmptyBag, SetToBag
  <1>4. IsFiniteSet(Reporting(window))
    BY <1>1, <1>2, FS_Subset
  <1>5. \A c \in Cameras : c \in Reporting(window) <=> DOMAIN window[c] # {}
    BY <1>3 DEF Reporting
  <1> QED BY <1>2, <1>4, <1>5

LEMMA ValueTyped ==
  ASSUME NEW b \in VoteBags, DOMAIN b # {}
  PROVE  DeviceValue(b) \in Nat /\ DeviceValue(b) <= 2 * MachineCeiling
  <1>1. \A v \in Percentages : v \in Nat /\ v <= MachineCeiling
    BY DEF Percentages, MachineCeiling
  <1>2. LowerMiddle(b) \in Percentages /\ UpperMiddle(b) \in Percentages
    BY MiddlesAreNat
  <1> QED BY <1>1, <1>2 DEF DeviceValue, MachineCeiling

LEMMA WeightTyped ==
  ASSUME NEW c \in Cameras
  PROVE  Weight[c] \in Nat /\ Weight[c] \in Int /\ Weight[c] > 0
  BY CamerasAssumption

LEMMA WeightsCount ==
  ASSUME NEW R \in SUBSET Cameras, IsFiniteSet(R), R # {}
  PROVE  Total(Weight, R) \in Nat /\ Total(Weight, R) > 0
  <1>1. \A c \in R : Weight[c] \in Nat /\ Weight[c] \in Int
    <2> SUFFICES ASSUME NEW c \in R PROVE Weight[c] \in Nat /\ Weight[c] \in Int
      OBVIOUS
    <2>1. c \in Cameras
      OBVIOUS
    <2> QED BY <2>1, WeightTyped
  <1>2. PICK c \in R : TRUE
    OBVIOUS
  <1>3. Total(Weight, R) = Weight[c] + Total(Weight, R \ {c})
    BY <1>1, TotalRemove
  <1>4. Total(Weight, R \ {c}) \in Nat
    BY <1>1, FS_Subset, TotalIsNat
  <1>5. Weight[c] \in Nat /\ Weight[c] > 0
    <2>1. c \in Cameras
      BY <1>2
    <2> QED BY <2>1, WeightTyped
  <1> QED BY <1>3, <1>4, <1>5

(* A weighted mean of values between low and high is between them.        *)
LEMMA MeanBetween ==
  ASSUME NEW window \in [Cameras -> VoteBags], NEW low \in Nat, NEW high \in Nat,
         \A c \in Reporting(window) : low <= DeviceValue(window[c]) /\ DeviceValue(window[c]) <= high
  PROVE  /\ low * Total(Weight, Reporting(window)) <= Total(Weighted(window), Reporting(window))
         /\ Total(Weighted(window), Reporting(window)) <= high * Total(Weight, Reporting(window))
  <1> DEFINE R == Reporting(window)
             f == Weighted(window)
             atLeast == [c \in R |-> low * Weight[c]]
             atMost == [c \in R |-> high * Weight[c]]
  <1>1. R \subseteq Cameras /\ IsFiniteSet(R) /\ \A c \in R : DOMAIN window[c] # {}
    BY ReportingCameras
  <1>2. ASSUME NEW c \in R
        PROVE  /\ Weight[c] \in Int /\ f[c] \in Int /\ atLeast[c] \in Int /\ atMost[c] \in Int
               /\ atLeast[c] = low * Weight[c] /\ atMost[c] = high * Weight[c]
               /\ atLeast[c] <= f[c] /\ f[c] <= atMost[c]
    <2>0. c \in Cameras /\ window[c] \in VoteBags /\ DOMAIN window[c] # {}
      BY <1>1
    <2>1. Weight[c] \in Nat /\ DeviceValue(window[c]) \in Nat
      BY <2>0, WeightTyped, ValueTyped
    <2>2. f[c] = Weight[c] * DeviceValue(window[c])
      BY <1>1 DEF Weighted
    <2>3. atLeast[c] = low * Weight[c] /\ atMost[c] = high * Weight[c]
      OBVIOUS
    <2> DEFINE w == Weight[c]
               v == DeviceValue(window[c])
    <2>4. w \in Nat /\ v \in Nat /\ low <= v /\ v <= high
      BY <2>1
    <2> HIDE DEF w, v, atLeast, atMost, f, R
    <2>5. low * w <= w * v /\ w * v <= high * w /\ low * w \in Int /\ high * w \in Int /\ w * v \in Int
      BY <2>4, Z3
    <2> QED BY <2>1, <2>2, <2>3, <2>5 DEF w, v
  <1> HIDE DEF atLeast, atMost, f, R
  <1>3. Total(atLeast, R) = low * Total(Weight, R) /\ Total(atMost, R) = high * Total(Weight, R)
    BY <1>1, <1>2, TotalScaled
  <1>4. Total(atLeast, R) <= Total(f, R) /\ Total(f, R) <= Total(atMost, R)
    BY <1>1, <1>2, TotalAtMost
  <1> QED BY <1>3, <1>4 DEF f, R

-----------------------------------------------------------------------------
(* The invariant of a day: the votes are bags of percentages, of the      *)
(* readings the estimator can give and within the bound.                  *)
FusionIInv == FusionTyped /\ FusionTypeOK

LEMMA SizeWithout ==
  ASSUME NEW b \in VoteBags, NEW x \in DOMAIN b
  PROVE  Size(Without(b, x)) <= Size(b)
  <1> DEFINE new == Without(b, x)
             D == DOMAIN new
  <1>1. new \in VoteBags /\ D \subseteq DOMAIN b /\ \A v \in D : new[v] <= b[v]
    BY WithoutOne
  <1>2. IsFiniteSet(D) /\ \A v \in D : new[v] \in Int
    BY <1>1, BagTyped
  <1>3. \A v \in D : b[v] \in Int
    BY <1>1, BagTyped
  <1> HIDE DEF new
  <1>4. Total(new, D) <= Total(b, D)
    BY <1>1, <1>2, <1>3, TotalAtMost
  <1>5. Total(b, D) <= Total(b, DOMAIN b)
    BY <1>1, Part
  <1>6. Total(new, D) \in Nat /\ Total(b, D) \in Nat /\ Total(b, DOMAIN b) \in Nat
    BY <1>1, BagTyped
  <1> QED BY <1>4, <1>5, <1>6 DEF Size, BagToSet, new

LEMMA BagShape ==
  ASSUME NEW b \in VoteBags
  PROVE  IsABag(b)
  <1>1. b \in [DOMAIN b -> Nat \ {0}]
    BY BagTyped
  <1>2. Nat \ {0} = {n \in Nat : n > 0}
    OBVIOUS
  <1> QED BY <1>1, <1>2 DEF IsABag

LEMMA PhotographKeeps ==
  ASSUME FusionIInv, NEW c \in Cameras, NEW s \in Scores, Photograph(c, s)
  PROVE  FusionIInv'
  <1> DEFINE v == FusedRawPct(s)
  <1>1. CASE ~IsEligible(s)
    <2>1. votes' = votes
      BY <1>1 DEF Photograph
    <2> QED BY <2>1 DEF FusionIInv, FusionTyped, FusionTypeOK
  <1>2. CASE IsEligible(s)
    <2>1. votes' = [votes EXCEPT ![c] = With(votes[c], v)] /\ Size(votes[c]) < MaxImages
      BY <1>2 DEF Photograph
    <2>2. v \in Readings /\ v \in Percentages
      BY <1>2, MachinePercentages DEF Readings
    <2> HIDE DEF v
    <2>3. votes \in [Cameras -> VoteBags] /\ votes[c] \in VoteBags
      BY DEF FusionIInv, FusionTyped
    <2>4. With(votes[c], v) \in VoteBags /\ DOMAIN With(votes[c], v) = DOMAIN votes[c] \cup {v}
      BY <2>2, <2>3, WithOne
    <2>5. Size(With(votes[c], v)) = Size(votes[c]) + 1 /\ Size(votes[c]) \in Nat
      BY <2>2, <2>3, 0 \in Nat, CountsWith, Counts
    <2>6. MaxImages \in Nat
      BY CamerasAssumption
    <2>7. Size(With(votes[c], v)) <= MaxImages
      BY <2>1, <2>5, <2>6
    <2>8. DOMAIN votes[c] \subseteq Readings
      BY DEF FusionIInv, FusionTypeOK, BagToSet
    <2>9. FusionTyped'
      BY <2>1, <2>3, <2>4 DEF FusionTyped
    <2>10. ASSUME NEW d \in Cameras
           PROVE  IsABag(votes'[d]) /\ BagToSet(votes'[d]) \subseteq Readings
                  /\ Size(votes'[d]) <= MaxImages
      <3>1. CASE d = c
        <4>1. votes'[d] = With(votes[c], v)
          BY <2>1, <2>3, <3>1
        <4> QED BY <2>2, <2>4, <2>7, <2>8, <4>1, BagShape DEF BagToSet
      <3>2. CASE d # c
        <4>1. votes'[d] = votes[d]
          BY <2>1, <2>3, <3>2
        <4> QED BY <4>1 DEF FusionIInv, FusionTypeOK
      <3> QED BY <3>1, <3>2
    <2>11. DOMAIN votes' = Cameras
      BY <2>1, <2>3
    <2> QED BY <2>9, <2>10, <2>11 DEF FusionIInv, FusionTypeOK
  <1> QED BY <1>1, <1>2

LEMMA WithdrawKeeps ==
  ASSUME FusionIInv, NEW c \in Cameras, NEW v \in Readings, Withdraw(c, v)
  PROVE  FusionIInv'
  <1>1. votes' = [votes EXCEPT ![c] = Without(votes[c], v)] /\ v \in DOMAIN votes[c]
    BY DEF Withdraw, BagIn, BagToSet
  <1>2. votes \in [Cameras -> VoteBags] /\ votes[c] \in VoteBags
    BY DEF FusionIInv, FusionTyped
  <1>3. Without(votes[c], v) \in VoteBags /\ DOMAIN Without(votes[c], v) \subseteq DOMAIN votes[c]
    BY <1>1, <1>2, WithoutOne
  <1>4. Size(Without(votes[c], v)) <= Size(votes[c])
    BY <1>1, <1>2, SizeWithout
  <1>5. Size(Without(votes[c], v)) \in Nat /\ Size(votes[c]) \in Nat /\ MaxImages \in Nat
    BY <1>2, <1>3, Counts, CamerasAssumption
  <1>6. DOMAIN votes[c] \subseteq Readings /\ Size(votes[c]) <= MaxImages
    BY DEF FusionIInv, FusionTypeOK, BagToSet
  <1>7. Size(Without(votes[c], v)) <= MaxImages
    BY <1>4, <1>5, <1>6
  <1>8. FusionTyped'
    BY <1>1, <1>2, <1>3 DEF FusionTyped
  <1>9. ASSUME NEW d \in Cameras
        PROVE  IsABag(votes'[d]) /\ BagToSet(votes'[d]) \subseteq Readings
               /\ Size(votes'[d]) <= MaxImages
    <2>1. CASE d = c
      <3>1. votes'[d] = Without(votes[c], v)
        BY <1>1, <1>2, <2>1
      <3> QED BY <1>3, <1>6, <1>7, <3>1, BagShape DEF BagToSet
    <2>2. CASE d # c
      <3>1. votes'[d] = votes[d]
        BY <1>1, <1>2, <2>2
      <3> QED BY <3>1 DEF FusionIInv, FusionTypeOK
    <2> QED BY <2>1, <2>2
  <1>10. DOMAIN votes' = Cameras
    BY <1>1, <1>2
  <1> QED BY <1>8, <1>9, <1>10 DEF FusionIInv, FusionTypeOK

(* Photographs scored and predictions withdrawn in any order leave each   *)
(* camera with percentages the estimator gave, and no more photographs    *)
(* than the day had (aggregator.py:116-176).                              *)
THEOREM FusionInvariant == FusionSpec => []FusionIInv
  <1>1. FusionInit => FusionIInv
    <2> SUFFICES ASSUME FusionInit PROVE FusionIInv
      OBVIOUS
    <2>1. votes = [c \in Cameras |-> EmptyBag]
      BY DEF FusionInit
    <2>2. EmptyBag \in VoteBags /\ DOMAIN EmptyBag = {}
      <3>1. EmptyBag \in [{} -> Nat \ {0}] /\ {} \in SUBSET Percentages
        BY DEF EmptyBag, SetToBag
      <3> QED BY <3>1 DEF VoteBags
    <2>3. Size(EmptyBag) = 0 /\ MaxImages \in Nat
      BY <2>2, Nobody, CamerasAssumption DEF Size, BagToSet
    <2>4. IsABag(EmptyBag)
      BY <2>2, BagShape
    <2> QED BY <2>1, <2>2, <2>3, <2>4 DEF FusionIInv, FusionTyped, FusionTypeOK, BagToSet
  <1>2. FusionIInv /\ [FusionNext]_votes => FusionIInv'
    <2>1. CASE UNCHANGED votes
      BY <2>1 DEF FusionIInv, FusionTyped, FusionTypeOK
    <2> QED BY <2>1, PhotographKeeps, WithdrawKeeps DEF FusionNext
  <1> QED BY <1>1, <1>2, PTL DEF FusionSpec

(* What the invariant says of the project's reading, and what a step may  *)
(* do to it.                                                              *)
LEMMA Covered == FusionTyped => RawIsCovered
  <1> SUFFICES ASSUME FusionTyped, Reporting(votes) # {} PROVE RawIsCovered
    BY DEF RawIsCovered
  <1> DEFINE R == Reporting(votes)
             values == {DeviceValue(votes[c]) : c \in R}
             low == Min(values)
             high == Max(values)
             W == Total(Weight, R)
             N == Total(Weighted(votes), R)
  <1>1. votes \in [Cameras -> VoteBags]
    BY DEF FusionTyped
  <1>2. R \subseteq Cameras /\ IsFiniteSet(R) /\ R # {} /\ \A c \in R : DOMAIN votes[c] # {}
    BY <1>1, ReportingCameras
  <1>3. \A c \in R : DeviceValue(votes[c]) \in Nat /\ DeviceValue(votes[c]) <= 2 * MachineCeiling
    BY <1>1, <1>2, ValueTyped
  <1>4. values \in SUBSET Nat /\ values # {} /\ \A v \in values : v <= 2 * MachineCeiling
    BY <1>2, <1>3
  <1>5. 2 * MachineCeiling \in Nat
    BY DEF MachineCeiling
  <1>6. \A c \in R : DeviceValue(votes[c]) \in values
    OBVIOUS
  <1> HIDE DEF values
  <1>7. low \in values /\ high \in values /\ \A v \in values : low <= v /\ v <= high
    BY <1>4, <1>5, LeastOf, GreatestOf
  <1>8. low \in Nat /\ high \in Nat
    BY <1>4, <1>7
  <1>9. low * W <= N /\ N <= high * W
    <2>1. \A c \in R : low <= DeviceValue(votes[c]) /\ DeviceValue(votes[c]) <= high
      BY <1>6, <1>7
    <2> HIDE DEF low, high
    <2> QED BY <1>1, <1>8, <2>1, MeanBetween
  <1>10. W \in Nat /\ N \in Int
    <2>1. W \in Nat
      BY <1>2, WeightsCount
    <2>2. \A c \in R : Weighted(votes)[c] \in Int
      BY <1>2, <1>3, WeightTyped DEF Weighted
    <2> QED BY <1>2, <2>1, <2>2, TotalIsInt
  <1> HIDE DEF low, high, W, N
  <1>11. (2 * W) * low <= 2 * N /\ 2 * N <= (2 * W) * high
    <2>1. (2 * W) * low = 2 * (low * W) /\ (2 * W) * high = 2 * (high * W)
      BY <1>8, <1>10, Z3
    <2>2. low * W \in Int /\ high * W \in Int
      BY <1>8, <1>10
    <2> QED BY <1>9, <1>10, <2>1, <2>2
  <1>12. RawProjectValue(votes).num = N /\ RawProjectValue(votes).den = 2 * W
    BY DEF RawProjectValue, N, W
  <1> QED BY <1>11, <1>12 DEF RawIsCovered, low, high, values

LEMMA BelowCeiling == FusionTyped => RawBelowCeiling
  <1> SUFFICES ASSUME FusionTyped, Reporting(votes) # {} PROVE RawBelowCeiling
    BY DEF RawBelowCeiling
  <1> DEFINE R == Reporting(votes)
             W == Total(Weight, R)
             N == Total(Weighted(votes), R)
             top == 2 * MachineCeiling
             zero == 0
  <1>1. votes \in [Cameras -> VoteBags]
    BY DEF FusionTyped
  <1>2. R \subseteq Cameras /\ IsFiniteSet(R) /\ R # {} /\ \A c \in R : DOMAIN votes[c] # {}
    BY <1>1, ReportingCameras
  <1>3. \A c \in R : zero <= DeviceValue(votes[c]) /\ DeviceValue(votes[c]) <= top
    BY <1>1, <1>2, ValueTyped
  <1>4. top \in Nat /\ zero \in Nat /\ top = 16000 /\ zero = 0
    BY DEF MachineCeiling
  <1>5. \A c \in R : Weighted(votes)[c] \in Int
    BY <1>1, <1>2, WeightTyped, ValueTyped DEF Weighted
  <1> HIDE DEF top, zero
  <1>6. zero * W <= N /\ N <= top * W
    BY <1>1, <1>3, <1>4, MeanBetween
  <1>7. W \in Nat /\ W > 0 /\ N \in Int
    BY <1>2, <1>5, WeightsCount, TotalIsInt
  <1> HIDE DEF W, N
  <1>8. 2 * W > 0 /\ 0 <= N /\ N <= MachineCeiling * (2 * W)
    BY <1>4, <1>6, <1>7 DEF MachineCeiling
  <1>9. RawProjectValue(votes).num = N /\ RawProjectValue(votes).den = 2 * W
    BY DEF RawProjectValue, N, W
  <1> QED BY <1>8, <1>9 DEF RawBelowCeiling

LEMMA ReadingTyped ==
  ASSUME FusionTyped, Reporting(votes) # {}
  PROVE  RawProjectValue(votes).num \in Int /\ RawProjectValue(votes).den \in Int
  <1> DEFINE R == Reporting(votes)
             f == Weighted(votes)
  <1>1. votes \in [Cameras -> VoteBags]
    BY DEF FusionTyped
  <1>2. R \subseteq Cameras /\ IsFiniteSet(R) /\ \A c \in R : DOMAIN votes[c] # {}
    BY <1>1, ReportingCameras
  <1>3. \A c \in R : f[c] \in Int
    BY <1>1, <1>2, WeightTyped, ValueTyped DEF Weighted
  <1>4. Total(Weight, R) \in Nat
    BY <1>2, WeightsCount
  <1> HIDE DEF f, R
  <1>5. Total(f, R) \in Int
    BY <1>2, <1>3, TotalIsInt
  <1> QED BY <1>4, <1>5 DEF RawProjectValue, f, R

LEMMA NoDrag ==
  ASSUME FusionTyped, FusionNext, NEW c \in Cameras
  PROVE  DragsNoCamera(c)
  <1> SUFFICES ASSUME Size(votes[c]) >= 2, Size(votes'[c]) > Size(votes[c])
               PROVE  /\ 2 * Min(BagToSet(votes[c])) <= DeviceValue(votes'[c])
                      /\ DeviceValue(votes'[c]) <= 2 * Max(BagToSet(votes[c]))
    BY DEF DragsNoCamera
  <1>1. votes \in [Cameras -> VoteBags] /\ votes[c] \in VoteBags /\ Size(votes[c]) \in Nat
    BY Counts DEF FusionTyped
  <1>2. votes'[c] # votes[c]
    BY <1>1
  <1>3. PICK d \in Cameras : \/ \E s \in Scores : Photograph(d, s)
                             \/ \E v \in Readings : Withdraw(d, v)
    BY DEF FusionNext
  <1>4. d = c
    BY <1>1, <1>2, <1>3 DEF Photograph, Withdraw
  <1>5. CASE \E s \in Scores : Photograph(d, s)
    <2>1. PICK s \in Scores : Photograph(c, s)
      BY <1>4, <1>5
    <2>2. votes'[c] = With(votes[c], FusedRawPct(s))
      BY <1>1, <1>2, <2>1 DEF Photograph
    <2> QED BY <1>1, <2>2, MachinePercentages, NotDragged
  <1>6. CASE \E v \in Readings : Withdraw(d, v)
    <2>1. PICK v \in Readings : Withdraw(c, v)
      BY <1>4, <1>6
    <2>2. votes'[c] = Without(votes[c], v) /\ v \in DOMAIN votes[c]
      BY <1>1, <2>1 DEF Withdraw, BagIn, BagToSet
    <2>3. Size(votes'[c]) <= Size(votes[c]) /\ Size(votes'[c]) \in Nat
      BY <1>1, <2>2, SizeWithout, WithoutOne, Counts
    <2> QED BY <1>1, <2>3
  <1> QED BY <1>3, <1>5, <1>6

LEMMA Pull ==
  ASSUME FusionTyped, NEW c \in Cameras, NEW s \in Scores
  PROVE  PullsAsItPoints(c, s)
  <1> DEFINE x == FusedRawPct(s)
             old == RawProjectValue(votes)
             new == RawProjectValue(votes')
             R == Reporting(votes)
             f == Weighted(votes)
             g == Weighted(votes')
             W == Total(Weight, R)
  <1> SUFFICES ASSUME votes[c] # EmptyBag, Photograph(c, s), IsEligible(s)
               PROVE  /\ 2 * x >= DeviceValue(votes[c]) => new.num * old.den >= old.num * new.den
                      /\ 2 * x <= DeviceValue(votes[c]) => new.num * old.den <= old.num * new.den
    BY DEF PullsAsItPoints
  <1>1. votes \in [Cameras -> VoteBags] /\ votes[c] \in VoteBags /\ x \in Percentages
    BY MachinePercentages DEF FusionTyped
  <1>2. votes' = [votes EXCEPT ![c] = With(votes[c], x)]
    BY DEF Photograph
  <1>3. votes' \in [Cameras -> VoteBags] /\ votes'[c] = With(votes[c], x)
        /\ \A d \in Cameras : d # c => votes'[d] = votes[d]
    BY <1>1, <1>2, WithOne
  <1>4. c \in R
    BY DEF Reporting
  <1>5. R \subseteq Cameras /\ IsFiniteSet(R) /\ (\A d \in R : DOMAIN votes[d] # {})
        /\ \A d \in Cameras \ R : DOMAIN votes[d] = {}
    BY <1>1, ReportingCameras
  <1>6. DOMAIN votes'[c] # {}
    <2>1. DOMAIN With(votes[c], x) = DOMAIN votes[c] \cup {x}
      BY <1>1, WithOne
    <2>2. x \in DOMAIN votes[c] \cup {x}
      OBVIOUS
    <2> HIDE DEF x
    <2> QED BY <1>3, <2>1, <2>2
  <1> DEFINE S == Reporting(votes')
  <1>7. S \subseteq Cameras /\ (\A d \in S : DOMAIN votes'[d] # {})
        /\ \A d \in Cameras \ S : DOMAIN votes'[d] = {}
    BY <1>3, ReportingCameras
  <1>8. S = R
    <2> HIDE DEF R, S
    <2> QED BY <1>3, <1>4, <1>5, <1>6, <1>7
  <1>9. \A d \in R : DOMAIN votes[d] # {} /\ DOMAIN votes'[d] # {}
    BY <1>5, <1>7, <1>8
  <1>10. \A d \in R : f[d] \in Int /\ g[d] \in Int
                      /\ f[d] = Weight[d] * DeviceValue(votes[d])
                      /\ g[d] = Weight[d] * DeviceValue(votes'[d])
                      /\ Weight[d] \in Nat
                      /\ DeviceValue(votes[d]) \in Nat /\ DeviceValue(votes'[d]) \in Nat
    <2> SUFFICES ASSUME NEW d \in R
                 PROVE  f[d] \in Int /\ g[d] \in Int
                      /\ f[d] = Weight[d] * DeviceValue(votes[d])
                      /\ g[d] = Weight[d] * DeviceValue(votes'[d])
                      /\ Weight[d] \in Nat
                      /\ DeviceValue(votes[d]) \in Nat /\ DeviceValue(votes'[d]) \in Nat
      OBVIOUS
    <2>1. d \in Cameras
      BY <1>5
    <2>2. f[d] = Weight[d] * DeviceValue(votes[d]) /\ g[d] = Weight[d] * DeviceValue(votes'[d])
      BY <2>1 DEF Weighted
    <2>3. Weight[d] \in Nat
      BY <2>1, WeightTyped
    <2>4. DeviceValue(votes[d]) \in Nat /\ DeviceValue(votes'[d]) \in Nat
      BY <1>1, <1>3, <1>9, <2>1, ValueTyped
    <2> HIDE DEF f, g
    <2> QED BY <2>2, <2>3, <2>4
  <1>11. W \in Nat
    BY <1>4, <1>5, WeightsCount
  <1>12. old.num = Total(f, R) /\ old.den = 2 * W /\ new.num = Total(g, R) /\ new.den = 2 * W
    BY <1>8 DEF RawProjectValue
  <1> HIDE DEF f, g, W, S, R, old, new
  <1>13. Total(f, R) \in Int /\ Total(g, R) \in Int
    BY <1>5, <1>10, TotalIsInt
  <1>14. ASSUME 2 * x >= DeviceValue(votes[c])
         PROVE  new.num * old.den >= old.num * new.den
    <2>1. DeviceValue(votes'[c]) >= DeviceValue(votes[c])
      BY <1>1, <1>3, <1>4, <1>9, <1>14, RisesWith
    <2>2. ASSUME NEW d \in R PROVE f[d] <= g[d]
      <3>1. DeviceValue(votes[d]) <= DeviceValue(votes'[d])
        BY <1>3, <1>5, <1>10, <2>1
      <3> DEFINE w == Weight[d]
                 u == DeviceValue(votes[d])
                 v == DeviceValue(votes'[d])
      <3>2. w \in Nat /\ u \in Nat /\ v \in Nat /\ u <= v /\ f[d] = w * u /\ g[d] = w * v
        BY <1>10, <3>1
      <3> HIDE DEF w, u, v
      <3>3. w * u <= w * v
        BY <3>2, Z3
      <3> QED BY <3>2, <3>3
    <2>3. Total(f, R) <= Total(g, R)
      BY <1>5, <1>10, <2>2, TotalAtMost
    <2> DEFINE m == Total(f, R)
               n == Total(g, R)
    <2>4. m \in Int /\ n \in Int /\ m <= n
      BY <1>13, <2>3
    <2> HIDE DEF m, n
    <2>5. n * (2 * W) >= m * (2 * W)
      BY <1>11, <2>4, Z3
    <2> QED BY <1>12, <2>5 DEF m, n
  <1>15. ASSUME 2 * x <= DeviceValue(votes[c])
         PROVE  new.num * old.den <= old.num * new.den
    <2>1. DeviceValue(votes'[c]) <= DeviceValue(votes[c])
      BY <1>1, <1>3, <1>4, <1>9, <1>15, FallsWith
    <2>2. ASSUME NEW d \in R PROVE g[d] <= f[d]
      <3>1. DeviceValue(votes'[d]) <= DeviceValue(votes[d])
        BY <1>3, <1>5, <1>10, <2>1
      <3> DEFINE w == Weight[d]
                 u == DeviceValue(votes'[d])
                 v == DeviceValue(votes[d])
      <3>2. w \in Nat /\ u \in Nat /\ v \in Nat /\ u <= v /\ g[d] = w * u /\ f[d] = w * v
        BY <1>10, <3>1
      <3> HIDE DEF w, u, v
      <3>3. w * u <= w * v
        BY <3>2, Z3
      <3> QED BY <3>2, <3>3
    <2>3. Total(g, R) <= Total(f, R)
      BY <1>5, <1>10, <2>2, TotalAtMost
    <2> DEFINE m == Total(g, R)
               n == Total(f, R)
    <2>4. m \in Int /\ n \in Int /\ m <= n
      BY <1>13, <2>3
    <2> HIDE DEF m, n
    <2>5. m * (2 * W) <= n * (2 * W)
      BY <1>11, <2>4, Z3
    <2> QED BY <1>12, <2>5 DEF m, n
  <1> QED BY <1>14, <1>15

(* aggregate_day, for any cameras, weights and scores: one bad frame does *)
(* not drag a camera that saw two others, a photograph pulls the project's*)
(* reading the way it points, and the reading lies between the medians of *)
(* the cameras that reported.                                             *)
THEOREM FusionIsFair == FusionSpec => ReadFairly
  <1>1. FusionIInv /\ FusionIInv' /\ [FusionNext]_votes
          => [/\ \A c \in Cameras : /\ DragsNoCamera(c)
                                    /\ \A s \in Scores : PullsAsItPoints(c, s)
              /\ RawIsCovered']_votes
    <2> SUFFICES ASSUME FusionIInv, FusionIInv', FusionNext
                 PROVE  /\ \A c \in Cameras : /\ DragsNoCamera(c)
                                              /\ \A s \in Scores : PullsAsItPoints(c, s)
                        /\ RawIsCovered'
      OBVIOUS
    <2>1. RawIsCovered'
      <3>1. FusionTyped'
        BY DEF FusionIInv
      <3>2. (FusionTyped => RawIsCovered)'
        BY Covered, PTL
      <3> QED BY <3>1, <3>2
    <2> QED BY <2>1, NoDrag, Pull DEF FusionIInv
  <1> QED BY <1>1, FusionInvariant, PTL DEF FusionSpec, ReadFairly

(* No set of photographs reads above MACHINE_CEILING_PCT.                 *)
THEOREM RawIsBelowCeiling == FusionSpec => []RawBelowCeiling
  <1>1. FusionIInv => RawBelowCeiling
    BY BelowCeiling DEF FusionIInv
  <1> QED BY <1>1, FusionInvariant, PTL


(* The two machines fit: what aggregate_day makes of any photographs is   *)
(* what ProgressTimeline assumes of its readings (RawsAssumption), in the  *)
(* units of the timeline.                                                  *)
InTimelineUnits(raw) == [num |-> 100 * raw.num, den |-> raw.den]

ReadingFits ==
  LET r == InTimelineUnits(RawProjectValue(votes))
  IN  Reporting(votes) # {} => r \in Fractions /\ r.num <= Ceiling * r.den

(* compute_series gets from aggregate_day no reading it has not been       *)
(* proved for: a fraction, and at most the ceiling.                        *)
THEOREM ReadingsFitTheTimeline == FusionSpec => []ReadingFits
  <1>1. FusionIInv => ReadingFits
    <2> SUFFICES ASSUME FusionIInv, Reporting(votes) # {} PROVE ReadingFits
      BY DEF ReadingFits
    <2> DEFINE raw == RawProjectValue(votes)
    <2>1. raw.num \in Int /\ raw.den \in Int
      BY ReadingTyped DEF FusionIInv
    <2>2. raw.den > 0 /\ 0 <= raw.num /\ raw.num <= 8000 * raw.den
      BY BelowCeiling DEF FusionIInv, RawBelowCeiling, MachineCeiling
    <2> HIDE DEF raw
    <2>3. /\ raw.den \in Nat \ {0} /\ 100 * raw.num \in Nat
          /\ 100 * raw.num <= 800000 * raw.den
      BY <2>1, <2>2
    <2> QED BY <2>3 DEF ReadingFits, InTimelineUnits, Fractions, Ceiling, raw
  <1> QED BY <1>1, FusionInvariant, PTL
=============================================================================
