---------------------------- MODULE CameraFusion ----------------------------
(***************************************************************************)
(* One day on site: how the scores of a day's photographs become the one   *)
(* reading that enters the timeline.  The estimator places a photograph in *)
(* the 20-point band of its class (FusedRawPct); the prediction row keeps  *)
(* that percentage to two decimals and its confidence to three; a camera's *)
(* value is the median over its eligible photographs; the project's is the *)
(* mean of the cameras that reported, weighted by devices.weight.          *)
(*                                                                         *)
(* Percentages are integers in hundredths, confidences in ten-thousandths, *)
(* weights in tenths.  What the code computes in binary floating point is  *)
(* computed here exactly: the median is doubled and the mean is a fraction.*)
(***************************************************************************)
EXTENDS Integers, Bags, FiniteSetsExt

CONSTANTS
    Cameras,  \* the devices of the project
    Weight,   \* devices.weight of each
    Scores,   \* what the two networks may say of a photograph
    MaxImages \* bound on the eligible photographs of a camera in a day

Classes      == 0..3              \* FDN, STR, ROF, FIN
Checklist    == <<2, 4, 4, 5>>    \* sizes of detection_checklists
BandFloor(c) == 2000 * c
BandSpan     == 2000
MachineCeiling == 8000
MinEligible  == 600               \* of Confidence, in thousandths

ASSUME CamerasAssumption ==
    /\ IsFiniteSet(Cameras)
    /\ Weight \in [Cameras -> 1..50]
    /\ \A s \in Scores : /\ s.class \in Classes
                         /\ s.confidence \in 0..10000
                         /\ s.found \in 0..Checklist[s.class + 1]
    /\ MaxImages \in Nat

VARIABLE votes \* the eligible raw_progress_pct values of each camera, a bag

HalfUp(n, d) == (2 * n + d) \div (2 * d) \* quantize(..., ROUND_HALF_UP)

\* floor + (confidence + found/checklist) / 2 * span
FusedRawPct(s) ==
    LET elements == Checklist[s.class + 1]
        fraction == s.confidence * elements + 10000 * s.found
    IN  HalfUp(2 * elements * 10000 * BandFloor(s.class) + fraction * BandSpan,
               2 * elements * 10000)

Confidence(s) == HalfUp(s.confidence, 10)
IsEligible(s) == Confidence(s) >= MinEligible

Readings == {FusedRawPct(s) : s \in {t \in Scores : IsEligible(t)}}
-----------------------------------------------------------------------------
Total(f, S) == MapThenSumSet(LAMBDA x : f[x], S)

\* The photographs of a camera, and those on one side of a value.
Size(images) == Total(images, BagToSet(images))
AtMost(images, v) == Total(images, {u \in BagToSet(images) : u <= v})
AtLeast(images, v) == Total(images, {u \in BagToSet(images) : u >= v})

LowerMiddle(images) ==
    Min({v \in BagToSet(images) : 2 * AtMost(images, v) >= Size(images)})

UpperMiddle(images) ==
    Max({v \in BagToSet(images) : 2 * AtLeast(images, v) >= Size(images)})

\* Twice statistics.median.
DeviceValue(images) == LowerMiddle(images) + UpperMiddle(images)

\* A camera that saw nothing has no opinion.
Reporting(window) == {c \in Cameras : window[c] # EmptyBag}

\* What each camera brings to the mean.
Weighted(window) == [c \in Cameras |-> Weight[c] * DeviceValue(window[c])]

\* Mutant: a silent camera counts as zero, with its weight.
SilentIsZero(window) ==
    [num |-> Total(Weighted(window), Reporting(window)),
     den |-> 2 * Total(Weight, Cameras)]

\* raw_pct of a window in which some camera reported, as a fraction.
RawProjectValue(window) ==
    [num |-> Total(Weighted(window), Reporting(window)),
     den |-> 2 * Total(Weight, Reporting(window))]

-----------------------------------------------------------------------------
\* A photograph more that voted v, and one less.
With(images, v) == images (+) SetToBag({v})
Without(images, v) == images (-) SetToBag({v})

FusionInit == votes = [c \in Cameras |-> EmptyBag]

\* Mutant: every photograph votes.
PhotographUngated(c, s) ==
    /\ Size(votes[c]) < MaxImages
    /\ votes' = [votes EXCEPT ![c] = With(@, FusedRawPct(s))]

\* A photograph of the day is scored; below the gate it is stored and
\* does not vote.
Photograph(c, s) ==
    /\ Size(votes[c]) < MaxImages
    /\ votes' = IF IsEligible(s)
                THEN [votes EXCEPT ![c] = With(@, FusedRawPct(s))]
                ELSE votes

\* Reprocessing withdraws the current prediction of a photograph.
Withdraw(c, v) ==
    /\ BagIn(v, votes[c])
    /\ votes' = [votes EXCEPT ![c] = Without(@, v)]

FusionNext ==
    \E c \in Cameras :
        \/ \E s \in Scores : Photograph(c, s)
        \/ \E v \in Readings : Withdraw(c, v)

FusionSpec == FusionInit /\ [][FusionNext]_votes
-----------------------------------------------------------------------------
(* A vote is one of the percentages the estimator can give.               *)
FusionTypeOK == /\ DOMAIN votes = Cameras
          /\ \A c \in Cameras : /\ IsABag(votes[c])
                                /\ BagToSet(votes[c]) \subseteq Readings
                                /\ Size(votes[c]) <= MaxImages

(* The project's reading lies between the least and the greatest of its   *)
(* cameras' medians, whatever the weights: no camera is counted as zero   *)
(* for having been silent, and none pulls the mean beyond what it saw.    *)
RawIsCovered ==
    LET raw    == RawProjectValue(votes)
        values == {DeviceValue(votes[c]) : c \in Reporting(votes)}
    IN  Reporting(votes) # {} =>
            /\ raw.den * Min(values) <= 2 * raw.num
            /\ 2 * raw.num <= raw.den * Max(values)

(* No photograph, hence no reading, is past the ceiling of the machine:   *)
(* what the timeline assumes of its windows.                              *)
RawBelowCeiling ==
    LET raw == RawProjectValue(votes)
    IN  Reporting(votes) # {} =>
            /\ raw.den > 0
            /\ 0 <= raw.num
            /\ raw.num <= MachineCeiling * raw.den

\* With two photographs or more, the next one moves the median no further
\* than the camera had already seen.
DragsNoCamera(c) ==
    LET old == BagToSet(votes[c])
    IN  /\ Size(votes[c]) >= 2
        /\ Size(votes'[c]) > Size(votes[c])
        => /\ 2 * Min(old) <= DeviceValue(votes'[c])
           /\ DeviceValue(votes'[c]) <= 2 * Max(old)

\* Where a camera has already reported, a photograph that is not below its
\* median never lowers the project's reading, and one that is not above never
\* raises it.
PullsAsItPoints(c, s) ==
    /\ votes[c] # EmptyBag
    /\ Photograph(c, s)
    /\ IsEligible(s)
    => LET old == RawProjectValue(votes)
           new == RawProjectValue(votes')
       IN  /\ 2 * FusedRawPct(s) >= DeviceValue(votes[c])
                => new.num * old.den >= old.num * new.den
           /\ 2 * FusedRawPct(s) <= DeviceValue(votes[c])
                => new.num * old.den <= old.num * new.den

(* A day is read fairly: one bad frame cannot drag a camera, a photograph *)
(* pulls the project's reading the way it points, and a camera that is    *)
(* silent, or whose photographs were refused, leaves the reading between  *)
(* the medians of the others (aggregator.py:116-176).                      *)
ReadFairly ==
    [][/\ \A c \in Cameras : /\ DragsNoCamera(c)
                             /\ \A s \in Scores : PullsAsItPoints(c, s)
       /\ RawIsCovered']_votes
=============================================================================
