---------------------------- MODULE MCEstimate ----------------------------
(***************************************************************************)
(* From photographs to the number on the project: CameraFusion makes the   *)
(* reading of a day, ProgressTimeline the history of such days.  The       *)
(* timeline runs over readings that CameraFusion computes, in ten-         *)
(* thousandths of a percent: in the finished day both cameras are certain  *)
(* of the finishing stage and see all its elements; in the almost finished *)
(* one they are so by 0.998; in the occluded day one camera sees a frame   *)
(* instead.                                                                *)
(*                                                                         *)
(* The two machines share no variable.  Each moves while the other has not *)
(* started, so that their states add up instead of multiplying.            *)
(***************************************************************************)
EXTENDS ProgressTimeline, CameraFusion

CONSTANTS Diagonal, Back

\* A diagonal camera counts half as much again as the other.
MCCameras == {Diagonal, Back}
MCWeight  == [c \in MCCameras |-> IF c = Diagonal THEN 15 ELSE 10]

\* Photographs from the foundation, the frame (with half its elements seen),
\* the finishing, and one that the gate keeps out.
MCScores  == {[class |-> 0, confidence |-> 9000,  found |-> 1],
              [class |-> 1, confidence |-> 7215,  found |-> 2],
              [class |-> 3, confidence |-> 10000, found |-> 5],
              [class |-> 2, confidence |-> 5990,  found |-> 4]}

Day(diagonal, back) ==
    LET raw == RawProjectValue(
                  [c \in Cameras |->
                      SetToBag(IF c = Diagonal THEN diagonal ELSE back)])
    IN  [raw EXCEPT !.num = 100 * @]

Finished       == Day({8000}, {8000})
AlmostFinished == Day({7998}, {7998})
Occluded       == Day({3722}, {8000})
Foundation     == Day({1450, 1480}, {1400})

MCSiteRaws == {Foundation, Occluded, AlmostFinished, Finished}

EstimateInit == Init /\ FusionInit

EstimateNext ==
    \/ votes = [c \in Cameras |-> EmptyBag] /\ Next /\ UNCHANGED votes
    \/ captured = {} /\ recomputes = 0 /\ FusionNext /\ UNCHANGED vars

EstimateSpec == EstimateInit /\ [][EstimateNext]_<<vars, votes>>
=============================================================================
