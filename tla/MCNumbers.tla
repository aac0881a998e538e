----------------------------- MODULE MCNumbers -----------------------------
(***************************************************************************)
(* What the worker computes and what it computes it with: MCEstimate is the *)
(* way from photographs to the percentage, MCModels the life of the weights *)
(* that read the photographs.  The two share no variable; each moves while  *)
(* the other has not started, so that their states add up.                  *)
(***************************************************************************)
EXTENDS MCEstimate, MCModels

NothingEstimated ==
    votes = [c \in Cameras |-> EmptyBag] /\ captured = {} /\ recomputes = 0

NumbersInit == EstimateInit /\ ModelsInit

NumbersNext ==
    \/ NothingSplit /\ NothingTrained /\ NothingServed /\ EstimateNext
          /\ UNCHANGED <<datasetVars, trainingVars, servingVars>>
    \/ NothingEstimated /\ ModelsNext /\ UNCHANGED <<vars, votes>>

NumbersSpec ==
    NumbersInit /\ [][NumbersNext]_<<vars, votes, datasetVars, trainingVars, servingVars>>
=============================================================================
