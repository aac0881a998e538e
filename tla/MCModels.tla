------------------------------ MODULE MCModels ------------------------------
(***************************************************************************)
(* The life of a classifier: DatasetSplit makes the folders that           *)
(* TrainingRun learns from, and TrainingRun the checkpoints that            *)
(* ModelServing deploys.  They share no variable; each moves while the      *)
(* others have not started, so that their states add up.                    *)
(***************************************************************************)
EXTENDS MCDatasetSplit, TrainingRun, ModelServing, TLC

CONSTANTS Resnet, Mobilenet, Stub, Calibrated, Cropped

\* The trained checkpoints are stamped with one pipeline each; the stub is
\* built with the pipeline at hand and so agrees with all of them.
MCTrainedThrough == (Resnet :> Calibrated) @@ (Mobilenet :> Cropped) @@ (Stub :> Unstamped)

NothingTrained == run = NoRun /\ resumes = 0 /\ \A d \in RunDirs : Unused(d)

\* Of the deployments serving may begin with, one is where the others move.
NothingServed ==
    /\ deployed = CHOOSE first \in Services : TRUE
    /\ deploys = 0 /\ crashes = 0
    /\ \A w \in Processes : service[w] = Unloaded
    /\ \A c \in Calls : call[c].at = "new"

NothingSplit == splitRuns = 0 /\ raw = FirstRaw

ModelsInit == DatasetInit /\ TrainingInit /\ ServingInit

ModelsNext ==
    \/ NothingTrained /\ NothingServed /\ DatasetNext
          /\ UNCHANGED <<trainingVars, servingVars>>
    \/ NothingSplit /\ NothingServed /\ TrainingNext
          /\ UNCHANGED <<datasetVars, servingVars>>
    \/ NothingSplit /\ NothingTrained /\ ServingNext
          /\ UNCHANGED <<datasetVars, trainingVars>>

ModelsSpec == ModelsInit /\ [][ModelsNext]_<<datasetVars, trainingVars, servingVars>>
=============================================================================
