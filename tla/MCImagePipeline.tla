--------------------------- MODULE MCImagePipeline ---------------------------
(***************************************************************************)
(* What the worker's queue does with a photograph, one machine to a         *)
(* behaviour: ImagePipeline up to the score and the recompute it asks for,  *)
(* ProjectProgress from there to the row and the timeline of the project.   *)
(* The second starts from any number of changed votes and asked recomputes, *)
(* so they need no common state, and their states add up.                   *)
(*                                                                          *)
(* Images share nothing but the workers, so one photograph is enough that   *)
(* may get another verdict every time it is processed: the device is        *)
(* recalibrated, or the network replaced, between a score and its           *)
(* reprocessing.                                                            *)
(***************************************************************************)
EXTENDS ImagePipeline, MCProjectProgress

CONSTANT Facade

MCVerdicts == [i \in {Facade} |-> {"inferred", "rejected", "failed"}]

VARIABLE machine    \* the one that moves

queueVars == <<machine, vars, projectVars>>

QueueInit ==
    /\ machine \in {"image", "project"}
    /\ Init
    /\ ProjectInit

QueueNext ==
    /\ \/ machine = "image" /\ Next /\ UNCHANGED projectVars
       \/ machine = "project" /\ ProjectNext /\ UNCHANGED vars
    /\ UNCHANGED machine

\* Fairness and ProjectFairness; of the machine that does not move, only the
\* scheduled refresh of the status could.
QueueSpec ==
    /\ QueueInit
    /\ [][QueueNext]_queueVars
    /\ Fairness
    /\ \A r \in Recomputers : WF_projectVars(RecomputeTask(r))
    /\ \A c \in Callers : WF_projectVars(Write(c))
    /\ WF_projectVars(/\ machine = "project"
                      /\ \E c \in Callers : project.status # "archived" /\ RefreshStatus(c))
=============================================================================
