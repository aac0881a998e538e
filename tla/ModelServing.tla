----------------------------- MODULE ModelServing -----------------------------
(***************************************************************************)
(* Which weights answer: the checkpoint and the preprocessing that are      *)
(* deployed, what each worker process has in memory, the row of the model   *)
(* registry that a stored prediction names, and the on-demand predictions a *)
(* request waits for.                                                       *)
(*                                                                          *)
(* Weights remember the pipeline they were trained through, unless they     *)
(* predate the stamp or are the stub.  Weights and pipeline are replaced by *)
(* hand, one at a time, and a process that runs keeps what it loaded.       *)
(*                                                                          *)
(* External parts: the operator, Celery and its result backend.             *)
(***************************************************************************)
EXTENDS Integers, FiniteSets

CONSTANTS
    Weights,        \* checkpoints that get deployed
    Pipelines,      \* preprocessing fingerprints
    TrainedThrough, \* [Weights -> Pipelines \cup {Unstamped}]
    Unstamped,      \* a checkpoint without a fingerprint
    NoModel,        \* nothing loaded, nothing registered
    Processes,      \* worker processes
    Calls,          \* POST /predict requests
    MaxDeploys,     \* replacements of weights or pipeline
    MaxCrashes      \* processes that die, and commits that fail

ASSUME ServingAssumption ==
    /\ TrainedThrough \in [Weights -> Pipelines \cup {Unstamped}]
    /\ Unstamped \notin Pipelines
    /\ NoModel \notin Weights
    /\ {MaxDeploys, MaxCrashes} \subseteq Nat

VARIABLES
    deployed,   \* the checkpoint on the model volume and the pipeline config
    deploys,    \* replacements so far
    service,    \* service[w]: what process w has loaded, or Unloaded
    task,       \* task[w]: what process w is at
    active,     \* the weights the active classifier row was registered for
    stored,     \* committed predictions (history)
    call,       \* call[c]: where an on-demand request is
    crashes

servingVars == <<deployed, deploys, service, task, active, stored, call, crashes>>

-----------------------------------------------------------------------------
Services == [weights : Weights, pipeline : Pipelines]
Unloaded == [weights |-> NoModel]
Free == [op |-> "free"]
Rows == Weights \cup {NoModel}

Tasks == [op : {"classified", "inserting", "ready"}, by : Services, model : Rows]
         \cup [op : {"answering"}, by : Services, call : Calls]

\* A call ends with the service that answered it, or without one.
CallStates == [at : {"new", "queued", "taken", "ended"}, by : Services \cup {Unloaded}]

ServingTypeOK ==
    /\ deployed \in Services
    /\ deploys \in 0 .. MaxDeploys
    /\ service \in [Processes -> Services \cup {Unloaded}]
    /\ task \in [Processes -> Tasks \cup {Free}]
    /\ active \in Rows
    /\ stored \subseteq [by : Services, model : Weights]
    /\ call \in [Calls -> CallStates]
    /\ crashes \in 0 .. MaxCrashes

ServingInit ==
    /\ deployed \in Services
    /\ deploys = 0
    /\ service = [w \in Processes |-> Unloaded]
    /\ task = [w \in Processes |-> Free]
    /\ active = NoModel
    /\ stored = {}
    /\ call = [c \in Calls |-> [at |-> "new", by |-> Unloaded]]
    /\ crashes = 0

-----------------------------------------------------------------------------
(***************************************************************************)
(* Deployment.                                                              *)
(***************************************************************************)
\* Mutant: a mismatch is logged and served.
FingerprintsAgree_Logged(s) == TRUE

\* InferenceService._verify_fingerprint refuses weights that were trained
\* through another pipeline, and only warns about unstamped ones.
FingerprintsAgree(s) == TrainedThrough[s.weights] \in {s.pipeline, Unstamped}

\* build_service: what a process gets when it builds a service from what is
\* deployed.  Stubs take on the fingerprint of the pipeline they are built with,
\* and so agree as unstamped weights do; the detector stamps nothing.
build_service ==
    IF FingerprintsAgree(deployed) THEN deployed ELSE Unloaded

\* RUNBOOK.md:62: the new checkpoint is dropped over the old one, or the
\* preprocessing configuration is edited.
Replace(s) ==
    /\ deploys < MaxDeploys
    /\ s # deployed
    /\ s.weights = deployed.weights \/ s.pipeline = deployed.pipeline
    /\ deployed' = s
    /\ deploys' = deploys + 1
    /\ UNCHANGED <<service, task, active, stored, call, crashes>>

\* The worker is restarted when its tasks are done: _init_worker swallows a
\* service that cannot be built.
Restart(w) ==
    /\ task[w] = Free
    /\ service' = [service EXCEPT ![w] = build_service]
    /\ UNCHANGED <<deployed, deploys, task, active, stored, call, crashes>>

\* get_inference_service: the first task after a failed start builds the
\* service from what is deployed by then, or fails as the start did.
Serving(w) ==
    IF service[w] # Unloaded THEN service[w] ELSE build_service

-----------------------------------------------------------------------------
(***************************************************************************)
(* Stored predictions.                                                      *)
(***************************************************************************)
\* InferenceService.run for _process_image, when the gate lets the photograph
\* through.
Classify(w) ==
    /\ task[w] = Free
    /\ Serving(w) # Unloaded
    /\ service' = [service EXCEPT ![w] = Serving(w)]
    /\ task' = [task EXCEPT ![w] =
                  [op |-> "classified", by |-> Serving(w), model |-> NoModel]]
    /\ UNCHANGED <<deployed, deploys, active, stored, call, crashes>>

\* _active_model_id: the active row whatever it is of, or a row to insert.
FindModel(w) ==
    /\ task[w].op = "classified"
    /\ task' = [task EXCEPT ![w] =
                  IF active # NoModel THEN [@ EXCEPT !.op = "ready", !.model = active]
                  ELSE [@ EXCEPT !.op = "inserting",
                                    !.model = task[w].by.weights]]
    /\ UNCHANGED <<deployed, deploys, service, active, stored, call, crashes>>

\* uq_ai_models_active_per_kind
ActiveIsFree == active = NoModel

\* The prediction is inserted, with the new row if there is one, and commits.
StorePrediction(w) ==
    /\ task[w].op = "ready" \/ (task[w].op = "inserting" /\ ActiveIsFree)
    /\ active' = IF task[w].op = "inserting" THEN task[w].model ELSE active
    /\ stored' = stored \cup {[by |-> task[w].by, model |-> task[w].model]}
    /\ task' = [task EXCEPT ![w] = Free]
    /\ UNCHANGED <<deployed, deploys, service, call, crashes>>

\* Another process registered the first model meanwhile: the insert violates
\* the index and the task fails.
RegistrationConflict(w) ==
    /\ task[w].op = "inserting"
    /\ ~ActiveIsFree
    /\ task' = [task EXCEPT ![w] = Free]
    /\ UNCHANGED <<deployed, deploys, service, active, stored, call, crashes>>

-----------------------------------------------------------------------------
(***************************************************************************)
(* On-demand predictions.                                                   *)
(***************************************************************************)
\* CeleryInferenceGateway.predict publishes the task and blocks.
Ask(c) ==
    /\ call[c].at = "new"
    /\ call' = [call EXCEPT ![c].at = "queued"]
    /\ UNCHANGED <<deployed, deploys, service, task, active, stored, crashes>>

\* predict_adhoc is taken by a process that serves the interactive queue, and
\* raises at once if nothing can be loaded.
TakeCall(w, c) ==
    /\ task[w] = Free
    /\ call[c].at = "queued"
    /\ IF Serving(w) = Unloaded
       THEN /\ call' = [call EXCEPT ![c].at = "ended"]
            /\ UNCHANGED <<service, task>>
       ELSE /\ call' = [call EXCEPT ![c].at = "taken"]
            /\ service' = [service EXCEPT ![w] = Serving(w)]
            /\ task' = [task EXCEPT ![w] =
                          [op |-> "answering", by |-> Serving(w), call |-> c]]
    /\ UNCHANGED <<deployed, deploys, active, stored, crashes>>

\* The reply is written; a caller that gave up does not read it.
ReplyToCall(w) ==
    /\ task[w].op = "answering"
    /\ call' = IF call[task[w].call].at = "taken"
               THEN [call EXCEPT ![task[w].call] = [at |-> "ended", by |-> task[w].by]]
               ELSE call
    /\ task' = [task EXCEPT ![w] = Free]
    /\ UNCHANGED <<deployed, deploys, service, active, stored, crashes>>

\* The timeout of the caller, which is also the expiry of its task.
CallTimesOut(c) ==
    /\ call[c].at \in {"queued", "taken"}
    /\ call' = [call EXCEPT ![c].at = "ended"]
    /\ UNCHANGED <<deployed, deploys, service, task, active, stored, crashes>>

\* A process dies; its supervisor starts another, which loads what is deployed.
ProcessDies(w) ==
    /\ crashes < MaxCrashes
    /\ crashes' = crashes + 1
    /\ task' = [task EXCEPT ![w] = Free]
    /\ service' = [service EXCEPT ![w] = build_service]
    /\ UNCHANGED <<deployed, deploys, active, stored, call>>

-----------------------------------------------------------------------------
ServingNext ==
    \/ \E s \in Services : Replace(s)
    \/ \E w \in Processes :
        \/ Restart(w) \/ Classify(w) \/ FindModel(w)
        \/ StorePrediction(w) \/ RegistrationConflict(w)
        \/ ReplyToCall(w) \/ ProcessDies(w)
        \/ \E c \in Calls : TakeCall(w, c)
    \/ \E c \in Calls : Ask(c) \/ CallTimesOut(c)

ServingSpec == ServingInit /\ [][ServingNext]_servingVars

-----------------------------------------------------------------------------
(***************************************************************************)
(* What serving promises.                                                   *)
(***************************************************************************)
\* Nothing is ever predicted through another pipeline than the weights were
\* trained through, be it stored or answered, while weights and pipeline are
\* replaced one by one under processes that restart or build their service
\* late (ai/inference/service.py:172-200).
ServedAsTrained ==
    \A s \in {p.by : p \in stored} \cup {call[c].by : c \in Calls} :
        s # Unloaded => TrainedThrough[s.weights] \in {s.pipeline, Unstamped}

\* Predictions carry a model_id so that "which model said this?" is always
\* answerable, including after a retrain (inference.py:500-503).  An active row
\* is never replaced, so this is what the code does not do.
ProvenanceIsKnown == \A p \in stored : p.model = p.by.weights

=============================================================================
