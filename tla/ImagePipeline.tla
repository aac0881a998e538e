---------------------------- MODULE ImagePipeline ----------------------------
(***************************************************************************)
(* The path of a photograph: upload (IngestImage), broker (Celery over     *)
(* Redis), worker (process_image), reprocess request (ReprocessImage), and *)
(* the recompute_window task the worker leaves behind.                     *)
(*                                                                         *)
(* PostgreSQL runs at READ COMMITTED.  The variables status and current    *)
(* are the committed rows; what an open transaction has written is in the  *)
(* state of the process that runs it, and the row locks it holds are the   *)
(* operators PredictionLocked and ImageLocked.  API requests commit after  *)
(* their handler returns (TransactionalRoute), that is after they have     *)
(* enqueued; a worker commits before it enqueues.                          *)
(*                                                                         *)
(* The broker delivers at least once and in no particular order            *)
(* (task_acks_late, retry countdowns, several workers), so the queue is a  *)
(* bag: queue[i][k] messages for image i at retry k.                       *)
(***************************************************************************)
EXTENDS Naturals, FiniteSets

CONSTANTS
    Images,     \* rows of "images"; every upload attempt has a fresh uuid4
    Workers,    \* worker processes consuming the "inference" queue
    Requests,   \* concurrent POST .../reprocess requests
    NoImage,    \* the image of an idle process
    Verdicts,   \* what the pipeline may say of an image: a set, since the
                \* calibration of the device may change between two runs
    MaxRetries, \* process_image's max_retries
    MaxFaults,  \* bound on failures: broker, storage, worker, connection
    MaxReopens  \* bound on reprocess requests

Refusals == {"rejected", "failed"}
Settled  == {"inferred"} \union Refusals
Status   == {"absent", "pending"} \union Settled
Attempts == 0..MaxRetries

ASSUME ConstantsAssumption ==
    /\ NoImage \notin Images
    /\ Verdicts \in [Images -> (SUBSET Settled) \ {{}}]
    /\ MaxRetries \in Nat
    /\ MaxFaults \in Nat
    /\ MaxReopens \in Nat

VARIABLES
    status,     \* images.status, committed; "absent" while there is no row
    current,    \* committed predictions with superseded_at NULL, per image
    ingest,     \* the upload's request: "new", "open" or "closed"
    queue,      \* process_image messages the broker holds
    worker,     \* each worker process and the message it works on
    request,    \* each reprocess request and the image it works on
    recomputes, \* recompute_window messages the broker holds
    unread,     \* images whose vote changed since a recompute last read them
    dropped,    \* history: images one of whose process_image messages was
                \* lost, discarded, failed for good or cut short
    faults,     \* failures so far
    reopens     \* reprocess requests so far

vars == <<status, current, ingest, queue, worker, request, recomputes,
          unread, dropped, faults, reopens>>

IdleWorker  == [pc |-> "idle", image |-> NoImage, tries |-> 0, owns |-> FALSE]
IdleRequest == [pc |-> "idle", image |-> NoImage, hit |-> FALSE, writes |-> FALSE]

Init ==
    /\ status     = [i \in Images |-> "absent"]
    /\ current    = [i \in Images |-> 0]
    /\ ingest     = [i \in Images |-> "new"]
    /\ queue      = [i \in Images |-> [k \in Attempts |-> 0]]
    /\ worker     = [w \in Workers |-> IdleWorker]
    /\ request    = [r \in Requests |-> IdleRequest]
    /\ recomputes = 0
    /\ unread     = {}
    /\ dropped    = {}
    /\ faults     = 0
    /\ reopens    = 0

-----------------------------------------------------------------------------
(* Locks and messages *)

\* Mutant: loading the row locks it (FOR SHARE), and two requests upgrade.
ImageLocked_OnLoad(i) ==
    \/ \E r \in Requests : /\ request[r].pc = "reset"
                           /\ request[r].writes
                           /\ request[r].image = i
    \/ \E r, q \in Requests : /\ r # q
                              /\ i = request[r].image
                              /\ i = request[q].image

\* An open transaction has written images.status of i.
ImageLocked(i) ==
    \E r \in Requests : /\ request[r].pc = "reset"
                        /\ request[r].writes
                        /\ request[r].image = i

\* A reprocess transaction has superseded the current prediction of i and is
\* still open: another UPDATE of that row waits, and so does an INSERT that
\* the unique index has to compare with it.
PredictionLocked(i) ==
    \E r \in Requests : request[r].hit /\ request[r].image = i

\* A worker's transaction has inserted a current prediction of i.
InsertOpen(i) ==
    \E w \in Workers : worker[w].pc = "inserted" /\ worker[w].image = i

Put(i, k) == [queue EXCEPT ![i][k] = @ + 1]

Fault ==
    /\ faults < MaxFaults
    /\ faults' = faults + 1

\* CeleryTaskQueue.enqueue: a failure of the broker is logged and swallowed.
Enqueue(i) ==
    \/ /\ queue' = Put(i, 0)
       /\ UNCHANGED <<dropped, faults>>
    \/ /\ Fault
       /\ dropped' = dropped \union {i}
       /\ UNCHANGED queue

-----------------------------------------------------------------------------
(* The upload *)

\* The handler of POST /ingest/images, up to its return: the row is written
\* in the open transaction and the message is already sent.
IngestHandler(i) ==
    /\ ingest[i] = "new"
    /\ ingest' = [ingest EXCEPT ![i] = "open"]
    /\ Enqueue(i)
    /\ UNCHANGED <<status, current, worker, request, recomputes, unread, reopens>>

\* TransactionalRoute commits, then the 201 leaves.
IngestCommit(i) ==
    /\ ingest[i] = "open"
    /\ ingest' = [ingest EXCEPT ![i] = "closed"]
    /\ status' = [status EXCEPT ![i] = "pending"]
    /\ UNCHANGED <<current, queue, worker, request, recomputes, unread,
                   dropped, faults, reopens>>

\* The commit fails or the API process dies: the message outlives the row.
IngestAbort(i) ==
    /\ ingest[i] = "open"
    /\ Fault
    /\ ingest' = [ingest EXCEPT ![i] = "closed"]
    /\ UNCHANGED <<status, current, queue, worker, request, recomputes, unread,
                   dropped, reopens>>

-----------------------------------------------------------------------------
(* process_image *)

Take(w, i, k) ==
    /\ worker[w].pc = "idle"
    /\ queue[i][k] > 0
    /\ queue' = [queue EXCEPT ![i][k] = @ - 1]

\* The image row is loaded and the task goes on.
Start(w, i, k) ==
    /\ Take(w, i, k)
    /\ status[i] \notin {"absent", "inferred"}
    /\ worker' = [worker EXCEPT ![w] = [pc |-> "loaded", image |-> i, tries |-> k,
                                        owns |-> TRUE]]
    /\ UNCHANGED <<status, current, ingest, request, recomputes, unread,
                   dropped, faults, reopens>>

\* No row ("gone") or a scored one ("already_inferred"): the task returns and
\* its message is acknowledged.
Discard(w, i, k) ==
    /\ Take(w, i, k)
    /\ status[i] \in {"absent", "inferred"}
    /\ dropped' = dropped \union {i}
    /\ UNCHANGED <<status, current, ingest, worker, request, recomputes, unread,
                   faults, reopens>>

\* Mutant: the failure is logged, the task is not retried.
StorageFails_NoRetry(w) ==
    /\ worker[w].pc = "loaded"
    /\ Fault
    /\ worker' = [worker EXCEPT ![w] = IdleWorker]
    /\ UNCHANGED <<status, current, ingest, queue, request, recomputes, unread,
                   dropped, reopens>>

\* storage.get raises.  task.retry publishes the message again, until
\* max_retries is spent and the exception fails the task.
StorageFails(w) ==
    LET i == worker[w].image
        k == worker[w].tries
    IN  /\ worker[w].pc = "loaded"
        /\ Fault
        /\ \/ /\ k < MaxRetries
              /\ queue' = Put(i, k + 1)
              /\ UNCHANGED dropped
           \/ /\ k = MaxRetries
              /\ dropped' = dropped \union {i}
              /\ UNCHANGED queue
        /\ worker' = [worker EXCEPT ![w] = IdleWorker]
        /\ UNCHANGED <<status, current, ingest, request, recomputes, unread, reopens>>

\* The bytes do not decode, or the quality gate rejects the frame.  images.update
\* reads the row again and sends an UPDATE only where the committed status
\* differs: an image refused as before is not written, even if a reprocess
\* request is about to commit "pending".
Refuse(w) ==
    LET i == worker[w].image
    IN  /\ worker[w].pc = "loaded"
        /\ \E refusal \in Verdicts[i] \intersect Refusals :
              \/ /\ refusal # status[i]
                 /\ ~ImageLocked(i)
                 /\ status' = [status EXCEPT ![i] = refusal]
                 /\ UNCHANGED dropped
              \/ /\ refusal = status[i]
                 /\ dropped' = dropped \union {i}
                 /\ UNCHANGED status
        /\ worker' = [worker EXCEPT ![w] = IdleWorker]
        /\ UNCHANGED <<current, ingest, queue, request, recomputes, unread,
                       faults, reopens>>

\* Mutant: without the partial unique index.
InsertPrediction_NoIndex(w) ==
    /\ worker[w].pc = "loaded"
    /\ "inferred" \in Verdicts[worker[w].image]
    /\ worker' = [worker EXCEPT ![w].pc = "inserted"]
    /\ UNCHANGED <<status, current, ingest, queue, request, recomputes, unread,
                   dropped, faults, reopens>>

\* predictions.add and its flush.  The partial unique index makes it wait for
\* an open transaction that touches the current prediction of the image.
InsertPrediction(w) ==
    LET i == worker[w].image
    IN  /\ worker[w].pc = "loaded"
        /\ "inferred" \in Verdicts[i]
        /\ ~PredictionLocked(i)
        /\ ~InsertOpen(i)
        /\ current[i] = 0
        /\ worker' = [worker EXCEPT ![w].pc = "inserted"]
        /\ UNCHANGED <<status, current, ingest, queue, request, recomputes, unread,
                       dropped, faults, reopens>>

\* The same INSERT where the image has a current prediction: the unique index
\* refuses it, and an IntegrityError is not retried.
InsertConflict(w) ==
    LET i == worker[w].image
    IN  /\ worker[w].pc = "loaded"
        /\ "inferred" \in Verdicts[i]
        /\ ~PredictionLocked(i)
        /\ current[i] > 0
        /\ worker' = [worker EXCEPT ![w] = IdleWorker]
        /\ dropped' = dropped \union {i}
        /\ UNCHANGED <<status, current, ingest, queue, request, recomputes, unread,
                       faults, reopens>>

\* Mutant: the task ends with the commit and asks for no recompute.
CommitScore_NoRecompute(w) ==
    LET i == worker[w].image
    IN  /\ worker[w].pc = "inserted"
        /\ ~ImageLocked(i)
        /\ status'  = [status EXCEPT ![i] = "inferred"]
        /\ current' = [current EXCEPT ![i] = @ + 1]
        /\ unread'  = unread \union {i}
        /\ worker'  = [worker EXCEPT ![w] = IdleWorker]
        /\ UNCHANGED <<ingest, queue, request, recomputes, dropped, faults, reopens>>

\* images.update(INFERRED) and the commit of prediction, detections and status.
CommitScore(w) ==
    LET i == worker[w].image
    IN  /\ worker[w].pc = "inserted"
        /\ ~ImageLocked(i)
        /\ status'  = [status EXCEPT ![i] = "inferred"]
        /\ current' = [current EXCEPT ![i] = @ + 1]
        /\ unread'  = unread \union {i}
        /\ worker'  = [worker EXCEPT ![w].pc = "committed"]
        /\ UNCHANGED <<ingest, queue, request, recomputes, dropped, faults, reopens>>

\* recompute_window.delay, then the acknowledgement.
EnqueueRecompute(w) ==
    /\ worker[w].pc = "committed"
    /\ recomputes' = recomputes + 1
    /\ worker' = [worker EXCEPT ![w] = IdleWorker]
    /\ UNCHANGED <<status, current, ingest, queue, request, unread, dropped,
                   faults, reopens>>

-----------------------------------------------------------------------------
(* What goes wrong in a worker *)

\* Any other exception (a database error, the soft time limit, a broker that
\* refuses the recompute): the session rolls back, the task fails, its message
\* is acknowledged.
TaskFails(w) ==
    /\ worker[w].pc # "idle"
    /\ Fault
    /\ dropped' = dropped \union {worker[w].image}
    /\ worker' = [worker EXCEPT ![w] = IdleWorker]
    /\ UNCHANGED <<status, current, ingest, queue, request, recomputes, unread, reopens>>

\* Mutant: the message is acknowledged when it is received.
WorkerKilled_EarlyAck(w) ==
    /\ worker[w].pc # "idle"
    /\ Fault
    /\ worker' = [worker EXCEPT ![w] = IdleWorker]
    /\ UNCHANGED <<status, current, ingest, queue, request, recomputes, unread,
                   dropped, reopens>>

\* The worker process is killed.  acks_late: the broker delivers again, unless
\* it already has.  Between the commit and the recompute that is no help: the
\* second delivery finds the image scored.
WorkerKilled(w) ==
    /\ worker[w].pc # "idle"
    /\ Fault
    /\ queue' = IF worker[w].owns THEN Put(worker[w].image, worker[w].tries) ELSE queue
    /\ dropped' = IF worker[w].pc = "committed"
                  THEN dropped \union {worker[w].image} ELSE dropped
    /\ worker' = [worker EXCEPT ![w] = IdleWorker]
    /\ UNCHANGED <<status, current, ingest, request, recomputes, unread, reopens>>

\* The worker loses its broker connection and works on: the message it has not
\* acknowledged is delivered a second time.
Redeliver(w) ==
    /\ worker[w].pc # "idle"
    /\ worker[w].owns
    /\ Fault
    /\ queue' = Put(worker[w].image, worker[w].tries)
    /\ worker' = [worker EXCEPT ![w].owns = FALSE]
    /\ UNCHANGED <<status, current, ingest, request, recomputes, unread, dropped,
                   reopens>>

-----------------------------------------------------------------------------
(* Reprocess *)

\* images.get: anything but a settled image is refused (404, 409).
ReprocessLoad(r, i) ==
    /\ request[r].pc = "idle"
    /\ reopens < MaxReopens
    /\ status[i] \in Settled
    /\ reopens' = reopens + 1
    /\ request' = [request EXCEPT ![r] = [pc |-> "loaded", image |-> i,
                                          hit |-> FALSE, writes |-> FALSE]]
    /\ UNCHANGED <<status, current, ingest, queue, worker, recomputes, unread,
                   dropped, faults>>

\* Mutant: the superseding UPDATE is committed on its own.
Supersede_OwnCommit(r) ==
    LET i == request[r].image
    IN  /\ request[r].pc = "loaded"
        /\ ~PredictionLocked(i)
        /\ request' = [request EXCEPT ![r].pc = "superseded"]
        /\ current' = [current EXCEPT ![i] = 0]
        /\ UNCHANGED <<status, ingest, queue, worker, recomputes, unread,
                       dropped, faults, reopens>>

\* supersede_for_image: UPDATE ... WHERE superseded_at IS NULL.
Supersede(r) ==
    LET i == request[r].image
    IN  /\ request[r].pc = "loaded"
        /\ ~PredictionLocked(i)
        /\ request' = [request EXCEPT ![r].pc = "superseded", ![r].hit = current[i] > 0]
        /\ UNCHANGED <<status, current, ingest, queue, worker, recomputes, unread,
                       dropped, faults, reopens>>

\* images.update(PENDING) reads the row again: it will send no UPDATE for an
\* image that another request has made pending since.
Reread(r) ==
    /\ request[r].pc = "superseded"
    /\ request' = [request EXCEPT ![r].pc = "reread",
                                 ![r].writes = status[request[r].image] # "pending"]
    /\ UNCHANGED <<status, current, ingest, queue, worker, recomputes, unread,
                   dropped, faults, reopens>>

\* Its UPDATE, if there is one, and the enqueue that follows it.
ResetAndEnqueue(r) ==
    LET i == request[r].image
    IN  /\ request[r].pc = "reread"
        /\ request[r].writes => ~ImageLocked(i)
        /\ request' = [request EXCEPT ![r].pc = "reset"]
        /\ Enqueue(i)
        /\ UNCHANGED <<status, current, ingest, worker, recomputes, unread, reopens>>

\* TransactionalRoute commits.
ReprocessCommit(r) ==
    LET i == request[r].image
    IN  /\ request[r].pc = "reset"
        /\ status'  = IF request[r].writes THEN [status EXCEPT ![i] = "pending"] ELSE status
        /\ current' = IF request[r].hit THEN [current EXCEPT ![i] = @ - 1] ELSE current
        /\ unread'  = IF request[r].hit THEN unread \union {i} ELSE unread
        /\ request' = [request EXCEPT ![r] = IdleRequest]
        /\ UNCHANGED <<ingest, queue, worker, recomputes, dropped, faults, reopens>>

\* The request dies: its writes are rolled back, a message it sent is not.
ReprocessAbort(r) ==
    /\ request[r].pc # "idle"
    /\ Fault
    /\ request' = [request EXCEPT ![r] = IdleRequest]
    /\ UNCHANGED <<status, current, ingest, queue, worker, recomputes, unread,
                   dropped, reopens>>

-----------------------------------------------------------------------------
(* recompute_window, as one step: it reads every current prediction of the  *)
(* project.  Module ProjectProgress takes it apart.                         *)

Recompute ==
    /\ recomputes > 0
    /\ recomputes' = recomputes - 1
    /\ unread' = {}
    /\ UNCHANGED <<status, current, ingest, queue, worker, request, dropped,
                   faults, reopens>>

-----------------------------------------------------------------------------

WorkerStep(w) ==
    \/ \E i \in Images, k \in Attempts : Start(w, i, k) \/ Discard(w, i, k)
    \/ Refuse(w)
    \/ InsertPrediction(w)
    \/ InsertConflict(w)
    \/ CommitScore(w)
    \/ EnqueueRecompute(w)

WorkerFault(w) == StorageFails(w) \/ TaskFails(w) \/ WorkerKilled(w) \/ Redeliver(w)

RequestStep(r) ==
    Supersede(r) \/ Reread(r) \/ ResetAndEnqueue(r) \/ ReprocessCommit(r)

Next ==
    \/ \E i \in Images : IngestHandler(i) \/ IngestCommit(i) \/ IngestAbort(i)
    \/ \E w \in Workers : WorkerStep(w) \/ WorkerFault(w)
    \/ \E r \in Requests :
          \/ \E i \in Images : ReprocessLoad(r, i)
          \/ RequestStep(r)
          \/ ReprocessAbort(r)
    \/ Recompute

Spec == Init /\ [][Next]_vars

\* Handlers that have started run on, workers keep consuming.  Nobody is
\* obliged to upload, to ask for a reprocess, or to fail.
Fairness ==
    /\ \A i \in Images : WF_vars(IngestCommit(i))
    /\ \A w \in Workers : WF_vars(WorkerStep(w))
    /\ \A r \in Requests : WF_vars(RequestStep(r))
    /\ WF_vars(Recompute)

FairSpec == Spec /\ Fairness

-----------------------------------------------------------------------------
(* Properties *)

WorkerStates ==
    [pc : {"idle", "loaded", "inserted", "committed"},
     image : Images \union {NoImage}, tries : Attempts, owns : BOOLEAN]

RequestStates ==
    [pc : {"idle", "loaded", "superseded", "reread", "reset"},
     image : Images \union {NoImage}, hit : BOOLEAN, writes : BOOLEAN]

\* Every variable has its type.
TypeOK ==
    /\ status \in [Images -> Status]
    /\ current \in [Images -> Nat]
    /\ ingest \in [Images -> {"new", "open", "closed"}]
    /\ queue \in [Images -> [Attempts -> Nat]]
    /\ worker \in [Workers -> WorkerStates]
    /\ request \in [Requests -> RequestStates]
    /\ recomputes \in Nat
    /\ unread \subseteq Images
    /\ dropped \subseteq Images
    /\ faults \in 0..MaxFaults
    /\ reopens \in 0..MaxReopens

\* One photograph is one vote in its window, however often its message is
\* delivered and its score asked for again (inference.py:209-214).
OneVote == \A i \in Images : current[i] <= 1

\* An image the dashboard shows as scored is one the aggregation counts: score
\* and status are committed together, and withdrawn together (inference.py:280-282,
\* predictions.py:244-246).
InferredVotes == \A i \in Images : status[i] = "inferred" => current[i] = 1

\* A pending image that no message was dropped for has one coming, or a worker
\* that will settle it: "pending" is owed an answer.
PendingIsOwed ==
    \A i \in Images : status[i] = "pending" /\ i \notin dropped =>
        \/ \E k \in Attempts : queue[i][k] > 0
        \/ \E w \in Workers : worker[w].image = i /\ worker[w].pc \in {"loaded", "inserted"}

\* A score that no recompute has read yet has a recompute coming, or a worker
\* about to ask for one (inference.py:282-302).
RecomputeFollows ==
    \A i \in unread : status[i] = "inferred" /\ i \notin dropped =>
        \/ recomputes > 0
        \/ \E w \in Workers : worker[w].image = i /\ worker[w].pc = "committed"

\* A pending image is settled, or one of its messages has been dropped.
Settles ==
    \A i \in Images : []<>(status[i] # "pending" \/ i \in dropped)

\* Workers and reprocess requests wait for each other's row locks and for the
\* unique index, and never in a circle: each of them comes to its end.
NobodyWaitsForever ==
    /\ \A w \in Workers : []<>(worker[w].pc = "idle")
    /\ \A r \in Requests : []<>(request[r].pc = "idle")

\* What worker w does next waits for no other transaction, whatever it finds in
\* the photograph.
WorkerGoes(w) ==
    LET i == worker[w].image
    IN  /\ worker[w].pc = "loaded" =>
              \A verdict \in Verdicts[i] :
                  IF verdict = "inferred" THEN ~PredictionLocked(i) /\ ~InsertOpen(i)
                                          ELSE verdict # status[i] => ~ImageLocked(i)
        /\ worker[w].pc = "inserted" => ~ImageLocked(i)

RequestGoes(r) ==
    LET i == request[r].image
    IN  /\ request[r].pc = "loaded" => ~PredictionLocked(i)
        /\ request[r].pc = "reread" /\ request[r].writes => ~ImageLocked(i)

\* Among those that work on a photograph there is always one that waits for
\* nobody: the row locks of images and predictions and the unique index are
\* taken in an order that closes no circle (image.py:326-344, predictions.py:244-250).
SomebodyGoes ==
    \A i \in Images :
        LET busyWorkers  == {w \in Workers : worker[w].pc # "idle" /\ worker[w].image = i}
            busyRequests == {r \in Requests : request[r].pc # "idle" /\ request[r].image = i}
        IN  busyWorkers # {} \/ busyRequests # {} =>
                \/ \E w \in busyWorkers : WorkerGoes(w)
                \/ \E r \in busyRequests : RequestGoes(r)

\* Why the votes are right.  Each conjunct is about what open transactions hold
\* against what is committed.

\* A task or a request works on an image whose row is committed, and rows are
\* not deleted.
RowsUnderWork ==
    /\ \A w \in Workers : worker[w].pc # "idle" =>
          worker[w].image \in Images /\ status[worker[w].image] # "absent"
    /\ \A r \in Requests : request[r].pc # "idle" =>
          request[r].image \in Images /\ status[request[r].image] # "absent"
    /\ \A r \in Requests : request[r].writes => request[r].pc \in {"reread", "reset"}
    /\ \A i \in Images : ingest[i] # "closed" => status[i] = "absent"

\* An uncommitted score is the only one of its image, committed ones included.
InsertAlone ==
    \A w \in Workers : worker[w].pc = "inserted" =>
        /\ current[worker[w].image] = 0
        /\ \A v \in Workers \ {w} :
              ~(worker[v].pc = "inserted" /\ worker[v].image = worker[w].image)

\* An uncommitted withdrawal is of a vote that is still committed, and the only
\* one of it; its commit leaves the image other than "inferred".
HitAlone ==
    \A r \in Requests : request[r].hit =>
        /\ request[r].pc \in {"superseded", "reread", "reset"}
        /\ current[request[r].image] = 1
        /\ \/ request[r].pc = "superseded"
           \/ request[r].writes
           \/ status[request[r].image] # "inferred"
        /\ \A q \in Requests \ {r} :
              ~(request[q].hit /\ request[q].image = request[r].image)

\* Image i is pending, or will be once an open transaction commits.
Unsettled(i) == status[i] = "pending" \/ ingest[i] = "open" \/ ImageLocked(i)

\* The message is w's own (a lost worker's is delivered again), before its commit.
Holds(w, i) ==
    /\ worker[w].image = i
    /\ worker[w].pc \in {"loaded", "inserted"}
    /\ worker[w].owns

\* An unsettled image has an unacknowledged message, queued or held.
MessageBehind ==
    \A i \in Images \ dropped : Unsettled(i) =>
        \/ \E k \in Attempts : queue[i][k] > 0
        \/ \E w \in Workers : Holds(w, i)

IInv ==
    /\ TypeOK
    /\ OneVote
    /\ InferredVotes
    /\ RowsUnderWork
    /\ InsertAlone
    /\ HitAlone
    /\ MessageBehind
    /\ RecomputeFollows

\* What the durable row and its votes go through is what ImageLedger allows.
Ledger == INSTANCE ImageLedger WITH Images <- Images, status <- status, current <- current
LedgerSpec == Ledger!Spec

\* queue.py:9-11: an image whose message was lost "sits there with status =
\* pending, and a sweep can pick it up later".
SweptUp == \A i \in Images : status[i] = "pending" ~> status[i] # "pending"
=============================================================================
