------------------------- MODULE ImagePipelineProofs -------------------------
(***************************************************************************)
(* For every number of images, workers and requests and every bound: the   *)
(* inductive invariant IInv of ImagePipeline, the safety invariants it     *)
(* implies, the order of the locks, and the refinement of ImageLedger.     *)
(*                                                                         *)
(* IInv is proved in three layers, each with the ones before it as a       *)
(* hypothesis: the types; the votes (who may hold an uncommitted score or  *)
(* withdrawal of an image); the messages behind a pending image and a      *)
(* fresh score.                                                            *)
(***************************************************************************)
EXTENDS ImagePipeline, TLAPS

USE ConstantsAssumption

-----------------------------------------------------------------------------
(* Types *)

LEMMA IdleTyped == IdleWorker \in WorkerStates /\ IdleRequest \in RequestStates
  BY DEF IdleWorker, IdleRequest, WorkerStates, RequestStates, Status, Settled,
         Attempts

LEMMA PutTyped ==
  ASSUME TypeOK, NEW i \in Images, NEW k \in Attempts
  PROVE  Put(i, k) \in [Images -> [Attempts -> Nat]]
  BY DEF TypeOK, Put

LEMMA EnqueueTyped ==
  ASSUME TypeOK, NEW i \in Images, Enqueue(i)
  PROVE  /\ queue' \in [Images -> [Attempts -> Nat]]
         /\ dropped' \subseteq Images
         /\ faults' \in 0..MaxFaults
  <1>1. 0 \in Attempts
    BY DEF Attempts
  <1> QED
    BY <1>1, PutTyped DEF Enqueue, Fault, TypeOK

LEMMA TypeStep == TypeOK /\ RowsUnderWork /\ HitAlone /\ [Next]_vars => TypeOK'
  <1> SUFFICES ASSUME TypeOK, RowsUnderWork, HitAlone, [Next]_vars
               PROVE  TypeOK'
    OBVIOUS
  <1> USE IdleTyped DEF TypeOK
  <1>1. ASSUME NEW i \in Images, IngestHandler(i) PROVE TypeOK'
    BY <1>1, EnqueueTyped DEF IngestHandler
  <1>2. ASSUME NEW i \in Images, IngestCommit(i) PROVE TypeOK'
    BY <1>2 DEF IngestCommit, Status
  <1>3. ASSUME NEW i \in Images, IngestAbort(i) PROVE TypeOK'
    BY <1>3 DEF IngestAbort, Fault
  <1>4. ASSUME NEW w \in Workers, NEW i \in Images, NEW k \in Attempts, Start(w, i, k)
        PROVE  TypeOK'
    <2>1. queue' \in [Images -> [Attempts -> Nat]]
      BY <1>4 DEF Start, Take
    <2>2. worker' \in [Workers -> WorkerStates]
      BY <1>4 DEF Start, WorkerStates
    <2> QED
      BY <1>4, <2>1, <2>2 DEF Start
  <1>5. ASSUME NEW w \in Workers, NEW i \in Images, NEW k \in Attempts, Discard(w, i, k)
        PROVE  TypeOK'
    <2>1. queue' \in [Images -> [Attempts -> Nat]]
      BY <1>5 DEF Discard, Take
    <2> QED
      BY <1>5, <2>1 DEF Discard
  <1>6. ASSUME NEW w \in Workers, StorageFails(w) PROVE TypeOK'
    <2>1. worker[w].image \in Images /\ worker[w].tries \in Attempts
      BY <1>6 DEF StorageFails, RowsUnderWork, WorkerStates
    <2>2. worker[w].tries < MaxRetries => worker[w].tries + 1 \in Attempts
      BY <2>1 DEF Attempts
    <2>3. queue' \in [Images -> [Attempts -> Nat]] /\ dropped' \subseteq Images
      BY <1>6, <2>1, <2>2, PutTyped DEF StorageFails
    <2> QED
      BY <1>6, <2>3 DEF StorageFails, Fault
  <1>7. ASSUME NEW w \in Workers, Refuse(w) PROVE TypeOK'
    <2>1. worker[w].image \in Images
      BY <1>7 DEF Refuse, RowsUnderWork
    <2> QED
      BY <1>7, <2>1 DEF Refuse, Refusals, Status, Settled
  <1>8. ASSUME NEW w \in Workers, InsertPrediction(w) PROVE TypeOK'
    BY <1>8 DEF InsertPrediction, WorkerStates
  <1>9. ASSUME NEW w \in Workers, InsertConflict(w) PROVE TypeOK'
    BY <1>9 DEF InsertConflict, RowsUnderWork
  <1>10. ASSUME NEW w \in Workers, CommitScore(w) PROVE TypeOK'
    <2>1. worker[w].image \in Images
      BY <1>10 DEF CommitScore, RowsUnderWork
    <2>2. worker' \in [Workers -> WorkerStates]
      BY <1>10 DEF CommitScore, WorkerStates
    <2> QED
      BY <1>10, <2>1, <2>2 DEF CommitScore, Status, Settled
  <1>11. ASSUME NEW w \in Workers, EnqueueRecompute(w) PROVE TypeOK'
    BY <1>11 DEF EnqueueRecompute
  <1>12. ASSUME NEW w \in Workers, TaskFails(w) PROVE TypeOK'
    BY <1>12 DEF TaskFails, Fault, RowsUnderWork
  <1>13. ASSUME NEW w \in Workers, WorkerKilled(w) PROVE TypeOK'
    <2>1. worker[w].image \in Images /\ worker[w].tries \in Attempts
      BY <1>13 DEF WorkerKilled, RowsUnderWork, WorkerStates
    <2> QED
      BY <1>13, <2>1, PutTyped DEF WorkerKilled, Fault
  <1>14. ASSUME NEW w \in Workers, Redeliver(w) PROVE TypeOK'
    <2>1. worker[w].image \in Images /\ worker[w].tries \in Attempts
      BY <1>14 DEF Redeliver, RowsUnderWork, WorkerStates
    <2>2. worker' \in [Workers -> WorkerStates]
      BY <1>14 DEF Redeliver, WorkerStates
    <2> QED
      BY <1>14, <2>1, <2>2, PutTyped DEF Redeliver, Fault
  <1>15. ASSUME NEW r \in Requests, NEW i \in Images, ReprocessLoad(r, i) PROVE TypeOK'
    BY <1>15 DEF ReprocessLoad, RequestStates
  <1>16. ASSUME NEW r \in Requests, Supersede(r) PROVE TypeOK'
    <2> DEFINE hit == current[request[r].image] > 0
    <2>1. hit \in BOOLEAN
      OBVIOUS
    <2>2. request' = [request EXCEPT ![r].pc = "superseded", ![r].hit = hit]
      BY <1>16 DEF Supersede
    <2>3. request' \in [Requests -> RequestStates]
      <3> HIDE DEF hit
      <3> QED
        BY <2>1, <2>2 DEF RequestStates
    <2> QED
      BY <1>16, <2>3 DEF Supersede
  <1>16b. ASSUME NEW r \in Requests, Reread(r) PROVE TypeOK'
    <2> DEFINE writes == status[request[r].image] # "pending"
    <2>1. writes \in BOOLEAN
      OBVIOUS
    <2>2. request' = [request EXCEPT ![r].pc = "reread", ![r].writes = writes]
      BY <1>16b DEF Reread
    <2>3. request' \in [Requests -> RequestStates]
      <3> HIDE DEF writes
      <3> QED
        BY <2>1, <2>2 DEF RequestStates
    <2> QED
      BY <1>16b, <2>3 DEF Reread
  <1>17. ASSUME NEW r \in Requests, ResetAndEnqueue(r) PROVE TypeOK'
    <2>1. request[r].image \in Images
      BY <1>17 DEF ResetAndEnqueue, RowsUnderWork
    <2>2. request' \in [Requests -> RequestStates]
      BY <1>17 DEF ResetAndEnqueue, RequestStates
    <2> QED
      BY <1>17, <2>1, <2>2, EnqueueTyped DEF ResetAndEnqueue
  <1>18. ASSUME NEW r \in Requests, ReprocessCommit(r) PROVE TypeOK'
    <2>1. request[r].image \in Images
      BY <1>18 DEF ReprocessCommit, RowsUnderWork
    <2>2. current' \in [Images -> Nat]
      BY <1>18, <2>1 DEF ReprocessCommit, HitAlone
    <2> QED
      BY <1>18, <2>1, <2>2 DEF ReprocessCommit, Status
  <1>19. ASSUME NEW r \in Requests, ReprocessAbort(r) PROVE TypeOK'
    BY <1>19 DEF ReprocessAbort, Fault
  <1>20. CASE Recompute
    BY <1>20 DEF Recompute
  <1>21. CASE UNCHANGED vars
    BY <1>21 DEF vars
  <1> QED
    BY <1>1, <1>2, <1>3, <1>4, <1>5, <1>6, <1>7, <1>8, <1>9, <1>10, <1>11, <1>12,
       <1>13, <1>14, <1>15, <1>16, <1>16b, <1>17, <1>18, <1>19, <1>20, <1>21
       DEF Next, WorkerStep, WorkerFault, RequestStep

-----------------------------------------------------------------------------
(* Votes *)

VotesInv == OneVote /\ InferredVotes /\ RowsUnderWork /\ InsertAlone /\ HitAlone

\* A worker that lets go of its message, whatever becomes of the message.
LEMMA WorkerLeaves ==
  ASSUME TypeOK, VotesInv, NEW w \in Workers,
         worker' = [worker EXCEPT ![w] = IdleWorker],
         UNCHANGED <<status, current, ingest, request>>
  PROVE  VotesInv'
  BY DEF VotesInv, OneVote, InferredVotes, RowsUnderWork, InsertAlone, HitAlone,
         TypeOK, IdleWorker

LEMMA VotesStep == TypeOK /\ VotesInv /\ [Next]_vars => VotesInv'
  <1> SUFFICES ASSUME TypeOK, VotesInv, [Next]_vars
               PROVE  VotesInv'
    OBVIOUS
  <1> USE DEF VotesInv
  <1>1. ASSUME NEW i \in Images, IngestHandler(i) PROVE VotesInv'
    BY <1>1 DEF IngestHandler, OneVote, InferredVotes, RowsUnderWork, InsertAlone,
                HitAlone, TypeOK
  <1>2. ASSUME NEW i \in Images, IngestCommit(i) PROVE VotesInv'
    BY <1>2 DEF IngestCommit, OneVote, InferredVotes, RowsUnderWork, InsertAlone,
                HitAlone, TypeOK
  <1>3. ASSUME NEW i \in Images, IngestAbort(i) PROVE VotesInv'
    BY <1>3 DEF IngestAbort, OneVote, InferredVotes, RowsUnderWork, InsertAlone,
                HitAlone, TypeOK
  <1>4. ASSUME NEW w \in Workers, NEW i \in Images, NEW k \in Attempts, Start(w, i, k)
        PROVE  VotesInv'
    BY <1>4 DEF Start, OneVote, InferredVotes, RowsUnderWork, InsertAlone,
                HitAlone, TypeOK
  <1>5. ASSUME NEW w \in Workers, NEW i \in Images, NEW k \in Attempts, Discard(w, i, k)
        PROVE  VotesInv'
    BY <1>5 DEF Discard, OneVote, InferredVotes, RowsUnderWork, InsertAlone,
                HitAlone, TypeOK
  <1>6. ASSUME NEW w \in Workers, StorageFails(w) PROVE VotesInv'
    BY <1>6, WorkerLeaves DEF StorageFails
  <1>7. ASSUME NEW w \in Workers, Refuse(w) PROVE VotesInv'
    <2>1. PICK refusal \in Refusals : status' \in {status,
             [status EXCEPT ![worker[w].image] = refusal]}
      BY <1>7 DEF Refuse
    <2> QED
      BY <1>7, <2>1 DEF Refuse, Refusals, OneVote, InferredVotes, RowsUnderWork,
                        InsertAlone, HitAlone, TypeOK, IdleWorker
  <1>8. ASSUME NEW w \in Workers, InsertPrediction(w) PROVE VotesInv'
    <2>1. worker[w].image \in Images /\ worker'[w].image = worker[w].image
      BY <1>8 DEF InsertPrediction, RowsUnderWork, TypeOK, WorkerStates
    <2>2. \A v \in Workers \ {w} : worker'[v] = worker[v]
      BY <1>8 DEF InsertPrediction, TypeOK
    <2>3. InsertAlone'
      BY <1>8, <2>1, <2>2 DEF InsertPrediction, InsertOpen, InsertAlone
    <2>4. RowsUnderWork'
      BY <1>8, <2>1, <2>2 DEF InsertPrediction, RowsUnderWork
    <2> QED
      BY <1>8, <2>3, <2>4 DEF InsertPrediction, OneVote, InferredVotes, HitAlone
  <1>9. ASSUME NEW w \in Workers, InsertConflict(w) PROVE VotesInv'
    BY <1>9, WorkerLeaves DEF InsertConflict
  <1>10. ASSUME NEW w \in Workers, CommitScore(w) PROVE VotesInv'
    <2> DEFINE i == worker[w].image
    <2>1. /\ i \in Images
          /\ current[i] = 0
          /\ current' = [current EXCEPT ![i] = 1]
          /\ status' = [status EXCEPT ![i] = "inferred"]
          /\ UNCHANGED <<ingest, request>>
      <3>1. worker[w].pc = "inserted" /\ current' = [current EXCEPT ![i] = @ + 1]
        BY <1>10 DEF CommitScore
      <3>2. i \in Images /\ current[i] = 0
        BY <3>1 DEF InsertAlone, RowsUnderWork
      <3>3. current' = [current EXCEPT ![i] = 1]
        BY <3>1, <3>2 DEF TypeOK
      <3> QED
        BY <1>10, <3>2, <3>3 DEF CommitScore
    <2>2. /\ worker'[w].image = i /\ worker'[w].pc = "committed"
          /\ \A v \in Workers \ {w} : worker'[v] = worker[v]
      BY <1>10 DEF CommitScore, TypeOK, WorkerStates
    <2>3. OneVote' /\ InferredVotes'
      BY <2>1 DEF OneVote, InferredVotes, TypeOK
    <2>4. RowsUnderWork'
      BY <1>10, <2>1, <2>2 DEF CommitScore, RowsUnderWork, TypeOK
    <2>5. InsertAlone'
      BY <1>10, <2>1, <2>2 DEF CommitScore, RowsUnderWork, InsertAlone, TypeOK
    <2>6. HitAlone'
      <3>1. ASSUME NEW r \in Requests, request[r].hit
            PROVE  /\ current'[request[r].image] = 1
                   /\ status'[request[r].image] = status[request[r].image]
        BY <2>1, <3>1 DEF HitAlone, RowsUnderWork, TypeOK
      <3>2. request' = request
        BY <2>1
      <3> QED
        BY <3>1, <3>2, Zenon DEF HitAlone
    <2> QED
      BY <2>3, <2>4, <2>5, <2>6
  <1>11. ASSUME NEW w \in Workers, EnqueueRecompute(w) PROVE VotesInv'
    BY <1>11, WorkerLeaves DEF EnqueueRecompute
  <1>12. ASSUME NEW w \in Workers, TaskFails(w) PROVE VotesInv'
    BY <1>12, WorkerLeaves DEF TaskFails
  <1>13. ASSUME NEW w \in Workers, WorkerKilled(w) PROVE VotesInv'
    BY <1>13, WorkerLeaves DEF WorkerKilled
  <1>14. ASSUME NEW w \in Workers, Redeliver(w) PROVE VotesInv'
    <2>1. \A v \in Workers : /\ worker'[v].pc = worker[v].pc
                             /\ worker'[v].image = worker[v].image
      BY <1>14 DEF Redeliver, TypeOK, WorkerStates
    <2> QED
      BY <1>14, <2>1 DEF Redeliver, OneVote, InferredVotes, RowsUnderWork,
                         InsertAlone, HitAlone
  <1>15. ASSUME NEW r \in Requests, NEW i \in Images, ReprocessLoad(r, i)
         PROVE  VotesInv'
    BY <1>15 DEF ReprocessLoad, Settled, Refusals, OneVote, InferredVotes,
                 RowsUnderWork, InsertAlone, HitAlone, TypeOK
  <1>16. ASSUME NEW r \in Requests, Supersede(r) PROVE VotesInv'
    <2> DEFINE i == request[r].image
    <2>1. /\ request'[r].pc = "superseded" /\ request'[r].image = i
          /\ ~request'[r].writes
          /\ request'[r].hit => current[i] = 1
          /\ \A q \in Requests \ {r} : request'[q] = request[q]
      BY <1>16 DEF Supersede, OneVote, RowsUnderWork, TypeOK, RequestStates
    <2>2. HitAlone'
      <3>1. \A q \in Requests \ {r} : ~(request[q].hit /\ request[q].image = i)
        BY <1>16 DEF Supersede, PredictionLocked
      <3>2. UNCHANGED <<current, status>>
        BY <1>16 DEF Supersede
      <3>3. ASSUME NEW q \in Requests, request'[q].hit
            PROVE  /\ request'[q].pc \in {"superseded", "reread", "reset"}
                   /\ current[request'[q].image] = 1
                   /\ \/ request'[q].pc = "superseded"
                      \/ request'[q].writes
                      \/ status[request'[q].image] # "inferred"
        BY <2>1, <3>3 DEF HitAlone
      <3>4. ASSUME NEW q \in Requests, request'[q].hit,
                   NEW p \in Requests \ {q}, request'[p].hit
            PROVE  request'[p].image # request'[q].image
        <4>1. CASE p = r
          BY <2>1, <3>1, <3>4, <4>1
        <4>2. CASE q = r
          BY <2>1, <3>1, <3>4, <4>2
        <4>3. CASE p # r /\ q # r
          BY <2>1, <3>4, <4>3 DEF HitAlone
        <4> QED
          BY <4>1, <4>2, <4>3
      <3> QED
        BY <3>2, <3>3, <3>4, Zenon DEF HitAlone
    <2>3. RowsUnderWork'
      <3>1. request[r].pc = "loaded" /\ UNCHANGED <<status, ingest, worker>>
        BY <1>16 DEF Supersede
      <3>2. \A q \in Requests : request'[q].writes =>
               /\ request[q].writes
               /\ request'[q].pc = request[q].pc
        BY <2>1
      <3>3. \A q \in Requests : request'[q].writes =>
               request'[q].pc \in {"reread", "reset"}
        BY <3>2 DEF RowsUnderWork
      <3>4. \A q \in Requests : request'[q].pc # "idle" =>
               /\ request'[q].image \in Images
               /\ status[request'[q].image] # "absent"
        BY <2>1, <3>1 DEF RowsUnderWork
      <3> QED
        BY <3>1, <3>3, <3>4 DEF RowsUnderWork
    <2> QED
      BY <1>16, <2>2, <2>3 DEF Supersede, OneVote, InferredVotes, InsertAlone
  <1>16b. ASSUME NEW r \in Requests, Reread(r) PROVE VotesInv'
    <2>1. /\ request[r].pc = "superseded" /\ request'[r].pc = "reread"
          /\ request'[r].writes <=> status[request[r].image] # "pending"
          /\ \A q \in Requests : /\ request'[q].image = request[q].image
                                 /\ request'[q].hit = request[q].hit
                                 /\ q # r => request'[q] = request[q]
      BY <1>16b DEF Reread, TypeOK, RequestStates
    <2>a. UNCHANGED <<status, current, ingest, worker>>
      BY <1>16b DEF Reread
    <2>2. RowsUnderWork'
      <3>1. \A q \in Requests : request'[q].writes =>
               request'[q].pc \in {"reread", "reset"}
        BY <2>1 DEF RowsUnderWork
      <3>2. \A q \in Requests : request'[q].pc # "idle" =>
               /\ request'[q].image \in Images
               /\ status[request'[q].image] # "absent"
        BY <2>1 DEF RowsUnderWork
      <3> QED
        BY <2>a, <3>1, <3>2 DEF RowsUnderWork
    <2>3. HitAlone'
      <3>1. ASSUME NEW q \in Requests, request'[q].hit
            PROVE  /\ request'[q].pc \in {"superseded", "reread", "reset"}
                   /\ current[request'[q].image] = 1
                   /\ \/ request'[q].pc = "superseded"
                      \/ request'[q].writes
                      \/ status[request'[q].image] # "inferred"
        <4>1. CASE q = r
          BY <2>1, <3>1, <4>1 DEF HitAlone
        <4>2. CASE q # r
          BY <2>1, <3>1, <4>2 DEF HitAlone
        <4> QED
          BY <4>1, <4>2
      <3>2. ASSUME NEW q \in Requests, request'[q].hit,
                   NEW p \in Requests \ {q}
            PROVE  ~(request'[p].hit /\ request'[p].image = request'[q].image)
        BY <2>1, <3>2 DEF HitAlone
      <3> QED
        BY <2>a, <3>1, <3>2, Zenon DEF HitAlone
    <2> QED
      BY <1>16b, <2>2, <2>3 DEF Reread, OneVote, InferredVotes, InsertAlone
  <1>17. ASSUME NEW r \in Requests, ResetAndEnqueue(r) PROVE VotesInv'
    <2>1. /\ request[r].pc = "reread" /\ request'[r].pc = "reset"
          /\ \A q \in Requests : /\ request'[q].image = request[q].image
                                 /\ request'[q].hit = request[q].hit
                                 /\ request'[q].writes = request[q].writes
                                 /\ q # r => request'[q].pc = request[q].pc
      BY <1>17 DEF ResetAndEnqueue, TypeOK, RequestStates
    <2> QED
      BY <1>17, <2>1 DEF ResetAndEnqueue, OneVote, InferredVotes, RowsUnderWork,
                         InsertAlone, HitAlone
  <1>18. ASSUME NEW r \in Requests, ReprocessCommit(r) PROVE VotesInv'
    <2> DEFINE i == request[r].image
    <2>1. /\ i \in Images
          /\ status' \in {status, [status EXCEPT ![i] = "pending"]}
          /\ IF request[r].hit
             THEN /\ current[i] = 1
                  /\ current' = [current EXCEPT ![i] = 0]
                  /\ status'[i] # "inferred"
             ELSE UNCHANGED current
      <3>1. /\ request[r].pc = "reset"
            /\ status' = IF request[r].writes
                         THEN [status EXCEPT ![i] = "pending"] ELSE status
            /\ current' = IF request[r].hit
                          THEN [current EXCEPT ![i] = @ - 1] ELSE current
        BY <1>18 DEF ReprocessCommit
      <3>a. status' \in {status, [status EXCEPT ![i] = "pending"]}
        BY <3>1
      <3>2. i \in Images /\ (request[r].hit => current[i] = 1)
        BY <3>1 DEF RowsUnderWork, HitAlone
      <3>b. request[r].hit => request[r].writes \/ status[i] # "inferred"
        BY <3>1 DEF HitAlone
      <3>c. request[r].hit => status'[i] # "inferred"
        <4>1. CASE request[r].writes
          <5>1. status' = [status EXCEPT ![i] = "pending"]
            BY <3>1, <4>1, Zenon
          <5> QED
            BY <3>2, <5>1 DEF TypeOK
        <4>2. CASE ~request[r].writes
          <5>1. status' = status
            BY <3>1, <4>2, Zenon
          <5> QED
            BY <3>b, <4>2, <5>1, Zenon
        <4> QED
          BY <4>1, <4>2, Zenon
      <3>3. CASE request[r].hit
        <4>1. i \in Images /\ current[i] = 1 /\ current' = [current EXCEPT ![i] = @ - 1]
          BY <3>1, <3>2, <3>3, Zenon
        <4>2. current' = [current EXCEPT ![i] = 0]
          BY <4>1 DEF TypeOK
        <4> QED
          BY <3>a, <3>c, <3>3, <4>1, <4>2, Zenon
      <3>4. CASE ~request[r].hit
        BY <3>1, <3>2, <3>a, <3>4, Zenon
      <3> QED
        BY <3>3, <3>4, Zenon
    <2>2. /\ request'[r].pc = "idle" /\ ~request'[r].hit /\ ~request'[r].writes
          /\ \A q \in Requests \ {r} : request'[q] = request[q]
      BY <1>18 DEF ReprocessCommit, IdleRequest, TypeOK
    <2>3. OneVote' /\ InferredVotes'
      BY <2>1 DEF OneVote, InferredVotes, TypeOK
    <2>4. RowsUnderWork'
      BY <1>18, <2>1, <2>2 DEF ReprocessCommit, RowsUnderWork, TypeOK
    <2>5. InsertAlone'
      BY <1>18, <2>1 DEF ReprocessCommit, RowsUnderWork, InsertAlone, TypeOK
    <2>6. HitAlone'
      <3>1. ASSUME NEW q \in Requests \ {r}, request[q].hit
            PROVE  /\ current'[request[q].image] = 1
                   /\ status'[request[q].image] \in
                         {status[request[q].image], "pending"}
        <4>1. request[q].image \in Images /\ current[request[q].image] = 1
          BY <3>1 DEF HitAlone, RowsUnderWork
        <4>2. request[r].hit => request[q].image # i
          BY <3>1 DEF HitAlone
        <4> QED
          BY <2>1, <4>1, <4>2 DEF TypeOK
      <3> QED
        BY <2>2, <3>1 DEF HitAlone
    <2> QED
      BY <2>3, <2>4, <2>5, <2>6
  <1>19. ASSUME NEW r \in Requests, ReprocessAbort(r) PROVE VotesInv'
    BY <1>19 DEF ReprocessAbort, IdleRequest, OneVote, InferredVotes, RowsUnderWork,
                 InsertAlone, HitAlone, TypeOK
  <1>20. CASE Recompute
    BY <1>20 DEF Recompute, OneVote, InferredVotes, RowsUnderWork, InsertAlone, HitAlone
  <1>21. CASE UNCHANGED vars
    BY <1>21 DEF vars, OneVote, InferredVotes, RowsUnderWork, InsertAlone, HitAlone
  <1> QED
    BY <1>1, <1>2, <1>3, <1>4, <1>5, <1>6, <1>7, <1>8, <1>9, <1>10, <1>11, <1>12,
       <1>13, <1>14, <1>15, <1>16, <1>16b, <1>17, <1>18, <1>19, <1>20, <1>21
       DEF Next, WorkerStep, WorkerFault, RequestStep

-----------------------------------------------------------------------------
(* Messages *)

Held(i) == (\E k \in Attempts : queue[i][k] > 0) \/ (\E w \in Workers : Holds(w, i))

LEMMA PutAdds ==
  ASSUME TypeOK, NEW i \in Images, NEW k \in Attempts, queue' = Put(i, k)
  PROVE  /\ queue'[i][k] > 0
         /\ \A j \in Images, m \in Attempts : queue[j][m] > 0 => queue'[j][m] > 0
  BY DEF TypeOK, Put

\* A message stays held while nobody takes it from the queue and the one worker
\* that moves keeps hold of it.
LEMMA HeldStays ==
  ASSUME NEW w \in Workers, NEW j \in Images, Held(j),
         \A k \in Attempts : queue[j][k] > 0 => queue'[j][k] > 0,
         \A v \in Workers \ {w} : worker'[v] = worker[v],
         Holds(w, j) => Holds(w, j)'
  PROVE  Held(j)'
  <1>1. CASE \E k \in Attempts : queue[j][k] > 0
    BY <1>1 DEF Held
  <1>2. CASE \E v \in Workers : Holds(v, j)
    <2>1. PICK v \in Workers : Holds(v, j)
      BY <1>2
    <2>2. Holds(v, j)'
      BY <2>1 DEF Holds
    <2> QED
      BY <2>2 DEF Held
  <1> QED
    BY <1>1, <1>2 DEF Held

\* A worker lets go of its message; it was dropped, or its image is settled, or
\* the message was not its own, or it is back in the queue.
LEMMA LetGo ==
  ASSUME TypeOK, MessageBehind, NEW w \in Workers, NEW i \in Images,
         worker[w].image = i,
         worker' = [worker EXCEPT ![w] = IdleWorker],
         \A j \in Images, k \in Attempts : queue[j][k] > 0 => queue'[j][k] > 0,
         dropped \subseteq dropped',
         \A j \in Images \ dropped' : Unsettled(j)' => Unsettled(j),
         Holds(w, i) => \/ i \in dropped'
                        \/ ~Unsettled(i)'
                        \/ \E k \in Attempts : queue'[i][k] > 0
  PROVE  MessageBehind'
  <1> SUFFICES ASSUME NEW j \in Images, j \notin dropped', Unsettled(j)'
               PROVE  Held(j)'
    BY DEF MessageBehind, Held
  <1>1. Held(j)
    BY DEF MessageBehind, Held
  <1>2. \A v \in Workers \ {w} : worker'[v] = worker[v]
    BY DEF TypeOK
  <1>3. CASE Holds(w, j)
    <2>1. j = i
      BY <1>3 DEF Holds
    <2>2. \E k \in Attempts : queue'[j][k] > 0
      BY <1>3, <2>1
    <2> QED
      BY <2>2 DEF Held
  <1>4. CASE ~Holds(w, j)
    BY <1>1, <1>2, <1>4, HeldStays
  <1> QED
    BY <1>3, <1>4

\* The state of the workers and what makes an image unsettled stay.
LEMMA Quiet ==
  ASSUME MessageBehind, dropped \subseteq dropped',
         UNCHANGED <<status, ingest, request, worker>>,
         \A j \in Images \ dropped', k \in Attempts :
            queue[j][k] > 0 => queue'[j][k] > 0
  PROVE  MessageBehind'
  BY DEF MessageBehind, Unsettled, ImageLocked, Holds

LEMMA EnqueueHolds ==
  ASSUME TypeOK, MessageBehind, NEW i \in Images, Enqueue(i), UNCHANGED worker,
         \A j \in Images \ {i} : Unsettled(j)' => Unsettled(j)
  PROVE  MessageBehind'
  <1> SUFFICES ASSUME NEW j \in Images, j \notin dropped', Unsettled(j)'
               PROVE  Held(j)'
    BY DEF MessageBehind, Held
  <1>1. 0 \in Attempts
    BY DEF Attempts
  <1>2. \A k \in Attempts : queue[j][k] > 0 => queue'[j][k] > 0
    BY <1>1, PutAdds DEF Enqueue
  <1>3. CASE j = i
    <2>1. queue'[j][0] > 0
      BY <1>1, <1>3, PutAdds DEF Enqueue
    <2> QED
      BY <1>1, <2>1 DEF Held
  <1>4. CASE j # i
    <2>1. Held(j)
      BY <1>4 DEF Enqueue, MessageBehind, Held
    <2> QED
      BY <1>2, <2>1 DEF Held, Holds
  <1> QED
    BY <1>3, <1>4

LEMMA MessageStep == TypeOK /\ VotesInv /\ MessageBehind /\ [Next]_vars => MessageBehind'
  <1> SUFFICES ASSUME TypeOK, VotesInv, MessageBehind, [Next]_vars
               PROVE  MessageBehind'
    OBVIOUS
  <1>a. ASSUME NEW w \in Workers, worker[w].pc # "idle"
        PROVE  /\ worker[w].image \in Images /\ worker[w].tries \in Attempts
               /\ status[worker[w].image] # "absent"
               /\ ingest[worker[w].image] = "closed"
    BY <1>a DEF VotesInv, RowsUnderWork, TypeOK, WorkerStates
  <1>1. ASSUME NEW i \in Images, IngestHandler(i) PROVE MessageBehind'
    <2>1. \A j \in Images \ {i} : Unsettled(j)' => Unsettled(j)
      BY <1>1 DEF IngestHandler, Unsettled, ImageLocked, TypeOK
    <2> QED
      BY <1>1, <2>1, EnqueueHolds DEF IngestHandler
  <1>2. ASSUME NEW i \in Images, IngestCommit(i) PROVE MessageBehind'
    <2>1. \A j \in Images : Unsettled(j)' => Unsettled(j)
      BY <1>2 DEF IngestCommit, Unsettled, ImageLocked, TypeOK
    <2> QED
      BY <1>2, <2>1 DEF IngestCommit, MessageBehind, Holds
  <1>3. ASSUME NEW i \in Images, IngestAbort(i) PROVE MessageBehind'
    <2>1. \A j \in Images : Unsettled(j)' => Unsettled(j)
      BY <1>3 DEF IngestAbort, Unsettled, ImageLocked, TypeOK
    <2> QED
      BY <1>3, <2>1 DEF IngestAbort, MessageBehind, Holds
  <1>4. ASSUME NEW w \in Workers, NEW i \in Images, NEW k \in Attempts, Start(w, i, k)
        PROVE  MessageBehind'
    <2> SUFFICES ASSUME NEW j \in Images, j \notin dropped', Unsettled(j)'
                 PROVE  Held(j)'
      BY DEF MessageBehind, Held
    <2>1. \A v \in Workers \ {w} : worker'[v] = worker[v]
      BY <1>4 DEF Start, TypeOK
    <2>2. CASE j = i
      <3>1. Holds(w, i)'
        BY <1>4 DEF Start, Holds, TypeOK
      <3> QED
        BY <2>2, <3>1 DEF Held
    <2>3. CASE j # i
      <3>1. \A m \in Attempts : queue'[j][m] = queue[j][m]
        BY <1>4, <2>3 DEF Start, Take, TypeOK
      <3>2. Held(j)
        BY <1>4 DEF Start, Unsettled, ImageLocked, MessageBehind, Held
      <3>3. ~Holds(w, j)
        BY <1>4 DEF Start, Take, Holds
      <3> QED
        BY <2>1, <3>1, <3>2, <3>3, HeldStays
    <2> QED
      BY <2>2, <2>3
  <1>5. ASSUME NEW w \in Workers, NEW i \in Images, NEW k \in Attempts, Discard(w, i, k)
        PROVE  MessageBehind'
    <2>1. \A j \in Images \ {i}, m \in Attempts : queue'[j][m] = queue[j][m]
      BY <1>5 DEF Discard, Take, TypeOK
    <2>2. \A j \in Images \ dropped', m \in Attempts : queue[j][m] > 0 => queue'[j][m] > 0
      BY <1>5, <2>1 DEF Discard
    <2> QED
      BY <1>5, <2>2, Quiet DEF Discard
  <1>6. ASSUME NEW w \in Workers, StorageFails(w) PROVE MessageBehind'
    <2>1. PICK i \in Images : worker[w].image = i /\ worker[w].tries \in Attempts
      BY <1>6, <1>a DEF StorageFails
    <2>2. \A j \in Images : Unsettled(j)' => Unsettled(j)
      BY <1>6 DEF StorageFails, Unsettled, ImageLocked
    <2>3. CASE worker[w].tries < MaxRetries
      <3>1. worker[w].tries + 1 \in Attempts
        BY <2>1, <2>3 DEF Attempts
      <3>2. queue' = Put(i, worker[w].tries + 1) /\ dropped' = dropped
        BY <1>6, <2>1, <2>3 DEF StorageFails, Attempts
      <3> QED
        BY <1>6, <2>1, <2>2, <3>1, <3>2, PutAdds, LetGo DEF StorageFails
    <2>4. CASE worker[w].tries = MaxRetries
      <3>1. queue' = queue /\ dropped' = dropped \union {i}
        BY <1>6, <2>1, <2>4 DEF StorageFails
      <3> QED
        BY <1>6, <2>1, <2>2, <3>1, LetGo DEF StorageFails
    <2> QED
      BY <2>1, <2>3, <2>4 DEF Attempts
  <1>7. ASSUME NEW w \in Workers, Refuse(w) PROVE MessageBehind'
    <2>1. PICK i \in Images : worker[w].image = i /\ ingest[i] = "closed"
      BY <1>7, <1>a DEF Refuse
    <2>2. \A j \in Images : ImageLocked(j)' <=> ImageLocked(j)
      BY <1>7 DEF Refuse, ImageLocked
    <2>3. CASE /\ \E refusal \in Refusals : status' = [status EXCEPT ![i] = refusal]
               /\ ~ImageLocked(i)
               /\ UNCHANGED dropped
      <3>1. ~Unsettled(i)'
        BY <1>7, <2>1, <2>2, <2>3 DEF Unsettled, Refuse, Refusals, TypeOK
      <3>2. \A j \in Images : Unsettled(j)' => Unsettled(j)
        BY <1>7, <2>1, <2>2, <2>3, <3>1 DEF Unsettled, Refuse, Refusals, TypeOK
      <3> QED
        BY <1>7, <2>1, <2>3, <3>1, <3>2, LetGo DEF Refuse
    <2>4. CASE UNCHANGED status /\ dropped' = dropped \union {i}
      <3>1. \A j \in Images : Unsettled(j)' => Unsettled(j)
        BY <1>7, <2>2, <2>4 DEF Unsettled, Refuse
      <3> QED
        BY <1>7, <2>1, <2>4, <3>1, LetGo DEF Refuse
    <2> QED
      BY <1>7, <2>1, <2>3, <2>4 DEF Refuse
  <1>8. ASSUME NEW w \in Workers, InsertPrediction(w) PROVE MessageBehind'
    <2>1. \A v \in Workers, j \in Images : Holds(v, j) => Holds(v, j)'
      BY <1>8 DEF InsertPrediction, Holds, TypeOK, WorkerStates
    <2>2. \A j \in Images : Unsettled(j)' => Unsettled(j)
      BY <1>8 DEF InsertPrediction, Unsettled, ImageLocked
    <2> QED
      BY <1>8, <2>1, <2>2 DEF InsertPrediction, MessageBehind
  <1>9. ASSUME NEW w \in Workers, InsertConflict(w) PROVE MessageBehind'
    <2>1. \A j \in Images : Unsettled(j)' => Unsettled(j)
      BY <1>9 DEF InsertConflict, Unsettled, ImageLocked
    <2> QED
      BY <1>9, <1>a, <2>1, LetGo DEF InsertConflict
  <1>10. ASSUME NEW w \in Workers, CommitScore(w) PROVE MessageBehind'
    <2> SUFFICES ASSUME NEW j \in Images, j \notin dropped', Unsettled(j)'
                 PROVE  Held(j)'
      BY DEF MessageBehind, Held
    <2>1. worker[w].image \in Images /\ ingest[worker[w].image] = "closed"
      BY <1>10, <1>a DEF CommitScore
    <2>2. ImageLocked(j)' <=> ImageLocked(j)
      BY <1>10 DEF CommitScore, ImageLocked
    <2>3. j # worker[w].image
      BY <1>10, <2>1, <2>2 DEF CommitScore, Unsettled, TypeOK
    <2>4. Unsettled(j)
      BY <1>10, <2>1, <2>2, <2>3 DEF CommitScore, Unsettled, TypeOK
    <2>5. Held(j)
      BY <1>10, <2>4 DEF CommitScore, MessageBehind, Held
    <2>6. ~Holds(w, j) /\ \A v \in Workers \ {w} : worker'[v] = worker[v]
      BY <1>10, <2>3 DEF CommitScore, Holds, TypeOK
    <2>7. queue' = queue
      BY <1>10 DEF CommitScore
    <2> QED
      BY <2>5, <2>6, <2>7, HeldStays
  <1>11. ASSUME NEW w \in Workers, EnqueueRecompute(w) PROVE MessageBehind'
    <2>1. \A j \in Images : Unsettled(j)' => Unsettled(j)
      BY <1>11 DEF EnqueueRecompute, Unsettled, ImageLocked
    <2>2. ~Holds(w, worker[w].image)
      BY <1>11 DEF EnqueueRecompute, Holds
    <2> QED
      BY <1>11, <1>a, <2>1, <2>2, LetGo DEF EnqueueRecompute
  <1>12. ASSUME NEW w \in Workers, TaskFails(w) PROVE MessageBehind'
    <2>1. \A j \in Images : Unsettled(j)' => Unsettled(j)
      BY <1>12 DEF TaskFails, Unsettled, ImageLocked
    <2> QED
      BY <1>12, <1>a, <2>1, LetGo DEF TaskFails
  <1>13. ASSUME NEW w \in Workers, WorkerKilled(w) PROVE MessageBehind'
    <2>1. \A j \in Images : Unsettled(j)' => Unsettled(j)
      BY <1>13 DEF WorkerKilled, Unsettled, ImageLocked
    <2>2. worker[w].image \in Images /\ worker[w].tries \in Attempts
      BY <1>13, <1>a DEF WorkerKilled
    <2>3. CASE worker[w].owns
      BY <1>13, <2>1, <2>2, <2>3, PutAdds, LetGo DEF WorkerKilled
    <2>4. CASE ~worker[w].owns
      <3>1. ~Holds(w, worker[w].image)
        BY <2>4 DEF Holds
      <3> QED
        BY <1>13, <2>1, <2>2, <2>4, <3>1, LetGo DEF WorkerKilled
    <2> QED
      BY <2>3, <2>4
  <1>14. ASSUME NEW w \in Workers, Redeliver(w) PROVE MessageBehind'
    <2> SUFFICES ASSUME NEW j \in Images, j \notin dropped', Unsettled(j)'
                 PROVE  Held(j)'
      BY DEF MessageBehind, Held
    <2>1. worker[w].image \in Images /\ worker[w].tries \in Attempts
      BY <1>14, <1>a DEF Redeliver
    <2>2. Held(j)
      BY <1>14 DEF Redeliver, Unsettled, ImageLocked, MessageBehind, Held
    <2>3. /\ queue'[worker[w].image][worker[w].tries] > 0
          /\ \A k \in Attempts : queue[j][k] > 0 => queue'[j][k] > 0
      BY <1>14, <2>1, PutAdds DEF Redeliver
    <2>4. \A v \in Workers \ {w} : worker'[v] = worker[v]
      BY <1>14 DEF Redeliver, TypeOK
    <2>5. CASE Holds(w, j)
      BY <2>1, <2>3, <2>5 DEF Holds, Held
    <2>6. CASE ~Holds(w, j)
      BY <2>2, <2>3, <2>4, <2>6, HeldStays
    <2> QED
      BY <2>5, <2>6
  <1>15. ASSUME NEW r \in Requests, NEW i \in Images, ReprocessLoad(r, i)
         PROVE  MessageBehind'
    <2>1. \A j \in Images : Unsettled(j)' => Unsettled(j)
      BY <1>15 DEF ReprocessLoad, Unsettled, ImageLocked, TypeOK
    <2> QED
      BY <1>15, <2>1 DEF ReprocessLoad, MessageBehind, Holds
  <1>16. ASSUME NEW r \in Requests, Supersede(r) PROVE MessageBehind'
    <2>1. \A j \in Images : Unsettled(j)' => Unsettled(j)
      BY <1>16 DEF Supersede, Unsettled, ImageLocked, TypeOK, RequestStates
    <2> QED
      BY <1>16, <2>1 DEF Supersede, MessageBehind, Holds
  <1>16b. ASSUME NEW r \in Requests, Reread(r) PROVE MessageBehind'
    <2>1. \A j \in Images : Unsettled(j)' => Unsettled(j)
      BY <1>16b DEF Reread, Unsettled, ImageLocked, TypeOK, RequestStates
    <2> QED
      BY <1>16b, <2>1 DEF Reread, MessageBehind, Holds
  <1>17. ASSUME NEW r \in Requests, ResetAndEnqueue(r) PROVE MessageBehind'
    <2>1. request[r].image \in Images
      BY <1>17 DEF ResetAndEnqueue, VotesInv, RowsUnderWork
    <2>2. \A j \in Images \ {request[r].image} : Unsettled(j)' => Unsettled(j)
      BY <1>17 DEF ResetAndEnqueue, Unsettled, ImageLocked, TypeOK, RequestStates
    <2> QED
      BY <1>17, <2>1, <2>2, EnqueueHolds DEF ResetAndEnqueue
  <1>18. ASSUME NEW r \in Requests, ReprocessCommit(r) PROVE MessageBehind'
    <2>1. \A j \in Images : ImageLocked(j)' => ImageLocked(j)
      BY <1>18 DEF ReprocessCommit, ImageLocked, TypeOK, IdleRequest
    <2>2. \A j \in Images : Unsettled(j)' => Unsettled(j)
      BY <1>18, <2>1 DEF ReprocessCommit, Unsettled, ImageLocked, TypeOK
    <2> QED
      BY <1>18, <2>2 DEF ReprocessCommit, MessageBehind, Holds
  <1>19. ASSUME NEW r \in Requests, ReprocessAbort(r) PROVE MessageBehind'
    <2>1. \A j \in Images : Unsettled(j)' => Unsettled(j)
      BY <1>19 DEF ReprocessAbort, Unsettled, ImageLocked, TypeOK, IdleRequest
    <2> QED
      BY <1>19, <2>1 DEF ReprocessAbort, MessageBehind, Holds
  <1>20. CASE Recompute
    BY <1>20, Quiet DEF Recompute
  <1>21. CASE UNCHANGED vars
    BY <1>21, Quiet DEF vars
  <1> QED
    BY <1>1, <1>2, <1>3, <1>4, <1>5, <1>6, <1>7, <1>8, <1>9, <1>10, <1>11, <1>12,
       <1>13, <1>14, <1>15, <1>16, <1>16b, <1>17, <1>18, <1>19, <1>20, <1>21
       DEF Next, WorkerStep, WorkerFault, RequestStep

-----------------------------------------------------------------------------
(* Recomputes *)

\* Neither the votes nor what asks for a recompute changes.
LEMMA SameScores ==
  ASSUME RecomputeFollows, dropped \subseteq dropped',
         \A i \in Images : status'[i] = "inferred" => status[i] = "inferred",
         unread \subseteq Images,
         UNCHANGED <<unread, recomputes>>,
         \A w \in Workers : worker[w].pc = "committed" =>
            \/ worker'[w] = worker[w]
            \/ worker[w].image \in dropped'
  PROVE  RecomputeFollows'
  BY DEF RecomputeFollows

LEMMA RecomputeStep == TypeOK /\ VotesInv /\ RecomputeFollows /\ [Next]_vars
                          => RecomputeFollows'
  <1> SUFFICES ASSUME TypeOK, VotesInv, RecomputeFollows, [Next]_vars
               PROVE  RecomputeFollows'
    OBVIOUS
  <1>1. ASSUME NEW i \in Images, IngestHandler(i) \/ IngestCommit(i) \/ IngestAbort(i)
        PROVE  RecomputeFollows'
    BY <1>1, SameScores DEF IngestHandler, IngestCommit, IngestAbort, Enqueue, TypeOK
  <1>2. ASSUME NEW w \in Workers, NEW i \in Images, NEW k \in Attempts,
               Start(w, i, k) \/ Discard(w, i, k)
        PROVE  RecomputeFollows'
    BY <1>2, SameScores DEF Start, Discard, Take, TypeOK
  <1>3. ASSUME NEW w \in Workers,
               StorageFails(w) \/ InsertPrediction(w) \/ InsertConflict(w)
        PROVE  RecomputeFollows'
    BY <1>3, SameScores DEF StorageFails, InsertPrediction, InsertConflict, TypeOK
  <1>4. ASSUME NEW w \in Workers, Refuse(w) PROVE RecomputeFollows'
    <2>1. worker[w].image \in Images
      BY <1>4 DEF Refuse, VotesInv, RowsUnderWork
    <2>2. \A i \in Images : status'[i] = "inferred" => status[i] = "inferred"
      BY <1>4, <2>1 DEF Refuse, Refusals, TypeOK
    <2> QED
      BY <1>4, <2>2, SameScores DEF Refuse, TypeOK
  <1>5. ASSUME NEW w \in Workers, CommitScore(w) PROVE RecomputeFollows'
    <2> SUFFICES ASSUME NEW i \in unread', status'[i] = "inferred", i \notin dropped'
                 PROVE  \/ recomputes' > 0
                        \/ \E v \in Workers : /\ worker'[v].image = i
                                              /\ worker'[v].pc = "committed"
      BY DEF RecomputeFollows
    <2>1. /\ worker'[w].image = worker[w].image /\ worker'[w].pc = "committed"
          /\ \A v \in Workers \ {w} : worker'[v] = worker[v]
          /\ worker[w].pc = "inserted"
      BY <1>5 DEF CommitScore, TypeOK, WorkerStates
    <2>2. CASE i = worker[w].image
      BY <2>1, <2>2
    <2>3. CASE i # worker[w].image
      <3>1. i \in unread /\ status[i] = "inferred" /\ i \notin dropped
        BY <1>5, <2>3 DEF CommitScore, TypeOK
      <3>2. recomputes' = recomputes
        BY <1>5 DEF CommitScore
      <3> QED
        BY <2>1, <3>1, <3>2 DEF RecomputeFollows
    <2> QED
      BY <2>2, <2>3
  <1>6. ASSUME NEW w \in Workers, EnqueueRecompute(w) PROVE RecomputeFollows'
    BY <1>6 DEF EnqueueRecompute, RecomputeFollows, TypeOK
  <1>7. ASSUME NEW w \in Workers, TaskFails(w) \/ WorkerKilled(w)
        PROVE  RecomputeFollows'
    BY <1>7, SameScores DEF TaskFails, WorkerKilled, TypeOK
  <1>8. ASSUME NEW w \in Workers, Redeliver(w) PROVE RecomputeFollows'
    <2>1. \A v \in Workers : /\ worker'[v].pc = worker[v].pc
                             /\ worker'[v].image = worker[v].image
      BY <1>8 DEF Redeliver, TypeOK, WorkerStates
    <2> QED
      BY <1>8, <2>1 DEF Redeliver, RecomputeFollows
  <1>9. ASSUME NEW r \in Requests, NEW i \in Images, ReprocessLoad(r, i)
        PROVE  RecomputeFollows'
    BY <1>9, SameScores DEF ReprocessLoad, TypeOK
  <1>10. ASSUME NEW r \in Requests, Supersede(r) \/ Reread(r) \/ ReprocessAbort(r)
         PROVE  RecomputeFollows'
    BY <1>10, SameScores DEF Supersede, Reread, ReprocessAbort, TypeOK
  <1>11. ASSUME NEW r \in Requests, ResetAndEnqueue(r) PROVE RecomputeFollows'
    BY <1>11, SameScores DEF ResetAndEnqueue, Enqueue, TypeOK
  <1>12. ASSUME NEW r \in Requests, ReprocessCommit(r) PROVE RecomputeFollows'
    <2>1. request[r].image \in Images
      BY <1>12 DEF ReprocessCommit, VotesInv, RowsUnderWork
    <2> SUFFICES ASSUME NEW i \in unread', status'[i] = "inferred", i \notin dropped'
                 PROVE  \/ recomputes' > 0
                        \/ \E v \in Workers : /\ worker'[v].image = i
                                              /\ worker'[v].pc = "committed"
      BY DEF RecomputeFollows
    <2>2. request[r].hit => status'[request[r].image] # "inferred"
      <3>1. request[r].hit => request[r].writes \/ status[request[r].image] # "inferred"
        BY <1>12 DEF ReprocessCommit, VotesInv, HitAlone
      <3> QED
        BY <1>12, <2>1, <3>1 DEF ReprocessCommit, TypeOK
    <2>3. i \in unread /\ i \notin dropped
      BY <1>12, <2>2 DEF ReprocessCommit, TypeOK
    <2>4. status[i] = "inferred"
      BY <1>12, <2>1 DEF ReprocessCommit, TypeOK
    <2> QED
      BY <1>12, <2>3, <2>4 DEF ReprocessCommit, RecomputeFollows
  <1>13. CASE Recompute
    BY <1>13 DEF Recompute, RecomputeFollows
  <1>14. CASE UNCHANGED vars
    BY <1>14 DEF vars, RecomputeFollows
  <1> QED
    BY <1>1, <1>2, <1>3, <1>4, <1>5, <1>6, <1>7, <1>8, <1>9, <1>10, <1>11, <1>12,
       <1>13, <1>14
       DEF Next, WorkerStep, WorkerFault, RequestStep

-----------------------------------------------------------------------------
(* The theorems *)

\* IInv holds in every reachable state, whatever is delivered twice, lost,
\* killed, rolled back or asked for again.
THEOREM Invariance == Spec => []IInv
  <1>1. Init => IInv
    <2> SUFFICES ASSUME Init
                 PROVE  IInv
      OBVIOUS
    <2>1. TypeOK
      BY IdleTyped DEF Init, TypeOK, Status
    <2>2. OneVote /\ InferredVotes /\ RecomputeFollows
      BY DEF Init, OneVote, InferredVotes, RecomputeFollows
    <2>3. RowsUnderWork /\ InsertAlone /\ HitAlone
      BY DEF Init, RowsUnderWork, InsertAlone, HitAlone, IdleWorker, IdleRequest
    <2>4. MessageBehind
      BY DEF Init, MessageBehind, Unsettled, ImageLocked, IdleRequest
    <2> QED
      BY <2>1, <2>2, <2>3, <2>4 DEF IInv
  <1>2. IInv /\ [Next]_vars => IInv'
    BY TypeStep, VotesStep, MessageStep, RecomputeStep DEF IInv, VotesInv
  <1> QED
    BY <1>1, <1>2, PTL DEF Spec

\* Every variable keeps its type; among them, no vote count goes below zero.
THEOREM TypeCorrect == Spec => []TypeOK
  <1>1. IInv => TypeOK
    BY DEF IInv
  <1> QED
    BY <1>1, Invariance, PTL

\* One photograph is never two votes, for any number of deliveries, workers and
\* reprocess requests.
THEOREM NoDoubleVote == Spec => []OneVote
  <1>1. IInv => OneVote
    BY DEF IInv
  <1> QED
    BY <1>1, Invariance, PTL

\* Whatever is shown as scored is counted once.
THEOREM ScoredIsCounted == Spec => []InferredVotes
  <1>1. IInv => InferredVotes
    BY DEF IInv
  <1> QED
    BY <1>1, Invariance, PTL

\* A pending image without a message or a worker is one a message was dropped
\* for: there is no other way to be stuck.
THEOREM PendingHasCause == Spec => []PendingIsOwed
  <1>1. IInv => PendingIsOwed
    BY DEF IInv, MessageBehind, Unsettled, Holds, PendingIsOwed
  <1> QED
    BY <1>1, Invariance, PTL

\* A score nobody has aggregated yet has a recompute coming, unless the task was
\* cut short between its commit and its last call.
THEOREM ScoreIsAggregated == Spec => []RecomputeFollows
  <1>1. IInv => RecomputeFollows
    BY DEF IInv
  <1> QED
    BY <1>1, Invariance, PTL

-----------------------------------------------------------------------------
(* Locks *)

LEMMA NoCircle == IInv => SomebodyGoes
  <1> SUFFICES ASSUME IInv, NEW i \in Images
               PROVE  LET busyWorkers  == {w \in Workers :
                                             worker[w].pc # "idle" /\ worker[w].image = i}
                          busyRequests == {r \in Requests :
                                             request[r].pc # "idle" /\ request[r].image = i}
                      IN  busyWorkers # {} \/ busyRequests # {} =>
                              \/ \E w \in busyWorkers : WorkerGoes(w)
                              \/ \E r \in busyRequests : RequestGoes(r)
    BY DEF SomebodyGoes
  <1> DEFINE busyWorkers  == {w \in Workers : worker[w].pc # "idle" /\ worker[w].image = i}
             busyRequests == {r \in Requests : request[r].pc # "idle" /\ request[r].image = i}
             goal == \/ \E w \in busyWorkers : WorkerGoes(w)
                     \/ \E r \in busyRequests : RequestGoes(r)
  <1>1. /\ \A w \in Workers : worker[w].pc \in {"idle", "loaded", "inserted", "committed"}
        /\ \A r \in Requests :
              request[r].pc \in {"idle", "loaded", "superseded", "reread", "reset"}
    BY DEF IInv, TypeOK, WorkerStates, RequestStates
  \* A request waits for nobody while it rereads the row and once it has reset it.
  <1>2. ASSUME NEW r \in busyRequests, request[r].pc \in {"superseded", "reset"}
        PROVE  goal
    BY <1>2 DEF RequestGoes
  <1>3. ASSUME \A r \in busyRequests : request[r].pc \in {"loaded", "reread"},
               busyWorkers # {} \/ busyRequests # {}
        PROVE  goal
    <2>1. ~ImageLocked(i)
      BY <1>3 DEF ImageLocked
    \* Who waits for a row lock of the image alone goes on.
    <2>2. ASSUME NEW r \in busyRequests, request[r].pc = "reread"
          PROVE  goal
      BY <2>1, <2>2 DEF RequestGoes
    <2>3. ASSUME NEW w \in busyWorkers, worker[w].pc \in {"inserted", "committed"}
          PROVE  goal
      BY <2>1, <2>3 DEF WorkerGoes
    \* If there is none, nobody has written a prediction.
    <2>4. ASSUME \A r \in busyRequests : request[r].pc = "loaded",
                 \A w \in busyWorkers : worker[w].pc = "loaded"
          PROVE  goal
      <3>1. ~PredictionLocked(i)
        <4> SUFFICES ASSUME NEW r \in Requests, request[r].hit, request[r].image = i
                     PROVE  FALSE
          BY DEF PredictionLocked
        <4>1. request[r].pc \in {"superseded", "reread", "reset"}
          BY DEF IInv, HitAlone
        <4> QED BY <2>4, <4>1
      <3>2. ~InsertOpen(i)
        BY <2>4 DEF InsertOpen
      <3>3. ASSUME NEW w \in busyWorkers PROVE goal
        BY <2>1, <2>4, <3>1, <3>2, <3>3 DEF WorkerGoes
      <3>4. ASSUME NEW r \in busyRequests PROVE goal
        BY <2>4, <3>1, <3>4 DEF RequestGoes
      <3> QED BY <1>3, <3>3, <3>4
    <2> QED BY <1>1, <1>3, <2>2, <2>3, <2>4
  <1> QED BY <1>1, <1>2, <1>3

\* Whatever workers and requests hold of a photograph, one of them waits for
\* nobody: with the steps it has left it comes to its end and lets go of what the
\* others wait for.
THEOREM NobodyWaitsInACircle == Spec => []SomebodyGoes
  BY NoCircle, Invariance, PTL

-----------------------------------------------------------------------------
(* Refinement of ImageLedger *)

LEMMA LedgerInit == Init => Ledger!Init
  BY DEF Init, Ledger!Init

\* Three kinds of step move the ledger: an upload's commit, a worker's commit, a
\* reprocess request's commit.  All others leave both variables alone.
LEMMA LedgerStep == IInv /\ [Next]_vars => [Ledger!Next]_<<status, current>>
  <1> SUFFICES ASSUME IInv, [Next]_vars
               PROVE  Ledger!Next \/ UNCHANGED <<status, current>>
    OBVIOUS
  <1> USE DEF Ledger!Next
  <1>1. ASSUME NEW i \in Images, IngestCommit(i) PROVE Ledger!Accept(i)
    BY <1>1 DEF IngestCommit, IInv, RowsUnderWork, Ledger!Accept
  <1>2. ASSUME NEW w \in Workers, Refuse(w)
        PROVE  \/ Ledger!Refuse(worker[w].image)
               \/ UNCHANGED <<status, current>>
    <2>1. status[worker[w].image] # "absent"
      BY <1>2 DEF Refuse, IInv, RowsUnderWork
    <2> QED
      BY <1>2, <2>1 DEF Refuse, Refusals, Ledger!Refuse, Ledger!Refusals
  <1>3. ASSUME NEW w \in Workers, CommitScore(w) PROVE Ledger!Score(worker[w].image)
    <2> DEFINE i == worker[w].image
    <2>1. /\ worker[w].pc = "inserted"
          /\ status' = [status EXCEPT ![i] = "inferred"]
          /\ current' = [current EXCEPT ![i] = @ + 1]
      BY <1>3 DEF CommitScore
    <2>2. i \in Images /\ current[i] = 0 /\ status[i] # "absent"
      BY <2>1 DEF IInv, InsertAlone, RowsUnderWork
    <2>3. status[i] # "inferred"
      BY <2>2 DEF IInv, InferredVotes
    <2>4. current' = [current EXCEPT ![i] = 1]
      BY <2>1, <2>2 DEF IInv, TypeOK
    <2> QED
      BY <2>1, <2>2, <2>3, <2>4 DEF Ledger!Score
  <1>4. ASSUME NEW r \in Requests, ReprocessCommit(r)
        PROVE  \/ Ledger!Reopen(request[r].image)
               \/ Ledger!Withdraw(request[r].image)
               \/ UNCHANGED <<status, current>>
    <2> DEFINE i == request[r].image
    <2>1. /\ request[r].pc = "reset"
          /\ status' = IF request[r].writes
                       THEN [status EXCEPT ![i] = "pending"] ELSE status
          /\ current' = IF request[r].hit THEN [current EXCEPT ![i] = @ - 1] ELSE current
      BY <1>4 DEF ReprocessCommit
    <2>2. i \in Images /\ status[i] # "absent"
      BY <2>1 DEF IInv, RowsUnderWork
    <2>3. CASE request[r].hit
      <3>1. current[i] = 1
        BY <2>3 DEF IInv, HitAlone
      <3>2. current' = [current EXCEPT ![i] = @ - 1]
        BY <2>1, <2>3, Zenon
      <3>3. current' = [current EXCEPT ![i] = 0]
        BY <2>2, <3>1, <3>2 DEF IInv, TypeOK
      <3>4. CASE request[r].writes
        <4>1. status' = [status EXCEPT ![i] = "pending"]
          BY <2>1, <3>4, Zenon
        <4> QED
          BY <2>2, <3>3, <4>1 DEF Ledger!Reopen
      <3>5. CASE ~request[r].writes
        <4>1. UNCHANGED status
          BY <2>1, <3>5, Zenon
        <4>2. status[i] # "inferred"
          BY <2>1, <2>3, <3>5 DEF IInv, HitAlone
        <4> QED
          BY <2>2, <3>3, <4>1, <4>2 DEF Ledger!Withdraw
      <3> QED
        BY <3>4, <3>5, Zenon
    <2>4. CASE ~request[r].hit
      <3>1. current' = current
        BY <2>1, <2>4, Zenon
      <3>2. status' \in {status, [status EXCEPT ![i] = "pending"]}
        BY <2>1
      <3> QED
        BY <2>2, <3>1, <3>2 DEF Ledger!Reopen
    <2> QED
      BY <2>3, <2>4, Zenon
  <1>5. ASSUME NEW i \in Images, IngestHandler(i) \/ IngestAbort(i)
        PROVE  UNCHANGED <<status, current>>
    BY <1>5 DEF IngestHandler, IngestAbort
  <1>6. ASSUME NEW w \in Workers, NEW i \in Images, NEW k \in Attempts,
               Start(w, i, k) \/ Discard(w, i, k)
        PROVE  UNCHANGED <<status, current>>
    BY <1>6 DEF Start, Discard
  <1>7. ASSUME NEW w \in Workers,
               \/ InsertPrediction(w) \/ InsertConflict(w) \/ EnqueueRecompute(w)
               \/ StorageFails(w) \/ TaskFails(w) \/ WorkerKilled(w) \/ Redeliver(w)
        PROVE  UNCHANGED <<status, current>>
    BY <1>7 DEF InsertPrediction, InsertConflict, EnqueueRecompute, StorageFails,
                TaskFails, WorkerKilled, Redeliver
  <1>8. ASSUME NEW r \in Requests, NEW i \in Images, ReprocessLoad(r, i)
        PROVE  UNCHANGED <<status, current>>
    BY <1>8 DEF ReprocessLoad
  <1>9. ASSUME NEW r \in Requests, Supersede(r) \/ ResetAndEnqueue(r) \/ ReprocessAbort(r)
                                    \/ Reread(r)
        PROVE  UNCHANGED <<status, current>>
    BY <1>9 DEF Supersede, Reread, ResetAndEnqueue, ReprocessAbort
  <1>10. CASE Recompute \/ UNCHANGED vars
    BY <1>10 DEF Recompute, vars
  <1>11. /\ \A w \in Workers : worker[w].pc # "idle" => worker[w].image \in Images
         /\ \A r \in Requests : request[r].pc # "idle" => request[r].image \in Images
    BY DEF IInv, RowsUnderWork
  <1>12. ASSUME NEW w \in Workers, WorkerStep(w) \/ WorkerFault(w)
         PROVE  Ledger!Next \/ UNCHANGED <<status, current>>
    <2>1. CASE Refuse(w)
      BY <1>2, <1>11, <2>1 DEF Refuse
    <2>2. CASE CommitScore(w)
      BY <1>3, <1>11, <2>2 DEF CommitScore
    <2> QED
      BY <1>6, <1>7, <1>12, <2>1, <2>2 DEF WorkerStep, WorkerFault
  <1>13. ASSUME NEW r \in Requests, RequestStep(r)
         PROVE  Ledger!Next \/ UNCHANGED <<status, current>>
    <2>1. CASE ReprocessCommit(r)
      BY <1>4, <1>11, <2>1 DEF ReprocessCommit
    <2> QED
      BY <1>9, <1>13, <2>1 DEF RequestStep
  <1> QED
    BY <1>1, <1>5, <1>8, <1>9, <1>10, <1>12, <1>13 DEF Next

\* The pipeline implements the ledger: a vote appears with the status "inferred"
\* and is withdrawn with the status "pending", in one commit each.
THEOREM Refinement == Spec => LedgerSpec
  <1>1. [Ledger!Next]_<<status, current>> <=> [Ledger!Next]_(Ledger!ledger)
    BY DEF Ledger!ledger
  <1> QED
    BY <1>1, LedgerInit, LedgerStep, Invariance, PTL DEF Spec, LedgerSpec, Ledger!Spec
=============================================================================
