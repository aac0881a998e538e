---------------------------- MODULE ModelsProofs -----------------------------
(***************************************************************************)
(* From photographs to predictions, for every value of the constants:      *)
(*                                                                         *)
(*   - serving: whatever predicts was trained through the pipeline it      *)
(*     predicts through.  The check is made where a service is built, so   *)
(*     the invariant follows the service from there: in the memory of a    *)
(*     process (LoadedSoundly), in the task that works with it (Working),  *)
(*     in what is answered and stored;                                     *)
(*   - training: an interrupted run goes on at the schedule of a run that  *)
(*     was never interrupted (ResumesOnSchedule), and what was trained     *)
(*     outlives a crash (NothingTrainedIsLost);                            *)
(*   - dataset: as long as one raw tree is behind all copies, every        *)
(*     photograph is in one split (OneTreeOneSplit).                       *)
(***************************************************************************)
EXTENDS ModelServing, TrainingRun, DatasetSplit,
        FiniteSetTheorems, SequenceTheorems, WellFoundedInduction, TLAPS

-----------------------------------------------------------------------------
(* Serving *)

USE ServingAssumption


(* A service, or none, that may predict.                                   *)
Sound(s) == s # Unloaded => FingerprintsAgree(s)

LoadedSoundly == \A w \in Processes : Sound(service[w])

Working == \A w \in Processes : task[w] # Free => Sound(task[w].by)

\* What is stored names a row that was registered for weights.
Naming == \A w \in Processes :
            task[w].op \in {"inserting", "ready"} => task[w].model \in Weights

AnsweredSoundly == \A c \in Calls : Sound(call[c].by)

StoredSoundly == \A p \in stored : Sound(p.by)

ServingIInv ==
    /\ ServingTypeOK /\ LoadedSoundly /\ Working /\ Naming
    /\ AnsweredSoundly /\ StoredSoundly

LEMMA ServingInitIInv == ServingInit => ServingIInv
  BY DEF ServingInit, ServingIInv, ServingTypeOK, LoadedSoundly, Working, Naming,
         AnsweredSoundly, StoredSoundly, Sound, CallStates, Rows, Free

LEMMA TaskShapes ==
  ASSUME ServingTypeOK, NEW w \in Processes
  PROVE  /\ task[w].op \in {"classified", "inserting", "ready"} =>
              /\ task[w] \in [op : {"classified", "inserting", "ready"},
                              by : Services, model : Rows]
              /\ task[w].by \in Services /\ task[w].model \in Rows /\ task[w] # Free
         /\ task[w].op = "answering" =>
              /\ task[w] \in [op : {"answering"}, by : Services, call : Calls]
              /\ task[w].by \in Services /\ task[w].call \in Calls /\ task[w] # Free
  BY DEF ServingTypeOK, Tasks, Free

(* What a process gets when it builds a service, or has, is sound.         *)
LEMMA BuiltIsSound ==
  ASSUME ServingIInv
  PROVE  build_service \in Services \cup {Unloaded} /\ Sound(build_service)
  BY DEF ServingIInv, ServingTypeOK, build_service, Sound

LEMMA ServingIsSound ==
  ASSUME ServingIInv, NEW w \in Processes
  PROVE  Serving(w) \in Services \cup {Unloaded} /\ Sound(Serving(w))
  <1>1. service[w] \in Services \cup {Unloaded} /\ Sound(service[w])
    BY DEF ServingIInv, ServingTypeOK, LoadedSoundly
  <1> QED BY <1>1, BuiltIsSound DEF Serving

LEMMA ServingStepIInv == ServingIInv /\ [ServingNext]_servingVars => ServingIInv'
  <1> SUFFICES ASSUME ServingIInv, [ServingNext]_servingVars PROVE ServingIInv'
    OBVIOUS
  <1> ServingTypeOK
    BY DEF ServingIInv
  <1> DEFINE Goal == ServingIInv'
  <1> USE DEF ServingIInv
  <1>1. ASSUME NEW s \in Services, Replace(s) PROVE Goal
    BY <1>1 DEF Replace, ServingTypeOK, LoadedSoundly, Working, Naming, AnsweredSoundly,
                StoredSoundly, Sound, FingerprintsAgree
  <1>2. ASSUME NEW w \in Processes, Restart(w) \/ ProcessDies(w) PROVE Goal
    <2>1. service' = [service EXCEPT ![w] = build_service]
      BY <1>2 DEF Restart, ProcessDies
    <2>2. service' \in [Processes -> Services \cup {Unloaded}] /\ LoadedSoundly'
      BY <2>1, BuiltIsSound DEF ServingTypeOK, LoadedSoundly, Sound, FingerprintsAgree
    <2>3. /\ task' \in [Processes -> Tasks \cup {Free}]
          /\ Working' /\ Naming'
          /\ UNCHANGED <<deployed, deploys, active, stored, call>>
          /\ crashes' \in 0 .. MaxCrashes
      BY <1>2 DEF Restart, ProcessDies, ServingTypeOK, Working, Naming, Free,
                  Sound, FingerprintsAgree
    <2> QED
      BY <2>2, <2>3 DEF ServingTypeOK, AnsweredSoundly, StoredSoundly, Sound,
                        FingerprintsAgree
  <1>3. ASSUME NEW w \in Processes, Classify(w) PROVE Goal
    <2> DEFINE s == Serving(w)
    <2>1. s \in Services /\ Sound(s)
      BY <1>3, ServingIsSound DEF Classify
    <2>2. /\ service' = [service EXCEPT ![w] = s]
          /\ task' = [task EXCEPT ![w] =
                        [op |-> "classified", by |-> s, model |-> NoModel]]
          /\ UNCHANGED <<deployed, deploys, active, stored, call, crashes>>
      BY <1>3 DEF Classify
    <2> HIDE DEF s
    <2>3. [op |-> "classified", by |-> s, model |-> NoModel] \in Tasks
      BY <2>1 DEF Tasks, Rows
    <2>4. ServingTypeOK'
      BY <2>1, <2>2, <2>3 DEF ServingTypeOK
    <2>5. LoadedSoundly' /\ Working' /\ Naming'
      BY <2>1, <2>2 DEF ServingTypeOK, LoadedSoundly, Working, Naming, Sound,
                        FingerprintsAgree
    <2> QED
      BY <2>2, <2>4, <2>5 DEF AnsweredSoundly, StoredSoundly, Sound,
                              FingerprintsAgree
  <1>4. ASSUME NEW w \in Processes, FindModel(w) PROVE Goal
    <2>1. PICK new \in Tasks : /\ task' = [task EXCEPT ![w] = new]
                               /\ new.by = task[w].by
                               /\ new.model \in Weights
      <3>1. /\ task[w] \in [op : {"classified", "inserting", "ready"},
                            by : Services, model : Rows]
            /\ task[w].by.weights \in Weights
        BY <1>4, TaskShapes DEF FindModel, Services
      <3>2. active \in Rows
        BY DEF ServingTypeOK
      <3>3. CASE active # NoModel
        <4> DEFINE new == [task[w] EXCEPT !.op = "ready", !.model = active]
        <4>1. new \in Tasks /\ new.by = task[w].by /\ new.model \in Weights
          BY <3>1, <3>2, <3>3 DEF Tasks, Rows
        <4> QED BY <1>4, <3>3, <4>1 DEF FindModel
      <3>4. CASE active = NoModel
        <4> DEFINE new == [task[w] EXCEPT !.op = "inserting",
                                          !.model = task[w].by.weights]
        <4>1. new \in Tasks /\ new.by = task[w].by /\ new.model \in Weights
          BY <3>1 DEF Tasks, Rows
        <4> QED BY <1>4, <3>4, <4>1 DEF FindModel
      <3> QED BY <3>3, <3>4
    <2>2. Sound(task[w].by)
      BY <1>4, TaskShapes DEF FindModel, Working
    <2>3. UNCHANGED <<deployed, deploys, service, active, stored, call, crashes>>
      BY <1>4 DEF FindModel
    <2>4. ServingTypeOK' /\ Working' /\ Naming'
      BY <2>1, <2>2, <2>3 DEF ServingTypeOK, Working, Naming, Sound, FingerprintsAgree
    <2> QED
      BY <2>3, <2>4 DEF LoadedSoundly, AnsweredSoundly, StoredSoundly, Sound,
                        FingerprintsAgree
  <1>5. ASSUME NEW w \in Processes, StorePrediction(w) PROVE Goal
    <2> DEFINE p == [by |-> task[w].by, model |-> task[w].model]
    <2>1. /\ task[w].by \in Services /\ task[w].model \in Rows
          /\ Sound(task[w].by)
      BY <1>5, TaskShapes DEF StorePrediction, Working
    <2>2. stored' = stored \cup {p} /\ task' = [task EXCEPT ![w] = Free]
          /\ UNCHANGED <<deployed, deploys, service, call, crashes>>
          /\ active' \in Rows
      BY <1>5, <2>1 DEF StorePrediction, ServingTypeOK
    <2>3. p.by = task[w].by /\ p.model = task[w].model
      OBVIOUS
    <2>4. p \in [by : Services, model : Weights]
      BY <1>5, <2>1 DEF StorePrediction, Naming
    <2> HIDE DEF p
    <2>5. ServingTypeOK'
      BY <2>2, <2>4 DEF ServingTypeOK
    <2>6. Working' /\ Naming'
      BY <2>2 DEF ServingTypeOK, Working, Naming, Sound, FingerprintsAgree, Free
    <2>7. StoredSoundly'
      BY <2>1, <2>2, <2>3 DEF StoredSoundly, Sound, FingerprintsAgree
    <2> QED
      BY <2>2, <2>5, <2>6, <2>7
      DEF LoadedSoundly, AnsweredSoundly, Sound, FingerprintsAgree
  <1>6. ASSUME NEW w \in Processes, RegistrationConflict(w) PROVE Goal
    BY <1>6 DEF RegistrationConflict, ServingTypeOK, LoadedSoundly, Working, Naming,
                AnsweredSoundly, StoredSoundly, Sound, FingerprintsAgree, Free
  <1>7. ASSUME NEW w \in Processes, ReplyToCall(w) PROVE Goal
    <2> DEFINE c == task[w].call
               answer == [at |-> "ended", by |-> task[w].by]
    <2>1. c \in Calls /\ task[w].by \in Services /\ Sound(task[w].by)
      BY <1>7, TaskShapes DEF ReplyToCall, Working
    <2>2. /\ call' = [call EXCEPT ![c] = answer] \/ call' = call
          /\ task' = [task EXCEPT ![w] = Free]
          /\ UNCHANGED <<deployed, deploys, service, active, stored, crashes>>
      BY <1>7 DEF ReplyToCall
    <2>3. answer \in CallStates /\ Sound(answer.by)
      BY <2>1 DEF CallStates
    <2> HIDE DEF c, answer
    <2>4. ServingTypeOK' /\ AnsweredSoundly'
      BY <2>1, <2>2, <2>3 DEF ServingTypeOK, AnsweredSoundly, Sound,
                              FingerprintsAgree
    <2>5. Working' /\ Naming'
      BY <2>2 DEF ServingTypeOK, Working, Naming, Sound, FingerprintsAgree, Free
    <2> QED
      BY <2>2, <2>4, <2>5 DEF LoadedSoundly, StoredSoundly, Sound, FingerprintsAgree
  <1>8. ASSUME NEW w \in Processes, NEW c \in Calls, TakeCall(w, c) PROVE Goal
    <2> DEFINE s == Serving(w)
               at == IF s = Unloaded THEN "ended" ELSE "taken"
    <2>1. /\ call' = [call EXCEPT ![c].at = at]
          /\ UNCHANGED <<deployed, deploys, active, stored, crashes>>
      BY <1>8 DEF TakeCall
    <2>2. at \in {"ended", "taken"}
      OBVIOUS
    <2>3. call' \in [Calls -> CallStates] /\ AnsweredSoundly'
      <3> HIDE DEF at
      <3> QED BY <2>1, <2>2 DEF ServingTypeOK, CallStates, AnsweredSoundly, Sound,
                                FingerprintsAgree
    <2>4. /\ service' \in [Processes -> Services \cup {Unloaded}]
          /\ task' \in [Processes -> Tasks \cup {Free}]
          /\ LoadedSoundly' /\ Working' /\ Naming'
      <3>1. CASE s = Unloaded
        BY <1>8, <3>1 DEF TakeCall, ServingTypeOK, LoadedSoundly, Working, Naming, Sound,
                          FingerprintsAgree
      <3>2. CASE s # Unloaded
        <4> DEFINE new == [op |-> "answering", by |-> s, call |-> c]
        <4>1. service' = [service EXCEPT ![w] = s] /\ task' = [task EXCEPT ![w] = new]
          BY <1>8, <3>2 DEF TakeCall
        <4>2. s \in Services /\ Sound(s)
          BY <3>2, ServingIsSound
        <4> HIDE DEF s
        <4>3. new \in Tasks /\ new.by = s /\ new.op = "answering"
          BY <4>2 DEF Tasks
        <4> HIDE DEF new
        <4> QED
          BY <4>1, <4>2, <4>3 DEF ServingTypeOK, LoadedSoundly, Working, Naming, Sound,
                                  FingerprintsAgree
      <3> QED BY <3>1, <3>2
    <2> QED
      BY <2>1, <2>3, <2>4 DEF ServingTypeOK, StoredSoundly, Sound, FingerprintsAgree
  <1>9. ASSUME NEW c \in Calls, Ask(c) \/ CallTimesOut(c) PROVE Goal
    <2>1. PICK at \in {"queued", "ended"} : call' = [call EXCEPT ![c].at = at]
      BY <1>9 DEF Ask, CallTimesOut
    <2>2. UNCHANGED <<deployed, deploys, service, task, active, stored, crashes>>
      BY <1>9 DEF Ask, CallTimesOut
    <2>3. call' \in [Calls -> CallStates] /\ AnsweredSoundly'
      BY <2>1 DEF ServingTypeOK, CallStates, AnsweredSoundly, Sound,
                  FingerprintsAgree
    <2> QED
      BY <2>2, <2>3 DEF ServingTypeOK, LoadedSoundly, Working, Naming, StoredSoundly, Sound,
                        FingerprintsAgree
  <1>10. CASE UNCHANGED servingVars
    BY <1>10 DEF servingVars, ServingTypeOK, LoadedSoundly, Working, Naming,
                 AnsweredSoundly, StoredSoundly, Sound, FingerprintsAgree
  <1> QED
    BY <1>1, <1>2, <1>3, <1>4, <1>5, <1>6, <1>7, <1>8, <1>9, <1>10 DEF ServingNext

(* Processes, tasks, registry and calls are well formed, and whatever works, *)
(* answers or was stored came from weights that agree with their pipeline.   *)
THEOREM ServingInvariant == ServingSpec => []ServingIInv
  BY ServingInitIInv, ServingStepIInv, PTL DEF ServingSpec

(* The types of the module, for every size of the deployment.                *)
THEOREM ServingTyped == ServingSpec => []ServingTypeOK
  <1>1. ServingIInv => ServingTypeOK
    BY DEF ServingIInv
  <1> QED BY <1>1, ServingInvariant, PTL

(* Nothing is predicted through another pipeline than its weights were       *)
(* trained through, however often weights and pipeline are replaced under    *)
(* processes that restart or build their service late                        *)
(* (ai/inference/service.py:172-200).                                        *)
THEOREM PredictedAsTrained == ServingSpec => []ServedAsTrained
  <1>1. ServingIInv => ServedAsTrained
    BY DEF ServingIInv, AnsweredSoundly, StoredSoundly, Sound, FingerprintsAgree,
           ServedAsTrained
  <1> QED BY <1>1, ServingInvariant, PTL

HIDE ServingAssumption

-----------------------------------------------------------------------------
(* Training: shapes *)

USE TrainingAssumption


Schedules == [best : Bests, bad : Nat, cuts : Nat]
Trainings == [stage : {"train", "save", "keep", "decide"}, dir : RunDirs, epoch : Nat,
              thawed : BOOLEAN, plateau : Schedules, stopBest : Bests, bad : Nat,
              keptBest : Bests, scores : Seq(TrainScores)]
Saves == [kind : {"whole"}, epoch : Nat, plateau : Schedules, stopBest : Bests,
          keptBest : Bests, scores : Seq(TrainScores)]

TrainingTyped ==
    /\ run \in Trainings \cup {NoRun}
    /\ last \in [RunDirs -> Saves \cup {NoFile, Torn}]
    /\ best \in [RunDirs -> Saves \cup {NoFile, Torn}]
    /\ resumes \in Nat
    /\ saved \in BOOLEAN

\* The schedule of a run that was never interrupted, score after score: what
\* the fold of ResumesWhereItWas computes (UninterruptedIsTheFold), without the
\* recursion.
Uninterrupted(plateau, scores) ==
    \E at \in [0..Len(scores) -> Schedules] :
        /\ at[0] = FreshPlateau
        /\ \A k \in 1..Len(scores) : at[k] = Stepped(at[k - 1], scores[k])
        /\ at[Len(scores)] = plateau

RunIsOnSchedule ==
    run # NoRun =>
        /\ Uninterrupted(run.plateau, run.scores)
        /\ Len(run.scores) = run.epoch + (IF run.stage = "train" THEN 0 ELSE 1)

OnSchedule(c) ==
    c \in Saves => Uninterrupted(c.plateau, c.scores) /\ Len(c.scores) = c.epoch + 1

FilesAreOnSchedule == \A d \in RunDirs : OnSchedule(last[d]) /\ OnSchedule(best[d])

\* As long as nothing was resumed: the first file a run writes is last.pt, the
\* next best.pt, and from then on one of the two is whole whatever happens to
\* the other.
Whole(c) == c.kind = "whole"

OneIsWhole ==
    resumes = 0 =>
        /\ run = NoRun /\ saved => \E d \in RunDirs : Whole(last[d]) \/ Whole(best[d])
        /\ run # NoRun /\ saved =>
              /\ run.stage \in {"train", "save", "decide"} => Whole(best[run.dir])
              /\ run.stage = "keep" =>
                    /\ Whole(last[run.dir])
                    /\ run.keptBest # NoScore => Whole(best[run.dir])
        /\ run # NoRun /\ ~saved => run.stage \in {"train", "save"} /\ run.keptBest = NoScore

TrainingIInv == TrainingTyped /\ RunIsOnSchedule /\ FilesAreOnSchedule /\ OneIsWhole

LEMMA FreshTyped == FreshPlateau \in Schedules /\ Uninterrupted(FreshPlateau, << >>)
  <1>1. FreshPlateau \in Schedules
    BY DEF FreshPlateau, Schedules, Bests
  <1> DEFINE at == [k \in 0..0 |-> FreshPlateau]
  <1>2. at \in [0..Len(<< >>) -> Schedules] /\ at[0] = FreshPlateau
    BY <1>1
  <1> HIDE DEF at
  <1> QED BY <1>1, <1>2 DEF Uninterrupted

LEMMA SteppedTyped ==
  ASSUME NEW plateau \in Schedules, NEW score \in TrainScores
  PROVE  Stepped(plateau, score) \in Schedules
  <1>1. PICK bad \in {0, plateau.bad + 1}, top \in {score, plateau.best},
             cuts \in {plateau.cuts, plateau.cuts + 1} :
           Stepped(plateau, score) = [best |-> top, bad |-> bad, cuts |-> cuts]
    <2>1. plateau = [best |-> plateau.best, bad |-> plateau.bad, cuts |-> plateau.cuts]
      BY DEF Schedules
    <2>2. CASE Improves(score, plateau.best, 0)
      <3>1. Stepped(plateau, score) = [best |-> score, bad |-> 0, cuts |-> plateau.cuts]
        BY <2>1, <2>2 DEF Stepped
      <3> QED BY <3>1
    <2>3. CASE ~Improves(score, plateau.best, 0) /\ plateau.bad < LrPatience
      <3>1. Stepped(plateau, score) =
               [best |-> plateau.best, bad |-> plateau.bad + 1, cuts |-> plateau.cuts]
        BY <2>1, <2>3 DEF Stepped
      <3> QED BY <3>1
    <2>4. CASE ~Improves(score, plateau.best, 0) /\ ~(plateau.bad < LrPatience)
      <3>1. Stepped(plateau, score) =
               [best |-> plateau.best, bad |-> 0, cuts |-> plateau.cuts + 1]
        BY <2>1, <2>4 DEF Stepped
      <3> QED BY <3>1
    <2> QED BY <2>2, <2>3, <2>4
  <1>2. bad \in Nat /\ cuts \in Nat /\ top \in Bests
    BY <1>1 DEF Schedules, Bests
  <1> QED BY <1>1, <1>2 DEF Schedules

LEMMA OneEpochMore ==
  ASSUME NEW plateau \in Schedules, NEW scores \in Seq(TrainScores),
         Uninterrupted(plateau, scores), NEW score \in TrainScores
  PROVE  Uninterrupted(Stepped(plateau, score), Append(scores, score))
  <1> DEFINE n == Len(scores)
             more == Append(scores, score)
             next == Stepped(plateau, score)
  <1>1. PICK at \in [0..n -> Schedules] :
           /\ at[0] = FreshPlateau
           /\ \A k \in 1..n : at[k] = Stepped(at[k - 1], scores[k])
           /\ at[n] = plateau
    BY DEF Uninterrupted
  <1>2. /\ n \in Nat /\ Len(more) = n + 1 /\ more[n + 1] = score
        /\ \A k \in 1..n : more[k] = scores[k]
    BY AppendProperties
  <1>3. next \in Schedules
    BY SteppedTyped
  <1> DEFINE then == [k \in 0..n + 1 |-> IF k = n + 1 THEN next ELSE at[k]]
  <1>4. then \in [0..n + 1 -> Schedules] /\ then[0] = FreshPlateau /\ then[n + 1] = next
    BY <1>1, <1>2, <1>3
  <1>5. ASSUME NEW k \in 1..n + 1 PROVE then[k] = Stepped(then[k - 1], more[k])
    <2>1. CASE k = n + 1
      BY <1>1, <1>2, <2>1
    <2>2. CASE k # n + 1
      BY <1>1, <1>2, <2>2
    <2> QED BY <2>1, <2>2
  <1> HIDE DEF then, more, next
  <1>6. Uninterrupted(next, more)
    BY <1>2, <1>4, <1>5 DEF Uninterrupted
  <1> QED BY <1>6 DEF next, more

-----------------------------------------------------------------------------
(* Training: the fold of a history *)

\* A nonempty set of naturals has a least element, and one of 1..n a greatest.
LEMMA LeastNatural ==
  ASSUME NEW T \in SUBSET Nat, T # {}
  PROVE  \E k \in T : \A j \in T : k <= j
  <1> DEFINE R == OpToRel(<, Nat)
  <1>1. \A j, k \in Nat : <<j, k>> \in R <=> j < k
    BY DEF OpToRel
  <1>2. IsWellFoundedOn(R, Nat)
    BY NatLessThanWellFounded
  <1> HIDE DEF R
  <1>3. T \subseteq Nat
    OBVIOUS
  <1>4. PICK k \in T : \A j \in T : ~(<<j, k>> \in R)
    BY <1>2, <1>3, WFMin, Zenon
  <1>5. ASSUME NEW j \in T PROVE k <= j
    <2>1. j \in Nat /\ k \in Nat /\ ~(j < k)
      BY <1>1, <1>3, <1>4
    <2> QED BY <2>1
  <1> QED BY <1>5

LEMMA MaxIn ==
  ASSUME NEW n \in Nat, NEW s \in SUBSET (1..n), s # {}
  PROVE  Max(s) \in s /\ \A i \in s : Max(s) >= i
  <1> DEFINE below == {n - i : i \in s}
  <1>1. below \in SUBSET Nat /\ below # {}
    <2>1. \A i \in s : n - i \in Nat
      OBVIOUS
    <2> QED BY <2>1
  <1>2. PICK b \in below : \A c \in below : b <= c
    BY <1>1, LeastNatural
  <1>3. PICK x \in s : b = n - x
    BY <1>2
  <1>4. ASSUME NEW i \in s PROVE x >= i
    <2>1. b <= n - i
      BY <1>2
    <2> QED BY <1>3, <2>1
  <1>5. \E y \in s : \A i \in s : y >= i
    BY <1>4
  <1> HIDE DEF below
  <1> QED BY <1>5 DEF Max

LEMMA MaxOfPrefix ==
  ASSUME NEW k \in Nat, NEW s \in SUBSET (1..k), k \in s
  PROVE  Max(s) = k
  <1>1. s # {}
    OBVIOUS
  <1>2. Max(s) \in s /\ \A i \in s : Max(s) >= i
    BY <1>1, MaxIn
  <1>3. s \subseteq 1..k
    OBVIOUS
  <1>4. Max(s) \in 1..k /\ Max(s) >= k
    BY <1>2, <1>3
  <1> QED BY <1>4

\* One round of the fold of ResumesWhereItWas, and that `it` is the function
\* it is the recursion of.
Folded(it, s, scores) == IF s = {} THEN FreshPlateau
                         ELSE Stepped(it[s \ {Max(s)}], scores[Max(s)])
FoldsUpTo(it, k, scores) == it = [s \in SUBSET (1..k) |-> Folded(it, s, scores)]

\* The recursion has a solution: the shortest history without one would get
\* one from the history before it.
LEMMA FoldExists ==
  ASSUME NEW scores, NEW n \in Nat
  PROVE  \E it : FoldsUpTo(it, n, scores)
  <1> DEFINE T == {k \in Nat : ~ \E it : FoldsUpTo(it, k, scores)}
  <1>1. SUFFICES T = {}
    OBVIOUS
  <1>2. SUFFICES ASSUME T # {} PROVE FALSE
    OBVIOUS
  <1>3. PICK k \in T : \A j \in T : k <= j
    BY <1>2, LeastNatural
  <1>4. k # 0
    <2> DEFINE it == [s \in SUBSET (1..0) |-> FreshPlateau]
    <2>1. \A s \in SUBSET (1..0) : s = {}
      OBVIOUS
    <2>2. [s \in SUBSET (1..0) |-> Folded(it, s, scores)] = it
      BY <2>1 DEF Folded
    <2> QED BY <2>2 DEF FoldsUpTo
  <1>5. k - 1 \in Nat /\ k - 1 \notin T
    BY <1>3, <1>4
  <1>6. PICK f : FoldsUpTo(f, k - 1, scores)
    BY <1>5
  <1> DEFINE j == k - 1
             g == [s \in SUBSET (1..k) |->
                     IF k \in s THEN Stepped(f[s \ {k}], scores[k]) ELSE f[s]]
  <1>7. ASSUME NEW s \in SUBSET (1..k) PROVE g[s] = Folded(g, s, scores)
    <2>1. CASE k \in s
      <3>1. Max(s) = k
        BY <1>5, <2>1, MaxOfPrefix
      <3>2. s \ {k} \in SUBSET (1..k) /\ k \notin s \ {k}
        OBVIOUS
      <3>3. g[s \ {k}] = f[s \ {k}]
        BY <3>2
      <3> QED BY <2>1, <3>1, <3>3 DEF Folded
    <2>2. CASE k \notin s
      <3>1. s \in SUBSET (1..k - 1)
        BY <1>3, <2>2
      <3>2. f[s] = Folded(f, s, scores)
        BY <1>6, <3>1 DEF FoldsUpTo
      <3>3. CASE s = {}
        BY <2>2, <3>2, <3>3 DEF Folded
      <3>4. CASE s # {}
        <4>1. Max(s) \in s
          BY <1>5, <3>1, <3>4, MaxIn
        <4>2. s \ {Max(s)} \in SUBSET (1..k) /\ k \notin s \ {Max(s)}
          BY <2>2
        <4>3. g[s \ {Max(s)}] = f[s \ {Max(s)}]
          BY <4>2
        <4> QED BY <2>2, <3>2, <3>4, <4>3 DEF Folded
      <3> QED BY <3>3, <3>4
    <2> QED BY <2>1, <2>2
  <1>8. g = [s \in SUBSET (1..k) |-> Folded(g, s, scores)]
    <2>1. g = [s \in SUBSET (1..k) |-> g[s]]
      OBVIOUS
    <2> HIDE DEF g
    <2> QED BY <1>7, <2>1
  <1> QED BY <1>3, <1>8 DEF FoldsUpTo

LEMMA FoldUnfolds ==
  ASSUME NEW scores \in Seq(TrainScores)
  PROVE  \E it : FoldsUpTo(it, Len(scores), scores)
                 /\ FoldLeft(Stepped, FreshPlateau, scores) = it[1..Len(scores)]
  <1>1. DOMAIN scores = 1..Len(scores) /\ Len(scores) \in Nat
    BY LenProperties
  <1> DEFINE it == CHOOSE it : it = [s \in SUBSET (1..Len(scores)) |->
                      IF s = {} THEN FreshPlateau
                      ELSE Stepped(it[s \ {Max(s)}], scores[Max(s)])]
  <1>2. \E f : f = [s \in SUBSET (1..Len(scores)) |->
                      IF s = {} THEN FreshPlateau
                      ELSE Stepped(f[s \ {Max(s)}], scores[Max(s)])]
    BY <1>1, FoldExists DEF FoldsUpTo, Folded
  <1>3. it = [s \in SUBSET (1..Len(scores)) |->
                      IF s = {} THEN FreshPlateau
                      ELSE Stepped(it[s \ {Max(s)}], scores[Max(s)])]
    BY <1>2
  <1>4. FoldLeft(Stepped, FreshPlateau, scores) = it[1..Len(scores)]
    BY <1>1 DEF FoldLeft, MapThenFoldSet
  <1>5. FoldsUpTo(it, Len(scores), scores)
    BY <1>3 DEF FoldsUpTo, Folded
  <1> QED BY <1>4, <1>5

\* The witness of Uninterrupted and the fold go the same way: the first score
\* after which they differ would be one where they take the same step.
LEMMA UninterruptedIsTheFold ==
  ASSUME NEW plateau, NEW scores \in Seq(TrainScores), Uninterrupted(plateau, scores)
  PROVE  plateau = FoldLeft(Stepped, FreshPlateau, scores)
  <1> DEFINE n == Len(scores)
  <1>1. PICK at \in [0..n -> Schedules] :
           /\ at[0] = FreshPlateau
           /\ \A k \in 1..n : at[k] = Stepped(at[k - 1], scores[k])
           /\ at[n] = plateau
    BY DEF Uninterrupted
  <1>2. PICK it : FoldsUpTo(it, n, scores) /\ FoldLeft(Stepped, FreshPlateau, scores) = it[1..n]
    BY FoldUnfolds
  <1>3. n \in Nat
    BY LenProperties
  <1> HIDE DEF n
  <1> DEFINE T == {k \in 0..n : it[1..k] # at[k]}
  <1>4. CASE T = {}
    BY <1>1, <1>2, <1>3, <1>4
  <1>5. CASE T # {}
    <2>0. T \in SUBSET Nat
      BY <1>3
    <2>1. PICK k \in T : \A j \in T : k <= j
      BY <1>5, <2>0, LeastNatural
    <2>2. 1..k \in SUBSET (1..n) /\ k \in 0..n
      BY <2>1, <1>3
    <2>3. it[1..k] = Folded(it, 1..k, scores)
      BY <1>2, <2>2 DEF FoldsUpTo
    <2>4. CASE k = 0
      <3>1. 1..k = {}
        BY <2>4
      <3> QED BY <1>1, <2>1, <2>3, <2>4, <3>1 DEF Folded
    <2>5. CASE k # 0
      <3>1. k - 1 \in 0..n /\ k - 1 \notin T
        BY <1>3, <2>1, <2>2, <2>5
      <3>2. it[1..k - 1] = at[k - 1]
        BY <3>1
      <3>3. Max(1..k) = k
        <4>1. k \in Nat /\ k \in 1..k /\ 1..k \in SUBSET (1..k)
          BY <1>3, <2>2, <2>5
        <4> QED BY <4>1, MaxOfPrefix
      <3>4. (1..k) \ {k} = 1..k - 1 /\ 1..k # {}
        <4>1. k \in Nat /\ k >= 1
          BY <1>3, <2>2, <2>5
        <4>2. \A i : i \in (1..k) \ {k} <=> i \in 1..k - 1
          BY <4>1
        <4>3. k \in 1..k
          BY <4>1
        <4> QED BY <4>2, <4>3
      <3>5. it[1..k] = Stepped(it[1..k - 1], scores[k])
        BY <2>3, <3>3, <3>4 DEF Folded
      <3>6. at[k] = Stepped(at[k - 1], scores[k])
        BY <1>1, <2>2, <2>5
      <3> QED BY <2>1, <3>2, <3>5, <3>6
    <2> QED BY <2>4, <2>5
  <1> QED BY <1>4, <1>5

-----------------------------------------------------------------------------
(* Training: steps *)

LEMMA BeginKeeps ==
  ASSUME TrainingIInv, NEW d \in RunDirs, Begin(d)
  PROVE  TrainingIInv'
  <1> DEFINE new == [stage |-> "train", dir |-> d, epoch |-> 0, thawed |-> FALSE,
                     plateau |-> FreshPlateau, stopBest |-> NoScore, bad |-> 0,
                     keptBest |-> NoScore, scores |-> << >>]
  <1>1. run = NoRun /\ run' = new /\ UNCHANGED <<last, best, resumes, saved>>
    BY DEF Begin
  <1>2. new \in Trainings
    BY FreshTyped DEF Trainings, Bests
  <1>3. /\ new # NoRun /\ new.stage = "train" /\ new.keptBest = NoScore /\ new.epoch = 0
        /\ new.plateau = FreshPlateau /\ new.scores = << >>
    BY DEF NoRun
  <1>4. resumes = 0 => ~saved
    <2>1. \A e \in RunDirs : ~Whole(last[e]) /\ ~Whole(best[e])
      BY DEF Begin, Unused, Whole, NoFile
    <2> QED BY <1>1, <2>1 DEF TrainingIInv, OneIsWhole
  <1> HIDE DEF new
  <1>5. TrainingTyped'
    BY <1>1, <1>2 DEF TrainingIInv, TrainingTyped
  <1>6. RunIsOnSchedule'
    BY <1>1, <1>3, FreshTyped DEF RunIsOnSchedule
  <1>7. FilesAreOnSchedule' /\ OneIsWhole'
    BY <1>1, <1>3, <1>4 DEF TrainingIInv, FilesAreOnSchedule, OneIsWhole
  <1> QED BY <1>5, <1>6, <1>7 DEF TrainingIInv

LEMMA ResumeKeeps ==
  ASSUME TrainingIInv, NEW source \in RunDirs, NEW d \in RunDirs,
         Resume(last[source], d) \/ Resume(best[source], d)
  PROVE  TrainingIInv'
  <1>1. PICK c \in {last[source], best[source]} : Resume(c, d)
    OBVIOUS
  <1>2. c \in Saves /\ OnSchedule(c)
    BY <1>1 DEF Resume, TrainingIInv, TrainingTyped, FilesAreOnSchedule, NoFile, Torn
  <1>3. /\ run' = Resumed(c, d) /\ resumes' = resumes + 1
        /\ UNCHANGED <<last, best, saved>>
    BY <1>1 DEF Resume
  <1>4. Resumed(c, d) \in Trainings
    BY <1>2 DEF Resumed, Trainings, Saves
  <1>5. /\ Resumed(c, d).plateau = c.plateau /\ Resumed(c, d).scores = c.scores
        /\ Resumed(c, d).stage = "train" /\ Resumed(c, d).epoch = c.epoch + 1
    BY DEF Resumed
  <1>6. TrainingTyped'
    BY <1>3, <1>4 DEF TrainingIInv, TrainingTyped
  <1>7. RunIsOnSchedule'
    <2>1. Len(c.scores) = c.epoch + 1 + 0 /\ Uninterrupted(c.plateau, c.scores)
      BY <1>2 DEF OnSchedule, Saves
    <2> QED BY <1>3, <1>5, <2>1 DEF RunIsOnSchedule
  <1>8. FilesAreOnSchedule' /\ OneIsWhole'
    BY <1>3 DEF TrainingIInv, TrainingTyped, FilesAreOnSchedule, OneIsWhole
  <1> QED BY <1>6, <1>7, <1>8 DEF TrainingIInv

LEMMA EpochKeeps ==
  ASSUME TrainingIInv, NEW score \in TrainScores, TrainEpoch(score)
  PROVE  TrainingIInv'
  <1>1. run \in Trainings /\ run.stage = "train" /\ run # NoRun
    BY DEF TrainEpoch, TrainingIInv, TrainingTyped, NoRun
  <1> DEFINE thawed == run.thawed \/ run.epoch = FrozenEpochs
             plateau == Stepped(run.plateau, score)
             scores == Append(run.scores, score)
             new == [run EXCEPT !.stage = "save", !.thawed = thawed, !.plateau = plateau,
                                !.scores = scores]
  <1>2. run' = new /\ UNCHANGED <<last, best, resumes, saved>>
    BY DEF TrainEpoch
  <1>3. run.plateau \in Schedules /\ run.scores \in Seq(TrainScores) /\ run.epoch \in Nat
        /\ run.thawed \in BOOLEAN
    BY <1>1 DEF Trainings
  <1>4. plateau \in Schedules /\ scores \in Seq(TrainScores) /\ thawed \in BOOLEAN
        /\ Len(scores) = Len(run.scores) + 1
    BY <1>3, SteppedTyped, AppendProperties
  <1>5. Uninterrupted(plateau, scores) /\ Len(run.scores) = run.epoch + 0
    BY <1>1, <1>3, OneEpochMore DEF TrainingIInv, RunIsOnSchedule
  <1> HIDE DEF plateau, scores, thawed
  <1>6. new \in Trainings
    BY <1>1, <1>4 DEF Trainings
  <1>7. /\ new.stage = "save" /\ new.plateau = plateau /\ new.scores = scores
        /\ new.epoch = run.epoch /\ new.dir = run.dir /\ new.keptBest = run.keptBest
    BY <1>1 DEF Trainings
  <1> HIDE DEF new
  <1>8. new # NoRun
    BY <1>7 DEF NoRun
  <1>9. RunIsOnSchedule'
    BY <1>2, <1>3, <1>4, <1>5, <1>7 DEF RunIsOnSchedule
  <1>10. OneIsWhole'
    BY <1>1, <1>2, <1>7, <1>8 DEF TrainingIInv, OneIsWhole
  <1> QED
    BY <1>2, <1>6, <1>9, <1>10 DEF TrainingIInv, TrainingTyped, FilesAreOnSchedule

LEMMA PayloadTyped ==
  ASSUME TrainingIInv, run # NoRun, run.stage # "train"
  PROVE  Payload \in Saves /\ OnSchedule(Payload)
  <1>1. run \in Trainings
    BY DEF TrainingIInv, TrainingTyped
  <1>2. Payload \in Saves
    BY <1>1 DEF Payload, Trainings, Saves
  <1>3. Payload.plateau = run.plateau /\ Payload.scores = run.scores /\ Payload.epoch = run.epoch
    BY DEF Payload
  <1> QED BY <1>2, <1>3 DEF OnSchedule, TrainingIInv, RunIsOnSchedule

\* Files are written, the run keeps its weights and moves on within the epoch.
LEMMA StageKeeps ==
  ASSUME TrainingIInv, run # NoRun, run.stage # "train",
         NEW stage \in {"keep", "decide"}, NEW kept \in Bests,
         run' = [run EXCEPT !.stage = stage, !.keptBest = kept],
         \A d \in RunDirs : last'[d] \in {last[d], Payload} /\ best'[d] \in {best[d], Payload},
         last' \in [RunDirs -> Saves \cup {NoFile, Torn}],
         best' \in [RunDirs -> Saves \cup {NoFile, Torn}],
         resumes' = resumes, saved' \in BOOLEAN,
         OneIsWhole'
  PROVE  TrainingIInv'
  <1>1. run \in Trainings
    BY DEF TrainingIInv, TrainingTyped
  <1>2. run' \in Trainings /\ run'.stage = stage /\ run'.plateau = run.plateau
        /\ run'.scores = run.scores /\ run'.epoch = run.epoch
    BY <1>1 DEF Trainings
  <1>3. RunIsOnSchedule'
    BY <1>2 DEF TrainingIInv, RunIsOnSchedule
  <1>4. FilesAreOnSchedule'
    BY PayloadTyped DEF TrainingIInv, FilesAreOnSchedule
  <1> QED BY <1>2, <1>3, <1>4 DEF TrainingIInv, TrainingTyped

LEMMA SaveKeeps ==
  ASSUME TrainingIInv, SaveLast
  PROVE  TrainingIInv'
  <1>1. run \in Trainings /\ run.stage = "save" /\ run # NoRun
    BY DEF SaveLast, TrainingIInv, TrainingTyped, NoRun
  <1>2. Payload \in Saves /\ Payload.kind = "whole"
    BY <1>1, PayloadTyped DEF Payload
  <1>3. /\ last' = [last EXCEPT ![run.dir] = Payload] /\ run' = [run EXCEPT !.stage = "keep"]
        /\ saved' = TRUE /\ UNCHANGED <<best, resumes>>
    BY DEF SaveLast
  <1>4. run.dir \in RunDirs /\ run.keptBest \in Bests
    BY <1>1 DEF Trainings
  <1>5. run' = [run EXCEPT !.stage = "keep", !.keptBest = run.keptBest]
        /\ run'.stage = "keep" /\ run'.dir = run.dir /\ run'.keptBest = run.keptBest /\ run' # NoRun
    BY <1>1, <1>3 DEF Trainings, NoRun
  <1>6. /\ last' \in [RunDirs -> Saves \cup {NoFile, Torn}]
        /\ best' \in [RunDirs -> Saves \cup {NoFile, Torn}]
        /\ last'[run.dir] = Payload
        /\ \A d \in RunDirs : last'[d] \in {last[d], Payload} /\ best'[d] \in {best[d], Payload}
    BY <1>2, <1>3, <1>4 DEF TrainingIInv, TrainingTyped
  <1>7. OneIsWhole'
    BY <1>1, <1>2, <1>3, <1>5, <1>6 DEF OneIsWhole, Whole, TrainingIInv
  <1> QED BY <1>1, <1>3, <1>4, <1>5, <1>6, <1>7, StageKeeps

LEMMA KeepKeeps ==
  ASSUME TrainingIInv, KeepBest
  PROVE  TrainingIInv'
  <1>1. run \in Trainings /\ run.stage = "keep" /\ run # NoRun
    BY DEF KeepBest, TrainingIInv, TrainingTyped, NoRun
  <1>2. Payload \in Saves /\ Payload.kind = "whole"
    BY <1>1, PayloadTyped DEF Payload
  <1>3. PICK kept \in {LastScore, run.keptBest} :
           /\ best' = IF IsBest THEN [best EXCEPT ![run.dir] = Payload] ELSE best
           /\ run' = [run EXCEPT !.stage = "decide", !.keptBest = kept]
           /\ UNCHANGED <<last, resumes, saved>>
    BY DEF KeepBest
  <1>4. run.dir \in RunDirs /\ run.keptBest \in Bests /\ run.scores \in Seq(TrainScores)
        /\ run.epoch \in Nat
    BY <1>1 DEF Trainings
  <1>5. LastScore \in TrainScores
    <2>1. Len(run.scores) = run.epoch + 1
      BY <1>1 DEF TrainingIInv, RunIsOnSchedule
    <2> QED BY <1>4, <2>1, LenProperties DEF LastScore
  <1>6. kept \in Bests
    BY <1>3, <1>4, <1>5 DEF Bests
  <1>7. run'.stage = "decide" /\ run'.dir = run.dir /\ run' # NoRun
    BY <1>1, <1>3 DEF Trainings, NoRun
  <1>8. /\ last' \in [RunDirs -> Saves \cup {NoFile, Torn}]
        /\ best' \in [RunDirs -> Saves \cup {NoFile, Torn}]
        /\ best'[run.dir] = IF IsBest THEN Payload ELSE best[run.dir]
        /\ \A d \in RunDirs : last'[d] \in {last[d], Payload} /\ best'[d] \in {best[d], Payload}
    BY <1>2, <1>3, <1>4 DEF TrainingIInv, TrainingTyped
  <1>9. run.keptBest = NoScore => IsBest
    BY DEF IsBest, Improves
  <1>10. OneIsWhole'
    BY <1>1, <1>2, <1>3, <1>7, <1>8, <1>9 DEF OneIsWhole, Whole, TrainingIInv
  <1> QED BY <1>1, <1>3, <1>6, <1>8, <1>10, StageKeeps DEF TrainingIInv, TrainingTyped

LEMMA DecideKeeps ==
  ASSUME TrainingIInv, Decide \/ Finish
  PROVE  TrainingIInv'
  <1>1. run \in Trainings /\ run # NoRun /\ UNCHANGED <<last, best, resumes, saved>>
    BY DEF Decide, Finish, TrainingIInv, TrainingTyped, NoRun
  <1>2. run.scores \in Seq(TrainScores) /\ run.epoch \in Nat /\ run.stopBest \in Bests
        /\ run.bad \in Nat /\ run.dir \in RunDirs
    BY <1>1 DEF Trainings
  <1>3. CASE run' = NoRun
    <2>1. TrainingTyped' /\ RunIsOnSchedule' /\ FilesAreOnSchedule'
      BY <1>1, <1>3 DEF TrainingIInv, TrainingTyped, RunIsOnSchedule, FilesAreOnSchedule
    <2>2. run.stage \in {"decide", "train"}
      BY DEF Decide, Finish
    <2>3. OneIsWhole'
      BY <1>1, <1>2, <1>3, <2>2 DEF TrainingIInv, OneIsWhole
    <2> QED BY <2>1, <2>3 DEF TrainingIInv
  <1>4. CASE Decide /\ run' # NoRun
    <2>1. PICK bad \in {0, run.bad + 1}, stopBest \in {LastScore, run.stopBest} :
             run' = [run EXCEPT !.stage = "train", !.epoch = run.epoch + 1, !.bad = bad,
                                !.stopBest = stopBest]
      BY <1>4 DEF Decide
    <2>2. run.stage = "decide" /\ Len(run.scores) = run.epoch + 1
      BY <1>1, <1>4 DEF Decide, TrainingIInv, RunIsOnSchedule
    <2>3. LastScore \in TrainScores
      BY <1>2, <2>2, LenProperties DEF LastScore
    <2>4. bad \in Nat /\ stopBest \in Bests
      BY <1>2, <2>1, <2>3 DEF Bests
    <2> DEFINE epoch == run.epoch + 1
    <2>5. run' \in Trainings
      <3>1. epoch \in Nat
        BY <1>2
      <3>2. run' = [run EXCEPT !.stage = "train", !.epoch = epoch, !.bad = bad,
                               !.stopBest = stopBest]
        BY <2>1
      <3> HIDE DEF epoch
      <3>3. "train" \in {"train", "save", "keep", "decide"}
        OBVIOUS
      <3> QED BY <1>1, <2>4, <3>1, <3>2, <3>3 DEF Trainings
    <2>6. /\ run'.stage = "train" /\ run'.epoch = run.epoch + 1 /\ run'.plateau = run.plateau
          /\ run'.scores = run.scores /\ run'.dir = run.dir /\ run'.keptBest = run.keptBest
      BY <1>1, <2>1 DEF Trainings
    <2>7. RunIsOnSchedule'
      BY <1>1, <1>2, <2>2, <2>6 DEF TrainingIInv, RunIsOnSchedule
    <2>8. OneIsWhole'
      BY <1>1, <1>4, <2>2, <2>6 DEF TrainingIInv, OneIsWhole
    <2> QED
      BY <1>1, <2>5, <2>7, <2>8 DEF TrainingIInv, TrainingTyped, FilesAreOnSchedule
  <1> QED BY <1>3, <1>4 DEF Finish

LEMMA DeathKeeps ==
  ASSUME TrainingIInv, Dies
  PROVE  TrainingIInv'
  <1>1. run \in Trainings /\ run # NoRun /\ run' = NoRun /\ UNCHANGED <<resumes, saved>>
    BY DEF Dies, TrainingIInv, TrainingTyped
  <1>2. run.dir \in RunDirs /\ run.stage \in {"train", "save", "keep", "decide"}
    BY <1>1 DEF Trainings
  <1>3. PICK torn \in SUBSET {"last", "best"} :
           /\ last' = IF "last" \in torn THEN [last EXCEPT ![run.dir] = Torn] ELSE last
           /\ best' = IF "best" \in torn THEN [best EXCEPT ![run.dir] = Torn] ELSE best
           /\ "last" \in torn => run.stage = "save" /\ "best" \notin torn
           /\ "best" \in torn => run.stage = "keep" /\ "last" \notin torn
    <2>1. CASE UNCHANGED <<last, best>>
      <3>1. {} \in SUBSET {"last", "best"}
        OBVIOUS
      <3> QED BY <2>1, <3>1
    <2>2. CASE run.stage = "save" /\ last' = [last EXCEPT ![run.dir] = Torn] /\ UNCHANGED best
      <3>1. {"last"} \in SUBSET {"last", "best"}
        OBVIOUS
      <3> QED BY <2>2, <3>1
    <2>3. CASE run.stage = "keep" /\ best' = [best EXCEPT ![run.dir] = Torn] /\ UNCHANGED last
      <3>1. {"best"} \in SUBSET {"last", "best"}
        OBVIOUS
      <3> QED BY <2>3, <3>1
    <2> QED BY <2>1, <2>2, <2>3 DEF Dies
  <1>4. TrainingTyped'
    BY <1>1, <1>3 DEF TrainingIInv, TrainingTyped
  <1>5. Torn \notin Saves
    BY DEF Torn, Saves
  <1>6. FilesAreOnSchedule'
    BY <1>2, <1>3, <1>5 DEF TrainingIInv, TrainingTyped, FilesAreOnSchedule, OnSchedule
  <1>7. OneIsWhole'
    <2> SUFFICES ASSUME resumes = 0, saved
                 PROVE  \E d \in RunDirs : Whole(last'[d]) \/ Whole(best'[d])
      BY <1>1 DEF OneIsWhole
    <2>1. CASE run.stage = "keep"
      <3>1. Whole(last[run.dir]) /\ last' = last
        BY <1>1, <1>3, <2>1 DEF TrainingIInv, OneIsWhole
      <3> QED BY <1>2, <3>1
    <2>2. CASE run.stage # "keep"
      <3>1. Whole(best[run.dir]) /\ best' = best
        BY <1>1, <1>2, <1>3, <2>2 DEF TrainingIInv, OneIsWhole
      <3> QED BY <1>2, <3>1
    <2> QED BY <2>1, <2>2
  <1> QED BY <1>1, <1>4, <1>6, <1>7 DEF TrainingIInv, RunIsOnSchedule

(* What a checkpoint holds, what a run goes on with and which file is whole. *)
THEOREM TrainingInvariant == TrainingSpec => []TrainingIInv
  <1>1. TrainingInit => TrainingIInv
    <2> SUFFICES ASSUME TrainingInit PROVE TrainingIInv
      OBVIOUS
    <2>1. TrainingTyped
      BY DEF TrainingInit, TrainingTyped
    <2>2. NoFile \notin Saves
      BY DEF NoFile, Saves
    <2>3. \A d \in RunDirs : last[d] = NoFile /\ best[d] = NoFile
      BY DEF TrainingInit
    <2>4. FilesAreOnSchedule
      BY <2>2, <2>3 DEF FilesAreOnSchedule, OnSchedule
    <2>5. run = NoRun /\ ~saved
      BY DEF TrainingInit
    <2> QED BY <2>1, <2>4, <2>5 DEF TrainingIInv, RunIsOnSchedule, OneIsWhole
  <1>2. TrainingIInv /\ [TrainingNext]_trainingVars => TrainingIInv'
    <2>1. CASE UNCHANGED trainingVars
      BY <2>1 DEF trainingVars, TrainingIInv, TrainingTyped, RunIsOnSchedule,
                  FilesAreOnSchedule, OneIsWhole
    <2> QED
      BY <2>1, BeginKeeps, ResumeKeeps, EpochKeeps, SaveKeeps, KeepKeeps, DecideKeeps, DeathKeeps
      DEF TrainingNext
  <1> QED BY <1>1, <1>2, PTL DEF TrainingSpec

(* A crash leaves what was trained so far (trainer.py:187-188), for every   *)
(* number of directories and epochs and whatever scores they get.           *)
THEOREM NothingTrainedIsLost == TrainingSpec => []NothingIsLost
  <1>1. TrainingIInv => NothingIsLost
    <2> SUFFICES ASSUME TrainingIInv, saved, resumes = 0
                 PROVE  \E d \in RunDirs : Whole(last[d]) \/ Whole(best[d])
      BY DEF NothingIsLost, Whole
    <2>1. run # NoRun => /\ run.dir \in RunDirs
                         /\ run.stage \in {"train", "save", "keep", "decide"}
      BY DEF TrainingIInv, TrainingTyped, Trainings
    <2> QED BY <2>1 DEF TrainingIInv, OneIsWhole
  <1> QED BY <1>1, TrainingInvariant, PTL

(* A run that was resumed, however often and from either file, goes on at   *)
(* the epoch and the learning rate of one that was never interrupted        *)
(* (trainer.py:242-253).                                                    *)
THEOREM ResumesOnSchedule == TrainingSpec => []ResumesWhereItWas
  <1>1. TrainingIInv => ResumesWhereItWas
    <2> SUFFICES ASSUME TrainingIInv, run # NoRun
                 PROVE  /\ run.plateau = FoldLeft(Stepped, FreshPlateau, run.scores)
                        /\ Len(run.scores) =
                              run.epoch + (IF run.stage = "train" THEN 0 ELSE 1)
      BY DEF ResumesWhereItWas
    <2>1. run.scores \in Seq(TrainScores)
      BY DEF TrainingIInv, TrainingTyped, Trainings
    <2>2. RunIsOnSchedule
      BY DEF TrainingIInv
    <2> QED BY <2>1, <2>2, UninterruptedIsTheFold DEF RunIsOnSchedule
  <1> QED BY <1>1, TrainingInvariant, PTL

HIDE TrainingAssumption

-----------------------------------------------------------------------------
(* The split *)

USE SplitAssumption


RowsOf(plan) == {[photo |-> p, split |-> plan.assignment[GroupOf(p)]] : p \in plan.tree}

\* Where each photograph of a tree goes by its plan.
Places(plan, p, split) == p \in plan.tree /\ split = plan.assignment[GroupOf(p)]

\* The photographs that a plan of one of these trees puts into a split.
PlacedIn(trees, photos, split) ==
    \A p \in photos : \E plan \in decided : plan.tree \in trees /\ Places(plan, p, split)

\* The same tree is split the same way every time.
OnePlanPerTree == \A a, b \in decided : a.tree = b.tree => a = b

CopiesByPlan ==
    \A copy \in processed :
        \E plan \in decided : plan.tree \in behind /\ Places(plan, copy.photo, copy.split)

ManifestByPlan == manifest # {} => \E plan \in decided : manifest = RowsOf(plan)

ScriptByPlan ==
    script # NoScript =>
        \E plan \in decided : plan.tree \in behind /\ script.rows = RowsOf(plan)

TaughtByPlan == PlacedIn(network.behind, network.taught, "train")

ScoredByPlan ==
    /\ PlacedIn(report.behind, report.taught, "train")
    /\ PlacedIn(report.behind, report.scored, "test")

CopiesTyped == \A copy \in processed : copy = [photo |-> copy.photo, split |-> copy.split]

FewTrees == IsFiniteSet(behind) /\ IsFiniteSet(network.behind) /\ IsFiniteSet(report.behind)

SplitIInv ==
    /\ OnePlanPerTree /\ CopiesByPlan /\ ManifestByPlan /\ ScriptByPlan
    /\ TaughtByPlan /\ ScoredByPlan /\ CopiesTyped /\ FewTrees

LEMMA AtMostOne ==
  ASSUME NEW S, IsFiniteSet(S), Cardinality(S) <= 1, NEW a \in S, NEW b \in S
  PROVE  a = b
  <1>1. Cardinality(S) \in Nat
    BY FS_CardinalityType
  <1>2. Cardinality(S) # 0
    BY FS_EmptySet
  <1>3. Cardinality(S) = 1
    BY <1>1, <1>2
  <1>4. \E x : S = {x}
    BY <1>3, FS_Singleton
  <1> QED BY <1>4

\* More plans and more trees place no fewer photographs.
LEMMA PlacedStays ==
  ASSUME NEW trees, NEW more, trees \subseteq more, NEW photos, NEW split,
         PlacedIn(trees, photos, split), decided \subseteq decided'
  PROVE  PlacedIn(more, photos, split)'
  BY DEF PlacedIn, Places

\* What lies in a split, a plan of the trees behind put there.
LEMMA SplitHolds ==
  ASSUME SplitIInv, NEW split
  PROVE  PlacedIn(behind, In(split), split)
  BY DEF SplitIInv, CopiesByPlan, PlacedIn, In

LEMMA SplitInitIInv == DatasetInit => SplitIInv
  <1> SUFFICES ASSUME DatasetInit PROVE SplitIInv
    OBVIOUS
  <1>1. FewTrees
    BY FS_EmptySet DEF DatasetInit, FewTrees, Untaught, NoReport
  <1>2. TaughtByPlan /\ ScoredByPlan
    BY DEF DatasetInit, TaughtByPlan, ScoredByPlan, PlacedIn, Untaught, NoReport
  <1> QED
    BY <1>1, <1>2 DEF DatasetInit, SplitIInv, OnePlanPerTree, CopiesByPlan, ManifestByPlan,
                      ScriptByPlan, CopiesTyped

LEMMA SplitBeginsKeeps ==
  ASSUME SplitIInv, SplitBegins
  PROVE  SplitIInv'
  <1>1. PICK plan \in Plans :
           /\ plan.tree = raw /\ Repeats(plan)
           /\ decided' = decided \cup {plan}
           /\ script' = [rows |-> {[photo |-> p, split |-> plan.assignment[GroupOf(p)]] : p \in raw},
                         left |-> GroupsOf(raw)]
    BY DEF SplitBegins
  <1>2. /\ behind' = behind \cup {raw}
        /\ UNCHANGED <<processed, manifest, network, report>>
    BY DEF SplitBegins
  <1>3. OnePlanPerTree'
    BY <1>1 DEF SplitIInv, OnePlanPerTree, Repeats
  <1>4. CopiesByPlan' /\ ManifestByPlan' /\ CopiesTyped'
    BY <1>1, <1>2 DEF SplitIInv, CopiesByPlan, ManifestByPlan, CopiesTyped, RowsOf, Places
  <1>5. ScriptByPlan'
    BY <1>1, <1>2 DEF ScriptByPlan, RowsOf
  <1>6. TaughtByPlan' /\ ScoredByPlan'
    BY <1>1, <1>2, PlacedStays DEF SplitIInv, TaughtByPlan, ScoredByPlan
  <1>7. FewTrees'
    BY <1>2, FS_AddElement DEF SplitIInv, FewTrees
  <1> QED BY <1>3, <1>4, <1>5, <1>6, <1>7 DEF SplitIInv

LEMMA CopyGroupKeeps ==
  ASSUME SplitIInv, NEW g, CopyGroup(g)
  PROVE  SplitIInv'
  <1>1. /\ processed' = processed \cup {row \in script.rows : GroupOf(row.photo) = g}
        /\ script' = [script EXCEPT !.left = script.left \ {g}]
        /\ UNCHANGED <<manifest, decided, behind, network, report>>
    BY DEF CopyGroup
  <1>2. script # NoScript
    BY DEF CopyGroup, NoScript
  <1>3. PICK plan \in decided : plan.tree \in behind /\ script.rows = RowsOf(plan)
    BY <1>2 DEF SplitIInv, ScriptByPlan
  <1>4. \A row \in script.rows : /\ Places(plan, row.photo, row.split)
                                 /\ row = [photo |-> row.photo, split |-> row.split]
    BY <1>3 DEF RowsOf, Places
  <1>5. CopiesByPlan' /\ CopiesTyped'
    BY <1>1, <1>3, <1>4 DEF SplitIInv, CopiesByPlan, CopiesTyped, Places
  <1>6. ScriptByPlan'
    <2>1. script'.rows = script.rows
      BY <1>1
    <2> QED BY <1>1, <1>3, <2>1 DEF ScriptByPlan, RowsOf
  <1> QED
    BY <1>1, <1>5, <1>6 DEF SplitIInv, OnePlanPerTree, ManifestByPlan, TaughtByPlan,
                            ScoredByPlan, PlacedIn, Places, RowsOf, FewTrees

LEMMA OtherStepsKeep ==
  ASSUME SplitIInv,
         (\E p \in Photographs : Promote(p)) \/ SplitEnds \/ SplitDies \/ Empty
  PROVE  SplitIInv'
  <1>1. UNCHANGED <<decided, network, report>>
    BY DEF Promote, SplitEnds, SplitDies, Empty
  <1>2. OnePlanPerTree' /\ TaughtByPlan' /\ ScoredByPlan'
    BY <1>1 DEF SplitIInv, OnePlanPerTree, TaughtByPlan, ScoredByPlan, PlacedIn, Places
  <1>3. FewTrees'
    BY <1>1, FS_EmptySet DEF SplitIInv, FewTrees, Promote, SplitEnds, SplitDies, Empty
  <1>4. CopiesByPlan' /\ CopiesTyped'
    BY <1>1 DEF SplitIInv, CopiesByPlan, CopiesTyped, Places, Promote, SplitEnds, SplitDies, Empty
  <1>5. ManifestByPlan' /\ ScriptByPlan'
    <2>1. CASE SplitEnds
      BY <1>1, <2>1 DEF SplitEnds, SplitIInv, ManifestByPlan, ScriptByPlan, RowsOf
    <2>2. CASE ~SplitEnds
      BY <1>1, <2>2 DEF SplitIInv, ManifestByPlan, ScriptByPlan, RowsOf, Promote, SplitDies, Empty
    <2> QED BY <2>1, <2>2
  <1> QED BY <1>2, <1>3, <1>4, <1>5 DEF SplitIInv

LEMMA LearningKeeps ==
  ASSUME SplitIInv, Train \/ Evaluate
  PROVE  SplitIInv'
  <1>1. UNCHANGED <<processed, manifest, script, decided, behind>>
    BY DEF Train, Evaluate
  <1>2. /\ OnePlanPerTree' /\ CopiesByPlan' /\ ManifestByPlan' /\ ScriptByPlan' /\ CopiesTyped'
    BY <1>1 DEF SplitIInv, OnePlanPerTree, CopiesByPlan, ManifestByPlan, ScriptByPlan,
                CopiesTyped, RowsOf, Places
  <1>3. CASE Train
    <2>1. network' = [taught |-> Loaded("train"), behind |-> behind] /\ report' = report
      BY <1>3 DEF Train
    <2>2. PlacedIn(behind, Loaded("train"), "train")
      BY SplitHolds DEF PlacedIn, Loaded
    <2>3. TaughtByPlan' /\ ScoredByPlan'
      BY <1>1, <2>1, <2>2, PlacedStays DEF SplitIInv, TaughtByPlan, ScoredByPlan
    <2>4. FewTrees'
      BY <1>1, <2>1 DEF SplitIInv, FewTrees
    <2> QED BY <1>2, <2>3, <2>4 DEF SplitIInv
  <1>4. CASE Evaluate
    <2> DEFINE trees == network.behind \cup behind
    <2>1. /\ report' = [taught |-> network.taught, scored |-> In("test"), behind |-> trees]
          /\ network' = network
      BY <1>4 DEF Evaluate
    <2>2. PlacedIn(behind, In("test"), "test") /\ PlacedIn(network.behind, network.taught, "train")
      BY SplitHolds DEF SplitIInv, TaughtByPlan
    <2>3. network.behind \subseteq trees /\ behind \subseteq trees /\ IsFiniteSet(trees)
      BY FS_Union DEF SplitIInv, FewTrees
    <2> HIDE DEF trees
    <2>4. PlacedIn(trees, network.taught, "train")' /\ PlacedIn(trees, In("test"), "test")'
      <3>1. \A p \in network.taught : \E plan \in decided :
               plan.tree \in trees /\ Places(plan, p, "train")
        BY <2>2, <2>3 DEF PlacedIn
      <3>2. \A p \in In("test") : \E plan \in decided :
               plan.tree \in trees /\ Places(plan, p, "test")
        BY <2>2, <2>3 DEF PlacedIn
      <3>3. In("test")' = In("test") /\ trees' = trees
        BY <1>1, <2>1 DEF In, trees
      <3> QED BY <1>1, <2>1, <3>1, <3>2, <3>3 DEF PlacedIn, Places
    <2>5. TaughtByPlan' /\ ScoredByPlan'
      <3>1. report'.taught = network.taught /\ report'.scored = In("test") /\ report'.behind = trees
        BY <2>1
      <3>2. In("test")' = In("test") /\ trees' = trees
        BY <1>1, <2>1 DEF In, trees
      <3> QED
        BY <1>1, <2>1, <2>2, <2>4, <3>1, <3>2 DEF TaughtByPlan, ScoredByPlan, PlacedIn, Places
    <2>6. FewTrees'
      BY <1>1, <2>1, <2>3 DEF SplitIInv, FewTrees
    <2> QED BY <1>2, <2>5, <2>6 DEF SplitIInv
  <1> QED BY <1>3, <1>4

(* Copies, manifest, running script, what a network was taught and what it  *)
(* is scored on all follow a plan of one of the trees behind them.          *)
THEOREM SplitInvariant == DatasetSpec => []SplitIInv
  <1>1. SplitIInv /\ [DatasetNext]_datasetVars => SplitIInv'
    <2>1. CASE UNCHANGED datasetVars
      BY <2>1 DEF datasetVars, SplitIInv, OnePlanPerTree, CopiesByPlan, ManifestByPlan,
                  ScriptByPlan, TaughtByPlan, ScoredByPlan, PlacedIn, Places, CopiesTyped,
                  FewTrees, RowsOf
    <2> QED
      BY <2>1, SplitBeginsKeeps, CopyGroupKeeps, OtherStepsKeep, LearningKeeps DEF DatasetNext
  <1> QED BY <1>1, SplitInitIInv, PTL DEF DatasetSpec

(* As long as one raw tree is behind all copies involved, no building a     *)
(* network was taught is one it is scored on, and the manifest tells where  *)
(* every copy is (split_dataset.py:3-9 and 207-211): for every set of       *)
(* photographs, buildings, labels and ratios.                               *)
THEOREM OneTreeOneSplit == DatasetSpec => []OneTreeIsOneSplit
  <1>1. ASSUME SplitIInv, Cardinality(report.behind) <= 1
        PROVE  BuildingsIn(report.taught) \cap BuildingsIn(report.scored) = {}
    <2> SUFFICES ASSUME NEW p \in report.taught, NEW q \in report.scored, Folder[p] = Folder[q]
                 PROVE  FALSE
      BY DEF BuildingsIn
    <2>1. PICK a \in decided : a.tree \in report.behind /\ Places(a, p, "train")
      BY <1>1 DEF SplitIInv, ScoredByPlan, PlacedIn
    <2>2. PICK b \in decided : b.tree \in report.behind /\ Places(b, q, "test")
      BY <1>1 DEF SplitIInv, ScoredByPlan, PlacedIn
    <2>3. a.tree = b.tree
      BY <1>1, <2>1, <2>2, AtMostOne DEF SplitIInv, FewTrees
    <2>4. a = b
      BY <1>1, <2>3 DEF SplitIInv, OnePlanPerTree
    <2> QED BY <2>1, <2>2, <2>4 DEF Places, GroupOf
  <1>2. ASSUME SplitIInv, behind = {raw}, manifest # {}, {row.photo : row \in manifest} = raw
        PROVE  processed \subseteq manifest
    <2>1. PICK plan \in decided : manifest = RowsOf(plan)
      BY <1>2 DEF SplitIInv, ManifestByPlan
    <2>2. plan.tree = raw
      <3>1. ASSUME NEW p \in plan.tree PROVE p \in raw
        <4> DEFINE row == [photo |-> p, split |-> plan.assignment[GroupOf(p)]]
        <4>1. row \in manifest /\ row.photo = p
          BY <2>1 DEF RowsOf
        <4> QED BY <1>2, <4>1
      <3>2. ASSUME NEW p \in raw PROVE p \in plan.tree
        <4>1. PICK row \in manifest : row.photo = p
          BY <1>2
        <4> QED BY <2>1, <4>1 DEF RowsOf
      <3> QED BY <3>1, <3>2
    <2> SUFFICES ASSUME NEW copy \in processed PROVE copy \in manifest
      OBVIOUS
    <2>3. PICK by \in decided : by.tree \in behind /\ Places(by, copy.photo, copy.split)
      BY <1>2 DEF SplitIInv, CopiesByPlan
    <2>4. by = plan
      BY <1>2, <2>2, <2>3 DEF SplitIInv, OnePlanPerTree
    <2>5. copy = [photo |-> copy.photo, split |-> copy.split]
      BY <1>2 DEF SplitIInv, CopiesTyped
    <2> QED BY <2>1, <2>3, <2>4, <2>5 DEF RowsOf, Places
  <1>3. SplitIInv => OneTreeIsOneSplit
    BY <1>1, <1>2 DEF OneTreeIsOneSplit
  <1> QED BY <1>3, SplitInvariant, PTL


==============================================================================
