----------------------------- MODULE TrainingRun -----------------------------
(***************************************************************************)
(* Training of a classifier: the epoch loop with its frozen warm-up, the    *)
(* learning-rate schedule, early stopping and the two checkpoint files, and *)
(* what a run that died is resumed with.                                    *)
(*                                                                          *)
(* An epoch is its validation score, macro-F1 in ten-thousandths; weights   *)
(* are left out.  A file is written in place, so a process that dies while  *)
(* it writes leaves a torn one.                                             *)
(*                                                                          *)
(* External parts: ReduceLROnPlateau, torch.save and torch.load.            *)
(***************************************************************************)
EXTENDS Integers, Sequences, SequencesExt

CONSTANTS
    TrainScores,    \* scores an epoch can get
    FrozenEpochs,   \* TrainingConfig.frozen_epochs
    MaxEpochs,      \* TrainingConfig.epochs
    Patience,       \* TrainingConfig.patience
    LrPatience,     \* TrainingConfig.lr_patience
    RunDirs,        \* directories under outputs/runs
    MaxResumes      \* runs that are resumed

ASSUME TrainingAssumption ==
    /\ TrainScores \subseteq Nat
    /\ {FrozenEpochs, MaxEpochs, LrPatience, MaxResumes} \subseteq Nat
    /\ Patience \in Nat \ {0}

VARIABLES
    run,        \* the training process, or NoRun
    last,       \* last[d]: last.pt of run directory d
    best,       \* best[d]: best.pt of run directory d
    resumes,    \* runs resumed so far
    saved       \* some epoch was completed and saved (history)

trainingVars == <<run, last, best, resumes, saved>>

-----------------------------------------------------------------------------
NoRun == [stage |-> "none"]
NoFile == [kind |-> "none"]
Torn == [kind |-> "torn"]

NoScore == -1       \* float("-inf")
Bests == TrainScores \cup {NoScore}
MinDelta == 1       \* EarlyStopping.min_delta, 0.0001

Plateaus == [best : Bests, bad : 0 .. LrPatience, cuts : Nat]
Histories == UNION {[1 .. n -> TrainScores] : n \in 0 .. MaxEpochs}

\* `scores` is the history of the weights that a checkpoint or a run holds.
Checkpoints == [kind : {"whole"}, epoch : 0 .. MaxEpochs, plateau : Plateaus,
                stopBest : Bests, keptBest : Bests, scores : Histories]

Runs == [stage : {"train", "save", "keep", "decide"}, dir : RunDirs,
         epoch : 0 .. MaxEpochs, thawed : BOOLEAN, plateau : Plateaus,
         stopBest : Bests, bad : 0 .. Patience, keptBest : Bests, scores : Histories]

TrainingTypeOK ==
    /\ run \in Runs \cup {NoRun}
    /\ last \in [RunDirs -> Checkpoints \cup {NoFile, Torn}]
    /\ best \in [RunDirs -> Checkpoints \cup {NoFile, Torn}]
    /\ resumes \in 0 .. MaxResumes
    /\ saved \in BOOLEAN

Improves(score, reference, delta) == reference = NoScore \/ score > reference + delta

\* A new ReduceLROnPlateau, and one epoch of it: after more than LrPatience
\* epochs without an improvement the rate is cut.  Its relative threshold of
\* 0.0001 is smaller than the distance of two scores.
FreshPlateau == [best |-> NoScore, bad |-> 0, cuts |-> 0]

Stepped(plateau, score) ==
    IF Improves(score, plateau.best, 0) THEN [plateau EXCEPT !.best = score, !.bad = 0]
    ELSE IF plateau.bad < LrPatience THEN [plateau EXCEPT !.bad = @ + 1]
    ELSE [plateau EXCEPT !.bad = 0, !.cuts = @ + 1]

LastScore == run.scores[Len(run.scores)]

Unused(d) == last[d] = NoFile /\ best[d] = NoFile

TrainingInit ==
    /\ run = NoRun
    /\ last = [d \in RunDirs |-> NoFile]
    /\ best = [d \in RunDirs |-> NoFile]
    /\ resumes = 0
    /\ saved = FALSE

-----------------------------------------------------------------------------
\* train_classifier names a fresh directory; train() begins at epoch 0 with
\* the backbone frozen.
Begin(d) ==
    /\ run = NoRun
    /\ \A e \in RunDirs : Unused(e)
    /\ run' = [stage |-> "train", dir |-> d, epoch |-> 0, thawed |-> FALSE,
               plateau |-> FreshPlateau, stopBest |-> NoScore, bad |-> 0,
               keptBest |-> NoScore, scores |-> <<>>]
    /\ UNCHANGED <<last, best, resumes, saved>>

\* Mutant: the scheduler starts afresh.
Resumed_FreshSchedule(c, d) ==
    [stage |-> "train", dir |-> d, epoch |-> c.epoch + 1, thawed |-> FALSE,
     plateau |-> FreshPlateau, stopBest |-> c.stopBest, bad |-> 0,
     keptBest |-> c.keptBest, scores |-> c.scores]

\* What train() restores from checkpoint c.  The model was built frozen, and
\* the early-stopping counter is new.
Resumed(c, d) ==
    [stage |-> "train", dir |-> d, epoch |-> c.epoch + 1, thawed |-> FALSE,
     plateau |-> c.plateau, stopBest |-> c.stopBest, bad |-> 0,
     keptBest |-> c.keptBest, scores |-> c.scores]

\* --resume <file>, with the --run-id of the run that wrote it or without.
Resume(c, d) ==
    /\ run = NoRun
    /\ resumes < MaxResumes
    /\ c.kind = "whole"
    /\ run' = Resumed(c, d)
    /\ resumes' = resumes + 1
    /\ UNCHANGED <<last, best, saved>>

\* One epoch: the warm-up ends at exactly FrozenEpochs, and the scheduler
\* steps on the validation score.
TrainEpoch(score) ==
    /\ run.stage = "train"
    /\ run.epoch < MaxEpochs
    /\ run' = [run EXCEPT !.stage = "save",
                          !.thawed = @ \/ run.epoch = FrozenEpochs,
                          !.plateau = Stepped(@, score),
                          !.scores = Append(@, score)]
    /\ UNCHANGED <<last, best, resumes, saved>>

\* The payload is put together before checkpoint.step and early_stopping.step.
Payload == [kind |-> "whole", epoch |-> run.epoch, plateau |-> run.plateau,
            stopBest |-> run.stopBest, keptBest |-> run.keptBest, scores |-> run.scores]

SaveLast ==
    /\ run.stage = "save"
    /\ last' = [last EXCEPT ![run.dir] = Payload]
    /\ run' = [run EXCEPT !.stage = "keep"]
    /\ saved' = TRUE
    /\ UNCHANGED <<best, resumes>>

IsBest == Improves(LastScore, run.keptBest, 0)

\* Mutant: only last.pt is kept.
KeepBest_Never ==
    /\ run.stage = "keep"
    /\ run' = [run EXCEPT !.stage = "decide",
                          !.keptBest = IF IsBest THEN LastScore ELSE @]
    /\ UNCHANGED <<last, best, resumes, saved>>

KeepBest ==
    /\ run.stage = "keep"
    /\ best' = IF IsBest THEN [best EXCEPT ![run.dir] = Payload] ELSE best
    /\ run' = [run EXCEPT !.stage = "decide",
                          !.keptBest = IF IsBest THEN LastScore ELSE @]
    /\ UNCHANGED <<last, resumes, saved>>

\* EarlyStopping.step, and the next epoch if it does not say stop.
Decide ==
    /\ run.stage = "decide"
    /\ LET improved == Improves(LastScore, run.stopBest, MinDelta)
           bad == IF improved THEN 0 ELSE run.bad + 1
       IN  run' = IF bad >= Patience THEN NoRun
                  ELSE [run EXCEPT !.stage = "train", !.epoch = @ + 1, !.bad = bad,
                                   !.stopBest = IF improved THEN LastScore ELSE @]
    /\ UNCHANGED <<last, best, resumes, saved>>

\* range(start_epoch, max_epochs) is exhausted.
Finish ==
    /\ run.stage = "train"
    /\ run.epoch >= MaxEpochs
    /\ run' = NoRun
    /\ UNCHANGED <<last, best, resumes, saved>>

\* The process dies, and with it the file it was writing.
Dies ==
    /\ run # NoRun
    /\ run' = NoRun
    /\ \/ UNCHANGED <<last, best>>
       \/ run.stage = "save" /\ last' = [last EXCEPT ![run.dir] = Torn] /\ UNCHANGED best
       \/ run.stage = "keep" /\ IsBest
            /\ best' = [best EXCEPT ![run.dir] = Torn] /\ UNCHANGED last
    /\ UNCHANGED <<resumes, saved>>

-----------------------------------------------------------------------------
TrainingNext ==
    \/ \E d \in RunDirs : Begin(d)
    \/ \E source, d \in RunDirs :
        /\ d = source \/ Unused(d)
        /\ Resume(last[source], d) \/ Resume(best[source], d)
    \/ \E score \in TrainScores : TrainEpoch(score)
    \/ SaveLast \/ KeepBest \/ Decide \/ Finish \/ Dies

TrainingSpec == TrainingInit /\ [][TrainingNext]_trainingVars

-----------------------------------------------------------------------------
(***************************************************************************)
(* What a training run promises.                                            *)
(***************************************************************************)
\* A run that was resumed, however often and from either file, goes on at the
\* epoch and the learning rate of one that was never interrupted
\* (trainer.py:242-253; Module-07-Classifier-Training.md:82).
ResumesWhereItWas ==
    run # NoRun =>
        /\ run.plateau = FoldLeft(Stepped, FreshPlateau, run.scores)
        /\ Len(run.scores) = run.epoch + (IF run.stage = "train" THEN 0 ELSE 1)

\* A crash leaves what was trained so far (trainer.py:187-188): once a run has
\* saved an epoch, whatever kills it leaves a whole checkpoint to resume from,
\* though both files are written in place.  A run resumed before its first
\* best.pt does not have that assurance a second time.
NothingIsLost ==
    saved /\ resumes = 0 => \E d \in RunDirs : "whole" \in {last[d].kind, best[d].kind}

\* The recipe is three epochs of frozen backbone, then all of it
\* (models/common.py:4-5).  train() thaws when it comes past that epoch, so a
\* run resumed later never does: this is what the code does not do.
ThawedAfterWarmUp ==
    run # NoRun /\ run.stage = "save" /\ run.epoch >= FrozenEpochs => run.thawed

\* best.pt is the highest score so far (callbacks.py:59).  The payload holds the
\* best of the epoch before, so a resumed run may write a lower one over it:
\* this is what the code does not do.
BestIsBest ==
    [][\A d \in RunDirs : best[d].kind = "whole" /\ best'[d].kind = "whole" =>
         best'[d].scores[Len(best'[d].scores)] >= best[d].scores[Len(best[d].scores)]
      ]_trainingVars

=============================================================================
