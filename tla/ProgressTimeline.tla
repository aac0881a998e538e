-------------------------- MODULE ProgressTimeline --------------------------
(***************************************************************************)
(* The timeline of one project: RecomputeProgress collects the project's   *)
(* days, compute_series turns them, oldest first, into smoothed, ratcheted *)
(* and labelled results, and the newest result is copied to the project.   *)
(* A recompute always starts from the first day, because each result       *)
(* depends on all the results before it.                                   *)
(*                                                                         *)
(* Stored percentages are integers in ten-thousandths of a percent, what   *)
(* round(..., 4) keeps; a value that is not rounded yet is a fraction      *)
(* [num, den].  Binary floating point is taken to be exact.  What a day's  *)
(* photographs say is one fraction of Raws, computed in CameraFusion.  How *)
(* recomputes interleave with each other is in ProjectProgress: here each  *)
(* one runs to its end before the next photograph is scored.               *)
(***************************************************************************)
EXTENDS Integers, Sequences

CONSTANTS
    MaxDays,       \* bound on the days of the project
    MaxRecomputes, \* bound on the recomputes, after which all is at rest
    Raws           \* what the scored photographs of a day may amount to

Ceiling              == 800000  \* MACHINE_CEILING_PCT
AlphaTenths          == 3       \* ALPHA
AdvanceConfirmations == 2
RegressConfirmations == 3

Days       == 1..MaxDays
Stages     == 0..4              \* foundation, ..., finishing, approval
Floor(s)   == 200000 * s
NoEvidence == [num |-> 0, den |-> 0]
Whole(n)   == [num |-> n, den |-> 1]

ASSUME RawsAssumption ==
    /\ MaxDays \in Nat
    /\ MaxRecomputes \in Nat
    /\ \A r \in Raws : /\ r \in [num : Nat, den : Nat \ {0}]
                       /\ r.num <= Ceiling * r.den

VARIABLES
    captured,  \* the days on which an image was captured, scored or not
    readings,  \* what the eligible predictions of each day say
    windows,   \* the windows the running recompute has collected
    series,    \* its results so far
    project,   \* the project's progress_pct (hundredths) and approval_state
    recomputes \* recomputes started so far

vars == <<captured, readings, windows, series, project, recomputes>>

\* round(x, 4), and the quantize of ProgressPct on what it gave.
Round(x)    == (2 * x.num + x.den) \div (2 * x.den)
Quantise(n) == (n + 50) \div 100
-----------------------------------------------------------------------------
Previous == series[Len(series)]

Blend(raw) ==
    [num |-> AlphaTenths * raw.num + (10 - AlphaTenths) * Previous.ema * raw.den,
     den |-> 10 * raw.den]

Capped(x) == IF x.num > Ceiling * x.den THEN Whole(Ceiling) ELSE x

\* The EMA seeds itself from the first reading, or from 0 if there is none;
\* a window without evidence carries the last value forward.
Smoothed(raw) ==
    LET last == IF series = <<>> THEN 0 ELSE Previous.ema
    IN  Capped(IF raw = NoEvidence THEN Whole(last)
               ELSE IF series = <<>> THEN raw
               ELSE Blend(raw))

Exceeds(x, n) == x.num > n * x.den
Below(x, n)   == x.num < n * x.den

Fell(i) == /\ i > 1
           /\ series[i].evidence
           /\ series[i].ema < series[i - 1].ema

\* _declining_run >= k: this window and the k - 1 before it.
FallingFor(k, raw) ==
    /\ raw # NoEvidence
    /\ Below(Smoothed(raw), Previous.ema)
    /\ \A i \in (Len(series) + 2 - k)..Len(series) : Fell(i)

\* Mutant: two lower windows are enough.
EagerRelease(raw) == series # <<>> /\ FallingFor(RegressConfirmations - 1, raw)

Released(raw) == series # <<>> /\ FallingFor(RegressConfirmations, raw)

\* Mutant: the held value is read back from its numeric(5,2) column.
HeldFromColumn(raw) ==
    IF \/ series = <<>>
       \/ Released(raw)
       \/ Exceeds(Smoothed(raw), Previous.displayed)
    THEN Smoothed(raw)
    ELSE Whole(100 * Quantise(Previous.displayed))

Displayed(raw) ==
    IF \/ series = <<>>
       \/ Released(raw)
       \/ Exceeds(Smoothed(raw), Previous.displayed)
    THEN Smoothed(raw)
    ELSE Whole(Previous.displayed)

\* Mutant: every window of a decline is reported.
EveryFall(raw) == Released(raw)

Regressed(raw) == Released(raw) /\ ~FallingFor(RegressConfirmations + 1, raw)

StageFor(x) ==
    CHOOSE s \in Stages : /\ Floor(s) * x.den <= x.num
                          /\ \A t \in Stages : t > s => Below(x, Floor(t))

\* Mutant: the window itself is forgotten, and one too few is asked for.
Confirmed_OneShort(candidate) ==
    \A i \in (Len(series) + 3 - AdvanceConfirmations)..Len(series) :
        StageFor(Whole(series[i].displayed)) = candidate

Confirmed(candidate) ==
    LET earliest == Len(series) + 2 - AdvanceConfirmations
    IN  /\ earliest >= 1
        /\ \A i \in earliest..Len(series) :
              StageFor(Whole(series[i].displayed)) = candidate

GuardedStage(raw) ==
    LET candidate == StageFor(Displayed(raw))
    IN  IF series = <<>> \/ candidate <= Previous.stage \/ Confirmed(candidate)
        THEN candidate ELSE Previous.stage

\* aggregate_window
Result(raw) ==
    [ema       |-> Round(Smoothed(raw)),
     displayed |-> Round(Displayed(raw)),
     stage     |-> GuardedStage(raw),
     evidence  |-> raw # NoEvidence,
     regressed |-> Regressed(raw)]
-----------------------------------------------------------------------------
Init == /\ captured = {}
        /\ readings = [d \in Days |-> NoEvidence]
        /\ windows = <<>>
        /\ series = <<>>
        /\ project = [progress |-> 0, approval |-> "not_ready"]
        /\ recomputes = 0

\* An image of some day, late or not, is scored, refused, or reprocessed:
\* the day's eligible predictions now amount to something else.
Observe(d, r) ==
    /\ windows = <<>>
    /\ recomputes < MaxRecomputes
    /\ captured' = captured \union {d}
    /\ readings' = [readings EXCEPT ![d] = r]
    /\ UNCHANGED <<windows, series, project, recomputes>>

\* _collect_windows: every day between the first and the last capture,
\* empty ones included; nothing if no prediction is eligible.
StartRecompute ==
    /\ windows = <<>>
    /\ recomputes < MaxRecomputes
    /\ \E d \in Days : readings[d] # NoEvidence
    /\ \E first, last \in captured :
          /\ captured \subseteq first..last
          /\ windows' = [i \in 1..(last - first + 1) |-> readings[first + i - 1]]
    /\ recomputes' = recomputes + 1
    /\ UNCHANGED <<captured, readings, series, project>>

AggregateWindow ==
    /\ Len(series) < Len(windows)
    /\ series' = Append(series, Result(windows[Len(series) + 1]))
    /\ UNCHANGED <<captured, readings, windows, project, recomputes>>

\* Mutant: the stored, rounded percentage decides.
AsksWhenShown(shown) == Quantise(shown) >= Ceiling \div 100

AsksForInspection(shown) == shown >= Ceiling

\* _apply_to_project
ApplyToProject ==
    /\ windows # <<>>
    /\ Len(series) = Len(windows)
    /\ project' = [progress |-> Quantise(Previous.displayed),
                   approval |-> IF /\ AsksForInspection(Previous.displayed)
                                   /\ project.approval = "not_ready"
                                THEN "awaiting_inspection"
                                ELSE project.approval]
    /\ windows' = <<>>
    /\ series' = <<>>
    /\ UNCHANGED <<captured, readings, recomputes>>

Next == \/ \E d \in Days : \E r \in Raws \union {NoEvidence} : Observe(d, r)
        \/ StartRecompute
        \/ AggregateWindow
        \/ ApplyToProject

Spec == Init /\ [][Next]_vars
-----------------------------------------------------------------------------
Results == [ema : 0..Ceiling, displayed : 0..Ceiling, stage : Stages,
            evidence : BOOLEAN, regressed : BOOLEAN]

(* No stored percentage leaves 0..80, and the results never outnumber the *)
(* windows they come from.                                                *)
TypeOK ==
    /\ captured \subseteq Days
    /\ readings \in [Days -> Raws \union {NoEvidence}]
    /\ windows \in Seq(Raws \union {NoEvidence})
    /\ series \in Seq(Results)
    /\ Len(series) <= Len(windows)
    /\ project \in [progress : 0..(Ceiling \div 100),
                    approval : {"not_ready", "awaiting_inspection"}]
    /\ recomputes \in 0..MaxRecomputes

(* What the timeline shows is a value the smoothing really had, on that   *)
(* day or on an earlier one, and never less than what it has now: the     *)
(* ratchet holds numbers back, it does not invent them.                   *)
ShownWasMeasured ==
    \A i \in 1..Len(series) :
        /\ series[i].ema <= series[i].displayed
        /\ \E j \in 1..i : series[j].displayed = series[j].ema
                           /\ series[i].displayed = series[j].ema

(* The number goes down only on sustained evidence: this window and the   *)
(* two before it all had eligible photographs, the two before it each     *)
(* ended below the one before, and this one is not above.                 *)
FallsAreSustained ==
    \A i \in 2..Len(series) :
        series[i].displayed < series[i - 1].displayed =>
            /\ i > RegressConfirmations
            /\ series[i].evidence
            /\ series[i].ema <= series[i - 1].ema
            /\ \A j \in (i - RegressConfirmations + 2)..(i - 1) : Fell(j)

(* A fall is reported in the window where the ratchet lets go, and a      *)
(* decline that goes on is not reported again: whenever the number goes   *)
(* down, a report was made since the smoothing last failed to fall, and   *)
(* between two reports it did fail to fall.                               *)
OneReportPerDecline ==
    /\ \A i \in 2..Len(series) :
          series[i].displayed < series[i - 1].displayed =>
              \E j \in 1..i : /\ series[j].regressed
                              /\ \A k \in (j + 1)..i : Fell(k)
    /\ \A i \in 1..Len(series) : \A j \in 1..(i - 1) :
          series[i].regressed /\ series[j].regressed =>
              \E k \in j..i : ~Fell(k)

(* What the worker hangs its remark on: the number goes down only at the   *)
(* end of a decline that had evidence, and each decline is told once.      *)
FallsAreToldOnce == FallsAreSustained /\ OneReportPerDecline

(* The number had been in a stage since a window with eligible            *)
(* photographs, before window i named it.                                 *)
SeenBefore(i) ==
    \E j \in 1..(i - 1) :
        /\ series[j].evidence
        /\ \A k \in j..(i - 1) :
              StageFor(Whole(series[k].displayed)) = series[i].stage

(* The label never names a stage above the number beside it, and it moves *)
(* up only into the stage that an earlier window with eligible            *)
(* photographs put the number in and no window since took it out of: the  *)
(* guard may delay the label, the ratchet may not leave it stranded above *)
(* (aggregator.py:395-427).                                               *)
LabelWithinReach ==
    \A i \in 1..Len(series) :
        /\ series[i].stage <= StageFor(Whole(series[i].displayed))
        /\ i > 1 /\ series[i].stage > series[i - 1].stage => SeenBefore(i)

(* "the macro stage only advances when ADVANCE_CONFIRMATIONS consecutive  *)
(* windows place the project at the higher stage with eligible            *)
(* predictions. Prevents a one-day fluke" (Progress-Calculation.md:125-   *)
(* 127).                                                                  *)
AdvancesOnEvidence ==
    \A i \in 2..Len(series) :
        series[i].stage > series[i - 1].stage =>
            \A j \in (i - AdvanceConfirmations + 1)..i : series[j].evidence

(* The ceiling is reached on the first day or not at all: rounding to     *)
(* four places stops the smoothing at 79.9999, so a recompute that asks   *)
(* for the inspection is one of a project that already was complete when  *)
(* its first window was.                                                  *)
OnlyBornComplete ==
    [][project.approval = "not_ready" /\ project'.approval # "not_ready"
          => series[1].ema = Ceiling]_vars

(* What makes these inductive.  A number that is not 0 stands since a     *)
(* window with eligible photographs.  A project whose first window was short of *)
(* the ceiling stays short of it; a report comes with exactly two falls   *)
(* before it; and once a decline has been released the number follows the *)
(* smoothing down, under the report made when it began.                   *)
HeldSinceSeen ==
    \A i \in 1..Len(series) :
        \/ series[i].displayed = 0
        \/ \E j \in 1..i : /\ series[j].evidence
                           /\ \A k \in j..i : series[k].displayed = series[i].displayed

StaysShort ==
    series # <<>> /\ series[1].ema < Ceiling =>
        \A i \in 1..Len(series) : /\ series[i].ema < Ceiling
                                  /\ series[i].displayed < Ceiling

ReportShape ==
    \A i \in 1..Len(series) :
        series[i].regressed => /\ i > 3
                               /\ Fell(i - 1)
                               /\ Fell(i - 2)
                               /\ ~Fell(i - 3)

DeclineIsFollowed ==
    \A i \in 4..Len(series) :
        Fell(i) /\ Fell(i - 1) /\ Fell(i - 2) =>
            /\ series[i].displayed = series[i].ema
            /\ \E j \in 1..i : /\ series[j].regressed
                              /\ \A k \in (j + 1)..i : Fell(k)

IInv == /\ TypeOK
        /\ ShownWasMeasured
        /\ FallsAreSustained
        /\ OneReportPerDecline
        /\ LabelWithinReach
        /\ HeldSinceSeen
        /\ StaysShort
        /\ ReportShape
        /\ DeclineIsFollowed

(* domain/value_objects.py of is_at_machine_ceiling: "When true, the      *)
(* project moves to AWAITING_INSPECTION and the owner is notified."       *)
AtCeilingAwaits ==
    project.progress = Ceiling \div 100 => project.approval # "not_ready"
=============================================================================
