----------------------------- MODULE DatasetSplit -----------------------------
(***************************************************************************)
(* From labelled photographs to the accuracy of a network: split_dataset.py *)
(* copies the raw tree into train, validation and test, a training run      *)
(* learns from the copies, and an evaluation scores the network on others.  *)
(*                                                                          *)
(* A group is a directory with folders named after classes, one building    *)
(* watched by one camera; it goes to one split as a whole.  Captures are    *)
(* promoted into the raw tree as sites grow, so the script is run again.    *)
(* What training does with the copies is TrainingRun.                       *)
(*                                                                          *)
(* External parts: the people who promote captures and empty the processed  *)
(* tree, and the kill of a running script.                                  *)
(***************************************************************************)
EXTENDS Integers, FiniteSetsExt

CONSTANTS
    Photographs,    \* images that are or will be under dataset/raw (numbers)
    Folder,         \* Folder[p]: the building whose directory holds p (a number)
    Label,          \* Label[p]: the class folder p lies in
    Poor,           \* photographs the quality gate refuses
    FirstRaw,       \* what the raw tree holds at first
    Ratio,          \* Ratio[s]: the share wanted of split s, in percent
    MaxSplitRuns    \* runs of split_dataset.py

ASSUME SplitAssumption ==
    /\ FirstRaw \subseteq Photographs
    /\ Poor \subseteq Photographs
    /\ MaxSplitRuns \in Nat

VARIABLES
    raw,        \* photographs under dataset/raw
    processed,  \* copies under dataset/processed
    manifest,   \* rows of split_manifest.csv
    script,     \* the running script, or NoScript
    decided,    \* the plans made so far (history)
    behind,     \* the raw trees that the copies were split from (history)
    network,    \* what the network at hand was taught, or Untaught
    report,     \* what the last evaluation was made of, or NoReport
    splitRuns

datasetVars ==
    <<raw, processed, manifest, script, decided, behind, network, report, splitRuns>>

-----------------------------------------------------------------------------
SPLITS == {"train", "validation", "test"}

Copies == [photo : Photographs, split : SPLITS]

\* Mutant: the split is by photograph.
GroupOf_Photograph(p) == p

\* discover_groups: the directory whose child is a class folder.
GroupOf(p) == Folder[p]

GroupsOf(tree) == {GroupOf(p) : p \in tree}
ClassesOf(tree) == {Label[p] : p \in tree}

Untaught == [taught |-> {}, behind |-> {}]
NoScript == [rows |-> {}, left |-> {}]
NoReport == [taught |-> {}, scored |-> {}, behind |-> {}]

DatasetTypeOK ==
    /\ raw \subseteq Photographs
    /\ processed \subseteq Copies
    /\ manifest \subseteq Copies
    /\ script \in [rows : SUBSET Copies, left : SUBSET GroupsOf(raw)]
    /\ \A plan \in decided : plan.assignment \in [GroupsOf(plan.tree) -> SPLITS]
    /\ behind \subseteq SUBSET Photographs
    /\ network \in [taught : SUBSET Photographs, behind : SUBSET SUBSET Photographs]
    /\ report \in [taught : SUBSET Photographs, scored : SUBSET Photographs,
                   behind : SUBSET SUBSET Photographs]
    /\ splitRuns \in 0 .. MaxSplitRuns

DatasetInit ==
    /\ raw = FirstRaw
    /\ processed = {}
    /\ manifest = {}
    /\ script = NoScript
    /\ decided = {}
    /\ behind = {}
    /\ network = Untaught
    /\ report = NoReport
    /\ splitRuns = 0

-----------------------------------------------------------------------------
(***************************************************************************)
(* best_assignment: of all ways to give whole groups to the splits, the one *)
(* whose classes come closest to the ratio.                                 *)
(***************************************************************************)
InSplit(tree, class, assignment, split) ==
    Cardinality({p \in tree : Label[p] = class /\ assignment[GroupOf(p)] = split})

\* Every split gets a group, and training every class.
Valid(tree, assignment) ==
    /\ {assignment[g] : g \in GroupsOf(tree)} = SPLITS
    /\ \A c \in ClassesOf(tree) : InSplit(tree, c, assignment, "train") > 0

Distance(a, b) == IF a > b THEN a - b ELSE b - a

\* Hundredths of a photograph; a class missing from a split costs as much as
\* all photographs.
Score(tree, assignment) ==
    LET cost(class, split) ==
            LET total == Cardinality({p \in tree : Label[p] = class})
                count == InSplit(tree, class, assignment, split)
            IN  IF count = 0 THEN 100 * Cardinality(tree)
                ELSE Distance(100 * count, Ratio[split] * total)
    IN  MapThenSumSet(LAMBDA cs : cost(cs[1], cs[2]), ClassesOf(tree) \X SPLITS)

BestAssignments(tree) ==
    LET valid == {a \in [GroupsOf(tree) -> SPLITS] : Valid(tree, a)}
        least == Min({Score(tree, a) : a \in valid})
    IN  {a \in valid : Score(tree, a) = least}

\* What the script may decide for the trees it may find.  Among equal
\* assignments the rounding of the scores and the order of the directories
\* choose.  A tree with no valid one is an error that changes nothing.
Plans ==
    UNION {{[tree |-> t, assignment |-> a] : a \in BestAssignments(t)} :
        t \in {FirstRaw \cup more : more \in SUBSET (Photographs \ FirstRaw)}}

\* The same tree is split the same way every time.
Repeats(plan) == \A earlier \in decided : earlier.tree = plan.tree => earlier = plan

-----------------------------------------------------------------------------
\* A capture is promoted into the raw tree.
Promote(p) ==
    /\ p \notin raw
    /\ raw' = raw \cup {p}
    /\ UNCHANGED <<processed, manifest, script, decided, behind, network, report, splitRuns>>

\* split_dataset.py, without --dry-run, looks at the raw tree.
SplitBegins ==
    /\ script = NoScript
    /\ splitRuns < MaxSplitRuns
    /\ \E plan \in Plans :
        /\ plan.tree = raw
        /\ Repeats(plan)
        /\ decided' = decided \cup {plan}
        /\ script' = [rows |-> {[photo |-> p, split |-> plan.assignment[GroupOf(p)]] :
                                  p \in raw},
                      left |-> GroupsOf(raw)]
    /\ behind' = behind \cup {raw}
    /\ splitRuns' = splitRuns + 1
    /\ UNCHANGED <<raw, processed, manifest, network, report>>

\* It copies group after group beside whatever is there ...
CopyGroup(g) ==
    /\ g \in script.left
    /\ processed' = processed \cup {row \in script.rows : GroupOf(row.photo) = g}
    /\ script' = [script EXCEPT !.left = @ \ {g}]
    /\ UNCHANGED <<raw, manifest, decided, behind, network, report, splitRuns>>

\* ... and writes the manifest anew.
SplitEnds ==
    /\ script # NoScript
    /\ script.left = {}
    /\ manifest' = script.rows
    /\ script' = NoScript
    /\ UNCHANGED <<raw, processed, decided, behind, network, report, splitRuns>>

\* It is killed, or a copy fails.
SplitDies ==
    /\ script # NoScript
    /\ script' = NoScript
    /\ UNCHANGED <<raw, processed, manifest, decided, behind, network, report, splitRuns>>

\* Somebody empties dataset/processed between two runs.
Empty ==
    /\ script = NoScript
    /\ processed # {}
    /\ processed' = {}
    /\ behind' = {}
    /\ UNCHANGED <<raw, manifest, script, decided, network, report, splitRuns>>

In(split) == {row.photo : row \in {copy \in processed : copy.split = split}}

\* ConstructionStageDataset._load: photographs the quality gate refuses are
\* left out, and a split of which nothing is left is an error.
Loaded(split) == In(split) \ Poor

\* build_dataloaders opens the three of them; the epochs see the first.
Train ==
    /\ \A split \in SPLITS : Loaded(split) # {}
    /\ network' = [taught |-> Loaded("train"), behind |-> behind]
    /\ UNCHANGED <<raw, processed, manifest, script, decided, behind, report, splitRuns>>

\* run_all --test-images: no gate is asked.
Evaluate ==
    /\ network # Untaught
    /\ In("test") # {}
    /\ report' = [taught |-> network.taught, scored |-> In("test"),
                  behind |-> network.behind \cup behind]
    /\ UNCHANGED <<raw, processed, manifest, script, decided, behind, network, splitRuns>>

-----------------------------------------------------------------------------
DatasetNext ==
    \/ \E p \in Photographs : Promote(p)
    \/ SplitBegins
    \/ \E g \in GroupsOf(raw) : CopyGroup(g)
    \/ SplitEnds \/ SplitDies
    \/ Empty \/ Train \/ Evaluate

DatasetSpec == DatasetInit /\ [][DatasetNext]_datasetVars

-----------------------------------------------------------------------------
(***************************************************************************)
(* What the split promises.                                                 *)
(***************************************************************************)
BuildingsIn(photos) == {Folder[p] : p \in photos}

\* As long as one raw tree is behind all copies involved, whatever died and
\* was run again, no building a network was taught is one it is scored on, and
\* a manifest tells where every copy is (split_dataset.py:3-9 and 207-211).
OneTreeIsOneSplit ==
    /\ Cardinality(report.behind) <= 1 =>
           BuildingsIn(report.taught) \cap BuildingsIn(report.scored) = {}
    /\ behind = {raw} /\ manifest # {} /\ {row.photo : row \in manifest} = raw =>
           processed \subseteq manifest

\* Images of one building never land in different splits, so an evaluation is
\* on buildings the network has not seen (split_dataset.py:4-6).  A run after
\* a promotion leaves the copies of the earlier one in the folders of theirs,
\* so this is what the code does not do.
HeldOutIsUnseen == BuildingsIn(report.taught) \cap BuildingsIn(report.scored) = {}

=============================================================================
