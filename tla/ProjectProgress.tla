--------------------------- MODULE ProjectProgress ---------------------------
(***************************************************************************)
(* The project row and the progress timeline, and the transactions that    *)
(* write them: the worker's recompute_window tasks (RecomputeProgress),    *)
(* and the API requests and scheduled jobs that load the project, change   *)
(* a field and save it (ApproveProject, ArchiveProject, UpdateProject,     *)
(* SetVisibility, _touch_project, _refresh_status).                        *)
(*                                                                         *)
(* Every one of them saves through SqlAlchemyProjectRepository.update,     *)
(* which is given the whole entity: it reads the row again and sends an    *)
(* UPDATE of each column in which the entity and that row differ.  So a    *)
(* transaction writes back whatever it loaded.  project and series are the *)
(* committed rows (READ COMMITTED); an open transaction's writes are in    *)
(* its session, and the locks it holds are RowLocked and SeriesLocked.     *)
(*                                                                         *)
(* The timeline is abstracted to versions: votes counts the committed      *)
(* changes to the eligible predictions, Displayed[v] is the displayed      *)
(* value of the newest window that compute_series gives for version v, and *)
(* Span[v] the number of windows.  series[n] is the version from which the *)
(* snapshot of window n was last computed.                                 *)
(***************************************************************************)
EXTENDS Naturals, FiniteSets

CONSTANTS
    Recomputers,  \* worker processes that may run recompute_window at once
    Callers,      \* API requests and scheduled jobs open at once
    MaxVotes,     \* bound on the versions of the predictions
    Displayed,    \* displayed value of the newest window, per version
    Span,         \* number of windows of the timeline, per version
    MaxApprovals, \* bound on approval requests
    MaxWrites,    \* bound on archive, edit and recompute requests
    MaxDeaths     \* bound on transactions that die

MachineCeiling == 80
Complete       == 100

Versions  == 1..MaxVotes
Processes == Recomputers \union Callers
Windows   == UNION {1..Span[v] : v \in Versions}
Approvals == {"not_ready", "awaiting_inspection", "approved"}
Statuses  == {"running", "completed", "archived"}
Columns   == {"progress", "approval", "signature", "archived", "status"}

ASSUME ProjectAssumption ==
    /\ Recomputers \intersect Callers = {}
    /\ MaxVotes \in Nat
    /\ Displayed \in [Versions -> 0..MachineCeiling]
    /\ Span \in [Versions -> Nat \ {0}]
    /\ \A v, w \in Versions : v <= w => Span[v] <= Span[w]
    /\ MaxApprovals \in Nat
    /\ MaxWrites \in Nat
    /\ MaxDeaths \in Nat

VARIABLES
    project,    \* the committed row of "projects"
    votes,      \* the current version of the eligible predictions
    series,     \* the version each committed snapshot was computed from
    tasks, \* recompute_window messages the broker holds
    session,    \* each process and its open transaction
    approvals,  \* approval requests so far: each signs with its number
    writes,     \* archive, edit and recompute requests so far
    deaths,     \* transactions that died so far
    lost,       \* history: a recompute failed, and is not run again
    committed   \* history: the version the last recompute committed, and the newest

projectVars == <<project, votes, series, tasks, session, approvals, writes,
          deaths, lost, committed>>

\* The columns of the row that the properties tell apart.  signature stands
\* for approved_by, approved_at and inspection_notes, which differ between any
\* two approvals (0 is NULL); "running" for ACTIVE, DELAYED and INACTIVE.
Row == [progress  : 0..Complete,
        approval  : Approvals,
        signature : Nat,
        archived  : BOOLEAN,
        status    : Statuses]

NewProject == [progress |-> 0, approval |-> "not_ready", signature |-> 0,
               archived |-> FALSE, status |-> "running"]

Sessions == [pc     : {"idle", "loaded", "read", "ready", "reread", "written"},
             entity : Row,
             read   : 0..MaxVotes,
             diff   : SUBSET (Columns \union {"other"})]

Idle == [pc |-> "idle", entity |-> NewProject, read |-> 0, diff |-> {}]

ProjectInit ==
    /\ project    = NewProject
    /\ votes      = 0
    /\ series     = [n \in Windows |-> 0]
    /\ tasks = 0
    /\ session    = [p \in Processes |-> Idle]
    /\ approvals  = 0
    /\ writes     = 0
    /\ deaths     = 0
    /\ lost       = FALSE
    /\ committed  = [last |-> 0, newest |-> 0]

-----------------------------------------------------------------------------
(* Locks, and what an UPDATE makes of the row *)

\* An open transaction has sent an UPDATE of the project.
RowLocked == \E p \in Processes : session[p].pc = "written" /\ session[p].diff # {}

\* A recompute has upserted its windows and is still open.
SeriesLocked == \E r \in Recomputers : session[r].pc \in {"ready", "reread", "written"}

\* An UPDATE of the columns in diff.
Merged(row, entity, diff) ==
    [progress  |-> IF "progress"  \in diff THEN entity.progress  ELSE row.progress,
     approval  |-> IF "approval"  \in diff THEN entity.approval  ELSE row.approval,
     signature |-> IF "signature" \in diff THEN entity.signature ELSE row.signature,
     archived  |-> IF "archived"  \in diff THEN entity.archived  ELSE row.archived,
     status    |-> IF "status"    \in diff THEN entity.status    ELSE row.status]

After(p) == Merged(project, session[p].entity, session[p].diff)

\* Mutant: the constraint is missing from the schema.
CheckConstraint_None(row) == row.progress <= Complete

\* CHECK machine_ceiling_requires_approval.
CheckConstraint(row) == row.progress <= MachineCeiling \/ row.approval = "approved"

\* derive_status.
DerivedStatus(row) ==
    CASE row.archived -> "archived"
      [] ~row.archived /\ row.approval = "approved" -> "completed"
      [] OTHER -> "running"

-----------------------------------------------------------------------------
(* The predictions and the messages *)

\* Mutant: the task ends with the commit.
Score_Silent ==
    /\ votes < MaxVotes
    /\ votes' = votes + 1
    /\ UNCHANGED <<project, series, tasks, session, approvals, writes, deaths, lost,
                   committed>>

\* process_image commits a prediction and asks for a recompute (ImagePipeline
\* has the two steps, and what happens when the second is missing).
Score ==
    /\ votes < MaxVotes
    /\ votes' = votes + 1
    /\ tasks' = tasks + 1
    /\ UNCHANGED <<project, series, session, approvals, writes, deaths, lost, committed>>

\* RequestRecompute of the API; also a message delivered a second time because
\* its worker died after the commit.
RequestRecompute ==
    /\ writes < MaxWrites
    /\ writes' = writes + 1
    /\ tasks' = tasks + 1
    /\ UNCHANGED <<project, votes, series, session, approvals, deaths, lost, committed>>

-----------------------------------------------------------------------------
(* recompute_window *)

\* RecomputeProgress.execute loads the project.
StartRecompute(r) ==
    /\ session[r].pc = "idle"
    /\ tasks > 0
    /\ tasks' = tasks - 1
    /\ session' = [session EXCEPT ![r] = [Idle EXCEPT !.pc = "loaded", !.entity = project]]
    /\ UNCHANGED <<project, votes, series, approvals, writes, deaths, lost, committed>>

\* It reads the predictions; without any it returns.
ReadVotes(r) ==
    /\ session[r].pc = "loaded"
    /\ session' = [session EXCEPT ![r] = IF votes = 0 THEN Idle
                                         ELSE [@ EXCEPT !.pc = "read", !.read = votes]]
    /\ UNCHANGED <<project, votes, series, tasks, approvals, writes, deaths, lost,
                   committed>>

\* The entity _apply_to_project saves.
Recomputed(entity, v) ==
    [entity EXCEPT !.progress = Displayed[v],
                   !.approval = IF Displayed[v] >= MachineCeiling /\ @ = "not_ready"
                                THEN "awaiting_inspection" ELSE @]

\* _persist upserts every window, the oldest first: a second recompute waits at
\* the first row for the end of this transaction.
UpsertSeries(r) ==
    /\ session[r].pc = "read"
    /\ ~SeriesLocked
    /\ session' = [session EXCEPT ![r].pc = "ready",
                                  ![r].entity = Recomputed(@, session[r].read)]
    /\ UNCHANGED <<project, votes, series, tasks, approvals, writes, deaths, lost,
                   committed>>

-----------------------------------------------------------------------------
(* Requests and jobs: load, change, save *)

Open(c, entity, diff) ==
    /\ session[c].pc = "idle"
    /\ session' = [session EXCEPT ![c] = [Idle EXCEPT !.pc = "ready", !.entity = entity,
                                                      !.diff = diff]]
    /\ UNCHANGED <<project, votes, series, tasks, deaths, lost, committed>>

\* ApproveProject: refused unless the project awaits its inspection.
ApproveProject(c) ==
    /\ project.approval = "awaiting_inspection"
    /\ approvals < MaxApprovals
    /\ approvals' = approvals + 1
    /\ Open(c, [project EXCEPT !.progress = Complete, !.approval = "approved",
                               !.signature = approvals', !.status = "completed"], {})
    /\ UNCHANGED writes

ArchiveProject(c) ==
    /\ writes < MaxWrites
    /\ writes' = writes + 1
    /\ Open(c, [project EXCEPT !.archived = TRUE, !.status = "archived"], {})
    /\ UNCHANGED approvals

\* UpdateProject, SetVisibility and _touch_project: a column of their own.
EditProject(c) ==
    /\ writes < MaxWrites
    /\ writes' = writes + 1
    /\ Open(c, project, {"other"})
    /\ UNCHANGED approvals

\* _refresh_status, of the folder and of the scheduled job.
RefreshStatus(c) ==
    /\ DerivedStatus(project) # project.status
    /\ Open(c, [project EXCEPT !.status = DerivedStatus(project)], {})
    /\ UNCHANGED <<approvals, writes>>

-----------------------------------------------------------------------------
(* SqlAlchemyProjectRepository.update, and the end of the transaction *)

\* session.get reads the committed row: the columns that differ are dirty.
RowRead(p) ==
    /\ session[p].pc = "ready"
    /\ session' = [session EXCEPT
                     ![p].pc = "reread",
                     ![p].diff = @ \union {c \in Columns : session[p].entity[c] # project[c]}]
    /\ UNCHANGED <<project, votes, series, tasks, approvals, writes, deaths, lost,
                   committed>>

\* flush sends the UPDATE, which waits for the row.
Save(p) ==
    /\ session[p].pc = "reread"
    /\ session[p].diff # {} => ~RowLocked /\ CheckConstraint(After(p))
    /\ session' = [session EXCEPT ![p].pc = "written"]
    /\ UNCHANGED <<project, votes, series, tasks, approvals, writes, deaths, lost,
                   committed>>

\* The CHECK refuses it: the request answers 500, the task fails.
SaveRefused(p) ==
    /\ session[p].pc = "reread"
    /\ session[p].diff # {}
    /\ ~RowLocked
    /\ ~CheckConstraint(After(p))
    /\ session' = [session EXCEPT ![p] = Idle]
    /\ lost' = (lost \/ p \in Recomputers)
    /\ UNCHANGED <<project, votes, series, tasks, approvals, writes, deaths, committed>>

\* Mutant: only the windows that are new get a snapshot.
Upserted_OnlyNew(v) ==
    [n \in Windows |-> IF n <= Span[v] /\ series[n] = 0 THEN v ELSE series[n]]

\* The snapshots a recompute of version v leaves.
Upserted(v) == [n \in Windows |-> IF n <= Span[v] THEN v ELSE series[n]]

\* History only.
Noted(v) == [last |-> v, newest |-> IF v > committed.newest THEN v ELSE committed.newest]

Commit(p) ==
    /\ session[p].pc = "written"
    /\ project' = After(p)
    /\ IF p \in Recomputers
       THEN /\ series' = Upserted(session[p].read)
            /\ committed' = Noted(session[p].read)
       ELSE UNCHANGED <<series, committed>>
    /\ session' = [session EXCEPT ![p] = Idle]
    /\ UNCHANGED <<votes, tasks, approvals, writes, deaths, lost>>

\* Mutant: the message is acknowledged when it is received.
Dies_EarlyAck(p) ==
    /\ session[p].pc # "idle"
    /\ deaths < MaxDeaths
    /\ deaths' = deaths + 1
    /\ session' = [session EXCEPT ![p] = Idle]
    /\ UNCHANGED <<project, votes, series, tasks, approvals, writes, lost, committed>>

\* The process is killed, and the transaction with it; a recompute's message
\* was not acknowledged and is delivered again.
Dies(p) ==
    /\ session[p].pc # "idle"
    /\ deaths < MaxDeaths
    /\ deaths' = deaths + 1
    /\ session' = [session EXCEPT ![p] = Idle]
    /\ tasks' = IF p \in Recomputers THEN tasks + 1 ELSE tasks
    /\ UNCHANGED <<project, votes, series, approvals, writes, lost, committed>>

-----------------------------------------------------------------------------
Write(p) == RowRead(p) \/ Save(p) \/ SaveRefused(p) \/ Commit(p)

RecomputeTask(r) == StartRecompute(r) \/ ReadVotes(r) \/ UpsertSeries(r) \/ Write(r)

Request(c) == ApproveProject(c) \/ ArchiveProject(c) \/ EditProject(c) \/ RefreshStatus(c)

ProjectNext ==
    \/ Score
    \/ RequestRecompute
    \/ \E r \in Recomputers : RecomputeTask(r)
    \/ \E c \in Callers : Request(c) \/ Write(c)
    \/ \E p \in Processes : Dies(p)

ProjectSpec == ProjectInit /\ [][ProjectNext]_projectVars

\* Workers consume their queue, an open transaction goes on, and the scheduled
\* job refreshes the status of the projects list_for_maintenance gives it.
ProjectFairness ==
    /\ \A r \in Recomputers : WF_projectVars(RecomputeTask(r))
    /\ \A c \in Callers : WF_projectVars(Write(c))
    /\ WF_projectVars(\E c \in Callers : project.status # "archived" /\ RefreshStatus(c))

ProjectFairSpec == ProjectSpec /\ ProjectFairness

-----------------------------------------------------------------------------
(* Properties *)

\* The predictions have reached the ceiling in one of their versions.
Earned == \E v \in 1..votes : Displayed[v] >= MachineCeiling

\* The timeline is that of version v.
Covers(v) == \A n \in Windows : v > 0 /\ n <= Span[v] => series[n] = v

\* Every variable has its type.
ProjectTypeOK ==
    /\ project \in Row
    /\ votes \in 0..MaxVotes
    /\ series \in [Windows -> 0..MaxVotes]
    /\ tasks \in Nat
    /\ session \in [Processes -> Sessions]
    /\ approvals \in 0..MaxApprovals
    /\ writes \in 0..MaxWrites
    /\ deaths \in 0..MaxDeaths
    /\ lost \in BOOLEAN
    /\ committed \in [last : 0..MaxVotes, newest : 0..MaxVotes]

\* No more than 80 % without an approval.  The use cases do not ensure it: two
\* stale saves of an approved project, one that takes the approval back and one
\* that sends only progress_pct, leave 100 % behind; the CHECK is what stops
\* the second.
CeilingNeedsApproval ==
    project.progress > MachineCeiling => project.approval = "approved"

\* A project awaits its inspection, or was approved, only if the predictions
\* once gave it the machine's ceiling: neither a stale save nor a request can
\* bring an approval about that no recompute asked for.
AwaitingWasEarned ==
    project.approval # "not_ready" => Earned

\* The last recompute to commit was overtaken: since it read the predictions a
\* newer version had been committed.  Nothing serialises recompute_window
\* between that read and the upsert; only the rows are locked, from there on.
Overtaken == committed.last < committed.newest

\* The timeline is one computation: no window's snapshot comes from an older
\* reading of the predictions than a later window's, nor the reverse.  It is
\* what idempotent and safe under concurrency asks of recompute_window.
OneTimeline ==
    \A m, n \in Windows : m <= n /\ series[n] # 0 => series[m] = series[n]

\* Whatever recomputes overlap: the windows of the last one to commit are all
\* of its version, and a snapshot beyond them is one of a newer version.
TimelineOfTheLast ==
    /\ Covers(committed.last)
    /\ \A n \in Windows :
          series[n] # 0 => committed.last <= series[n] /\ series[n] <= committed.newest

\* With no recompute waiting or running, the current predictions have been
\* through a recompute that committed, unless one failed; and the timeline is
\* theirs, unless the last recompute to commit was overtaken.
TimelineCaughtUp ==
    /\ tasks = 0
    /\ \A r \in Recomputers : session[r].pc = "idle"
    /\ ~lost
    => /\ committed.newest = votes
       /\ Overtaken \/ Covers(votes)

\* The approval of every entity an open transaction may save was earned.
EntitiesEarned ==
    \A p \in Processes : session[p].entity.approval # "not_ready" => Earned

\* At most one transaction has an UPDATE of the project outstanding, and what
\* it will leave satisfies the CHECK.
OneWriter ==
    \A p \in Processes : session[p].pc = "written" /\ session[p].diff # {} =>
        /\ CheckConstraint(After(p))
        /\ \A q \in Processes :
              session[q].pc = "written" /\ session[q].diff # {} => q = p

\* What has been committed and read is no newer than the predictions, and no
\* snapshot is of a version that does not reach its window.
ReadingsAdvance ==
    /\ committed.last <= committed.newest /\ committed.newest <= votes
    /\ \A n \in Windows : series[n] <= committed.newest /\ (series[n] # 0 => n <= Span[series[n]])
    /\ \A r \in Recomputers : session[r].pc \notin {"idle", "loaded"} =>
          session[r].read \in 1..votes

\* The current predictions have been through a recompute that committed, or
\* one is on its way that will read them, or has.
RecomputeOwed ==
    \/ lost
    \/ tasks > 0
    \/ \E r \in Recomputers :
          \/ session[r].pc = "loaded"
          \/ session[r].pc # "idle" /\ session[r].read = votes
    \/ committed.newest = votes

\* The invariant the proofs use, preserved by every step.
ProjectIInv ==
    /\ ProjectTypeOK
    /\ CeilingNeedsApproval
    /\ AwaitingWasEarned
    /\ EntitiesEarned
    /\ OneWriter
    /\ ReadingsAdvance
    /\ Covers(committed.last)
    /\ RecomputeOwed

\* An approval stands: it is the record of who inspected the site, and the
\* API refuses to approve a project twice (ALREADY_APPROVED).
ApprovalStands ==
    [][project.approval = "approved" => /\ project'.approval = "approved"
                                       /\ project'.signature = project.signature]_projectVars

\* Once requests and failures are over, the scheduled job brings the stored
\* status back to the derived one, or the row says "archived" - the job does not
\* look at such a row (list_for_maintenance), not even when archived_at was lost
\* to a stale save - and the timeline is that of the last predictions, unless
\* the last recompute was overtaken: no recompute waits for ever for a row
\* another transaction holds.
ProjectSettles ==
    <>[](/\ project.status \in {DerivedStatus(project), "archived"}
         /\ lost \/ (committed.newest = votes /\ (Overtaken \/ Covers(votes))))
=============================================================================
