------------------------ MODULE ProjectProgressProofs ------------------------
(***************************************************************************)
(* For every number of workers, requests, versions and failures: the       *)
(* inductive invariant IInv of ProjectProgress and what it implies.        *)
(*                                                                         *)
(* The layers of IInv: the types; where an approval may come from          *)
(* (EntitiesEarned covers the entities that open transactions will save);  *)
(* the CHECK, which holds of what the one outstanding UPDATE will leave    *)
(* (OneWriter); what recomputes have read and what they owe.               *)
(***************************************************************************)
EXTENDS ProjectProgress, TLAPS

USE ProjectAssumption

-----------------------------------------------------------------------------
(* Rows and types *)

LEMMA NewProjectTyped == NewProject \in Row /\ Idle \in Sessions
  BY DEF NewProject, Row, Idle, Sessions, Approvals, Statuses, Complete

LEMMA MergedTyped ==
  ASSUME NEW row \in Row, NEW entity \in Row, NEW diff
  PROVE  Merged(row, entity, diff) \in Row
  BY DEF Merged, Row

LEMMA MergedNothing ==
  ASSUME NEW row \in Row, NEW entity \in Row
  PROVE  Merged(row, entity, {}) = row
  BY DEF Merged, Row

LEMMA AfterTyped ==
  ASSUME ProjectTypeOK, NEW p \in Processes
  PROVE  After(p) \in Row
  BY MergedTyped DEF ProjectTypeOK, Sessions, After

LEMMA AfterNothing ==
  ASSUME ProjectTypeOK, NEW p \in Processes, session[p].diff = {}
  PROVE  After(p) = project
  BY MergedNothing DEF ProjectTypeOK, Sessions, After

LEMMA RecomputedTyped ==
  ASSUME NEW entity \in Row, NEW v \in Versions
  PROVE  Recomputed(entity, v) \in Row
  <1>1. Displayed[v] \in 0..Complete
    BY DEF MachineCeiling, Complete
  <1> QED
    BY <1>1 DEF Recomputed, Row, Approvals

LEMMA OpenTyped ==
  ASSUME ProjectTypeOK, NEW c \in Callers, NEW entity \in Row,
         NEW diff \in SUBSET (Columns \union {"other"}), Open(c, entity, diff)
  PROVE  session' \in [Processes -> Sessions]
  BY NewProjectTyped DEF ProjectTypeOK, Open, Processes, Sessions, Idle

\* What a request opens its transaction with.
LEMMA RequestOpens ==
  ASSUME ProjectTypeOK, NEW c \in Callers, Request(c)
  PROVE  \E entity \in Row, diff \in {{}, {"other"}} :
            /\ Open(c, entity, diff)
            /\ entity.approval # "not_ready" => project.approval # "not_ready"
  <1>1. project \in Row
    BY DEF ProjectTypeOK
  <1>2. CASE ApproveProject(c)
    <2>1. PICK n \in Nat : n = approvals'
      BY <1>2 DEF ApproveProject, ProjectTypeOK
    <2> DEFINE e == [project EXCEPT !.progress = Complete, !.approval = "approved",
                                    !.signature = n, !.status = "completed"]
    <2>2. e \in Row
      <3>1. 100 \in 0..100 /\ "approved" \in Approvals /\ "completed" \in Statuses
        BY DEF Approvals, Statuses
      <3> QED
        BY <1>1, <3>1 DEF Row, Complete
    <2>3. Open(c, e, {}) /\ project.approval # "not_ready"
      BY <1>2, <2>1 DEF ApproveProject
    <2> QED
      BY <2>2, <2>3
  <1>3. CASE ArchiveProject(c)
    <2> DEFINE e == [project EXCEPT !.archived = TRUE, !.status = "archived"]
    <2>1. e \in Row /\ e.approval = project.approval
      BY <1>1 DEF Row, Statuses
    <2>2. Open(c, e, {})
      BY <1>3 DEF ArchiveProject
    <2> QED
      BY <2>1, <2>2
  <1>4. CASE EditProject(c)
    BY <1>1, <1>4 DEF EditProject
  <1>5. CASE RefreshStatus(c)
    <2> DEFINE e == [project EXCEPT !.status = DerivedStatus(project)]
    <2>1. DerivedStatus(project) \in Statuses
      BY DEF DerivedStatus, Statuses
    <2>2. e \in Row /\ e.approval = project.approval
      BY <1>1, <2>1 DEF Row
    <2>3. Open(c, e, {})
      BY <1>5 DEF RefreshStatus
    <2> QED
      BY <2>2, <2>3
  <1> QED
    BY <1>2, <1>3, <1>4, <1>5 DEF Request

LEMMA TypeStep == ProjectTypeOK /\ ReadingsAdvance /\ [ProjectNext]_projectVars => ProjectTypeOK'
  <1> SUFFICES ASSUME ProjectTypeOK, ReadingsAdvance, [ProjectNext]_projectVars PROVE ProjectTypeOK'
    OBVIOUS
  <1> USE NewProjectTyped DEF ProjectTypeOK
  <1>1. CASE Score
    BY <1>1 DEF Score
  <1>2. CASE RequestRecompute
    BY <1>2 DEF RequestRecompute
  <1>3. ASSUME NEW r \in Recomputers, StartRecompute(r) PROVE ProjectTypeOK'
    <2> DEFINE s == [Idle EXCEPT !.pc = "loaded", !.entity = project]
    <2>1. s \in Sessions
      BY DEF Sessions
    <2>2. session' = [session EXCEPT ![r] = s] /\ tasks' = tasks - 1
      BY <1>3 DEF StartRecompute
    <2>3. session' \in [Processes -> Sessions]
      BY <2>1, <2>2
    <2>4. tasks' \in Nat
      BY <1>3, <2>2 DEF StartRecompute
    <2> QED
      BY <1>3, <2>3, <2>4 DEF StartRecompute
  <1>4. ASSUME NEW r \in Recomputers, ReadVotes(r) PROVE ProjectTypeOK'
    <2>1. CASE votes = 0
      <3>1. session' = [session EXCEPT ![r] = Idle]
        BY <1>4, <2>1 DEF ReadVotes
      <3> QED
        BY <1>4, <3>1 DEF ReadVotes
    <2>2. CASE votes # 0
      <3>1. session' = [session EXCEPT ![r].pc = "read", ![r].read = votes]
        BY <1>4, <2>2 DEF ReadVotes, Processes
      <3>2. session' \in [Processes -> Sessions]
        BY <3>1 DEF Sessions
      <3> QED
        BY <1>4, <3>2 DEF ReadVotes
    <2> QED
      BY <2>1, <2>2
  <1>5. ASSUME NEW r \in Recomputers, UpsertSeries(r) PROVE ProjectTypeOK'
    <2>1. session[r].read \in Versions
      <3>1. session[r].pc = "read"
        BY <1>5 DEF UpsertSeries
      <3>2. session[r].read \in 1..votes
        BY <3>1 DEF ReadingsAdvance
      <3> QED
        BY <3>2 DEF Versions
    <2>2. Recomputed(session[r].entity, session[r].read) \in Row
      BY <2>1, RecomputedTyped DEF Processes, Sessions
    <2> QED
      BY <1>5, <2>2 DEF UpsertSeries, Processes, Sessions
  <1>6. ASSUME NEW c \in Callers, Request(c) PROVE ProjectTypeOK'
    <2>1. session' \in [Processes -> Sessions]
      BY <1>6, RequestOpens, OpenTyped DEF Columns
    <2>2. UNCHANGED <<project, votes, series, tasks, deaths, lost, committed>>
      BY <1>6, RequestOpens DEF Open
    <2>3. approvals' \in 0..MaxApprovals /\ writes' \in 0..MaxWrites
      BY <1>6 DEF Request, ApproveProject, ArchiveProject, EditProject, RefreshStatus
    <2> QED
      BY <2>1, <2>2, <2>3
  <1>7. ASSUME NEW p \in Processes, RowRead(p) PROVE ProjectTypeOK'
    <2> DEFINE more == {c \in Columns : session[p].entity[c] # project[c]}
    <2>1. session[p].diff \union more \in SUBSET (Columns \union {"other"})
      BY DEF Sessions
    <2>2. session' = [session EXCEPT ![p].pc = "reread",
                                     ![p].diff = session[p].diff \union more]
      BY <1>7 DEF RowRead
    <2>3. session' \in [Processes -> Sessions]
      BY <2>1, <2>2 DEF Sessions
    <2> QED
      BY <1>7, <2>3 DEF RowRead
  <1>8. ASSUME NEW p \in Processes, Save(p) PROVE ProjectTypeOK'
    BY <1>8 DEF Save, Sessions
  <1>9. ASSUME NEW p \in Processes, SaveRefused(p) PROVE ProjectTypeOK'
    BY <1>9 DEF SaveRefused
  <1>10. ASSUME NEW p \in Processes, Commit(p) PROVE ProjectTypeOK'
    <2>1. project' \in Row
      BY <1>10, AfterTyped DEF Commit
    <2>2. session[p].read \in 0..MaxVotes
      BY DEF Sessions
    <2>3. series' \in [Windows -> 0..MaxVotes]
      BY <1>10, <2>2 DEF Commit, Upserted
    <2>4. committed' \in [last : 0..MaxVotes, newest : 0..MaxVotes]
      BY <1>10, <2>2 DEF Commit, Noted
    <2> QED
      BY <1>10, <2>1, <2>3, <2>4 DEF Commit
  <1>11. ASSUME NEW p \in Processes, Dies(p) PROVE ProjectTypeOK'
    BY <1>11 DEF Dies
  <1>12. CASE UNCHANGED projectVars
    BY <1>12 DEF projectVars
  <1> QED
    BY <1>1, <1>2, <1>3, <1>4, <1>5, <1>6, <1>7, <1>8, <1>9, <1>10, <1>11, <1>12
       DEF ProjectNext, RecomputeTask, Write, Processes

-----------------------------------------------------------------------------
(* Where an approval may come from *)

\* What an UPDATE leaves of the approval is the entity's or the row's.
LEMMA AfterApproval ==
  ASSUME NEW p \in Processes
  PROVE  After(p).approval \in {session[p].entity.approval, project.approval}
  BY DEF After, Merged

LEMMA EarnedStays ==
  ASSUME ProjectTypeOK, ProjectTypeOK', votes' >= votes, Earned
  PROVE  Earned'
  BY DEF ProjectTypeOK, Earned

LEMMA VotesGrow == ProjectTypeOK /\ [ProjectNext]_projectVars => votes' >= votes
  <1> SUFFICES ASSUME ProjectTypeOK, [ProjectNext]_projectVars PROVE votes' >= votes
    OBVIOUS
  <1>1. votes \in Nat
    BY DEF ProjectTypeOK
  <1>2. votes' \in {votes, votes + 1}
    BY DEF ProjectNext, RecomputeTask, Request, Write, Score, RequestRecompute, StartRecompute,
           ReadVotes, UpsertSeries, ApproveProject, ArchiveProject, EditProject,
           RefreshStatus, Open, RowRead, Save, SaveRefused, Commit, Dies, projectVars
  <1> QED
    BY <1>1, <1>2

LEMMA ApprovalStep ==
  ASSUME ProjectTypeOK, ProjectTypeOK', AwaitingWasEarned, EntitiesEarned, ReadingsAdvance, [ProjectNext]_projectVars
  PROVE  AwaitingWasEarned' /\ EntitiesEarned'
  <1> DEFINE Granted(a) == a # "not_ready" => Earned
  <1>1. Earned => Earned'
    BY EarnedStays, VotesGrow
  <1>2. Granted(project.approval) /\ \A p \in Processes : Granted(session[p].entity.approval)
    BY DEF AwaitingWasEarned, EntitiesEarned
  <1>3. /\ Granted(project'.approval)
        /\ \A p \in Processes : Granted(session'[p].entity.approval)
    <2>1. Granted(Idle.entity.approval)
      BY DEF Idle, NewProject
    <2>2. session \in [Processes -> Sessions]
      BY DEF ProjectTypeOK
    <2>3. ASSUME NEW p \in Processes, NEW s, session' = [session EXCEPT ![p] = s],
                 Granted(s.entity.approval)
          PROVE  \A q \in Processes : Granted(session'[q].entity.approval)
      BY <1>2, <2>2, <2>3
    <2>4. CASE Score \/ RequestRecompute \/ UNCHANGED projectVars
      BY <1>2, <2>4 DEF Score, RequestRecompute, projectVars
    <2>5. ASSUME NEW r \in Recomputers, StartRecompute(r)
          PROVE  <1>3
      <3> DEFINE s == [Idle EXCEPT !.pc = "loaded", !.entity = project]
      <3>1. session' = [session EXCEPT ![r] = s] /\ project' = project
        BY <2>5 DEF StartRecompute
      <3>2. s.entity = project
        BY DEF Idle
      <3> QED
        BY <1>2, <2>3, <3>1, <3>2 DEF Processes
    <2>6. ASSUME NEW r \in Recomputers, ReadVotes(r)
          PROVE  <1>3
      <3>1. CASE votes = 0
        BY <1>2, <2>1, <2>3, <2>6, <3>1 DEF ReadVotes, Processes
      <3>2. CASE votes # 0
        <4>1. session' = [session EXCEPT ![r].pc = "read", ![r].read = votes]
          BY <2>2, <2>6, <3>2 DEF ReadVotes, Processes
        <4> QED
          BY <1>2, <2>2, <2>6, <4>1 DEF ReadVotes, Sessions
      <3> QED
        BY <3>1, <3>2
    <2>7. ASSUME NEW r \in Recomputers, UpsertSeries(r)
          PROVE  <1>3
      <3> DEFINE e == Recomputed(session[r].entity, session[r].read)
      <3>1. session[r].read \in 1..votes
        <4>1. session[r].pc = "read"
          BY <2>7 DEF UpsertSeries
        <4> QED
          BY <4>1 DEF ReadingsAdvance
      <3>2. session[r].entity \in Row /\ r \in Processes
        BY <2>2 DEF Sessions, Processes
      <3>3. e.approval = session[r].entity.approval \/ Displayed[session[r].read] >= MachineCeiling
        BY <3>2 DEF Recomputed, Row
      <3>4. Granted(e.approval)
        BY <1>2, <3>1, <3>2, <3>3 DEF Earned
      <3>5. session' = [session EXCEPT ![r].pc = "ready", ![r].entity = e] /\ project' = project
        BY <2>7, <3>2 DEF UpsertSeries
      <3> QED
        BY <1>2, <2>2, <3>2, <3>4, <3>5 DEF Sessions
    <2>8. ASSUME NEW c \in Callers, Request(c)
          PROVE  <1>3
      <3>1. PICK entity \in Row, diff \in {{}, {"other"}} :
               /\ Open(c, entity, diff)
               /\ entity.approval # "not_ready" => project.approval # "not_ready"
        BY <2>8, RequestOpens
      <3> DEFINE s == [Idle EXCEPT !.pc = "ready", !.entity = entity, !.diff = diff]
      <3>2. session' = [session EXCEPT ![c] = s] /\ project' = project
        BY <3>1 DEF Open
      <3>3. s.entity = entity
        BY DEF Idle
      <3> QED
        BY <1>2, <2>3, <3>1, <3>2, <3>3 DEF Processes
    <2>9. ASSUME NEW p \in Processes, RowRead(p)
          PROVE  <1>3
      <3> DEFINE d == session[p].diff \union {c \in Columns : session[p].entity[c] # project[c]}
      <3>1. session' = [session EXCEPT ![p].pc = "reread", ![p].diff = d] /\ project' = project
        BY <2>9 DEF RowRead
      <3> QED
        BY <1>2, <2>2, <3>1 DEF Sessions
    <2>10. ASSUME NEW p \in Processes, Save(p)
           PROVE  <1>3
      BY <1>2, <2>2, <2>10 DEF Save, Sessions
    <2>11. ASSUME NEW p \in Processes, SaveRefused(p) \/ Dies(p)
           PROVE  <1>3
      BY <1>2, <2>1, <2>3, <2>11 DEF SaveRefused, Dies
    <2>12. ASSUME NEW p \in Processes, Commit(p)
           PROVE  <1>3
      <3>1. project' = After(p) /\ session' = [session EXCEPT ![p] = Idle]
        BY <2>12 DEF Commit
      <3>2. Granted(project'.approval)
        BY <1>2, <3>1, AfterApproval
      <3> QED
        BY <2>1, <2>3, <3>1, <3>2
    <2> QED
      BY <2>4, <2>5, <2>6, <2>7, <2>8, <2>9, <2>10, <2>11, <2>12
         DEF ProjectNext, RecomputeTask, Write, Processes
  <1> QED
    BY <1>1, <1>3 DEF AwaitingWasEarned, EntitiesEarned

-----------------------------------------------------------------------------
(* The CHECK *)

\* p has an UPDATE of the project outstanding.
Dirty(p) == session[p].pc = "written" /\ session[p].diff # {}

\* A step that leaves the row alone and makes no transaction dirty.
LEMMA WriterKept ==
  ASSUME CeilingNeedsApproval, OneWriter, project' = project,
         \A p \in Processes : Dirty(p)' => session'[p] = session[p]
  PROVE  CeilingNeedsApproval' /\ OneWriter'
  <1>1. CeilingNeedsApproval'
    BY DEF CeilingNeedsApproval
  <1>2. ASSUME NEW p \in Processes, Dirty(p)'
        PROVE  Dirty(p) /\ After(p)' = After(p)
    BY <1>2 DEF Dirty, After
  <1>3. OneWriter'
    BY <1>2 DEF OneWriter, Dirty, CheckConstraint
  <1> QED
    BY <1>1, <1>3

LEMMA CeilingStep ==
  ASSUME ProjectTypeOK, CeilingNeedsApproval, OneWriter, [ProjectNext]_projectVars
  PROVE  CeilingNeedsApproval' /\ OneWriter'
  <1>1. session \in [Processes -> Sessions] /\ project \in Row
    BY DEF ProjectTypeOK
  <1>2. ASSUME NEW p \in Processes, NEW s, session' = [session EXCEPT ![p] = s],
               s.pc # "written", project' = project
        PROVE  CeilingNeedsApproval' /\ OneWriter'
    <2>1. \A q \in Processes : Dirty(q)' => session'[q] = session[q]
      BY <1>1, <1>2 DEF Dirty
    <2> QED
      BY <1>2, <2>1, WriterKept
  <1>3. Idle.pc # "written"
    BY DEF Idle
  <1>4. CASE Score \/ RequestRecompute \/ UNCHANGED projectVars
    BY <1>4, WriterKept DEF Score, RequestRecompute, projectVars
  <1>5. ASSUME NEW r \in Recomputers, StartRecompute(r)
        PROVE  CeilingNeedsApproval' /\ OneWriter'
    <2> DEFINE s == [Idle EXCEPT !.pc = "loaded", !.entity = project]
    <2>1. s.pc # "written"
      BY DEF Idle
    <2>2. session' = [session EXCEPT ![r] = s] /\ project' = project
      BY <1>5 DEF StartRecompute
    <2> QED
      BY <1>2, <2>1, <2>2 DEF Processes
  <1>6. ASSUME NEW r \in Recomputers, ReadVotes(r)
        PROVE  CeilingNeedsApproval' /\ OneWriter'
    <2>1. \A q \in Processes : Dirty(q)' => session'[q] = session[q]
      BY <1>1, <1>3, <1>6 DEF ReadVotes, Dirty, Processes, Sessions
    <2> QED
      BY <1>6, <2>1, WriterKept DEF ReadVotes
  <1>7. ASSUME NEW r \in Recomputers, UpsertSeries(r)
        PROVE  CeilingNeedsApproval' /\ OneWriter'
    <2>1. \A q \in Processes : Dirty(q)' => session'[q] = session[q]
      BY <1>1, <1>7 DEF UpsertSeries, Dirty, Processes, Sessions
    <2> QED
      BY <1>7, <2>1, WriterKept DEF UpsertSeries
  <1>8. ASSUME NEW c \in Callers, Request(c)
        PROVE  CeilingNeedsApproval' /\ OneWriter'
    <2>1. PICK entity \in Row, diff \in {{}, {"other"}} : Open(c, entity, diff)
      BY <1>8, RequestOpens
    <2> DEFINE s == [Idle EXCEPT !.pc = "ready", !.entity = entity, !.diff = diff]
    <2>2. s.pc # "written"
      BY DEF Idle
    <2>3. session' = [session EXCEPT ![c] = s] /\ project' = project
      BY <2>1 DEF Open
    <2> QED
      BY <1>2, <2>2, <2>3 DEF Processes
  <1>9. ASSUME NEW p \in Processes, RowRead(p)
        PROVE  CeilingNeedsApproval' /\ OneWriter'
    <2>1. \A q \in Processes : Dirty(q)' => session'[q] = session[q]
      BY <1>1, <1>9 DEF RowRead, Dirty, Sessions
    <2> QED
      BY <1>9, <2>1, WriterKept DEF RowRead
  <1>10. ASSUME NEW p \in Processes, Save(p)
         PROVE  CeilingNeedsApproval' /\ OneWriter'
    <2>1. /\ session' = [session EXCEPT ![p].pc = "written"]
          /\ project' = project
          /\ session[p].diff # {} => ~RowLocked /\ CheckConstraint(After(p))
      BY <1>10 DEF Save
    <2>2. CASE session[p].diff = {}
      <3>1. \A q \in Processes : Dirty(q)' => session'[q] = session[q]
        BY <1>1, <2>1, <2>2 DEF Dirty, Sessions
      <3> QED
        BY <2>1, <3>1, WriterKept
    <2>3. CASE session[p].diff # {}
      <3>1. \A q \in Processes : ~Dirty(q)
        BY <2>1, <2>3 DEF RowLocked, Dirty
      <3>2. \A q \in Processes : Dirty(q)' => q = p
        BY <1>1, <2>1, <3>1 DEF Dirty, Sessions
      <3>3. After(p)' = After(p)
        BY <1>1, <2>1 DEF After, Sessions
      <3>4. CheckConstraint(After(p)')
        BY <2>1, <2>3, <3>3
      <3>5. OneWriter'
        BY <3>2, <3>4 DEF OneWriter, Dirty, CheckConstraint
      <3> QED
        BY <2>1, <3>5 DEF CeilingNeedsApproval
    <2> QED
      BY <2>2, <2>3
  <1>11. ASSUME NEW p \in Processes, SaveRefused(p) \/ Dies(p)
         PROVE  CeilingNeedsApproval' /\ OneWriter'
    BY <1>2, <1>3, <1>11 DEF SaveRefused, Dies
  <1>12. ASSUME NEW p \in Processes, Commit(p)
         PROVE  CeilingNeedsApproval' /\ OneWriter'
    <2>1. /\ session[p].pc = "written"
          /\ project' = After(p)
          /\ session' = [session EXCEPT ![p] = Idle]
      BY <1>12 DEF Commit
    <2>2. CASE session[p].diff = {}
      BY <1>2, <1>3, <2>1, <2>2, AfterNothing
    <2>3. CASE session[p].diff # {}
      <3>1. CheckConstraint(After(p)) /\ \A q \in Processes : Dirty(q) => q = p
        BY <2>1, <2>3 DEF OneWriter, Dirty
      <3>2. After(p) \in Row
        BY AfterTyped
      <3>3. CeilingNeedsApproval'
        BY <2>1, <3>1, <3>2
           DEF CheckConstraint, CeilingNeedsApproval, Row, MachineCeiling, Complete
      <3>4. \A q \in Processes : ~Dirty(q)'
        BY <1>1, <1>3, <2>1, <3>1 DEF Dirty
      <3> QED
        BY <3>3, <3>4 DEF OneWriter, Dirty
    <2> QED
      BY <2>2, <2>3
  <1> QED
    BY <1>4, <1>5, <1>6, <1>7, <1>8, <1>9, <1>10, <1>11, <1>12
       DEF ProjectNext, RecomputeTask, Write, Processes

-----------------------------------------------------------------------------
(* What recomputes have read, and what they owe *)

Reading(r) == session[r].pc \notin {"idle", "loaded"}

LEMMA UpsertedWindows ==
  ASSUME ProjectTypeOK, NEW v \in Versions, NEW n \in Windows
  PROVE  Upserted(v)[n] = IF n <= Span[v] THEN v ELSE series[n]
  BY DEF Upserted

LEMMA WindowsAreNumbers == Windows \subseteq Nat \ {0}
  <1>1. \A v \in Versions : Span[v] \in Nat
    OBVIOUS
  <1> QED
    BY <1>1 DEF Windows

\* What is committed stays within the predictions and within its windows.
CommittedWithin ==
    /\ committed.last <= committed.newest /\ committed.newest <= votes
    /\ \A n \in Windows :
          series[n] <= committed.newest /\ (series[n] # 0 => n <= Span[series[n]])

\* A step that leaves the snapshots alone, and by which nobody starts to read.
LEMMA ReadingKept ==
  ASSUME ProjectTypeOK, ProjectTypeOK', ReadingsAdvance, series' = series, committed' = committed,
         votes' >= votes,
         \A r \in Recomputers : Reading(r)' => Reading(r) /\ session'[r].read = session[r].read
  PROVE  ReadingsAdvance'
  <1>1. /\ committed.last <= committed.newest
        /\ committed.newest <= votes'
        /\ \A n \in Windows :
              series[n] <= committed.newest /\ (series[n] # 0 => n <= Span[series[n]])
    BY DEF ReadingsAdvance, ProjectTypeOK
  <1>2. ASSUME NEW r \in Recomputers, Reading(r)'
        PROVE  session'[r].read \in 1..votes'
    BY <1>2 DEF ReadingsAdvance, ProjectTypeOK, Reading
  <1> QED
    BY <1>1, <1>2 DEF ReadingsAdvance, Reading

\* A recompute that commits what it read keeps the readings in order.
LEMMA CommitAdvances ==
  ASSUME ProjectTypeOK, ProjectTypeOK', ReadingsAdvance, NEW p \in Recomputers, Commit(p)
  PROVE  CommittedWithin'
  <1> DEFINE v == session[p].read
  <1>1. v \in 1..votes /\ v \in Versions
    <2>1. v \in 1..votes
      BY DEF Commit, ReadingsAdvance
    <2> QED
      BY <2>1 DEF Versions, ProjectTypeOK
  <1>2. series' = Upserted(v) /\ committed' = Noted(v) /\ votes' = votes
    BY DEF Commit
  <1>3. /\ committed'.last = v
        /\ v <= committed'.newest
        /\ committed.newest <= committed'.newest
        /\ committed'.newest <= votes
    BY <1>1, <1>2 DEF Noted, ProjectTypeOK, ReadingsAdvance
  <1>4. ASSUME NEW n \in Windows
        PROVE  series'[n] <= committed'.newest /\ (series'[n] # 0 => n <= Span[series'[n]])
    <2>1. series'[n] = IF n <= Span[v] THEN v ELSE series[n]
      BY <1>1, <1>2, UpsertedWindows
    <2>2. series[n] <= committed'.newest
      BY <1>3 DEF ReadingsAdvance, ProjectTypeOK
    <2> QED
      BY <1>3, <2>1, <2>2 DEF ReadingsAdvance
  <1> QED
    BY <1>2, <1>3, <1>4 DEF CommittedWithin

LEMMA ReadingStep ==
  ASSUME ProjectTypeOK, ProjectTypeOK', ReadingsAdvance, [ProjectNext]_projectVars
  PROVE  ReadingsAdvance'
  <1>1. session \in [Processes -> Sessions] /\ votes \in Nat /\ votes' \in Nat
    BY DEF ProjectTypeOK
  <1>2. votes' >= votes
    BY VotesGrow
  <1>3. Idle.pc = "idle"
    BY DEF Idle
  <1>4. CASE Score \/ RequestRecompute \/ UNCHANGED projectVars
    BY <1>2, <1>4, ReadingKept DEF Score, RequestRecompute, projectVars, Reading
  <1>5. ASSUME NEW r \in Recomputers, StartRecompute(r)
        PROVE  ReadingsAdvance'
    <2> DEFINE s == [Idle EXCEPT !.pc = "loaded", !.entity = project]
    <2>1. s.pc = "loaded"
      BY DEF Idle
    <2>2. /\ session' = [session EXCEPT ![r] = s]
          /\ UNCHANGED <<series, committed>>
      BY <1>5 DEF StartRecompute
    <2>3. \A q \in Recomputers : Reading(q)' => Reading(q) /\ session'[q].read = session[q].read
      BY <1>1, <2>1, <2>2 DEF Reading, Processes
    <2> QED
      BY <1>2, <2>2, <2>3, ReadingKept
  <1>6. ASSUME NEW r \in Recomputers, ReadVotes(r)
        PROVE  ReadingsAdvance'
    <2>1. CASE votes = 0
      <3>1. session' = [session EXCEPT ![r] = Idle] /\ UNCHANGED <<series, committed>>
        BY <1>6, <2>1 DEF ReadVotes
      <3>2. \A q \in Recomputers : Reading(q)' => Reading(q) /\ session'[q].read = session[q].read
        BY <1>1, <1>3, <3>1 DEF Reading, Processes
      <3> QED
        BY <1>2, <3>1, <3>2, ReadingKept
    <2>2. CASE votes # 0
      <3>1. /\ session' = [session EXCEPT ![r].pc = "read", ![r].read = votes]
            /\ UNCHANGED <<series, committed, votes>>
        BY <1>6, <2>2 DEF ReadVotes, Processes
      <3>2. ASSUME NEW q \in Recomputers, Reading(q)'
            PROVE  session'[q].read \in 1..votes'
        <4>1. CASE q = r
          <5>1. session'[q].read = votes
            BY <1>1, <3>1, <4>1 DEF Processes, Sessions
          <5>2. votes \in 1..votes
            BY <1>1, <2>2
          <5> QED
            BY <3>1, <5>1, <5>2
        <4>2. CASE q # r
          <5>1. session'[q] = session[q]
            BY <1>1, <3>1, <4>2 DEF Processes
          <5> QED
            BY <3>1, <3>2, <5>1 DEF ReadingsAdvance, Reading
        <4> QED
          BY <4>1, <4>2
      <3> QED
        BY <3>1, <3>2 DEF ReadingsAdvance, Reading
    <2> QED
      BY <2>1, <2>2
  <1>7. ASSUME NEW r \in Recomputers, UpsertSeries(r)
        PROVE  ReadingsAdvance'
    <2>1. session[r].pc = "read" /\ UNCHANGED <<series, committed>>
      BY <1>7 DEF UpsertSeries
    <2>2. \A q \in Recomputers : Reading(q)' => Reading(q) /\ session'[q].read = session[q].read
      BY <1>1, <1>7, <2>1 DEF UpsertSeries, Reading, Processes, Sessions
    <2> QED
      BY <1>2, <2>1, <2>2, ReadingKept
  <1>8. ASSUME NEW c \in Callers, Request(c)
        PROVE  ReadingsAdvance'
    <2>1. PICK entity \in Row, diff \in {{}, {"other"}} : Open(c, entity, diff)
      BY <1>8, RequestOpens
    <2>2. \A q \in Recomputers : session'[q] = session[q]
      BY <1>1, <2>1 DEF Open, Processes
    <2> QED
      BY <1>2, <2>1, <2>2, ReadingKept DEF Open, Reading
  <1>9. ASSUME NEW p \in Processes, RowRead(p) \/ Save(p)
        PROVE  ReadingsAdvance'
    <2>1. /\ UNCHANGED <<series, committed>>
          /\ \A q \in Processes : session'[q].read = session[q].read
      BY <1>1, <1>9 DEF RowRead, Save, Sessions
    <2>2. \A q \in Processes : Reading(q)' => Reading(q)
      BY <1>1, <1>9 DEF RowRead, Save, Reading, Sessions
    <2> QED
      BY <1>2, <2>1, <2>2, ReadingKept DEF Processes
  <1>10. ASSUME NEW p \in Processes, SaveRefused(p) \/ Dies(p)
         PROVE  ReadingsAdvance'
    <2>1. /\ UNCHANGED <<series, committed>>
          /\ session' = [session EXCEPT ![p] = Idle]
      BY <1>10 DEF SaveRefused, Dies
    <2>2. \A q \in Recomputers : Reading(q)' => Reading(q) /\ session'[q].read = session[q].read
      BY <1>1, <1>3, <2>1 DEF Reading, Processes
    <2> QED
      BY <1>2, <2>1, <2>2, ReadingKept
  <1>11. ASSUME NEW p \in Processes, Commit(p)
         PROVE  ReadingsAdvance'
    <2>1. session' = [session EXCEPT ![p] = Idle] /\ votes' = votes
      BY <1>11 DEF Commit
    <2>2. \A q \in Recomputers : Reading(q)' => Reading(q) /\ session'[q].read = session[q].read
      BY <1>1, <1>3, <2>1 DEF Reading, Processes
    <2>3. CASE p \notin Recomputers
      <3>1. UNCHANGED <<series, committed>>
        BY <1>11, <2>3 DEF Commit
      <3> QED
        BY <1>2, <2>2, <3>1, ReadingKept DEF Reading
    <2>4. CASE p \in Recomputers
      <3>1. CommittedWithin'
        BY <1>11, <2>4, CommitAdvances
      <3>2. ASSUME NEW q \in Recomputers, Reading(q)'
            PROVE  session'[q].read \in 1..votes'
        BY <2>1, <2>2, <3>2 DEF ReadingsAdvance, Reading
      <3> QED
        BY <3>1, <3>2 DEF ReadingsAdvance, Reading, CommittedWithin
    <2> QED
      BY <2>3, <2>4
  <1> QED
    BY <1>4, <1>5, <1>6, <1>7, <1>8, <1>9, <1>10, <1>11
       DEF ProjectNext, RecomputeTask, Write, Processes

\* A recompute that commits writes every window of its version, whatever was
\* committed since it read.
LEMMA CommitCovers ==
  ASSUME ProjectTypeOK, ProjectTypeOK', ReadingsAdvance, NEW r \in Recomputers, Commit(r)
  PROVE  /\ committed'.last = session[r].read
         /\ Covers(committed.last)'
  <1> DEFINE v == session[r].read
  <1>1. v \in Versions
    <2>1. v \in 1..votes
      BY DEF Commit, ReadingsAdvance
    <2> QED
      BY <2>1 DEF Versions, ProjectTypeOK
  <1>2. series' = Upserted(v) /\ committed' = Noted(v)
    BY DEF Commit
  <1>3. committed'.last = v
    BY <1>2 DEF Noted
  <1>4. \A n \in Windows : n <= Span[v] => series'[n] = v
    BY <1>1, <1>2, UpsertedWindows
  <1> QED
    BY <1>3, <1>4 DEF Covers

\* A step that does not commit a recompute.
LEMMA CoversKept ==
  ASSUME UNCHANGED <<series, committed>>, Covers(committed.last)
  PROVE  Covers(committed.last)'
  BY DEF Covers

LEMMA TimelineStep ==
  ASSUME ProjectTypeOK, ProjectTypeOK', ReadingsAdvance, Covers(committed.last), RecomputeOwed, [ProjectNext]_projectVars
  PROVE  Covers(committed.last)' /\ RecomputeOwed'
  <1>1. session \in [Processes -> Sessions] /\ votes \in Nat /\ tasks \in Nat
    BY DEF ProjectTypeOK
  <1>2. Idle.pc = "idle"
    BY DEF Idle
  <1>4. CASE Score \/ RequestRecompute
    <2>1. UNCHANGED <<series, committed>> /\ tasks' > 0
      BY <1>1, <1>4 DEF Score, RequestRecompute
    <2> QED
      BY <2>1, CoversKept DEF RecomputeOwed
  <1>5. ASSUME NEW r \in Recomputers, StartRecompute(r)
        PROVE  Covers(committed.last)' /\ RecomputeOwed'
    <2> DEFINE s == [Idle EXCEPT !.pc = "loaded", !.entity = project]
    <2>1. s.pc = "loaded"
      BY DEF Idle
    <2>2. session' = [session EXCEPT ![r] = s] /\ UNCHANGED <<series, committed>>
      BY <1>5 DEF StartRecompute
    <2>3. session'[r].pc = "loaded"
      BY <1>1, <2>1, <2>2 DEF Processes
    <2> QED
      BY <2>2, <2>3, CoversKept DEF RecomputeOwed
  <1>6. ASSUME NEW r \in Recomputers, ReadVotes(r)
        PROVE  Covers(committed.last)' /\ RecomputeOwed'
    <2>1. UNCHANGED <<series, committed, votes>>
      BY <1>6 DEF ReadVotes
    <2>2. CASE votes = 0
      <3>1. committed.newest = votes
        BY <2>2 DEF ReadingsAdvance, ProjectTypeOK
      <3> QED
        BY <2>1, <3>1, CoversKept DEF RecomputeOwed
    <2>3. CASE votes # 0
      <3>1. session' = [session EXCEPT ![r].pc = "read", ![r].read = votes]
        BY <1>6, <2>3 DEF ReadVotes, Processes
      <3>2. session'[r].pc = "read" /\ session'[r].read = votes
        BY <1>1, <3>1 DEF Processes, Sessions
      <3> QED
        BY <2>1, <3>2, CoversKept DEF RecomputeOwed
    <2> QED
      BY <2>2, <2>3
  <1>7. ASSUME UNCHANGED <<votes, series, tasks, lost, committed>>,
               \A r \in Recomputers :
                  /\ session[r].pc = "loaded" => session'[r].pc = "loaded"
                  /\ session[r].pc # "idle" => session'[r].pc # "idle"
                  /\ session'[r].read = session[r].read
        PROVE  Covers(committed.last)' /\ RecomputeOwed'
    BY <1>7, CoversKept DEF RecomputeOwed
  <1>8. ASSUME NEW r \in Recomputers, UpsertSeries(r)
        PROVE  Covers(committed.last)' /\ RecomputeOwed'
    <2>1. session[r].pc = "read" /\ UNCHANGED <<votes, series, tasks, lost, committed>>
      BY <1>8 DEF UpsertSeries
    <2>2. \A q \in Recomputers :
             /\ session[q].pc = "loaded" => session'[q].pc = "loaded"
             /\ session[q].pc # "idle" => session'[q].pc # "idle"
             /\ session'[q].read = session[q].read
      BY <1>1, <1>8, <2>1 DEF UpsertSeries, Processes, Sessions
    <2> QED
      BY <1>7, <2>1, <2>2
  <1>9. ASSUME NEW c \in Callers, Request(c)
        PROVE  Covers(committed.last)' /\ RecomputeOwed'
    <2>1. PICK entity \in Row, diff \in {{}, {"other"}} : Open(c, entity, diff)
      BY <1>9, RequestOpens
    <2>2. \A q \in Recomputers : session'[q] = session[q]
      BY <1>1, <2>1 DEF Open, Processes
    <2> QED
      BY <1>7, <2>1, <2>2 DEF Open
  <1>10. ASSUME NEW p \in Processes, RowRead(p) \/ Save(p)
         PROVE  Covers(committed.last)' /\ RecomputeOwed'
    <2>1. /\ session[p].pc \in {"ready", "reread"}
          /\ UNCHANGED <<votes, series, tasks, lost, committed>>
      BY <1>10 DEF RowRead, Save
    <2>2. \A q \in Recomputers :
             /\ session[q].pc = "loaded" => session'[q].pc = "loaded"
             /\ session[q].pc # "idle" => session'[q].pc # "idle"
             /\ session'[q].read = session[q].read
      BY <1>1, <1>10, <2>1 DEF RowRead, Save, Processes, Sessions
    <2> QED
      BY <1>7, <2>1, <2>2
  <1>11. ASSUME NEW p \in Callers, SaveRefused(p) \/ Dies(p) \/ Commit(p)
         PROVE  Covers(committed.last)' /\ RecomputeOwed'
    <2>1. /\ session' = [session EXCEPT ![p] = Idle]
          /\ UNCHANGED <<votes, series, tasks, committed>>
          /\ lost' = lost
      BY <1>11 DEF SaveRefused, Dies, Commit, ProjectTypeOK
    <2>2. \A q \in Recomputers : session'[q] = session[q]
      BY <1>1, <1>11, <2>1 DEF Processes
    <2> QED
      BY <1>7, <2>1, <2>2
  <1>12. ASSUME NEW r \in Recomputers, SaveRefused(r)
         PROVE  Covers(committed.last)' /\ RecomputeOwed'
    BY <1>12, CoversKept DEF SaveRefused, RecomputeOwed
  <1>13. ASSUME NEW r \in Recomputers, Dies(r)
         PROVE  Covers(committed.last)' /\ RecomputeOwed'
    <2>1. UNCHANGED <<series, committed>> /\ tasks' > 0
      BY <1>1, <1>13 DEF Dies
    <2> QED
      BY <2>1, CoversKept DEF RecomputeOwed
  <1>14. ASSUME NEW r \in Recomputers, Commit(r)
         PROVE  Covers(committed.last)' /\ RecomputeOwed'
    <2>1. Covers(committed.last)'
      BY <1>14, CommitCovers
    <2>2. /\ UNCHANGED <<votes, tasks, lost>>
          /\ committed' = Noted(session[r].read)
          /\ session' = [session EXCEPT ![r] = Idle]
          /\ session[r].pc = "written"
      BY <1>14 DEF Commit
    <2>3. session[r].read \in 1..votes /\ committed.newest \in 0..votes
      BY <2>2 DEF ReadingsAdvance, ProjectTypeOK
    <2>4. session[r].read = votes \/ committed.newest = votes => committed'.newest = votes
      BY <1>1, <2>2, <2>3 DEF Noted
    <2>5. ASSUME NEW q \in Recomputers, q # r
          PROVE  session'[q] = session[q]
      BY <1>1, <2>2, <2>5 DEF Processes
    <2> QED
      BY <2>1, <2>2, <2>4, <2>5 DEF RecomputeOwed
  <1>15. CASE UNCHANGED projectVars
    BY <1>15, CoversKept DEF projectVars, RecomputeOwed
  <1> QED
    BY <1>4, <1>5, <1>6, <1>8, <1>9, <1>10, <1>11, <1>12, <1>13, <1>14, <1>15
       DEF ProjectNext, RecomputeTask, Write, Processes

-----------------------------------------------------------------------------
(* The invariant *)

LEMMA InitInv == ProjectInit => ProjectIInv
  <1> SUFFICES ASSUME ProjectInit PROVE ProjectIInv
    OBVIOUS
  <1> USE DEF ProjectInit
  <1>1. ProjectTypeOK
    <2>1. 0 \in 0..MaxVotes /\ 0 \in 0..MaxApprovals /\ 0 \in 0..MaxWrites /\ 0 \in 0..MaxDeaths
      OBVIOUS
    <2>2. series \in [Windows -> 0..MaxVotes] /\ session \in [Processes -> Sessions]
      BY <2>1, NewProjectTyped
    <2> QED
      BY <2>1, <2>2, NewProjectTyped DEF ProjectTypeOK
  <1>2. CeilingNeedsApproval /\ AwaitingWasEarned
    BY DEF CeilingNeedsApproval, AwaitingWasEarned, NewProject, MachineCeiling
  <1>3. EntitiesEarned
    BY DEF EntitiesEarned, Idle, NewProject
  <1>4. OneWriter
    BY DEF OneWriter, Idle
  <1>5. ReadingsAdvance
    BY DEF ReadingsAdvance, Processes, Idle
  <1>6. Covers(committed.last) /\ RecomputeOwed
    BY DEF RecomputeOwed, Covers
  <1> QED
    BY <1>1, <1>2, <1>3, <1>4, <1>5, <1>6 DEF ProjectIInv

LEMMA InvStep == ProjectIInv /\ [ProjectNext]_projectVars => ProjectIInv'
  <1> SUFFICES ASSUME ProjectIInv, [ProjectNext]_projectVars PROVE ProjectIInv'
    OBVIOUS
  <1> USE DEF ProjectIInv
  <1>1. ProjectTypeOK'
    BY TypeStep
  <1>2. AwaitingWasEarned' /\ EntitiesEarned'
    BY <1>1, ApprovalStep
  <1>3. CeilingNeedsApproval' /\ OneWriter'
    BY CeilingStep
  <1>4. ReadingsAdvance'
    BY <1>1, ReadingStep
  <1>5. Covers(committed.last)' /\ RecomputeOwed'
    BY <1>1, TimelineStep
  <1> QED
    BY <1>1, <1>2, <1>3, <1>4, <1>5

\* The invariant behind the theorems below holds of every reachable state of
\* ProjectProgress.
THEOREM Invariance == ProjectSpec => []ProjectIInv
  BY InitInv, InvStep, PTL DEF ProjectSpec

\* Every variable keeps its type.
THEOREM TypeCorrect == ProjectSpec => []ProjectTypeOK
  <1>1. ProjectIInv => ProjectTypeOK
    BY DEF ProjectIInv
  <1> QED
    BY <1>1, Invariance, PTL

\* The machine ceiling holds of the committed row whatever whole-entity saves
\* race each other, because the CHECK is evaluated on what an UPDATE leaves.
THEOREM MachineCeilingHolds == ProjectSpec => []CeilingNeedsApproval
  <1>1. ProjectIInv => CeilingNeedsApproval
    BY DEF ProjectIInv
  <1> QED
    BY <1>1, Invariance, PTL

\* No project awaits inspection or is approved unless its predictions once
\* reached the ceiling, stale saves included.
THEOREM ApprovalIsEarned == ProjectSpec => []AwaitingWasEarned
  <1>1. ProjectIInv => AwaitingWasEarned
    BY DEF ProjectIInv
  <1> QED
    BY <1>1, Invariance, PTL

\* A snapshot beyond the windows of the last recompute is of a newer version,
\* because a version never reaches less far than an older one.
LEMMA BeyondIsNewer ==
  ASSUME ProjectTypeOK, ReadingsAdvance, Covers(committed.last), NEW n \in Windows, series[n] # 0
  PROVE  committed.last <= series[n] /\ series[n] <= committed.newest
  <1> DEFINE v == committed.last
  <1>1. series[n] \in Versions /\ v \in 0..MaxVotes
    BY DEF ProjectTypeOK, Versions
  <1>2. series[n] <= committed.newest /\ n <= Span[series[n]]
    BY DEF ReadingsAdvance
  <1>3. v <= series[n]
    <2> SUFFICES ASSUME series[n] < v PROVE FALSE
      BY <1>1 DEF Versions
    <2>1. v \in Versions
      BY <1>1 DEF Versions
    <2>2. Span[series[n]] <= Span[v]
      BY <1>1, <2>1 DEF Versions
    <2>3. n <= Span[v]
      BY <1>1, <1>2, <2>1, <2>2, WindowsAreNumbers
    <2>4. series[n] = v
      BY <2>1, <2>3 DEF Covers, Versions
    <2> QED
      BY <1>1, <2>4
  <1> QED
    BY <1>2, <1>3

\* However many recomputes overlap: the windows of the last one to commit are
\* all of its version, and what lies beyond them is of a newer one.
THEOREM LastRecomputeShows == ProjectSpec => []TimelineOfTheLast
  <1>1. ProjectIInv => TimelineOfTheLast
    BY BeyondIsNewer DEF ProjectIInv, TimelineOfTheLast
  <1> QED
    BY <1>1, Invariance, PTL

\* However many recomputes overlap, a timeline put together from two of them is
\* always the work of a recompute that another one, of a newer reading, passed
\* between its read and its commit; without that it is one computation.
THEOREM OneTimelineUnlessOvertaken == ProjectSpec => [](OneTimeline \/ Overtaken)
  <1>1. ProjectIInv => OneTimeline \/ Overtaken
    <2> SUFFICES ASSUME ProjectIInv, ~Overtaken, NEW m \in Windows, NEW n \in Windows,
                        m <= n, series[n] # 0
                 PROVE  series[m] = series[n]
      BY DEF OneTimeline
    <2> DEFINE v == committed.last
    <2>1. series[n] \in Versions /\ v \in 0..MaxVotes /\ committed.newest \in 0..MaxVotes
      BY DEF ProjectIInv, ProjectTypeOK, Versions
    <2>2. series[n] = v
      <3>1. v <= series[n] /\ series[n] <= committed.newest
        BY BeyondIsNewer DEF ProjectIInv
      <3> QED
        BY <2>1, <3>1 DEF Overtaken, Versions
    <2>3. n <= Span[v]
      BY <2>2 DEF ProjectIInv, ReadingsAdvance
    <2>4. m <= Span[v]
      BY <2>1, <2>2, <2>3, WindowsAreNumbers DEF Versions
    <2> QED
      BY <2>1, <2>2, <2>4 DEF ProjectIInv, Covers, Versions
  <1> QED
    BY <1>1, Invariance, PTL

\* However many recomputes overlap and die: once none is waiting or running,
\* the current predictions have been through one that committed, and the
\* timeline is theirs unless the last to commit was overtaken.
THEOREM CaughtUp == ProjectSpec => []TimelineCaughtUp
  <1>1. ASSUME ProjectIInv, tasks = 0, \A r \in Recomputers : session[r].pc = "idle", ~lost
        PROVE  committed.newest = votes /\ (Overtaken \/ Covers(votes))
    <2>1. committed.newest = votes
      BY <1>1 DEF ProjectIInv, RecomputeOwed
    <2>2. committed.last <= votes /\ committed.last \in Nat /\ votes \in Nat
      BY <1>1, <2>1 DEF ProjectIInv, ReadingsAdvance, ProjectTypeOK
    <2> QED
      BY <1>1, <2>1, <2>2 DEF ProjectIInv, Overtaken
  <1>2. ProjectIInv => TimelineCaughtUp
    BY <1>1 DEF TimelineCaughtUp
  <1> QED
    BY <1>2, Invariance, PTL
=============================================================================
