------------------------------ MODULE ReportJob ------------------------------
(***************************************************************************)
(* Reports: a request that records a row and queues a job, the worker that  *)
(* assembles, renders and stores the document, and the daily cleanup.       *)
(*                                                                          *)
(* A delivery of the job is a chain of short transactions with the object   *)
(* store between them, so each of its steps is an action.  Messages are     *)
(* acknowledged late: one stays in the queue until the delivery that took   *)
(* it returns, and a worker that dies, or loses its broker connection,      *)
(* leaves it there for another.                                             *)
(*                                                                          *)
(* External parts: the broker and the object store.                         *)
(***************************************************************************)
EXTENDS Integers, FiniteSets

CONSTANTS
    Reports,        \* report ids
    Workers,        \* processes that serve the `reports` queue
    MaxRetries,     \* max_retries of the task
    MaxFaults,      \* crashes, lost messages, refusing stores, failed commits
    MaxOverlaps     \* messages handed to a second worker before the first is done

ASSUME ReportAssumption == {MaxRetries, MaxFaults, MaxOverlaps} \subseteq Nat

VARIABLES
    row,        \* row[r]: the committed reports row, or NoRow
    asked,      \* asked[r]: "no", "open" while its request runs, "done"
    queue,      \* queue[r]: the retry counts of its unacknowledged messages
    job,        \* job[w]: the delivery worker w is at, or Idle
    blob,       \* blob[r]: the document stored under the key of r
    cleanup,    \* what reports.cleanup_expired listed, while it runs
    cut,        \* cut[r]: a message of r was spent with the row unanswered
    faults, overlaps

vars == <<row, asked, queue, job, blob, cleanup, cut, faults, overlaps>>

-----------------------------------------------------------------------------
Statuses == {"queued", "processing", "ready", "failed"}

\* `filed` is storage_key IS NOT NULL, `old` completed_at < the cutoff.
Rows == [status : Statuses, filed : BOOLEAN, old : BOOLEAN]
NoRow == [status |-> "none"]

\* A document differs from the one it replaces.
Documents == {"first", "second"}
NoDocument == "none"
AnotherThan(document) == IF document = "first" THEN "second" ELSE "first"

Idle == [step |-> "idle"]
Steps == {"read", "claimed", "collected", "rendered", "stored", "returned"}

\* `entity` is the report as first read; it is not used after its session.
Deliveries == [step : Steps, report : Reports, try : 0 .. MaxRetries,
               entity : Rows \cup {NoRow}]

NoCleanup == [todo |-> {}, gone |-> {}, active |-> FALSE]
Cleanups == [todo : SUBSET Reports, gone : SUBSET Reports, active : {TRUE}]

TypeOK ==
    /\ row \in [Reports -> Rows \cup {NoRow}]
    /\ asked \in [Reports -> {"no", "open", "done"}]
    /\ queue \in [Reports -> SUBSET (0 .. MaxRetries)]
    /\ job \in [Workers -> Deliveries \cup {Idle}]
    /\ blob \in [Reports -> Documents \cup {NoDocument}]
    /\ cleanup \in Cleanups \cup {NoCleanup}
    /\ cut \in [Reports -> BOOLEAN]
    /\ faults \in 0 .. MaxFaults
    /\ overlaps \in 0 .. MaxOverlaps

Init ==
    /\ row = [r \in Reports |-> NoRow]
    /\ asked = [r \in Reports |-> "no"]
    /\ queue = [r \in Reports |-> {}]
    /\ job = [w \in Workers |-> Idle]
    /\ blob = [r \in Reports |-> NoDocument]
    /\ cleanup = NoCleanup
    /\ cut = [r \in Reports |-> FALSE]
    /\ faults = 0
    /\ overlaps = 0

Exists(r) == row[r] # NoRow
Ready(r) == row[r].status = "ready"
Owed(r) == row[r].status \in {"queued", "processing"}

\* DownloadReport.execute hands out a link.
Downloadable(r) == Ready(r) /\ row[r].filed

Goes(w, step) == job' = [job EXCEPT ![w].step = step]
Fault == faults < MaxFaults /\ faults' = faults + 1

-----------------------------------------------------------------------------
(***************************************************************************)
(* POST .../reports: the row is inserted and the job enqueued, then the     *)
(* request commits.                                                         *)
(***************************************************************************)
\* RequestReport.execute; an unreachable broker is logged and forgotten.
RequestReport(r, sent) ==
    /\ asked[r] = "no"
    /\ asked' = [asked EXCEPT ![r] = "open"]
    /\ IF sent
       THEN queue' = [queue EXCEPT ![r] = {0}] /\ UNCHANGED <<cut, faults>>
       ELSE cut' = [cut EXCEPT ![r] = TRUE] /\ Fault /\ UNCHANGED queue
    /\ UNCHANGED <<row, job, blob, cleanup, overlaps>>

RequestCommit(r) ==
    /\ asked[r] = "open"
    /\ asked' = [asked EXCEPT ![r] = "done"]
    /\ row' = [row EXCEPT ![r] = [status |-> "queued", filed |-> FALSE, old |-> FALSE]]
    /\ UNCHANGED <<queue, job, blob, cleanup, cut, faults, overlaps>>

\* The commit fails; the message is out.
RequestAborts(r) ==
    /\ asked[r] = "open"
    /\ Fault
    /\ asked' = [asked EXCEPT ![r] = "done"]
    /\ UNCHANGED <<row, queue, job, blob, cleanup, cut, overlaps>>

-----------------------------------------------------------------------------
(***************************************************************************)
(* reports.generate                                                         *)
(***************************************************************************)
InFlight(r) == {w \in Workers : job[w] # Idle /\ job[w].report = r}

\* Mutant: a report that is ready is rendered again.
Take_ReadyToo(w, r, try) ==
    /\ job[w] = Idle
    /\ try \in queue[r]
    /\ IF InFlight(r) = {}
       THEN UNCHANGED overlaps
       ELSE overlaps < MaxOverlaps /\ overlaps' = overlaps + 1
    /\ IF Exists(r)
       THEN /\ job' = [job EXCEPT ![w] =
                        [step |-> "read", report |-> r, try |-> try, entity |-> row[r]]]
            /\ UNCHANGED <<queue, cut>>
       ELSE /\ queue' = [queue EXCEPT ![r] = @ \ {try}]
            /\ cut' = [cut EXCEPT ![r] = TRUE]
            /\ UNCHANGED job
    /\ UNCHANGED <<row, asked, blob, cleanup, faults>>

\* A worker takes a message and reads the row.
Take(w, r, try) ==
    /\ job[w] = Idle
    /\ try \in queue[r]
    /\ IF InFlight(r) = {}
       THEN UNCHANGED overlaps
       ELSE overlaps < MaxOverlaps /\ overlaps' = overlaps + 1
    /\ IF Exists(r) /\ ~Ready(r)
       THEN /\ job' = [job EXCEPT ![w] =
                        [step |-> "read", report |-> r, try |-> try, entity |-> row[r]]]
            /\ UNCHANGED <<queue, cut>>
       ELSE \* "gone" or "already_ready": the message is acknowledged.
            /\ queue' = [queue EXCEPT ![r] = @ \ {try}]
            /\ cut' = [cut EXCEPT ![r] = @ \/ ~Exists(r)]
            /\ UNCHANGED job
    /\ UNCHANGED <<row, asked, blob, cleanup, faults>>

\* The deletion of a row that a cleanup has flushed blocks other writers.
RowFree(r) == r \notin cleanup.gone

\* SqlAlchemyReportRepository.update: every column is assigned from the
\* entity, and those that differ from `seen`, the row as it is read again for
\* that, are written.
SavedOver(current, seen, wanted) ==
    [column \in DOMAIN current |->
        IF wanted[column] # seen[column] THEN wanted[column] ELSE current[column]]

Claimed(report) == [report EXCEPT !.status = "processing"]

\* update(replace(report, status=PROCESSING)) and a commit; the row is read
\* again before or after what another delivery commits.
Claim(w) ==
    /\ job[w].step = "read"
    /\ LET r == job[w].report
           entity == job[w].entity
       IN  /\ RowFree(r)
           /\ \E seen \in {entity, row[r]} :
                 row' = [row EXCEPT ![r] = SavedOver(@, seen, Claimed(entity))]
    /\ Goes(w, "claimed")
    /\ UNCHANGED <<asked, queue, blob, cleanup, cut, faults, overlaps>>

\* _collect succeeds and its session ends.
Collect(w) ==
    /\ job[w].step = "claimed"
    /\ job' = [job EXCEPT ![w].step = "collected", ![w].entity = NoRow]
    /\ UNCHANGED <<row, asked, queue, blob, cleanup, cut, faults, overlaps>>

Render(w) ==
    /\ job[w].step = "collected"
    /\ Goes(w, "rendered")
    /\ UNCHANGED <<row, asked, queue, blob, cleanup, cut, faults, overlaps>>

\* _fail: the status, the reason and the time of completion.
Failed(report) == [report EXCEPT !.status = "failed", !.old = FALSE]

\* Mutant: the exception is logged and the row left as it is.
CollectFails_OnlyLogged(w) ==
    /\ job[w].step = "claimed"
    /\ RowFree(job[w].report)
    /\ Fault
    /\ job' = [job EXCEPT ![w].step = "returned", ![w].entity = NoRow]
    /\ UNCHANGED <<row, asked, queue, blob, cleanup, cut, overlaps>>

\* The project is gone, a query fails, or the soft time limit strikes: _fail
\* saves the report as it was first read, whatever became of the row since.
CollectFails(w) ==
    /\ job[w].step = "claimed"
    /\ RowFree(job[w].report)
    /\ Fault
    /\ LET r == job[w].report
           entity == job[w].entity
       IN  \E seen \in {Claimed(entity), row[r]} :
              row' = [row EXCEPT ![r] =
                        [SavedOver(@, seen, Failed(entity)) EXCEPT !.old = FALSE]]
    /\ job' = [job EXCEPT ![w].step = "returned", ![w].entity = NoRow]
    /\ UNCHANGED <<asked, queue, blob, cleanup, cut, overlaps>>

\* build_pdf or build_csv raises: _fail on a row read afresh.
RenderFails(w) ==
    /\ job[w].step = "collected"
    /\ RowFree(job[w].report)
    /\ Fault
    /\ row' = [row EXCEPT ![job[w].report] = Failed(@)]
    /\ Goes(w, "returned")
    /\ UNCHANGED <<asked, queue, blob, cleanup, cut, overlaps>>

\* ObjectStorage.put under report_storage_key, which names the report.
Store(w) ==
    /\ job[w].step = "rendered"
    /\ blob' = [blob EXCEPT ![job[w].report] = AnotherThan(@)]
    /\ Goes(w, "stored")
    /\ UNCHANGED <<row, asked, queue, cleanup, cut, faults, overlaps>>

\* task.retry publishes the message again and ends the delivery; once the
\* retries are spent it raises the storage error and the row stays as it is.
StoreFails(w) ==
    /\ job[w].step = "rendered"
    /\ Fault
    /\ LET r == job[w].report
           try == job[w].try
       IN  IF try < MaxRetries
           THEN queue' = [queue EXCEPT ![r] = @ \cup {try + 1}] /\ UNCHANGED cut
           ELSE cut' = [cut EXCEPT ![r] = TRUE] /\ UNCHANGED queue
    /\ Goes(w, "returned")
    /\ UNCHANGED <<row, asked, blob, cleanup, overlaps>>

\* The row is read again; if it is still there it gets the key and is ready.
Finish(w) ==
    /\ job[w].step = "stored"
    /\ LET r == job[w].report
       IN  /\ RowFree(r)
           /\ row' = IF Exists(r)
                     THEN [row EXCEPT ![r] =
                             [status |-> "ready", filed |-> TRUE, old |-> FALSE]]
                     ELSE row
    /\ Goes(w, "returned")
    /\ UNCHANGED <<asked, queue, blob, cleanup, cut, faults, overlaps>>

\* The task returns and its message is acknowledged.
Acknowledge(w) ==
    /\ job[w].step = "returned"
    /\ queue' = [queue EXCEPT ![job[w].report] = @ \ {job[w].try}]
    /\ job' = [job EXCEPT ![w] = Idle]
    /\ UNCHANGED <<row, asked, blob, cleanup, cut, faults, overlaps>>

\* The worker dies; the broker delivers the message again.
WorkerDies(w) ==
    /\ job[w] # Idle
    /\ Fault
    /\ job' = [job EXCEPT ![w] = Idle]
    /\ UNCHANGED <<row, asked, queue, blob, cleanup, cut, overlaps>>

\* task_time_limit: the process is killed and the message acknowledged, since
\* task_acks_on_failure_or_timeout keeps its default.
TimeLimit(w) ==
    /\ job[w] # Idle
    /\ Fault
    /\ LET r == job[w].report
       IN  /\ queue' = [queue EXCEPT ![r] = @ \ {job[w].try}]
           /\ cut' = [cut EXCEPT ![r] = @ \/ Owed(r)]
    /\ job' = [job EXCEPT ![w] = Idle]
    /\ UNCHANGED <<row, asked, blob, cleanup, overlaps>>

-----------------------------------------------------------------------------
(***************************************************************************)
(* reports.cleanup_expired: one transaction for the whole list.             *)
(***************************************************************************)
\* Retention is counted in days: deliveries and messages of the report are
\* long gone when it passes.
Expire(r) ==
    /\ Ready(r) /\ ~row[r].old
    /\ InFlight(r) = {} /\ queue[r] = {}
    /\ row' = [row EXCEPT ![r].old = TRUE]
    /\ UNCHANGED <<asked, queue, job, blob, cleanup, cut, faults, overlaps>>

\* Mutant: the cutoff is left out of the query.
CleanupLists_AnyReady ==
    /\ ~cleanup.active
    /\ LET expired == {r \in Reports : Ready(r)}
       IN  /\ expired # {}
           /\ cleanup' = [todo |-> expired, gone |-> {}, active |-> TRUE]
    /\ UNCHANGED <<row, asked, queue, job, blob, cut, faults, overlaps>>

\* SqlAlchemyReportRepository.list_expired
CleanupLists ==
    /\ ~cleanup.active
    /\ LET expired == {r \in Reports : Ready(r) /\ row[r].old}
       IN  /\ expired # {}
           /\ cleanup' = [todo |-> expired, gone |-> {}, active |-> TRUE]
    /\ UNCHANGED <<row, asked, queue, job, blob, cut, faults, overlaps>>

\* The file goes first, then the row, which the others still see.
CleanupDeletes(r) ==
    /\ r \in cleanup.todo
    /\ blob' = [blob EXCEPT ![r] = NoDocument]
    /\ cleanup' = [cleanup EXCEPT !.todo = @ \ {r}, !.gone = @ \cup {r}]
    /\ UNCHANGED <<row, asked, queue, job, cut, faults, overlaps>>

\* The store refuses: the row is left for the next run.
CleanupKeeps(r) ==
    /\ r \in cleanup.todo
    /\ Fault
    /\ cleanup' = [cleanup EXCEPT !.todo = @ \ {r}]
    /\ UNCHANGED <<row, asked, queue, job, blob, cut, overlaps>>

CleanupCommits ==
    /\ cleanup.active /\ cleanup.todo = {}
    /\ row' = [r \in Reports |-> IF r \in cleanup.gone THEN NoRow ELSE row[r]]
    /\ cleanup' = NoCleanup
    /\ UNCHANGED <<asked, queue, job, blob, cut, faults, overlaps>>

\* The process dies or the commit fails: rows come back, files do not.
CleanupAborts ==
    /\ cleanup.active
    /\ Fault
    /\ cleanup' = NoCleanup
    /\ UNCHANGED <<row, asked, queue, job, blob, cut, overlaps>>

-----------------------------------------------------------------------------
TakeAny(r) == \E w \in Workers, try \in 0 .. MaxRetries : Take(w, r, try)

Work(w) == Claim(w) \/ Collect(w) \/ Render(w) \/ Store(w) \/ Finish(w) \/ Acknowledge(w)

Trouble(w) ==
    \/ CollectFails(w) \/ RenderFails(w) \/ StoreFails(w)
    \/ WorkerDies(w) \/ TimeLimit(w)

Cleanup ==
    \/ CleanupLists
    \/ \E r \in Reports : CleanupDeletes(r)
    \/ CleanupCommits

Next ==
    \/ \E r \in Reports :
        \/ \E sent \in BOOLEAN : RequestReport(r, sent)
        \/ RequestCommit(r) \/ RequestAborts(r)
        \/ TakeAny(r)
        \/ Expire(r) \/ CleanupKeeps(r)
    \/ \E w \in Workers : Work(w) \/ Trouble(w)
    \/ Cleanup
    \/ CleanupAborts

Spec == Init /\ [][Next]_vars

(***************************************************************************)
(* A request that queued a job ends, a worker that is there takes messages  *)
(* and goes on, and the cleanup runs every day.                             *)
(***************************************************************************)
FairSpec ==
    /\ Spec
    /\ \A r \in Reports : WF_vars(RequestCommit(r)) /\ WF_vars(TakeAny(r))
    /\ \A w \in Workers : WF_vars(Work(w))
    /\ WF_vars(Cleanup)

-----------------------------------------------------------------------------
(***************************************************************************)
(* What a report promises.                                                  *)
(***************************************************************************)
\* A link is handed out only for a document that is there, whatever delivery
\* crashed, overlapped another or was repeated; once the retention is over a
\* cleanup that failed to commit may have taken the file (maintenance.py:292-304).
\* And no file outlives its row: the row is what remembers the key
\* (system.py:228-231).
FilesMatchRows ==
    \A r \in Reports : /\ Downloadable(r) => blob[r] # NoDocument \/ row[r].old
                       /\ blob[r] # NoDocument => Exists(r)

\* A report is immutable once ready, and stays until its retention is over
\* (worker/reports.py:62-67), as long as no two deliveries overlapped.
ReadyStays ==
    \A r \in Reports : Ready(r) /\ overlaps = 0
        => \/ Ready(r)' /\ (blob'[r] = blob[r] \/ row[r].old)
           \/ row[r].old /\ ~Exists(r)'

ReadyIsFinal == [][ReadyStays]_vars

\* Whoever asked for a report gets an answer: the row becomes ready or failed,
\* unless the message of its job was spent without one, or a second delivery
\* took the failure of the first back and then died (worker/reports.py:9-11).
Answered == \A r \in Reports : Owed(r) ~> (~Owed(r) \/ cut[r] \/ overlaps > 0)

\* A report without an answer has a message that will be delivered
\* (worker/reports.py:9-11): it is forgotten for no other reason than those
\* Answered names.
OwedHasMessage ==
    \A r \in Reports :
        Owed(r) \/ asked[r] = "open" => queue[r] # {} \/ cut[r] \/ overlaps > 0

\* A file past its retention is removed with its row in the end
\* (maintenance.py:282-304).
ExpiredIsRemoved ==
    \A r \in Reports : (Exists(r) /\ Ready(r) /\ row[r].old)
                        ~> (~Exists(r) \/ ~row[r].old)

=============================================================================
