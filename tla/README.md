# GeoVision in TLA+

GeoVision watches a construction site: ESP32 cameras upload photographs to a
FastAPI backend, a Celery worker scores them with two neural networks, the
scores are aggregated into a progress timeline, and a dashboard shows it. This
directory models the parts of that program that keep state, checks them with
TLC, and proves the most important results with TLAPS. `B/` below is
`src/backend/app/`.

## 1. The system

| part | code | state it keeps | operations |
|---|---|---|---|
| image pipeline | `B/application/use_cases/{ingest,predictions}.py`, `B/infrastructure/queue.py`, `B/worker/inference.py` | `images`, `predictions` (one current per image), Celery messages | upload, score, refuse, retry, redeliver, reprocess |
| project and its progress | `B/application/use_cases/{projects,recompute,progress}.py`, `B/worker/maintenance.py` | the `projects` row, `project_progress_snapshots` | recompute, approve, archive, edit, derive status |
| progress algorithm | `src/ai/src/ai/progress/` | none: a function of the predictions | estimate, fuse cameras, smooth, ratchet, label |
| devices | `B/application/use_cases/devices.py`, `B/core/device_auth.py`, `src/backend/scripts/simulate_device.py` | `devices`, `pairing_tokens`, the camera's identity file | pair, heartbeat, configure, unpair, sweep offline |
| uploads | `B/application/use_cases/ingest.py`, `B/infrastructure/repositories/image.py` | stored originals, daily numbers, advisory lock | number, store, deduplicate, retry |
| reports | `B/application/use_cases/reports.py`, `B/worker/reports.py` | `reports` rows and documents | request, render, retry, clean up |
| remarks | `B/domain/services/remarks.py`, `B/worker/maintenance.py`, `B/application/use_cases/content.py` | `remarks` | emit, alert, note, edit, delete |
| sessions | `B/application/use_cases/auth.py`, `src/dashboard/src/lib/auth.ts` | refresh tokens in families; the pair in the browser | log in, refresh, replay, log out |
| members, assets | `B/application/use_cases/{members,content}.py` | `project_members`, `reference_assets` and their bytes | invite, respond, change role, remove; upload, delete |
| realtime | `B/infrastructure/realtime/`, `B/api/v1/routers/ws.py`, `src/dashboard/src/lib/ws.ts` | Redis channels, sockets per project, client backoff | publish, subscribe, broadcast, reconnect, refetch |
| dataset, training, serving | `src/scripts/split_dataset.py`, `src/ai/src/ai/{data,training,evaluation,inference}/`, `B/worker/inference.py` | folders of copies and their manifest, checkpoints, deployed weights, `ai_models` | split, load, evaluate; train, stop, resume; deploy, load, register, answer |
| owner's pages | `src/dashboard/src/pages/`, `src/dashboard/src/lib/owner.ts` | the query cache | open, press, invalidate, poll |
| public feed | `B/infrastructure/repositories/project.py`, `B/api/v1/routers/public.py` | a cursor | walk page by page |
| database | `src/backend/alembic/`, `B/infrastructure/db/models.py`, `src/backend/scripts/seed_db.py`, `src/scripts/{backup,restore}.py` | schema, rows, dump and mirror | upgrade, downgrade, seed, wipe, back up, restore |

**How they interact.** A camera's upload inserts a `pending` image, enqueues
`process_image`, and commits after the handler has returned (`TransactionalRoute`),
so the message may overtake the row. A worker commits the prediction, then
enqueues `recompute_window`; that task rebuilds the whole timeline from the
stored predictions and copies its newest window to the project row. Requests and
scheduled jobs save the same rows: each is given a whole entity and writes every
column in which it differs from the row it reads again (READ COMMITTED, no
version column, no `SELECT ... FOR UPDATE`). Events go to the dashboard over Redis
pub/sub and may be lost; the dashboard patches or refetches its cached folder.

**What is hard.**

- *Delivery*: Celery acknowledges late, so a task runs again after a crash, a
  time limit or a lost connection; a broker failure on enqueue is swallowed.
- *Interleaving*: several processes on one row, serialised only by PostgreSQL row
  locks, unique indexes, a CHECK and one advisory lock.
- *Stale saves*: an entity loaded before another transaction commits is written
  back whole. The models write this as `SavedOver(current, seen, wanted)`: what the
  transaction saw decides which columns are sent.
- *Two stores*: rows and bytes, a row and a message, a dump and a mirror, weights
  and their preprocessing change one after the other and may part in between.
- *Path-dependent numerics*: each day's result depends on all earlier ones
  through an EMA rounded to four places, a ratchet and a confirmation guard.
- *Protocols between two programs*: pairing codes, refresh tokens, the socket,
  the query cache, the feed's cursor.

What makes each part correct is the list of properties in section 3.
`PROJECT.json` lists the hazards line by line, with the properties that catch them.

## 2. The modules

| module | what it is |
|---|---|
| `ImageLedger` | abstract: an image and its votes change as one, in five atomic operations |
| `ImagePipeline` | upload, broker, workers, reprocess requests and their open transactions; implements `ImageLedger` |
| `ProjectProgress` | the project row, its snapshots, and every transaction that saves them |
| `CameraFusion` | one day: from the scores of the photographs to the reading of the project |
| `ProgressTimeline` | all days: from readings to smoothed, ratcheted, labelled results and the copy on the project |
| `DeviceFleet` | pairing, claims, signed events, settings, unpairing, the offline sweep and its alert |
| `PhotoArchive` | abstract: each content is filed once, next in turn of the day it asks for |
| `CaptureIngest` | extends `DeviceFleet` and implements `PhotoArchive`: uploads of the paired cameras, their numbers, bytes and retries |
| `ReportJob` | reports from the request to the document and its removal |
| `ReportPeriods` | which days a report covers, what is collected for it, its figures |
| `Remarks` | the remarks of a project: emission, sweep, recomputes, members |
| `Sessions` | one browser's token pairs and the requests of its page |
| `RealtimePush` | producers, Redis, hubs, sockets, the page's client and its cache |
| `ProjectTeam` | memberships and reference assets between load and commit |
| `DatasetSplit` | which building is in train, validation or test, run after run; what training loads and an evaluation is scored on |
| `TrainingRun` | epochs, schedule, early stopping, checkpoints, resumption |
| `ModelServing` | deployed weights and pipelines, processes, the active model row, on-demand calls |
| `Access` | the permission matrix; what each endpoint demands and changes |
| `ProjectReads` | extends `Access`: what every read answers, to whom, over a database |
| `OwnerDashboard` | extends `Access`: pages over one project, dialogs, mutations, the query cache |
| `PublicFeed` | a visitor's walk with a cursor through projects that move |
| `Schema` | the tables as `models.py` declares them: references, keys, checks, enum types |
| `Migrations` | the four revisions, up and down, statement by statement |
| `SeedData` | `seed_db.py` among rows of other people; deletions follow `Schema` |
| `Backup` | dump, mirror and restore beside requests that store and remove files |
| `MC...` | instances for TLC. `MCEstimate` joins `CameraFusion` and `ProgressTimeline`, `MCModels` joins `DatasetSplit`, `TrainingRun` and `ModelServing`, `MCNumbers` both; `MCDatabase` joins `Migrations`, `SeedData` and `Backup`, `MCSite` adds `ProjectTeam`, `OwnerDashboard` and `PublicFeed`; `MCMaintenance` joins `ReportJob` and `Remarks`, `MCImagePipeline` joins `ImagePipeline` and `ProjectProgress`, `MCRealtimePush` joins `RealtimePush` and `Sessions` |
| `...Proofs` | the TLAPS proofs: `ImagePipelineProofs`, `ProjectProgressProofs`, `ProgressTimelineProofs` of the module they are named after, the last of `CameraFusion` too; `DeviceFleetProofs` of the fleet and the uploads; `ReportJobProofs` of reports, periods and remarks; `ModelsProofs` of dataset, training and serving; `SiteProofs` of migrations, team, backup, seed data, pages and feed; `RealtimePushProofs` of the push and the reads |

The joined modules share no variable: a `machine` or `half` chosen for the whole
behaviour, or the rest of the other part (`SignedOut`, `NothingPushed`), lets one of
them move, so their states add up and each is checked as if alone.
Modules that really act on each other are extended (`CaptureIngest`,
`OwnerDashboard`) or meet in a value (`MCEstimate` computes the timeline's readings
with `CameraFusion`'s own operators; `SeedData` deletes through `Schema`, which
`Migrations` must arrive at).

### ImagePipeline

`status` and `current` are the committed rows; what an open transaction has
written is in the record of the process that runs it (`worker[w]`,
`request[r]`), and the locks it holds are the operators `ImageLocked` and
`PredictionLocked`. The queue is a bag of messages per image and retry, because
delivery is unordered. One action is one stretch of code between two points at
which another process can get in: `IngestHandler` then `IngestCommit` (the commit
of `TransactionalRoute` is after the enqueue); `Start`, `InsertPrediction`,
`CommitScore`, `EnqueueRecompute` for the worker; `ReprocessLoad`, `Supersede`,
`Reread`, `ResetAndEnqueue`, `ReprocessCommit` for a reprocess request.
`InsertConflict` is the unique index refusing a second current prediction.
Failures are `IngestAbort`, `StorageFails` (the one place that retries),
`TaskFails`, `WorkerKilled`, `Redeliver`, `ReprocessAbort` and the failed enqueue.
What the networks say of a photograph is a free choice among `Verdicts`.
`dropped` is a history variable: the images one of whose messages was lost,
discarded or cut short; promises of an answer are conditional on it, because
nothing sweeps up what was lost (section 5).

### ProjectProgress

`project` is the committed row restricted to the columns that are saved by
different people; `session[p]` is a process with the entity it loaded. Every
writer goes through `Open` (load, change one field), `RowRead` (the SELECT in
`repositories/project.py`, from which the columns to send are computed), `Save`
(the UPDATE, which takes the row lock and meets the CHECK) and `Commit`. The
predictions are a version number, `Displayed[v]` and `Span[v]` what
`compute_series` makes of it; `series[n]` is the version a snapshot was computed
from. A recompute's upserts hold the snapshots from the first one to the commit
(`SeriesLocked`); between its read of the predictions and the first upsert any number
of others may read, upsert and commit. `committed` is a history: the version of the
last recompute to commit and the newest of all. When the last is not the newest it
was `Overtaken`, and that is the one excuse `TimelineCaughtUp` and `ProjectSettles`
accept besides a task that failed for good.

### CameraFusion and ProgressTimeline

Percentages are integers (hundredths on a prediction, ten-thousandths on the
timeline, what `round(..., 4)` keeps); values not rounded yet are fractions,
because `_declining_run` compares an unrounded EMA with rounded ones. The
quantisations of `ProgressPct` and `Confidence` are modelled, because the gate and
the stored vote depend on them. A camera's photographs are a bag of votes.
`StartRecompute` collects the windows (every day from the first capture to the
last, empty ones too), `AggregateWindow` is one iteration of `compute_series`,
`ApplyToProject` is `_apply_to_project`. Between two recomputes any photograph of
any day may arrive, late ones included.

### DeviceFleet and CaptureIngest

A devices row is named by its face, because the unique index counts unpaired
rows. `req[r]` is what a request read when it was let in; its commit saves over
whatever the row is by then. `sweep` holds the rows `devices.sweep_offline` read
until it commits. The camera's half is the simulator's identity file (`nvs`).
`CaptureIngest` adds the capture a camera keeps until it is answered, and the four
calls of an upload between which others commit: the duplicate check (`UploadCheck`),
the advisory lock with the number (`UploadNumber`), the bytes (`UploadPut`), the row
with its unique index (`UploadCommit`, `UploadConflict`). A stamp carries its instant,
the UTC day it falls in and the day its own zone writes, and the two days may differ:
the server takes such stamps (`tests/integration/test_ingest_api.py:359-368`) and
locks and counts with the zone's day, over the rows of the UTC day of that date.
`PhotoArchive` knows which content has which number, of which UTC day, asked for
which; the refinement maps a committed row to it.

### ReportJob and Remarks

A delivery of a report is a chain of short transactions with the object store between
them, so each is an action; `Trouble` is a death, a time limit or a delivery given to
a second worker while the first still runs (`overlaps`). `ReportPeriods` has no
variable: a calendar is the instants at which the site's days begin (`Midnight`) and
the first day of each day's month, so that summer time, a day that was skipped and
months of any length are values of constants; periods are dates, what is read between
their bounds are instants. In `Remarks` a remark has an age instead of a time: the
code only asks whether it is inside the window. An emission reads the project, looks
up and inserts one type after the other and commits once, and several may run at
once (the beat's messages do not expire, the worker has several processes, a late
acknowledgement is delivered again); a remark records whether its emission ran beside
another. The sweep looks up and says in a transaction of its own; a recompute's remarks and members' notes are asked for by
nobody.

### Sessions and RealtimePush

A token pair is named by its refresh token; its access token only expires. What
`/auth/refresh` writes before it raises is rolled back. `Sessions` has the path of
a call: sent, answered 401, one refresh, one replay. `RealtimePush` abstracts a
folder to two counters, one that events carry and one that can only be
refetched; the hub broadcasts to a copy of its targets, the client has a backoff,
a heartbeat and resubscription, and any event or answer may come late.

### ProjectTeam, Access and OwnerDashboard

A membership row is named by the id it was inserted with, so that a row removed and
invited again is another one. An asset is a row and bytes that no transaction covers.
`Access` is data: the matrix and, per endpoint, `needs` and `changes`. `ProjectReads`
is data too: a database is a record of tables, and every endpoint that reads a
project, a list of them, a profile or the socket's subscriptions is an operator from
the database, the caller and the arguments to the answer, a 404 included; `Reads` is
all of them together. `OwnerDashboard` has the caller's row and a version per listed
part of the project; a fetch is asked for, guarded, read and cached in separate steps
(READ COMMITTED reads lists after the guard); a query follows the rules of its
library: an invalidation restarts the fetch of a mounted query and marks an unmounted
one.

### DatasetSplit, TrainingRun and ModelServing

A photograph has a building and a label; a group is a building, and the best
assignment is worked out as the script does, on integers (ratios in percent).
Among equal scores the code's choice depends on the rounding of floating point
sums, so the model takes any and keeps to it for the same tree (`decided`). The
script copies group after group and may die before the manifest; training and
evaluation read the folders as they are. `behind` is a history: the raw trees
that the copies come from.

An epoch is its validation score. Both checkpoints are written in place, so a
process that dies while it writes leaves a torn file; a resumed run takes
optimizer, schedule, counters and best score from the file it was given. Weights
remember the pipeline they were trained through; weights and pipeline are
replaced one at a time, under processes that build their service lazily and
compare fingerprints then.

### Schema, Migrations, SeedData, Backup, PublicFeed

`Schema` keeps of a table what one row can do to another. A revision is a fold of
its statements over a database (tables, enum types, predictions), any of which
may be refused; a refused revision is rolled back and so is no step. `SeedData`
computes what `DELETE` does from the foreign keys. `Backup` copies the bucket
object by object while requests go on. `PublicFeed` compares (sort key, id) as
the SQL does, over rows that are created, published, photographed and archived
between two pages.

## 3. The runs

Twelve, six of which expect a violation. Sizes are distinct states.

| run | instance | what it shows |
|---|---|---|
| `pipeline` | the image machine: 1 image with any verdict each time, 2 workers, 2 requests, 2 retries, 2 failures, 2 reprocesses; the project machine: 2 overlapping recomputes, 1 caller, 3 versions of the predictions, 2 approvals, 1 other write, 1 death (274 842) | `OneVote`: one vote per photograph. `PendingIsOwed`, `Settles`: pending is owed an answer and gets it. `RecomputeFollows`: a score is aggregated. `LedgerSpec`: refinement. `NobodyWaitsForever`: row locks and the unique index never make a circle. `CeilingNeedsApproval`: no stale save leaves more than 80 % unapproved. `TimelineOfTheLast`: the windows of the last recompute to commit are its own. `TimelineCaughtUp`, `ProjectSettles`: timeline and status arrive at the current predictions unless the last recompute was overtaken |
| `overtaken` | 2 recomputes, 3 versions, no death | *violated*, `OneTimeline`: the timeline is one computation |
| `approval_lost` | 2 recomputes, 2 callers, 1 approval (about 19 500 until the violation) | *violated*, `ApprovalStands`: an approval stands |
| `numbers` | 2 cameras of weight 1.5 and 1.0, 4 kinds of photograph, 4 photographs; 5 days; 6 photographs of 3 buildings, 2 of them promoted later, 3 runs of the split; scores 1 and 3, 4 epochs, 2 run directories, 2 resumptions; 3 weights, 2 pipelines, 2 processes, 2 deployments, 1 crash (486 339) | `ReadFairly`: one bad frame drags no camera, a photograph pulls the way it points, a dark camera drops out. `ShownWasMeasured`, `FallsAreToldOnce`, `LabelWithinReach`: the ratchet invents nothing, lets go on sustained evidence only and reports it once, and the label stays under the number. `OneTreeIsOneSplit`: as long as the raw tree is one, whatever died and was run again, a network is scored on buildings it was not taught. `ResumesWhereItWas`, `NothingIsLost`: a killed run goes on as if it had not been, and leaves a checkpoint. `ServedAsTrained`: no mismatched pair predicts |
| `label_leaps` | the photographs and the timeline of `numbers`, 1 photograph a day, 4 days | *violated*, `AdvancesOnEvidence`: the label advances on two consecutive windows with eligible predictions |
| `ingest` | the fleet half: 1 face, 2 cameras, 1 code, 2 requests, time to 1; the ingest half: 1 camera, 2 captures, 2 requests, stamps on both sides of a UTC midnight, one of them in a zone that is a day ahead, numbers to 2, 1 failure (157 892) | `OneCameraPerFace`, `UnpairedIsCutOff`: whatever saves what. `SilenceIsNoticed`: a silent camera is marked and a dark site told. `FiledUnderItsOwnName`: every row names stored bytes, and among captures stamped in UTC none has another's bytes or number. `KeptUntilStored`: what a camera keeps is stored and the camera told |
| `maintenance` | 2 reports, 2 workers, 1 retry, 2 failures, 1 overlap; 2 emissions that may overlap once, window 1, streak 1, 1 unasked remark, 2 changes of the project, 1 death (285 628) | `FilesMatchRows`: a link leads to a file, a file has its row. `ReadyIsFinal`, `Answered`: for every delivery that does not overlap another. `SaidOnceAndRestated`: a complaint is repeated in its window only by emissions that ran beside one another, and is said again while it lasts. Before the run, the ASSUME `ReportsHoldTheirDays` evaluates periods and documents on a calendar of ten-day months, where a day begins before UTC's and one is skipped |
| `remark_twice` | 2 emissions, nobody else | *violated*, `NeverSaidTwice`: the job posts nothing twice |
| `realtime` | the push: 1 process, 2 sockets, 2 changes, 2 missed pongs, 1 failure; the session: 2 calls, 4 pairs, 1 failed login, 1 lost answer (574 249) | `NoSocketLeaks`: one live connection, and no hub keeps an ended one. `SubscriptionHolds`, `CatchesUp`: subscriptions are replayed, and the page ends up with the committed folder. `CallsEnd`: no call loops between refresh and replay. `DeadSessionEnds`: a browser does not stay with a revoked pair. Before the run, the ASSUMEs `HiddenLooksAbsent` and `ListedOpens` evaluate every read of `ProjectReads` over all small databases of two projects and two people |
| `site` | 2 images, 3 predictions, 5 downgrades; 3 users, 1 asset, 2 requests, 2 invitations, 1 failure; a seed among 12 rows of other people; 2 files, 1 disaster; 1 press of any operation by any role, 1 page opened after the first, 1 thing done by others; 3 projects of 2 instants, pages of 1, 1 change (2 212 456) | `HeadIsReachedFromHere`: from wherever earlier upgrades and downgrades left it the database reaches the schema of `models.py`. `WipeSparesOthers`, `RestoredHasBytes`: demonstration data goes alone; a restore lists no file without bytes. `NobodyJoinsUnasked`: no save makes a member. `ListedHasBytes`: no listed file loses its bytes but by a deletion that was rolled back. `RefusedIsOutOfDate`: block, button and endpoint name one permission. `OwnActionShows`: a success shows on its page. `StillIsSeen`: a walk neither skips nor repeats what stayed |
| `provenance` | the models half of `numbers` (15 268 until the violation) | *violated*, `ProvenanceIsKnown`: a prediction names the model that made it |
| `split_leaks` | the dataset part of `numbers` | *violated*, `HeldOutIsUnseen`: no building a network was taught is one it is scored on |

**Bounds.** Two of each process let every pair of transactions interleave, and a
failure budget of two allows a failure of a repair. Where a second of something
only multiplies states there is one: images share nothing but the workers, faces
nothing but the site-wide alert, and an action's result is owed to that action. Three versions are the
least in which a stale reading is older than one commit and newer than another.
Five days hold a decline of four, one more than the ratchet wants, and a release
that is followed. Three buildings are the least that fill three splits, and a promotion moves two of them
to other ones. Four epochs pass the frozen one, a plateau and the patience.
Three projects of two instants and pages of one put a tie on both sides of a
page's end. Five downgrades take every revision down once more than there are.
A window of 1 has a recent, an about-to-expire and an old remark. `Apart` keeps
overlapping emissions out of the behaviours in which others write remarks, whose part
is to mask a complaint, not to write one in its name; `FewRequests` leaves out of the
ingest half what the fleet half has, and lets one photograph only (`TheTraveller`) be
stamped in the other zone, because two of them are under no promise. What the
bounds leave out is behaviour that needs more of the same: three transactions on
one row, a second failure in the protocols that allow one, two API processes
behind one page. `CHECK_DEADLOCK FALSE` is set where a bound ends the behaviour or the
user may simply stop: all photographs scored, all requests made.

**Fairness.** Weak fairness of what runs by itself: workers, open transactions (a
server does not stop between two statements unless it dies, which is an action of
its own), an upload's commit, redelivery where the broker owes it, and the
scheduled jobs that beat keeps starting (status refresh, device sweep, report
cleanup, emission). Strong fairness in three places: a camera's attempt
with a stamp in UTC, as the clients write it (`CaptureIngest`), because a camera that
keeps a capture tries again after every failure and the request slot it needs is now
and then taken; a page's next call
(`Sessions`), because a page that is open polls; and the tick of the clock
(`Remarks`), which the model stops while an emission runs. No fairness of users,
uploads of new photographs, failures, members, recomputes' remarks or events. A
promise that something is over again and again is written `[]<>`: `Settles`,
`NobodyWaitsForever`, `CallsEnd` and `DeadSessionEnds` say the same with `~>`, of a
state that is left and not entered again at once.

**Properties in no run.** Every module with variables has a type invariant; most are
proved, alone or in the inductive invariant (section 4; where a bound of the model
plays no part, as for the ids of `ProjectTeam`, without it), together with
`InferredVotes`, `AwaitingWasEarned`, `OnlyBornComplete`, `OnlyCommittedIsShown`,
`RawBelowCeiling` and the state part of `SaidOnceAndRestated`. Seven more are proved and
were checked with TLC beside the runs before they were: `SomebodyGoes` on the instance of
`pipeline`; `NumberedInTurn`, `NumberedWithoutGaps`, `LetGoIsStored`, `LocksHaveHolders`
and `ArchiveSpec` (with its days cut to those of the stamps, which TLC must enumerate) on
that of `ingest`; `OwedHasMessage` on the reports of `maintenance`.
`OwnerRemains`, `MuteIsReplaced` and `ExpiredIsRemoved` hold in the instances above and
are implied or less telling. `SweptUp`, `AtCeilingAwaits`, `UnpairSticks`,
`UnpairingFreesTheFace`, `RefreshIsTransparent`, `AssetHasBytes`, `ThawedAfterWarmUp`,
`BestIsBest`, `SeedIsRepeatable`, `OwnActionShowsEverywhere`, `BlockMatchesRoster`,
`OfferedIsAllowed` and `PhotographedIsSeen` state what the code does not do (section 5).

## 4. What is proved

For every value of the constants (numbers of images, workers, requests, days,
retries and failures, any readings within the stated assumptions).

- **ImagePipelineProofs.** `IInv` adds to the checked invariants what open
  transactions hold: an inserted prediction is alone of its image (`InsertAlone`), an
  open withdrawal is of a committed vote and the only one (`HitAlone`), a task or
  request works on a committed row (`RowsUnderWork`), and an unsettled image has an
  unacknowledged message (`MessageBehind`). Without them the commit steps could not be
  shown to keep one vote per photograph. `Refinement` proves every step of the
  pipeline to be a step of `ImageLedger` or a stutter. `NobodyWaitsInACircle` is the
  state part of `NobodyWaitsForever`: a task with an inserted vote waits at most for the
  row of the image, a request for the row of the vote and, once it has that, of the
  image, so among those at work one waits for nobody (`SomebodyGoes`).
- **ProjectProgressProofs.** `ProjectIInv` adds that the approval of every loaded entity
  was earned, that one UPDATE of the row is outstanding and satisfies the CHECK, that
  readings and commits are no newer than the predictions and no snapshot lies beyond the
  span of its version (`ReadingsAdvance`), and that the current predictions went through
  a commit or somebody owes it (`RecomputeOwed`). Any number of recomputes may overlap
  and die. From it follow the ceiling, the earned approval, `LastRecomputeShows` (the
  windows of the last to commit are its own, what lies beyond is newer),
  `OneTimelineUnlessOvertaken` (without an overtaking, the timeline is one computation)
  and `CaughtUp` (nothing asked for is left undone). That the overtaking happens is what
  `overtaken` shows.
- **ProgressTimelineProofs.** First the arithmetic: rounding is monotone and blending
  with a stored value below the ceiling stays so far below that rounding does not
  reach it. Then what one result owes to the one before. `IInv` adds three facts: a
  project that began short of the ceiling stays short (`StaysShort`), a report has
  exactly two falls before it (`ReportShape`), and a released decline is followed by
  the displayed number under its report (`DeclineIsFollowed`), which is why a decline
  that goes on is not told twice (`DeclinesAreToldOnce`). The label moves up only into a
  stage that an earlier day with photographs put the number in and no day since took it
  out of (`LabelStaysWithin`). `CeilingOnlyFromTheStart` is
  the theorem behind the disagreement about the ceiling: no history of any length
  takes a project that began lower to its inspection.
  A day, for any cameras, weights and scores: the sums of `CameraFusion` are folds over
  sets, whose values the library defines by a chosen recursive function. That one
  exists is shown by taking a least set without (`WFMin`), after which a sum can be
  followed as one photograph more joins it. Photographs are counted by such sums, the
  middles of the count move by one place when one joins, the project's reading is a
  weighted mean, and none leaves the range of what it is of: `FusionIsFair` states
  `ReadFairly`. The two halves meet in `ReadingsFitTheTimeline`: what `aggregate_day`
  makes of any photographs is a reading as the timeline's proofs assume it.
- **ReportJobProofs.** The invariant rests on `OldIsQuiet`: a report past its
  retention has no message and no delivery. So the cleanup, which takes only such
  reports, meets no delivery, and a delivery always has its row (`JobSound`). What a
  delivery changes is proved once for all of its eleven steps (`RowIsConfined` and its
  neighbours). Without overlaps a report has one delivery and is not ready under it
  (`Alone`, `Unready`), from which `ReadyIsFinal` follows; and its message stays in the
  queue under the delivery, which returns without an answer only if another message
  follows or the last one was spent (`Remembered`): `OwedReportHasAMessage`, the state
  part of `Answered`.
  `ReportPeriods` is proved for any calendar whose days begin in order: the instants
  between a period's bounds are those of its days (`BoundsAreWholeDays`), weeks and
  months tile the calendar (`WeeksTile`, `MonthsTile`), hence
  `WeeklyReportsShareNothing` and `MonthlyReportsShareNothing`: a photograph is in one
  report of each kind, whenever it is asked for. `EndIsTheDayAfter` is the theorem
  behind a disagreement of section 5.
  For remarks, `EmissionIInv` says that an open emission holds each type once, in what
  is due or in what it has written (`OneOfEach`), that two open ones both know they are
  not alone (`Together`), and that of what an emission wrote no other wrote a recent one
  unless both ran beside another (`WritesNews`), which survives because time waits for
  them and nobody else writes in their name. `ComplaintsAreSaidOnce` is for any number of
  emissions: an emission that ran alone repeats nothing and is not repeated.
- **DeviceFleetProofs.** No step removes a row or gives one a secret it has lost
  (`RowsKept`), and what a request was let in for is still there when it commits
  (`InFlight`). A claim inserts, so it takes a face no camera has
  (`OneCameraPerFace`), and a camera without a secret comes back only as the camera of
  another face (`UnpairedIsCutOff`). Uploads preserve all of it (`UploadsKeepTypes`,
  `UploadsKeepCutOff`). `IngestIInv` adds that the lock of a day
  has one holder (`HoldersAlone`), that the number in hand follows one in use and, for a
  stamp in UTC, is new to its day (`NumbersHeld`), and that its bytes stay under its key
  (`BytesHeld`). The check, the number, the bytes and the row are steps of their own, and
  no zone is excluded: every row has bytes, which are its own and under a number of its
  own among the captures stamped in UTC (`EveryRowHasItsBytes`); each number is the first
  or follows one of the day it asked for, which leaves no gap on a day all of whose
  captures were stamped in UTC (`NumbersHaveNoGaps`); every step is one of `PhotoArchive`
  or a stutter (`FilesLikeTheArchive`); no lock outlives its upload
  (`NoLockIsLeftBehind`); and what a camera lets go of is stored and stays
  (`NothingLetGoIsLost`), the state part of `KeptUntilStored`.
- **RealtimePushProofs.** `PushIInv`: whatever is under way (not yet published, in a
  channel, in a broadcast, on a connection, in an answer) is of a state committed by
  now (`NothingAhead`), a page has one timer or one live socket (`OnePerPage`), and a
  hub holds only sockets whose endpoint still runs in its process (`HubsAreFresh`).
  Hence `NoSocketLeaks` and `OnlyCommittedIsShown`. The reads: of two databases that
  differ in one project only, which the caller may not see in either, every read
  answers the same (`HiddenIsAbsent`), 404s, searches, profiles and lists included;
  what a list, a profile or the feed shows opens (`ListedCanBeOpened`); the public
  page is part of the folder (`PageIsPartOfFolder`). `SubscriptionIsTheFolders` is about
  two databases, that of the connection and that of the request: a socket gets every
  project whose folder the caller can open now, and beyond these only what the caller
  could open when it connected. They assume of a database only what its keys and
  foreign keys enforce (`IsDatabase`).
- **SiteProofs.** *Migrations*: tables, enum types and rows of predictions are at every
  moment exactly those of the revision the database is at (`MigrationsIInv`), for any
  photographs and any number of downgrades; so no statement of a later revision is
  refused, and `upgrade head` arrives (`HeadStaysReachable`). The folds over the
  statements that create and drop the tables and over the revisions that are left are
  followed step by step. *Team*: a save that was loaded from an accepted row carries an id
  its user agreed to (`SavesAgreed`), hence `NobodyJoinsUnasked`. An upload in flight
  has its bytes and no row, a flushed deletion still has its row, and neither has a
  rival (`FilesInFlight`), hence `ListedHasBytes`. *Backup*: rows are dumped before
  bytes are copied, so what the dump lists has its bytes in the bucket until a request
  removes them (`DumpIsBehind`), and the mirror covers it (`WholeBackup`):
  `RestoredHasBytes`. *Seed data*: no foreign key leads from the rows of others to
  seeded ones, so no cascade reaches them: `WipeSparesOthers`, for any rows of others.
  *Pages*: `DashboardIInv` says what a cached answer owes: it is not newer than the
  server, a dialog or a press was offered by one (`DialogOffered`, `PressOffered`),
  and a version that was promised is cached, being fetched, or an error is shown for
  it (`PromisesHold`); so a refusal is of an outdated page (`RefusedIsOutOfDate`) and
  a success shows (`OwnActionShows`). *Feed*: all that stands before the cursor and
  has stayed there has been shown once (`WalkedOver`), hence `StillIsSeen`, for any
  finite number of projects and any page size.
- **ModelsProofs.** *Serving*: the fingerprint is checked where a service is built;
  the invariant follows the service into the memory of a process, its task, its answer
  and what it stores. `ServedAsTrained` needs no bound on replacements or crashes.
  *Training*: until a run is resumed, one of the two files is whole (`OneIsWhole`):
  the best one is while the last is written, and the other way round: `NothingIsLost`.
  The schedule of a run and of everything it saved is that of some uninterrupted run
  with the same scores (`RunIsOnSchedule`, `FilesAreOnSchedule`), which is the fold of
  the schedule over these scores: `ResumesOnSchedule` states `ResumesWhereItWas`.
  *Dataset*: copies, manifest, a running script, what was taught and what was scored
  each follow the plan of a raw tree that was there (`SplitIInv`), and a tree has one
  plan: `OneTreeIsOneSplit`. The search for the best assignment plays no part in it
  beyond being repeatable.

The assumptions are the named ASSUMEs of the modules, which TLC evaluates in each run:
bounds are naturals, readings are fractions up to the ceiling (which
`ReadingsFitTheTimeline` proves of `CameraFusion`), the midnights of a calendar are in
order, the project ids of the feed are finitely many.

**Only model-checked.** Liveness under fairness and anything with ENABLED: `Settles`,
`ProjectSettles`, `SilenceIsNoticed`, `KeptUntilStored`, `Answered`, the second half
of `SaidOnceAndRestated`, `CallsEnd`, `DeadSessionEnds`, `SubscriptionHolds`,
`CatchesUp`, `NobodyWaitsForever`; the prover at hand does no fairness. What they rest on
in each state is proved where it is named above. Every safety property of a run that
passes is proved.

## 5. Where code and documents disagree

Six are shown by runs.

1. *An approval can be lost* (`Progress-Calculation.md:162`, `projects.py:424-426`):
   a request that loaded the project before saves it whole after.
2. *A prediction may name another model* (`inference.py:500-511`): the active row is
   registered for the weights of the day and nothing replaces it
   (`system.py:320`, `set_active`, has no caller), though `RUNBOOK.md:64-70` has the
   operator replace the weights.
3. *A split may leak* (`split_dataset.py:4-6`, `10-12`): a second run, after captures
   were promoted, leaves the copies of the first where they are, and a building that
   moved is in two splits at once.
4. *A recompute can be overtaken* (`Module-09-Inference-Service.md:72-73`, which asks for
   an advisory lock; `inference.py:335`, which takes none): the one that read the
   predictions first commits last and writes old snapshots over newer ones, and the
   project row goes back with them until the next photograph.
5. *A remark can be said twice* (`maintenance.py:3-5`, `Module-10-Reports-and-Remarks.md:
   140-142`): two emissions that overlap both look up before either commits.
6. *One good day can advance the label* (`Progress-Calculation.md:125-127`): the guard
   counts windows by the number they show and not by their evidence
   (`aggregator.py:415-427`), so the empty day after confirms it.

The others were met while modelling; each property named is stated in its module
and fails there, or the step is in the model.

*Pipeline and progress.*
Nothing sweeps up pending images (`queue.py:9-11`, `44-45`; `SweptUp`).
The ceiling is not reached (`value_objects.py:226`, `ADR-Index.md:100`;
`AtCeilingAwaits`): the EMA stops at 79.9999, the row shows 80.00, the comparison uses
the value before quantising, and `ApproveProject` refuses; the tests of both halves
start their series at 80. After an approval the folder shows 100 and the progress endpoint
the latest snapshot, at most 80: the comment that rules out the contradiction
(`use_cases/progress.py:75-78`) speaks of projects without a snapshot.
`last_capture_at` "only ever moves forward" (`ingest.py:338-343`) against the value
loaded with the project, so two uploads may move it back.
Windows step 24 hours from the first local midnight while buckets are keyed by local
date (`recompute.py:216`): they part after a change to summer time; the default zone
has none.
A regression's or inspection's remark is written by each recompute of the window that
raised it (`inference.py:353`).
Numbers are those of a UTC day (`Module-05-Device-Pairing-and-Ingestion.md:44`, `67-68`),
but a stamp that is not in UTC locks its own zone's day and is numbered among the UTC
day of that date (`ingest.py:193`, `image.py:175-197`), while file and key are named
after the UTC instant: near midnight two captures of one UTC day may share a number, a
day may have a gap, and two of the same second and face share a key, where the second
replaces the bytes of the first; `FiledUnderItsOwnName` is for captures stamped in UTC.

*Devices, reports, remarks.*
A report's "progress at the end of the period" (`domain/reporting.py:108-109`) is that
of the day after: the series is read up to and including its upper bound
(`repositories/image.py:414`), the first instant of the next day (`EndIsTheDayAfter`);
without a snapshot in between it is the project's present percentage. Periods follow
the site's days, the dates of the charts are UTC's. A save of a row read earlier sets
an unpaired device online or offline (`UnpairSticks`); its secret stays gone.
Unpairing does not free the face (`device.py:62`, `devices.py:133-134` against
`uq_devices_project_face`; `UnpairingFreesTheFace`). "Stuck at queued forever" is
excluded by `worker/reports.py:9-11` but for a message spent on a row that is not
there yet, a time limit, or an overlap, which `Answered` excuses. The 72-hour look-up
goes by type whoever wrote the remark: site-offline, rejection-streak, regression and
inspection remarks and members' notes of that type mask each other; a member's "delay"
note silences the automatic one; and "deadline passed" waits behind a recent "behind
schedule" that `remarks.py` calls a different conversation. Emission and sweep look up
in separate transactions, so two system remarks may fall in one window. The page lists
the newest 50, and a report asks the same query for the remarks of its period
(`worker/reports.py:211`, `system.py:56-65`): where 50 newer ones were written it has
none of them.

*Accounts, team, realtime.*
A refresh of two calls at once can sign the page out (`auth.ts:12-13`;
`RefreshIsTransparent`), and the revocation of a family is rolled back by the 401 that
announces it (`auth.py:283`). `delete_expired` is never called, nor is the REVOKED
membership status ever set. A stale change of role can take an acceptance back. A
rolled back deletion of an asset has lost its bytes (`content.py:146-149`;
`AssetHasBytes`), and an aborted upload leaves an object without a row. Uploads are
announced before they are committed (`bus.py:66-67`). `Realtime-Events.md:50` has every
subscription authorized against the members: the list fetched when the socket connects
(`ws.py:81`) is granted from without another look (`ws.py:208`), so a member removed
since still subscribes on that socket; several event types are never
published; the publishing client is cached across the event loops of tasks.

*Training and models.*
A run resumed after the warm-up stays frozen (`ThawedAfterWarmUp`), may write a lower
score over `best.pt` (`callbacks.py:59`; `BestIsBest`), and, resumed into a new
directory, may finish naming a best checkpoint that is not there; a second crash
before the first `best.pt` of a resumed run can leave no whole file.
The worker gives the
detector the classifier's 224x224 frame; `preprocessing_detector.yaml` is read by tests
only. The evaluation classifies frames the quality gate refuses, while the data
module leaves them out. `monotonicity_violations` counts a decline that goes on again
(`progress_eval.py:57-72`). The agreement rule looks for objects called "roof"
(`detector_eval.py:205-211`), the detector's class is called "roofing"
(`models/stub.py:55`), so no photograph would be read as Roofing; nothing calls the
rule yet.

*Database.*
`backup.py` dumps the database before it mirrors the bucket, so what is deleted in
between is listed without bytes; a backup that died after the dump has no mirror,
and `restore.py` still ends with "restore complete"; `psql` runs without
ON_ERROR_STOP, `mc mirror` without `--remove` or `--overwrite`.
Revision m09 keeps predictions with index 0 to 3 of the retired scheme; m05 down and
up loses device credentials; m09's downgrade is refused while superseded rows exist,
as documented. The seed is not repeatable once a seeded user owns another project or
the stub model has judged somebody's photograph (`seed_db.py:13-14`;
`SeedIsRepeatable`).

*Pages and feed.*
A manager is offered the removal of the own row, which the API refuses
(`members.py:269-273` against `owner-pages.tsx:4-6`; `OfferedIsAllowed`). The
permissions block and the roster beside it may be of two moments (`projects.py:77-81`;
`BlockMatchesRoster`). A list still being fetched when its page was left is only
marked, and the old answer clears the mark; an approval does not mark the list of
projects (`OwnActionShowsEverywhere`). A realtime patch of the folder passes for the
answer of a fetch that was lost, so the rest of the folder stays old until the next
poll. `GetProjectFolder` says that anonymous callers are given public remarks and
assets only (`projects.py:260-261`); its endpoint leaves the flag at its default and
the public page alone sets it. A late `approval.required` event hides a finished
inspection until the next poll, and a status patch leaves `status_reason` old. The
profile page re-reads a cached user nobody updated (`owner-pages.tsx:443`, `470`). The
pairing dialog takes any `device.paired` of the project for its own. The project page
bounds a weight to 0..1 where the API takes (0, 5]. The code check asks a UUID route
for a project code, so every code looks free (`owner.ts:173-184`). The feed page never
follows `next_cursor`, and a photograph taken during a walk makes an unseen project be
skipped (`public.py:77-78`; `PhotographedIsSeen`). Photographs of an archived project
are taken in.

## 6. What is not modelled, and what is left

*Pixels and weights.* Preprocessing, networks, losses and metrics are numerical; their
verdict is a free choice in the models. Binary floating point is taken to be exact.

*Formatting.* PDF, CSV and charts, request and response schemas, error bodies, the
wording of remarks, the public pages of the dashboard, forms and styling.

*Single rows.* Registration, profile, password, notifications, bookmarks, contact
messages and the audit log are read and written one row at a time by one user. The
request rate limit, health checks and the response cache have no order to get
wrong. Detections have no vote.

*Within modelled parts.* The five stage percentages of a snapshot, daylight saving
(the calendar of `ProgressTimeline` numbers its days), creation and deletion of a
project in `ProjectProgress`, more than one API process behind one page, and the
composition of `ProjectProgress` with a `ProgressTimeline` in place of its versions.
Hazards without a property are those where no document says what should happen:
a vote that is withdrawn and then refused, and a late photograph of an approved
project.

*Without a proof*: liveness (section 4), the types of `Sessions` and `SeedData`, and the
state invariants on which the liveness of `Sessions` rests (no call under way holds a
pair that was never issued).
