--------------------------- MODULE ReportJobProofs ---------------------------
(***************************************************************************)
(* For every number of reports, workers, retries, failures and overlaps:   *)
(* links lead to documents, documents have rows, and a ready report is     *)
(* final.                                                                  *)
(*                                                                         *)
(* The invariant rests on one fact: a report past its retention has no     *)
(* message and no delivery (OldIsQuiet), so the cleanup, which takes only  *)
(* such reports, meets no delivery, and a delivery always has a row        *)
(* (JobSound).  Without overlaps a report has one delivery, which has not  *)
(* made it ready yet (Alone, Unready), and a report that owes an answer    *)
(* keeps its message under every delivery and after it (Remembered).       *)
(*                                                                         *)
(* Then which days a report is of, on any calendar; and, for any window    *)
(* and any number of deaths and notes, that the emissions of remarks say a *)
(* thing once: what an open emission holds is of each type once and news   *)
(* (OneOfEach, WritesNews).                                                *)
(***************************************************************************)
EXTENDS ReportJob, ReportPeriods, Remarks, TLAPS

USE ReportAssumption

-----------------------------------------------------------------------------
(* The invariant *)

AskedOnce == \A r \in Reports : Exists(r) => asked[r] = "done"

OldIsQuiet ==
    \A r \in Reports : Exists(r) /\ row[r].old =>
        /\ queue[r] = {}
        /\ \A w \in Workers : job[w] # Idle => job[w].report # r

\* What a delivery works on is there, and what it read is not yet outdated.
JobSound(w) ==
    job[w] # Idle =>
        /\ Exists(job[w].report)
        /\ job[w].step \in {"read", "claimed"} => job[w].entity # NoRow
        /\ job[w].entity # NoRow =>
              /\ ~job[w].entity.old
              /\ job[w].entity.filed => blob[job[w].report] # NoDocument
        /\ job[w].step = "stored" => blob[job[w].report] # NoDocument

CleanupSound ==
    /\ \A r \in cleanup.todo \cup cleanup.gone : Exists(r) /\ row[r].old
    /\ \A r \in cleanup.gone : blob[r] = NoDocument

FiledHasBlob ==
    \A r \in Reports :
        Exists(r) /\ row[r].filed => blob[r] # NoDocument \/ row[r].old

BlobHasRow == \A r \in Reports : blob[r] # NoDocument => Exists(r)

ReportIInv ==
    /\ TypeOK
    /\ AskedOnce
    /\ OldIsQuiet
    /\ \A w \in Workers : JobSound(w)
    /\ CleanupSound
    /\ FiledHasBlob
    /\ BlobHasRow

\* Without overlaps a report has one delivery, and it is not ready under it.
Alone ==
    overlaps = 0 =>
        \A w, v \in Workers :
            job[w] # Idle /\ job[v] # Idle /\ job[w].report = job[v].report => w = v

Unready ==
    overlaps = 0 =>
        \A w \in Workers :
            job[w] # Idle /\ job[w].step # "returned" => ~Ready(job[w].report)

-----------------------------------------------------------------------------
(* Shapes *)

LEMMA RowShape ==
  ASSUME TypeOK, NEW r \in Reports, Exists(r)
  PROVE  row[r] \in Rows
  BY DEF TypeOK, Exists

LEMMA ReadyShape ==
  ASSUME TypeOK, NEW r \in Reports, Ready(r)
  PROVE  Exists(r) /\ row[r] \in Rows
  BY DEF TypeOK, Exists, Ready, NoRow

LEMMA JobShape ==
  ASSUME TypeOK, NEW w \in Workers
  PROVE  /\ job[w] # Idle => job[w] \in Deliveries
         /\ job[w].step \in Steps => job[w] # Idle
  BY DEF TypeOK, Idle, Steps, Deliveries

LEMMA CleanupShape ==
  ASSUME TypeOK
  PROVE  cleanup.todo \subseteq Reports /\ cleanup.gone \subseteq Reports
  <1>1. CASE cleanup \in Cleanups
    BY <1>1 DEF Cleanups
  <1>2. CASE cleanup = NoCleanup
    <2>1. cleanup.todo = {} /\ cleanup.gone = {}
      BY <1>2 DEF NoCleanup
    <2> QED BY <2>1
  <1> QED BY <1>1, <1>2 DEF TypeOK

LEMMA SavedOverShape ==
  ASSUME NEW current \in Rows, NEW seen \in Rows, NEW wanted \in Rows
  PROVE  /\ SavedOver(current, seen, wanted) \in Rows
         /\ SavedOver(current, seen, wanted).status \in {current.status, wanted.status}
         /\ SavedOver(current, seen, wanted).filed \in {current.filed, wanted.filed}
         /\ SavedOver(current, seen, wanted).old \in {current.old, wanted.old}
  BY DEF SavedOver, Rows

-----------------------------------------------------------------------------
(***************************************************************************)
(* What a delivery does in a step, whichever it is: it leaves one row, one *)
(* document and its own place behind, and everything else alone.           *)
(***************************************************************************)
\* The step of a delivery, or its message and nothing else.
Delivers(w) == Work(w) \/ Trouble(w)

\* The row stays one that is not old, filed only over a document, and ready
\* only if it was or the delivery is done.
RowConfined(w) ==
    LET r == job[w].report
    IN  \E new \in Rows :
            /\ row' = [row EXCEPT ![r] = new]
            /\ ~new.old
            /\ new.filed => blob'[r] # NoDocument
            /\ new.status = "ready" => row[r].status = "ready" \/ job[w].step = "stored"

BlobConfined(w) ==
    LET r == job[w].report
    IN  \E document \in Documents \cup {NoDocument} :
            /\ blob' = [blob EXCEPT ![r] = document]
            /\ document = blob[r] \/ (job[w].step = "rendered" /\ document \in Documents)

\* The delivery ends, or goes on with the report and with what it read.
JobConfined(w) ==
    \/ job' = [job EXCEPT ![w] = Idle]
    \/ \E place \in Deliveries :
          /\ job' = [job EXCEPT ![w] = place]
          /\ place.report = job[w].report
          /\ place.entity \in {job[w].entity, NoRow}
          /\ place.step \in {"read", "claimed"} =>
                place.entity = job[w].entity /\ job[w].step \in {"read", "claimed"}
          /\ place.step = "stored" => blob'[job[w].report] # NoDocument
          /\ job[w].step \in {"stored", "returned"} => place.step = "returned"

RestConfined(w) ==
    /\ queue' \in [Reports -> SUBSET (0 .. MaxRetries)]
    /\ \A q \in Reports : q # job[w].report => queue'[q] = queue[q]
    /\ cut' \in [Reports -> BOOLEAN]
    /\ faults' \in 0 .. MaxFaults
    /\ UNCHANGED <<asked, cleanup, overlaps>>

LEMMA WorkingShape ==
  ASSUME ReportIInv, NEW w \in Workers, job[w] # Idle
  PROVE  /\ job[w] \in Deliveries
         /\ job[w].report \in Reports
         /\ row[job[w].report] \in Rows
         /\ ~row[job[w].report].old
         /\ row[job[w].report].filed => blob[job[w].report] # NoDocument
         /\ blob[job[w].report] \in Documents \cup {NoDocument}
         /\ job[w].step \in {"read", "claimed"} =>
              /\ job[w].entity \in Rows
              /\ ~job[w].entity.old
              /\ job[w].entity.filed => blob[job[w].report] # NoDocument
  <1> TypeOK /\ JobSound(w)
    BY DEF ReportIInv
  <1>1. job[w] \in Deliveries
    BY JobShape
  <1>2. job[w].report \in Reports /\ job[w].entity \in Rows \cup {NoRow}
    BY <1>1 DEF Deliveries
  <1>3. Exists(job[w].report)
    BY DEF JobSound
  <1>4. row[job[w].report] \in Rows
    BY <1>2, <1>3, RowShape
  <1>5. ~row[job[w].report].old
    BY <1>2, <1>3 DEF ReportIInv, OldIsQuiet
  <1>6. row[job[w].report].filed => blob[job[w].report] # NoDocument
    BY <1>2, <1>3, <1>5 DEF ReportIInv, FiledHasBlob
  <1>7. blob[job[w].report] \in Documents \cup {NoDocument}
    BY <1>2 DEF TypeOK
  <1> QED
    BY <1>1, <1>2, <1>4, <1>5, <1>6, <1>7 DEF JobSound

LEMMA DeliversWorks ==
  ASSUME NEW w \in Workers, Delivers(w)
  PROVE  job[w] # Idle
  BY DEF Delivers, Work, Trouble, Claim, Collect, Render, Store, Finish, Acknowledge,
         CollectFails, RenderFails, StoreFails, WorkerDies, TimeLimit, Idle

LEMMA RowIsConfined ==
  ASSUME ReportIInv, NEW w \in Workers, Delivers(w)
  PROVE  RowConfined(w)
  <1> TypeOK
    BY DEF ReportIInv
  <1> DEFINE r == job[w].report
             entity == job[w].entity
  <1>1. /\ r \in Reports /\ row[r] \in Rows /\ ~row[r].old
        /\ row[r].filed => blob[r] # NoDocument
        /\ job[w].step \in {"read", "claimed"} =>
              entity \in Rows /\ ~entity.old /\ (entity.filed => blob[r] # NoDocument)
    BY DeliversWorks, WorkingShape
  \* A row written from `wanted` over what was seen.
  <1>2. ASSUME NEW seen \in Rows, NEW wanted \in Rows, NEW new \in Rows,
               entity.filed => blob[r] # NoDocument,
               wanted.filed = entity.filed, ~wanted.old, wanted.status # "ready",
               UNCHANGED blob,
               row' = [row EXCEPT ![r] = new],
               new.status = SavedOver(row[r], seen, wanted).status,
               new.filed = SavedOver(row[r], seen, wanted).filed,
               ~new.old
        PROVE  RowConfined(w)
    <2>1. new.status \in {row[r].status, wanted.status}
          /\ new.filed \in {row[r].filed, wanted.filed}
      BY <1>1, <1>2, SavedOverShape
    <2>2. new.filed => blob'[r] # NoDocument
      BY <1>1, <1>2, <2>1
    <2>3. new.status = "ready" => row[r].status = "ready"
      BY <1>2, <2>1
    <2> QED
      BY <1>2, <2>2, <2>3 DEF RowConfined
  <1>3. CASE Claim(w)
    <2> DEFINE wanted == Claimed(entity)
    <2>1. entity \in Rows /\ ~entity.old /\ (entity.filed => blob[r] # NoDocument)
      BY <1>1, <1>3 DEF Claim
    <2>2. wanted \in Rows /\ wanted.filed = entity.filed /\ ~wanted.old
          /\ wanted.status = "processing"
      BY <2>1 DEF Claimed, Rows, Statuses
    <2>3. PICK seen \in {entity, row[r]} :
                row' = [row EXCEPT ![r] = SavedOver(row[r], seen, wanted)]
      BY <1>3 DEF Claim
    <2>4. UNCHANGED blob
      BY <1>3 DEF Claim
    <2>5. seen \in Rows
      BY <1>1, <2>1
    <2> DEFINE new == SavedOver(row[r], seen, wanted)
    <2> HIDE DEF wanted
    <2>6. new \in Rows /\ new.old \in {row[r].old, wanted.old}
      BY <1>1, <2>2, <2>5, SavedOverShape
    <2>7. row' = [row EXCEPT ![r] = new] /\ new = SavedOver(row[r], seen, wanted)
      BY <2>3
    <2> HIDE DEF new
    <2>8. ~new.old
      BY <1>1, <2>2, <2>6
    <2> QED
      BY <1>2, <2>1, <2>2, <2>4, <2>5, <2>6, <2>7, <2>8
  <1>4. CASE CollectFails(w)
    <2> DEFINE wanted == Failed(entity)
    <2>1. entity \in Rows /\ ~entity.old /\ (entity.filed => blob[r] # NoDocument)
      BY <1>1, <1>4 DEF CollectFails
    <2>2. wanted \in Rows /\ wanted.filed = entity.filed /\ ~wanted.old
          /\ wanted.status = "failed"
      BY <2>1 DEF Failed, Rows, Statuses
    <2>3. PICK seen \in {Claimed(entity), row[r]} :
                row' = [row EXCEPT ![r] =
                          [SavedOver(row[r], seen, wanted) EXCEPT !.old = FALSE]]
      BY <1>4 DEF CollectFails
    <2>4. UNCHANGED blob
      BY <1>4 DEF CollectFails
    <2>5. seen \in Rows
      BY <1>1, <2>1 DEF Claimed, Rows, Statuses
    <2> HIDE DEF wanted
    <2> DEFINE saved == SavedOver(row[r], seen, wanted)
               new == [saved EXCEPT !.old = FALSE]
    <2>6. saved \in Rows
      BY <1>1, <2>2, <2>5, SavedOverShape
    <2>7. row' = [row EXCEPT ![r] = new]
      BY <2>3
    <2>8. saved = SavedOver(row[r], seen, wanted)
      OBVIOUS
    <2> HIDE DEF saved
    <2>9. new \in Rows /\ ~new.old /\ new.status = saved.status /\ new.filed = saved.filed
      BY <2>6 DEF Rows
    <2> HIDE DEF new
    <2> QED
      BY <1>2, <2>1, <2>2, <2>4, <2>5, <2>7, <2>8, <2>9
  <1>5. CASE RenderFails(w)
    <2> DEFINE new == Failed(row[r])
    <2>1. new \in Rows /\ ~new.old /\ new.status = "failed" /\ new.filed = row[r].filed
      BY <1>1 DEF Failed, Rows, Statuses
    <2>2. row' = [row EXCEPT ![r] = new] /\ UNCHANGED blob
      BY <1>5 DEF RenderFails
    <2> HIDE DEF new
    <2> QED BY <1>1, <2>1, <2>2 DEF RowConfined
  <1>6. CASE Finish(w)
    <2> DEFINE new == [status |-> "ready", filed |-> TRUE, old |-> FALSE]
    <2>1. new \in Rows /\ ~new.old
      BY DEF Rows, Statuses
    <2>2. row' = [row EXCEPT ![r] = new] /\ UNCHANGED blob /\ job[w].step = "stored"
      BY <1>6, DeliversWorks DEF Finish, ReportIInv, JobSound
    <2>3. blob[r] # NoDocument
      BY <2>2, DeliversWorks DEF ReportIInv, JobSound
    <2> HIDE DEF new
    <2> QED BY <2>1, <2>2, <2>3 DEF RowConfined
  <1>7. CASE UNCHANGED row
    <2>1. row' = [row EXCEPT ![r] = row[r]]
      BY <1>1, <1>7 DEF TypeOK
    <2>2. row[r].filed => blob'[r] # NoDocument
      BY <1>1, DeliversWorks
      DEF Delivers, Work, Trouble, Claim, Collect, Render, Store, Finish, Acknowledge,
          CollectFails, RenderFails, StoreFails, WorkerDies, TimeLimit, TypeOK,
          AnotherThan, NoDocument
    <2> QED BY <1>1, <2>1, <2>2 DEF RowConfined
  <1> QED
    BY <1>3, <1>4, <1>5, <1>6, <1>7
    DEF Delivers, Work, Trouble, Collect, Render, Store, Acknowledge, StoreFails,
        WorkerDies, TimeLimit

LEMMA BlobIsConfined ==
  ASSUME ReportIInv, NEW w \in Workers, Delivers(w)
  PROVE  BlobConfined(w)
  <1> DEFINE r == job[w].report
  <1>1. blob[r] \in Documents \cup {NoDocument} /\ blob = [blob EXCEPT ![r] = blob[r]]
    BY DeliversWorks, WorkingShape DEF ReportIInv, TypeOK
  <1>2. CASE Store(w)
    <2>1. AnotherThan(blob[r]) \in Documents
      BY DEF AnotherThan, Documents
    <2>2. blob' = [blob EXCEPT ![r] = AnotherThan(blob[r])] /\ job[w].step = "rendered"
      BY <1>2 DEF Store
    <2> QED BY <2>1, <2>2 DEF BlobConfined
  <1>3. CASE UNCHANGED blob
    BY <1>1, <1>3 DEF BlobConfined
  <1> QED
    BY <1>2, <1>3
    DEF Delivers, Work, Trouble, Claim, Collect, Render, Finish, Acknowledge,
        CollectFails, RenderFails, StoreFails, WorkerDies, TimeLimit

LEMMA JobIsConfined ==
  ASSUME ReportIInv, NEW w \in Workers, Delivers(w)
  PROVE  JobConfined(w)
  <1> TypeOK
    BY DEF ReportIInv
  <1> DEFINE r == job[w].report
  <1>1. job[w] \in Deliveries /\ r \in Reports
    BY DeliversWorks, WorkingShape
  \* A step onwards, with what was read or without it.
  <1>2. ASSUME NEW step \in Steps, NEW entity \in {job[w].entity, NoRow},
               job' = [job EXCEPT ![w] = [job[w] EXCEPT !.step = step, !.entity = entity]],
               step \in {"read", "claimed"} =>
                  entity = job[w].entity /\ job[w].step \in {"read", "claimed"},
               step = "stored" => blob'[r] # NoDocument,
               job[w].step \in {"stored", "returned"} => step = "returned"
        PROVE  JobConfined(w)
    <2> DEFINE place == [job[w] EXCEPT !.step = step, !.entity = entity]
    <2>1. /\ place \in Deliveries /\ place.report = r /\ place.entity = entity
          /\ place.step = step
      BY <1>1 DEF Deliveries
    <2>2. job' = [job EXCEPT ![w] = place]
      BY <1>2
    <2> HIDE DEF place
    <2> QED BY <1>2, <2>1, <2>2 DEF JobConfined
  <1>3. ASSUME NEW step \in Steps, Goes(w, step),
               step \in {"read", "claimed"} => job[w].step \in {"read", "claimed"},
               step = "stored" => blob'[r] # NoDocument,
               job[w].step \in {"stored", "returned"} => step = "returned"
        PROVE  JobConfined(w)
    <2>1. [job[w] EXCEPT !.step = step]
          = [job[w] EXCEPT !.step = step, !.entity = job[w].entity]
      BY <1>1 DEF Deliveries
    <2>2. job' = [job EXCEPT ![w] = [job[w] EXCEPT !.step = step, !.entity = job[w].entity]]
      BY <1>3, <2>1 DEF Goes
    <2> QED BY <1>2, <1>3, <2>2
  <1>4. CASE Claim(w)
    BY <1>3, <1>4 DEF Claim, Steps
  <1>5. CASE Collect(w)
    BY <1>2, <1>5 DEF Collect, Steps
  <1>6. CASE CollectFails(w)
    BY <1>2, <1>6 DEF CollectFails, Steps
  <1>7. CASE Render(w)
    BY <1>3, <1>7 DEF Render, Steps
  <1>8. CASE RenderFails(w)
    BY <1>3, <1>8 DEF RenderFails, Steps
  <1>9. CASE Store(w)
    <2>1. blob'[r] # NoDocument
      BY <1>1, <1>9 DEF Store, TypeOK, AnotherThan, NoDocument
    <2> QED BY <1>3, <1>9, <2>1 DEF Store, Steps
  <1>10. CASE StoreFails(w)
    BY <1>3, <1>10 DEF StoreFails, Steps
  <1>11. CASE Finish(w)
    BY <1>3, <1>11 DEF Finish, Steps
  <1>12. CASE Acknowledge(w) \/ WorkerDies(w) \/ TimeLimit(w)
    BY <1>12 DEF Acknowledge, WorkerDies, TimeLimit, JobConfined
  <1> QED
    BY <1>4, <1>5, <1>6, <1>7, <1>8, <1>9, <1>10, <1>11, <1>12
    DEF Delivers, Work, Trouble

LEMMA RestIsConfined ==
  ASSUME ReportIInv, NEW w \in Workers, Delivers(w)
  PROVE  RestConfined(w)
  <1> TypeOK
    BY DEF ReportIInv
  <1> DEFINE r == job[w].report
  <1>1. job[w] \in Deliveries /\ r \in Reports /\ job[w].try \in 0 .. MaxRetries
    BY DeliversWorks, WorkingShape DEF Deliveries
  <1>2. Fault => faults' \in 0 .. MaxFaults
    BY DEF Fault, TypeOK
  <1>3. CASE Claim(w) \/ Collect(w) \/ Render(w) \/ Store(w) \/ Finish(w)
    BY <1>3 DEF Claim, Collect, Render, Store, Finish, RestConfined, TypeOK
  <1>4. CASE Acknowledge(w)
    BY <1>1, <1>4 DEF Acknowledge, RestConfined, TypeOK
  <1>5. CASE CollectFails(w) \/ RenderFails(w) \/ WorkerDies(w)
    BY <1>2, <1>5 DEF CollectFails, RenderFails, WorkerDies, RestConfined, TypeOK
  <1>6. CASE StoreFails(w)
    <2>1. job[w].try < MaxRetries => job[w].try + 1 \in 0 .. MaxRetries
      BY <1>1
    <2>2. queue' \in [Reports -> SUBSET (0 .. MaxRetries)]
      BY <1>1, <1>6, <2>1 DEF StoreFails, TypeOK
    <2>3. \A q \in Reports : q # r => queue'[q] = queue[q]
      BY <1>1, <1>6 DEF StoreFails, TypeOK
    <2> QED
      BY <1>2, <1>6, <2>2, <2>3 DEF StoreFails, RestConfined, TypeOK
  <1>7. CASE TimeLimit(w)
    <2>1. cut' \in [Reports -> BOOLEAN]
      BY <1>1, <1>7 DEF TimeLimit, TypeOK, Owed
    <2> QED BY <1>1, <1>2, <1>7, <2>1 DEF TimeLimit, RestConfined, TypeOK
  <1> QED
    BY <1>3, <1>4, <1>5, <1>6, <1>7 DEF Delivers, Work, Trouble

-----------------------------------------------------------------------------
(* ReportIInv is inductive *)

LEMMA ReportInit == Init => ReportIInv /\ Alone /\ Unready
  BY DEF Init, ReportIInv, TypeOK, AskedOnce, OldIsQuiet, JobSound, CleanupSound,
         FiledHasBlob, BlobHasRow, Alone, Unready, Exists, NoCleanup, Idle

LEMMA DeliveryKeepsIInv ==
  ASSUME ReportIInv, NEW w \in Workers, Delivers(w)
  PROVE  ReportIInv'
  <1> TypeOK
    BY DEF ReportIInv
  <1> DEFINE r == job[w].report
  <1>1. /\ job[w] # Idle /\ job[w] \in Deliveries /\ r \in Reports
        /\ row[r] \in Rows /\ ~row[r].old /\ Exists(r)
        /\ blob[r] \in Documents \cup {NoDocument}
    BY DeliversWorks, WorkingShape DEF ReportIInv, JobSound
  <1>2. PICK new \in Rows :
            /\ row' = [row EXCEPT ![r] = new]
            /\ ~new.old
            /\ new.filed => blob'[r] # NoDocument
    BY RowIsConfined DEF RowConfined
  <1>3. PICK document \in Documents \cup {NoDocument} :
            /\ blob' = [blob EXCEPT ![r] = document]
            /\ document = blob[r] \/ document \in Documents
    BY BlobIsConfined DEF BlobConfined
  <1>4. /\ queue' \in [Reports -> SUBSET (0 .. MaxRetries)]
        /\ \A q \in Reports : q # r => queue'[q] = queue[q]
        /\ cut' \in [Reports -> BOOLEAN]
        /\ faults' \in 0 .. MaxFaults
        /\ UNCHANGED <<asked, cleanup, overlaps>>
    BY RestIsConfined DEF RestConfined
  <1>5. /\ \A q \in Reports : q # r => row'[q] = row[q] /\ blob'[q] = blob[q]
        /\ row'[r] = new /\ row'[r] # NoRow
        /\ blob[r] # NoDocument => blob'[r] # NoDocument
    BY <1>1, <1>2, <1>3 DEF TypeOK, Documents, NoDocument, NoRow, Rows, Statuses
  <1>6. \A q \in Reports : Exists(q) <=> row'[q] # NoRow
    BY <1>1, <1>5 DEF Exists
  <1>7. \A v \in Workers : v # w => job'[v] = job[v]
    BY JobIsConfined DEF JobConfined, TypeOK
  <1>8. job'[w] # Idle =>
          /\ job'[w] \in Deliveries
          /\ job'[w].report = r
          /\ job'[w].entity \in {job[w].entity, NoRow}
          /\ job'[w].step \in {"read", "claimed"} =>
                job'[w].entity = job[w].entity /\ job[w].step \in {"read", "claimed"}
          /\ job'[w].step = "stored" => blob'[r] # NoDocument
    BY JobIsConfined DEF JobConfined, TypeOK
  <1>9. TypeOK'
    <2>1. job' \in [Workers -> Deliveries \cup {Idle}]
      BY JobIsConfined DEF JobConfined, TypeOK
    <2>2. row' \in [Reports -> Rows \cup {NoRow}]
          /\ blob' \in [Reports -> Documents \cup {NoDocument}]
      BY <1>2, <1>3 DEF TypeOK
    <2> QED BY <1>4, <2>1, <2>2 DEF TypeOK
  <1>10. AskedOnce'
    BY <1>4, <1>6 DEF ReportIInv, AskedOnce, Exists
  <1>11. OldIsQuiet'
    <2> SUFFICES ASSUME NEW q \in Reports, row'[q] # NoRow, row'[q].old
                 PROVE  /\ queue'[q] = {}
                        /\ \A v \in Workers : job'[v] # Idle => job'[v].report # q
      BY DEF OldIsQuiet, Exists
    <2>1. q # r
      BY <1>2, <1>5
    <2>2. queue[q] = {} /\ \A v \in Workers : job[v] # Idle => job[v].report # q
      BY <1>5, <1>6, <2>1 DEF ReportIInv, OldIsQuiet
    <2> QED
      BY <1>4, <1>7, <1>8, <2>1, <2>2
  <1>12. ASSUME NEW v \in Workers PROVE JobSound(v)'
    <2>1. CASE v = w
      <3>1. JobSound(w)
        BY DEF ReportIInv
      <3> QED BY <1>1, <1>5, <1>8, <2>1, <3>1 DEF JobSound, Exists
    <2>2. CASE v # w
      <3>1. job'[v] = job[v] /\ JobSound(v)
        BY <1>7, <2>2 DEF ReportIInv
      <3>2. job[v] # Idle => job[v].report \in Reports
        BY WorkingShape
      <3> QED BY <1>5, <1>6, <3>1, <3>2 DEF JobSound, Exists
    <2> QED BY <2>1, <2>2
  <1>13. CleanupSound'
    <2>1. \A q \in cleanup.todo \cup cleanup.gone : q \in Reports /\ q # r
      BY <1>1, CleanupShape DEF ReportIInv, CleanupSound
    <2> QED
      BY <1>4, <1>5, <2>1 DEF ReportIInv, CleanupSound, Exists
  <1>14. FiledHasBlob'
    BY <1>2, <1>5 DEF ReportIInv, FiledHasBlob, Exists
  <1>15. BlobHasRow'
    BY <1>5 DEF ReportIInv, BlobHasRow, Exists
  <1> QED
    BY <1>9, <1>10, <1>11, <1>12, <1>13, <1>14, <1>15 DEF ReportIInv

LEMMA TakeKeepsIInv ==
  ASSUME ReportIInv, NEW w \in Workers, NEW r \in Reports, NEW try \in 0 .. MaxRetries,
         Take(w, r, try)
  PROVE  ReportIInv'
  <1> TypeOK
    BY DEF ReportIInv
  <1>1. UNCHANGED <<row, asked, blob, cleanup, faults>> /\ overlaps' \in 0 .. MaxOverlaps
    BY DEF Take, TypeOK
  <1>2. CASE Exists(r) /\ ~Ready(r)
    <2> DEFINE place == [step |-> "read", report |-> r, try |-> try, entity |-> row[r]]
    <2>1. job' = [job EXCEPT ![w] = place] /\ UNCHANGED <<queue, cut>> /\ queue[r] # {}
      BY <1>2 DEF Take
    <2>2. row[r] \in Rows /\ row[r] # NoRow /\ ~row[r].old
      BY <1>2, <2>1, RowShape DEF Exists, ReportIInv, OldIsQuiet
    <2>3. row[r].filed => blob[r] # NoDocument
      BY <1>2, <2>2 DEF ReportIInv, FiledHasBlob
    <2>4. /\ place \in Deliveries /\ place.step = "read" /\ place.report = r
          /\ place.entity = row[r] /\ place # Idle
      BY <2>2 DEF Deliveries, Steps, Idle
    <2> HIDE DEF place
    <2>5. job'[w] = place /\ \A v \in Workers : v # w => job'[v] = job[v]
      BY <2>1 DEF TypeOK
    <2>6. TypeOK'
      BY <1>1, <2>1, <2>4 DEF TypeOK
    <2>7. OldIsQuiet'
      BY <1>1, <2>1, <2>2, <2>4, <2>5 DEF ReportIInv, OldIsQuiet, Exists
    <2>8. ASSUME NEW v \in Workers PROVE JobSound(v)'
      <3>1. CASE v = w
        BY <1>1, <2>2, <2>3, <2>4, <2>5, <3>1 DEF JobSound, Exists
      <3>2. CASE v # w
        BY <1>1, <2>5, <3>2 DEF ReportIInv, JobSound, Exists
      <3> QED BY <3>1, <3>2
    <2> QED
      BY <1>1, <2>6, <2>7, <2>8 DEF ReportIInv, AskedOnce, CleanupSound, FiledHasBlob,
                                    BlobHasRow, Exists
  <1>3. CASE ~(Exists(r) /\ ~Ready(r))
    <2>1. /\ queue' = [queue EXCEPT ![r] = @ \ {try}]
          /\ cut' = [cut EXCEPT ![r] = @ \/ ~Exists(r)] /\ UNCHANGED job
      BY <1>3 DEF Take
    <2>2. \A q \in Reports : queue'[q] \subseteq queue[q]
      BY <2>1 DEF TypeOK
    <2>3. TypeOK'
      <3>1. queue' \in [Reports -> SUBSET (0 .. MaxRetries)]
        BY <2>1 DEF TypeOK
      <3>2. cut' \in [Reports -> BOOLEAN]
        BY <2>1 DEF TypeOK, Exists
      <3> QED BY <1>1, <2>1, <3>1, <3>2 DEF TypeOK
    <2> QED
      BY <1>1, <2>1, <2>2, <2>3 DEF ReportIInv, AskedOnce, OldIsQuiet, JobSound,
                                    CleanupSound, FiledHasBlob, BlobHasRow, Exists
  <1> QED BY <1>2, <1>3

LEMMA RequestKeepsIInv ==
  ASSUME ReportIInv, NEW r \in Reports,
         (\E sent \in BOOLEAN : RequestReport(r, sent)) \/ RequestCommit(r)
         \/ RequestAborts(r)
  PROVE  ReportIInv'
  <1> TypeOK
    BY DEF ReportIInv
  <1>1. ~Exists(r)
    BY DEF RequestReport, RequestCommit, RequestAborts, ReportIInv, AskedOnce
  <1>2. \A w \in Workers : job[w] # Idle => job[w].report # r
    BY <1>1 DEF ReportIInv, JobSound
  <1>3. CASE (\E sent \in BOOLEAN : RequestReport(r, sent)) \/ RequestAborts(r)
    <2>1. /\ UNCHANGED <<row, job, blob, cleanup, overlaps>>
          /\ \A q \in Reports : q # r => queue'[q] = queue[q]
          /\ \A q \in Reports : q # r => asked'[q] = asked[q]
      BY <1>3 DEF RequestReport, RequestAborts, TypeOK
    <2>2. TypeOK'
      <3>1. 0 \in 0 .. MaxRetries /\ (Fault => faults' \in 0 .. MaxFaults)
        BY DEF Fault, TypeOK
      <3>2. CASE \E sent \in BOOLEAN : RequestReport(r, sent)
        <4>1. PICK sent \in BOOLEAN : RequestReport(r, sent)
          BY <3>2
        <4>2. queue' \in [Reports -> SUBSET (0 .. MaxRetries)]
          BY <3>1, <4>1 DEF RequestReport, TypeOK
        <4>3. /\ cut' \in [Reports -> BOOLEAN]
              /\ faults' \in 0 .. MaxFaults
              /\ asked' \in [Reports -> {"no", "open", "done"}]
          BY <3>1, <4>1 DEF RequestReport, TypeOK
        <4> QED BY <4>1, <4>2, <4>3 DEF RequestReport, TypeOK
      <3>3. CASE RequestAborts(r)
        BY <3>1, <3>3 DEF RequestAborts, TypeOK
      <3> QED BY <1>3, <3>2, <3>3
    <2> QED
      BY <1>1, <2>1, <2>2 DEF ReportIInv, AskedOnce, OldIsQuiet, JobSound, CleanupSound,
                              FiledHasBlob, BlobHasRow, Exists
  <1>4. CASE RequestCommit(r)
    <2> DEFINE new == [status |-> "queued", filed |-> FALSE, old |-> FALSE]
    <2>1. new \in Rows /\ new # NoRow /\ ~new.filed /\ ~new.old
      BY DEF Rows, Statuses, NoRow
    <2>2. /\ row' = [row EXCEPT ![r] = new] /\ asked' = [asked EXCEPT ![r] = "done"]
          /\ UNCHANGED <<queue, job, blob, cleanup, cut, faults, overlaps>>
      BY <1>4 DEF RequestCommit
    <2> HIDE DEF new
    <2>3. /\ row'[r] = new /\ asked'[r] = "done"
          /\ \A q \in Reports : q # r => row'[q] = row[q] /\ asked'[q] = asked[q]
      BY <2>2 DEF TypeOK
    <2>4. TypeOK'
      BY <2>1, <2>2 DEF TypeOK
    <2>5. \A w \in Workers : job[w] # Idle => job[w].report \in Reports
      BY WorkingShape
    <2>6. AskedOnce' /\ OldIsQuiet' /\ FiledHasBlob' /\ BlobHasRow'
      BY <2>1, <2>2, <2>3 DEF ReportIInv, AskedOnce, OldIsQuiet, FiledHasBlob,
                              BlobHasRow, Exists
    <2>7. \A w \in Workers : JobSound(w)'
      BY <1>2, <2>2, <2>3, <2>5 DEF ReportIInv, JobSound, Exists
    <2>8. CleanupSound'
      <3>1. \A q \in cleanup.todo \cup cleanup.gone : q \in Reports /\ q # r
        BY <1>1, CleanupShape DEF ReportIInv, CleanupSound
      <3> QED BY <2>2, <2>3, <3>1 DEF ReportIInv, CleanupSound, Exists
    <2> QED BY <2>4, <2>6, <2>7, <2>8 DEF ReportIInv
  <1> QED BY <1>3, <1>4

LEMMA ExpireKeepsIInv ==
  ASSUME ReportIInv, NEW r \in Reports, Expire(r)
  PROVE  ReportIInv'
  <1> TypeOK
    BY DEF ReportIInv
  <1> DEFINE new == [row[r] EXCEPT !.old = TRUE]
  <1>1. Exists(r) /\ row[r] \in Rows
    BY ReadyShape DEF Expire
  <1>2. new \in Rows /\ new # NoRow /\ new.old
    BY <1>1 DEF Rows, NoRow, Statuses
  <1>3. /\ row' = [row EXCEPT ![r] = new]
        /\ UNCHANGED <<asked, queue, job, blob, cleanup, cut, faults, overlaps>>
        /\ queue[r] = {} /\ \A w \in Workers : job[w] # Idle => job[w].report # r
    BY DEF Expire, InFlight
  <1> HIDE DEF new
  <1>4. /\ row'[r] = new
        /\ \A q \in Reports : q # r => row'[q] = row[q]
    BY <1>3 DEF TypeOK
  <1>5. TypeOK'
    BY <1>2, <1>3 DEF TypeOK
  <1>6. AskedOnce' /\ OldIsQuiet' /\ FiledHasBlob' /\ BlobHasRow'
    BY <1>1, <1>2, <1>3, <1>4 DEF ReportIInv, AskedOnce, OldIsQuiet, FiledHasBlob,
                                  BlobHasRow, Exists
  <1>7. \A w \in Workers : job[w] # Idle => job[w].report \in Reports
    BY WorkingShape
  <1>8. \A w \in Workers : JobSound(w)'
    BY <1>3, <1>4, <1>7 DEF ReportIInv, JobSound, Exists
  <1>9. CleanupSound'
    <2>1. cleanup.todo \cup cleanup.gone \subseteq Reports
      BY CleanupShape
    <2> QED BY <1>2, <1>3, <1>4, <2>1 DEF ReportIInv, CleanupSound, Exists
  <1> QED BY <1>5, <1>6, <1>8, <1>9 DEF ReportIInv

LEMMA CleanupKeepsIInv ==
  ASSUME ReportIInv, Cleanup \/ CleanupAborts \/ \E r \in Reports : CleanupKeeps(r)
  PROVE  ReportIInv'
  <1> TypeOK
    BY DEF ReportIInv
  <1>1. cleanup.todo \subseteq Reports /\ cleanup.gone \subseteq Reports
    BY CleanupShape
  <1>2. CASE UNCHANGED <<row, asked, queue, job, blob, cut, overlaps>>
             /\ faults' \in 0 .. MaxFaults
             /\ cleanup' \in Cleanups \cup {NoCleanup} /\ CleanupSound'
    BY <1>2 DEF ReportIInv, TypeOK, AskedOnce, OldIsQuiet, JobSound, FiledHasBlob,
                BlobHasRow, Exists
  <1>3. ASSUME CleanupLists PROVE ReportIInv'
    <2> DEFINE expired == {r \in Reports : Ready(r) /\ row[r].old}
    <2>1. /\ cleanup' = [todo |-> expired, gone |-> {}, active |-> TRUE]
          /\ UNCHANGED <<row, asked, queue, job, blob, cut, faults, overlaps>>
      BY <1>3 DEF CleanupLists
    <2>2. \A r \in expired : Exists(r) /\ row[r].old
      BY ReadyShape
    <2>3. cleanup' \in Cleanups /\ CleanupSound'
      BY <2>1, <2>2 DEF Cleanups, CleanupSound, Exists
    <2> QED BY <1>2, <2>1, <2>3 DEF TypeOK
  <1>4. ASSUME CleanupAborts PROVE ReportIInv'
    <2>1. CleanupSound' /\ cleanup' = NoCleanup
      BY <1>4 DEF CleanupAborts, CleanupSound, NoCleanup
    <2> QED BY <1>2, <1>4, <2>1 DEF CleanupAborts, Fault, TypeOK
  <1>5. ASSUME NEW r \in Reports, CleanupKeeps(r) PROVE ReportIInv'
    <2>1. cleanup \in Cleanups
      BY <1>5 DEF CleanupKeeps, TypeOK, NoCleanup
    <2>2. cleanup' \in Cleanups /\ cleanup'.todo \subseteq cleanup.todo
          /\ cleanup'.gone = cleanup.gone
      BY <1>5, <2>1 DEF CleanupKeeps, Cleanups
    <2>3. CleanupSound'
      BY <1>5, <2>2 DEF CleanupKeeps, ReportIInv, CleanupSound, Exists
    <2> QED BY <1>2, <1>5, <2>2, <2>3 DEF CleanupKeeps, Fault, TypeOK
  <1>6. ASSUME NEW r \in Reports, CleanupDeletes(r) PROVE ReportIInv'
    <2>1. cleanup \in Cleanups /\ r \in cleanup.todo
      BY <1>6 DEF CleanupDeletes, TypeOK, NoCleanup
    <2>2. Exists(r) /\ row[r].old
      BY <2>1 DEF ReportIInv, CleanupSound
    <2>3. \A w \in Workers : job[w] # Idle => job[w].report # r
      BY <2>2 DEF ReportIInv, OldIsQuiet
    <2>4. /\ blob' = [blob EXCEPT ![r] = NoDocument]
          /\ UNCHANGED <<row, asked, queue, job, cut, faults, overlaps>>
      BY <1>6 DEF CleanupDeletes
    <2>5. blob'[r] = NoDocument /\ \A q \in Reports : q # r => blob'[q] = blob[q]
      BY <2>4 DEF TypeOK
    <2>6. /\ cleanup' \in Cleanups
          /\ cleanup'.todo = cleanup.todo \ {r} /\ cleanup'.gone = cleanup.gone \cup {r}
      BY <1>6, <2>1 DEF CleanupDeletes, Cleanups
    <2>7. TypeOK'
      BY <2>4, <2>6 DEF TypeOK
    <2>8. CleanupSound'
      BY <1>1, <2>1, <2>4, <2>5, <2>6 DEF ReportIInv, CleanupSound, Exists
    <2>9. \A w \in Workers : job[w] # Idle => job[w].report \in Reports
      BY WorkingShape
    <2>10. \A w \in Workers : JobSound(w)'
      BY <2>3, <2>4, <2>5, <2>9 DEF ReportIInv, JobSound, Exists
    <2>11. AskedOnce' /\ OldIsQuiet' /\ FiledHasBlob' /\ BlobHasRow'
      BY <2>2, <2>4, <2>5 DEF ReportIInv, AskedOnce, OldIsQuiet, FiledHasBlob,
                              BlobHasRow, Exists
    <2> QED BY <2>7, <2>8, <2>10, <2>11 DEF ReportIInv
  <1>7. ASSUME CleanupCommits PROVE ReportIInv'
    <2>1. /\ row' = [r \in Reports |-> IF r \in cleanup.gone THEN NoRow ELSE row[r]]
          /\ cleanup' = NoCleanup
          /\ UNCHANGED <<asked, queue, job, blob, cut, faults, overlaps>>
      BY <1>7 DEF CleanupCommits
    <2>2. \A r \in Reports : r \notin cleanup.gone => row'[r] = row[r]
      BY <2>1
    <2>3. \A r \in cleanup.gone :
             /\ r \in Reports /\ row'[r] = NoRow /\ blob[r] = NoDocument
             /\ \A w \in Workers : job[w] # Idle => job[w].report # r
      BY <1>1, <2>1 DEF ReportIInv, CleanupSound, OldIsQuiet
    <2>4. TypeOK'
      BY <2>1 DEF TypeOK
    <2>5. CleanupSound'
      BY <2>1 DEF CleanupSound, NoCleanup
    <2>6. \A w \in Workers : job[w] # Idle => job[w].report \in Reports
      BY WorkingShape
    <2>7. \A w \in Workers : JobSound(w)'
      BY <2>1, <2>2, <2>3, <2>6 DEF ReportIInv, JobSound, Exists
    <2>8. AskedOnce' /\ OldIsQuiet' /\ FiledHasBlob' /\ BlobHasRow'
      BY <2>1, <2>2, <2>3 DEF ReportIInv, AskedOnce, OldIsQuiet, FiledHasBlob,
                              BlobHasRow, Exists
    <2> QED BY <2>4, <2>5, <2>7, <2>8 DEF ReportIInv
  <1> QED
    BY <1>3, <1>4, <1>5, <1>6, <1>7 DEF Cleanup

LEMMA ReportStep == ReportIInv /\ [Next]_vars => ReportIInv'
  <1> SUFFICES ASSUME ReportIInv, [Next]_vars PROVE ReportIInv'
    OBVIOUS
  <1>1. CASE UNCHANGED vars
    BY <1>1 DEF vars, ReportIInv, TypeOK, AskedOnce, OldIsQuiet, JobSound,
                CleanupSound, FiledHasBlob, BlobHasRow, Exists
  <1>2. CASE Next
    BY <1>2, DeliveryKeepsIInv, TakeKeepsIInv, RequestKeepsIInv, ExpireKeepsIInv,
       CleanupKeepsIInv
    DEF Next, TakeAny, Delivers
  <1> QED BY <1>1, <1>2

(* The inductive invariant, and with it the types, for every size.           *)
THEOREM ReportInvariant == Spec => []ReportIInv
  BY ReportInit, ReportStep, PTL DEF Spec

(* A link leads to a document and a document has its row, whatever delivery  *)
(* died, was repeated or overlapped another, and however the cleanup ended   *)
(* (maintenance.py:292-304, system.py:228-231).                              *)
THEOREM FilesAndRowsMatch == Spec => []FilesMatchRows
  <1>1. ReportIInv => FilesMatchRows
    BY ReadyShape DEF ReportIInv, FiledHasBlob, BlobHasRow, FilesMatchRows,
                      Downloadable
  <1> QED BY <1>1, ReportInvariant, PTL

-----------------------------------------------------------------------------
(* Without overlaps *)

SoloIInv == ReportIInv /\ Alone /\ Unready

LEMMA OverlapsGrow ==
  ASSUME ReportIInv, [Next]_vars, overlaps' = 0
  PROVE  overlaps = 0
  <1>1. overlaps \in Nat
    BY DEF ReportIInv, TypeOK
  <1>2. ASSUME NEW w \in Workers, NEW r \in Reports, NEW try \in 0 .. MaxRetries,
               Take(w, r, try)
        PROVE  overlaps = 0
    BY <1>1, <1>2 DEF Take
  <1>3. ASSUME NEW w \in Workers, Delivers(w) PROVE overlaps = 0
    BY <1>3, RestIsConfined DEF RestConfined
  <1>4. CASE UNCHANGED overlaps
    BY <1>4
  <1> QED
    BY <1>2, <1>3, <1>4
    DEF Next, TakeAny, Delivers, RequestReport, RequestCommit, RequestAborts, Expire,
        CleanupKeeps, Cleanup, CleanupLists, CleanupDeletes, CleanupCommits,
        CleanupAborts, vars

\* A step that moves no delivery and makes no report under delivery ready.
LEMMA OthersStaySolo ==
  ASSUME SoloIInv, UNCHANGED job, overlaps' = 0 => overlaps = 0,
         \A w \in Workers : job[w] # Idle /\ ~Ready(job[w].report)
            => row'[job[w].report].status # "ready"
  PROVE  Alone' /\ Unready'
  BY DEF SoloIInv, Alone, Unready, Ready

LEMMA TakeStaysSolo ==
  ASSUME SoloIInv, NEW w \in Workers, NEW r \in Reports, NEW try \in 0 .. MaxRetries,
         Take(w, r, try), overlaps' = 0 => overlaps = 0
  PROVE  Alone' /\ Unready'
  <1> TypeOK
    BY DEF SoloIInv, ReportIInv
  <1>1. CASE UNCHANGED job
    BY <1>1, OthersStaySolo DEF Take, Ready
  <1>2. CASE Exists(r) /\ ~Ready(r)
    <2> DEFINE place == [step |-> "read", report |-> r, try |-> try, entity |-> row[r]]
    <2>1. job' = [job EXCEPT ![w] = place] /\ UNCHANGED row /\ place.report = r
      BY <1>2 DEF Take
    <2> HIDE DEF place
    <2>2. /\ job'[w] = place
          /\ \A v \in Workers : v # w => job'[v] = job[v]
      BY <2>1 DEF TypeOK
    <2>3. overlaps' = 0 => \A v \in Workers : job[v] # Idle => job[v].report # r
      <3>1. overlaps' = 0 => InFlight(r) = {}
        BY DEF Take, TypeOK
      <3> QED BY <3>1 DEF InFlight
    <2>4. Alone'
      BY <2>1, <2>2, <2>3 DEF SoloIInv, Alone
    <2>5. Unready'
      BY <1>2, <2>1, <2>2 DEF SoloIInv, Unready, Ready
    <2> QED BY <2>4, <2>5
  <1> QED BY <1>1, <1>2 DEF Take

LEMMA DeliveryStaysSolo ==
  ASSUME SoloIInv, NEW w \in Workers, Delivers(w)
  PROVE  Alone' /\ Unready'
  <1> TypeOK /\ ReportIInv
    BY DEF SoloIInv, ReportIInv
  <1> DEFINE r == job[w].report
  <1>1. job[w] # Idle /\ r \in Reports /\ UNCHANGED overlaps
    BY DeliversWorks, WorkingShape, RestIsConfined DEF RestConfined
  <1>2. PICK new \in Rows :
            /\ row' = [row EXCEPT ![r] = new]
            /\ new.status = "ready" => row[r].status = "ready" \/ job[w].step = "stored"
    BY RowIsConfined DEF RowConfined
  <1>3. /\ row'[r] = new
        /\ \A q \in Reports : q # r => row'[q] = row[q]
    BY <1>1, <1>2 DEF TypeOK
  <1>4. \A v \in Workers : v # w => job'[v] = job[v]
    BY JobIsConfined DEF JobConfined, TypeOK
  <1>5. job'[w] # Idle =>
          /\ job'[w].report = r
          /\ job[w].step \in {"stored", "returned"} => job'[w].step = "returned"
    BY JobIsConfined DEF JobConfined, TypeOK
  <1>6. Alone'
    BY <1>1, <1>4, <1>5 DEF SoloIInv, Alone
  <1>7. Unready'
    <2> SUFFICES ASSUME overlaps = 0, NEW v \in Workers, job'[v] # Idle,
                        job'[v].step # "returned"
                 PROVE  row'[job'[v].report].status # "ready"
      BY <1>1 DEF Unready, Ready
    <2>1. CASE v = w
      <3>1. job[w].step \notin {"stored", "returned"} /\ job'[v].report = r
        BY <1>5, <2>1
      <3>2. row[r].status # "ready"
        BY <1>1, <3>1 DEF SoloIInv, Unready, Ready
      <3> QED BY <1>2, <1>3, <3>1, <3>2
    <2>2. CASE v # w
      <3>1. job'[v] = job[v] /\ job[v].report # r /\ ~Ready(job[v].report)
        BY <1>1, <1>4, <2>2 DEF SoloIInv, Alone, Unready
      <3>2. job[v].report \in Reports
        BY <3>1, WorkingShape
      <3> QED BY <1>3, <3>1, <3>2 DEF Ready
    <2> QED BY <2>1, <2>2
  <1> QED BY <1>6, <1>7

LEMMA SoloStep == SoloIInv /\ [Next]_vars => SoloIInv'
  <1> SUFFICES ASSUME SoloIInv, [Next]_vars PROVE Alone' /\ Unready'
    BY ReportStep DEF SoloIInv
  <1> TypeOK /\ ReportIInv /\ (overlaps' = 0 => overlaps = 0)
    BY OverlapsGrow DEF SoloIInv, ReportIInv
  <1> DEFINE Goal == Alone' /\ Unready'
  <1>1. ASSUME NEW w \in Workers, Delivers(w) PROVE Goal
    BY <1>1, DeliveryStaysSolo
  <1>2. ASSUME NEW w \in Workers, NEW r \in Reports, NEW try \in 0 .. MaxRetries,
               Take(w, r, try)
        PROVE  Goal
    BY <1>2, TakeStaysSolo
  <1>3. ASSUME UNCHANGED <<row, job>> PROVE Goal
    BY <1>3, OthersStaySolo DEF Ready
  <1>4. ASSUME NEW r \in Reports, RequestCommit(r) PROVE Goal
    <2>1. row' = [row EXCEPT ![r] = [status |-> "queued", filed |-> FALSE, old |-> FALSE]]
          /\ UNCHANGED job
      BY <1>4 DEF RequestCommit
    <2>2. \A q \in Reports : row[q].status # "ready" => row'[q].status # "ready"
      BY <2>1 DEF TypeOK
    <2>3. \A w \in Workers : job[w] # Idle => job[w].report \in Reports
      BY WorkingShape
    <2> QED BY <2>1, <2>2, <2>3, OthersStaySolo DEF Ready
  <1>5. ASSUME NEW r \in Reports, Expire(r) PROVE Goal
    <2>1. row' = [row EXCEPT ![r] = [row[r] EXCEPT !.old = TRUE]] /\ UNCHANGED job
          /\ Ready(r)
      BY <1>5 DEF Expire
    <2>2. \A q \in Reports : row[q].status # "ready" => row'[q].status # "ready"
      BY <2>1 DEF TypeOK, Ready
    <2>3. \A w \in Workers : job[w] # Idle => job[w].report \in Reports
      BY WorkingShape
    <2> QED BY <2>1, <2>2, <2>3, OthersStaySolo DEF Ready
  <1>6. ASSUME CleanupCommits PROVE Goal
    <2>1. /\ row' = [r \in Reports |-> IF r \in cleanup.gone THEN NoRow ELSE row[r]]
          /\ UNCHANGED job
      BY <1>6 DEF CleanupCommits
    <2>2. \A q \in Reports : row[q].status # "ready" => row'[q].status # "ready"
      BY <2>1 DEF NoRow
    <2>3. \A w \in Workers : job[w] # Idle => job[w].report \in Reports
      BY WorkingShape
    <2> QED BY <2>1, <2>2, <2>3, OthersStaySolo DEF Ready
  <1> HIDE DEF Goal
  <1>7. Goal
    BY <1>1, <1>2, <1>3, <1>4, <1>5, <1>6
    DEF Next, TakeAny, Delivers, RequestReport, RequestAborts, CleanupKeeps, Cleanup,
        CleanupLists, CleanupDeletes, CleanupAborts, vars
  <1> QED BY <1>7 DEF Goal

LEMMA ReadyStaysStep == SoloIInv /\ [Next]_vars => [ReadyStays]_vars
  <1> SUFFICES ASSUME SoloIInv, [Next]_vars, NEW r \in Reports, Ready(r), overlaps = 0
               PROVE  \/ row'[r].status = "ready" /\ (blob'[r] = blob[r] \/ row[r].old)
                      \/ row[r].old /\ row'[r] = NoRow
    BY DEF ReadyStays, Ready, Exists
  <1> TypeOK /\ ReportIInv
    BY DEF SoloIInv, ReportIInv
  <1>1. Exists(r) /\ row[r] \in Rows /\ row[r].status = "ready"
    BY ReadyShape DEF Ready
  <1>2. CASE row'[r] = row[r] /\ blob'[r] = blob[r]
    BY <1>1, <1>2
  <1>3. ASSUME NEW w \in Workers, Delivers(w) PROVE row'[r] = row[r] /\ blob'[r] = blob[r]
    <2>1. job[w] # Idle /\ job[w].report \in Reports
      BY <1>3, DeliversWorks, WorkingShape
    <2>2. PICK new \in Rows : row' = [row EXCEPT ![job[w].report] = new]
      BY <1>3, RowIsConfined DEF RowConfined
    <2>3. PICK document \in Documents \cup {NoDocument} :
             /\ blob' = [blob EXCEPT ![job[w].report] = document]
             /\ document = blob[job[w].report] \/ job[w].step = "rendered"
      BY <1>3, BlobIsConfined DEF BlobConfined
    <2>4. CASE job[w].report # r
      BY <2>2, <2>3, <2>4 DEF TypeOK
    <2>5. CASE job[w].report = r
      <3>1. job[w].step = "returned"
        BY <2>1, <2>5 DEF SoloIInv, Unready
      <3>2. UNCHANGED row
        BY <1>3, <3>1 DEF Delivers, Work, Trouble, Claim, Collect, Render, Store,
           Finish, Acknowledge, CollectFails, RenderFails, StoreFails, WorkerDies,
           TimeLimit
      <3> QED BY <2>3, <2>5, <3>1, <3>2 DEF TypeOK
    <2> QED BY <2>4, <2>5
  <1>4. ASSUME NEW q \in Reports, RequestCommit(q)
        PROVE  row'[r] = row[r] /\ blob'[r] = blob[r]
    <2>1. q # r
      BY <1>1, <1>4 DEF RequestCommit, ReportIInv, AskedOnce
    <2> QED BY <1>4, <2>1 DEF RequestCommit, TypeOK
  <1>5. ASSUME NEW q \in Reports, Expire(q)
        PROVE  row'[r].status = "ready" /\ blob'[r] = blob[r]
    BY <1>1, <1>5 DEF Expire, TypeOK, Rows
  <1>6. ASSUME NEW q \in Reports, CleanupDeletes(q)
        PROVE  row'[r] = row[r] /\ (blob'[r] = blob[r] \/ row[r].old)
    <2>1. row[q].old
      BY <1>6 DEF CleanupDeletes, ReportIInv, CleanupSound
    <2> QED BY <1>6, <2>1 DEF CleanupDeletes, TypeOK
  <1>7. ASSUME CleanupCommits
        PROVE  \/ row'[r] = row[r] /\ blob'[r] = blob[r]
               \/ row[r].old /\ row'[r] = NoRow
    BY <1>7 DEF CleanupCommits, ReportIInv, CleanupSound
  <1>8. CASE UNCHANGED <<row, blob>>
    BY <1>2, <1>8
  <1> QED
    BY <1>1, <1>3, <1>4, <1>5, <1>6, <1>7, <1>8
    DEF Next, TakeAny, Take, Delivers, RequestReport, RequestAborts, CleanupKeeps,
        Cleanup, CleanupLists, CleanupAborts, vars

(* A report that is ready stays so, with its document, until its retention   *)
(* is over, whatever is delivered again or fails, as long as no two          *)
(* deliveries overlapped (worker/reports.py:62-67).                          *)
THEOREM ReadyReportIsFinal == Spec => ReadyIsFinal
  <1>1. Spec => []SoloIInv
    BY ReportInit, SoloStep, PTL DEF Spec, SoloIInv
  <1> QED BY <1>1, ReadyStaysStep, PTL DEF Spec, ReadyIsFinal

-----------------------------------------------------------------------------
(***************************************************************************)
(* Without overlaps, again: nobody forgets a report that owes an answer.   *)
(* Its message is in the queue, under the delivery that took it and after  *)
(* it, unless it was spent and `cut` says so.                              *)
(***************************************************************************)
HasMessage(r) == queue[r] # {} \/ cut[r]

\* A delivery leaves its message in the queue until it returns, and returns
\* without an answer only when another message will follow.
KeepsMessage(w, r) ==
    /\ job[w].try \in queue[r]
    /\ job[w].step = "returned" /\ Owed(r) =>
          cut[r] \/ \E other \in queue[r] : other # job[w].try

Remembered(r) ==
    /\ Owed(r) \/ asked[r] = "open" => HasMessage(r)
    /\ \A w \in Workers : job[w] # Idle /\ job[w].report = r => KeepsMessage(w, r)

MessageIInv == SoloIInv /\ (overlaps = 0 => \A r \in Reports : Remembered(r))

\* A report whose row owes no more than before, and whose request, messages and
\* deliveries a step leaves alone.
LEMMA LeftAloneIsRemembered ==
  ASSUME NEW r \in Reports, Remembered(r),
         row'[r].status \in {"queued", "processing"} => Owed(r),
         asked'[r] = "open" => asked[r] = "open",
         queue'[r] = queue[r], cut[r] => cut'[r],
         \A w \in Workers : job'[w] # Idle /\ job'[w].report = r => job'[w] = job[w]
  PROVE  Remembered(r)'
  BY DEF Remembered, HasMessage, KeepsMessage, Owed

LEMMA DeliveryRemembers ==
  ASSUME MessageIInv, overlaps = 0, NEW w \in Workers, Delivers(w), NEW q \in Reports
  PROVE  Remembered(q)'
  <1> TypeOK /\ ReportIInv /\ SoloIInv /\ Remembered(q)
    BY DEF MessageIInv, SoloIInv, ReportIInv
  <1> DEFINE r == job[w].report
             try == job[w].try
  <1>1. /\ job[w] # Idle /\ job[w] \in Deliveries /\ r \in Reports /\ try \in 0 .. MaxRetries
        /\ row[r] \in Rows /\ Exists(r) /\ asked[r] = "done"
        /\ job[w].step \in {"read", "claimed"} => job[w].entity \in Rows
    BY DeliversWorks, WorkingShape DEF Deliveries, ReportIInv, JobSound, AskedOnce
  <1>2. \A v \in Workers : v # w => job'[v] = job[v] /\ (job[v] # Idle => job[v].report # r)
    BY <1>1, JobIsConfined DEF JobConfined, TypeOK, SoloIInv, Alone
  <1>3. job'[w] # Idle => job'[w].report = r
    BY JobIsConfined DEF JobConfined, TypeOK
  <1>4. UNCHANGED asked /\ \A p \in Reports : p # r => queue'[p] = queue[p]
    BY RestIsConfined DEF RestConfined
  <1>5. CASE q # r
    <2>1. row'[q] = row[q]
      BY <1>1, <1>5, RowIsConfined DEF RowConfined, TypeOK
    <2>2. cut'[q] = cut[q]
      BY <1>1, <1>5
      DEF Delivers, Work, Trouble, Claim, Collect, Render, Store, Finish, Acknowledge,
          CollectFails, RenderFails, StoreFails, WorkerDies, TimeLimit, TypeOK
    <2>3. \A v \in Workers : job'[v] # Idle /\ job'[v].report = q => job'[v] = job[v]
      BY <1>2, <1>3, <1>5
    <2> QED
      BY <1>4, <1>5, <2>1, <2>2, <2>3, LeftAloneIsRemembered DEF Owed
  <1>6. CASE q = r
    <2>1. try \in queue[r] /\ KeepsMessage(w, r) /\ asked'[r] = "done"
      BY <1>1, <1>4, <1>6 DEF Remembered, KeepsMessage
    \* The report has no other delivery, so it is enough to look at this one.
    <2>2. ASSUME row'[r].status \in {"queued", "processing"} => queue'[r] # {} \/ cut'[r],
                 job'[w] # Idle =>
                    /\ job'[w].try \in queue'[r]
                    /\ job'[w].step = "returned" /\ row'[r].status \in {"queued", "processing"}
                          => cut'[r] \/ \E other \in queue'[r] : other # job'[w].try
          PROVE  Remembered(q)'
      BY <1>2, <1>6, <2>1, <2>2 DEF Remembered, HasMessage, KeepsMessage, Owed
    \* On the way: the message stays, and the delivery has not returned.
    <2>3. ASSUME UNCHANGED queue,
                 job'[w] # Idle => job'[w].try = try /\ job'[w].step # "returned"
          PROVE  Remembered(q)'
      BY <2>1, <2>2, <2>3
    \* At its end: the message stays, and the report is answered.
    <2>4. ASSUME UNCHANGED queue, job'[w].try = try,
                 row'[r].status \in {"ready", "failed"}
          PROVE  Remembered(q)'
      BY <2>1, <2>2, <2>4
    <2>5. CASE Claim(w)
      BY <1>1, <2>3, <2>5 DEF Claim, Goes, Deliveries, TypeOK
    <2>6. CASE Collect(w)
      BY <1>1, <2>3, <2>6 DEF Collect, Deliveries, TypeOK
    <2>7. CASE Render(w)
      BY <1>1, <2>3, <2>7 DEF Render, Goes, Deliveries, TypeOK
    <2>8. CASE Store(w)
      BY <1>1, <2>3, <2>8 DEF Store, Goes, Deliveries, TypeOK
    <2>9. CASE Finish(w)
      <3>1. row'[r].status = "ready" /\ UNCHANGED queue
        BY <1>1, <2>9 DEF Finish, TypeOK
      <3>2. job'[w].try = try
        BY <1>1, <2>9 DEF Finish, Goes, Deliveries, TypeOK
      <3> QED BY <2>4, <3>1, <3>2
    <2>10. CASE CollectFails(w)
      <3> DEFINE wanted == Failed(job[w].entity)
      <3>1. wanted \in Rows /\ wanted.status = "failed" /\ Claimed(job[w].entity) \in Rows
            /\ Claimed(job[w].entity).status = "processing"
        BY <1>1, <2>10 DEF CollectFails, Failed, Claimed, Rows, Statuses
      <3> HIDE DEF wanted
      <3>2. PICK seen \in {Claimed(job[w].entity), row[r]} :
               row' = [row EXCEPT ![r] =
                         [SavedOver(row[r], seen, wanted) EXCEPT !.old = FALSE]]
        BY <2>10 DEF CollectFails, wanted
      \* Whatever is read again for the save, "failed" is written or there.
      <3>3. SavedOver(row[r], seen, wanted).status = "failed"
        BY <1>1, <3>1, <3>2 DEF SavedOver, Rows
      <3>4. SavedOver(row[r], seen, wanted) \in Rows
        BY <1>1, <3>1, <3>2, SavedOverShape
      <3>5. row'[r].status = "failed"
        BY <1>1, <3>2, <3>3, <3>4 DEF Rows, TypeOK
      <3>6. job'[w].try = try /\ UNCHANGED queue
        BY <1>1, <2>10 DEF CollectFails, Deliveries, TypeOK
      <3> QED BY <2>4, <3>5, <3>6
    <2>11. CASE RenderFails(w)
      <3>1. row'[r].status = "failed" /\ UNCHANGED queue
        BY <1>1, <2>11 DEF RenderFails, Failed, Rows, TypeOK
      <3>2. job'[w].try = try
        BY <1>1, <2>11 DEF RenderFails, Goes, Deliveries, TypeOK
      <3> QED BY <2>4, <3>1, <3>2
    <2>12. CASE StoreFails(w)
      <3>1. job'[w].try = try
        BY <1>1, <2>12 DEF StoreFails, Goes, Deliveries, TypeOK
      <3>2. CASE try < MaxRetries
        <4>1. queue'[r] = queue[r] \cup {try + 1} /\ try + 1 # try
          BY <1>1, <2>12, <3>2 DEF StoreFails, TypeOK
        <4> QED BY <2>1, <2>2, <3>1, <4>1
      <3>3. CASE ~(try < MaxRetries)
        <4>1. cut'[r] /\ queue'[r] = queue[r]
          BY <1>1, <2>12, <3>3 DEF StoreFails, TypeOK
        <4> QED BY <2>1, <2>2, <3>1, <4>1
      <3> QED BY <3>2, <3>3
    <2>13. CASE Acknowledge(w)
      <3>1. /\ job'[w] = Idle /\ UNCHANGED <<row, cut>> /\ queue'[r] = queue[r] \ {try}
            /\ job[w].step = "returned"
        BY <1>1, <2>13 DEF Acknowledge, TypeOK
      <3> QED BY <2>1, <2>2, <3>1 DEF KeepsMessage, Owed
    <2>14. CASE WorkerDies(w)
      BY <1>1, <2>3, <2>14 DEF WorkerDies, TypeOK
    <2>15. CASE TimeLimit(w)
      <3>1. job'[w] = Idle /\ UNCHANGED row /\ (Owed(r) => cut'[r])
        BY <1>1, <2>15 DEF TimeLimit, TypeOK
      <3> QED BY <2>2, <3>1 DEF Owed
    <2> QED
      BY <2>5, <2>6, <2>7, <2>8, <2>9, <2>10, <2>11, <2>12, <2>13, <2>14, <2>15
      DEF Delivers, Work, Trouble
  <1> QED BY <1>5, <1>6

LEMMA TakeRemembers ==
  ASSUME MessageIInv, overlaps = 0, overlaps' = 0, NEW w \in Workers, NEW r \in Reports,
         NEW try \in 0 .. MaxRetries, Take(w, r, try), NEW q \in Reports
  PROVE  Remembered(q)'
  <1> TypeOK /\ ReportIInv /\ Remembered(q)
    BY DEF MessageIInv, SoloIInv, ReportIInv
  <1>1. /\ UNCHANGED <<row, asked>> /\ try \in queue[r]
        /\ \A v \in Workers : job[v] # Idle => job[v].report # r
    BY DEF Take, TypeOK, InFlight
  <1>2. CASE Exists(r) /\ ~Ready(r)
    <2> DEFINE place == [step |-> "read", report |-> r, try |-> try, entity |-> row[r]]
    <2>1. job' = [job EXCEPT ![w] = place] /\ UNCHANGED <<queue, cut>>
      BY <1>2 DEF Take
    <2>2. place.step = "read" /\ place.report = r /\ place.try = try
      OBVIOUS
    <2> HIDE DEF place
    <2>3. job'[w] = place /\ \A v \in Workers : v # w => job'[v] = job[v]
      BY <2>1 DEF TypeOK
    <2>4. CASE q = r
      BY <1>1, <2>1, <2>2, <2>3, <2>4 DEF Remembered, HasMessage, KeepsMessage, Owed
    <2>5. CASE q # r
      <3>1. \A v \in Workers : job'[v] # Idle /\ job'[v].report = q => job'[v] = job[v]
        BY <2>2, <2>3, <2>5
      <3> QED BY <1>1, <2>1, <3>1, LeftAloneIsRemembered DEF Owed
    <2> QED BY <2>4, <2>5
  <1>3. CASE ~(Exists(r) /\ ~Ready(r))
    <2>1. /\ queue' = [queue EXCEPT ![r] = @ \ {try}]
          /\ cut' = [cut EXCEPT ![r] = @ \/ ~Exists(r)] /\ UNCHANGED job
      BY <1>3 DEF Take
    <2>2. CASE q = r
      \* The row is gone, and `cut` says so, or it is ready and owes nothing.
      <3>1. cut'[r] \/ (Exists(r) /\ Ready(r))
        BY <1>3, <2>1 DEF TypeOK
      <3>2. Exists(r) /\ Ready(r) => ~Owed(r) /\ asked[r] = "done"
        BY DEF ReportIInv, AskedOnce, Ready, Owed
      <3> QED BY <1>1, <2>1, <2>2, <3>1, <3>2 DEF Remembered, HasMessage, Owed
    <2>3. CASE q # r
      <3>1. queue'[q] = queue[q] /\ cut'[q] = cut[q]
        BY <2>1, <2>3 DEF TypeOK
      <3> QED BY <1>1, <2>1, <3>1, LeftAloneIsRemembered DEF Owed
    <2> QED BY <2>2, <2>3
  <1> QED BY <1>2, <1>3

LEMMA RequestRemembers ==
  ASSUME MessageIInv, overlaps = 0, NEW r \in Reports,
         (\E sent \in BOOLEAN : RequestReport(r, sent)) \/ RequestCommit(r)
         \/ RequestAborts(r),
         NEW q \in Reports
  PROVE  Remembered(q)'
  <1> TypeOK /\ ReportIInv /\ Remembered(q)
    BY DEF MessageIInv, SoloIInv, ReportIInv
  <1>1. ~Exists(r) /\ asked[r] # "done" /\ ~Owed(r) /\ UNCHANGED job
    BY DEF RequestReport, RequestCommit, RequestAborts, ReportIInv, AskedOnce, Exists,
           Owed, NoRow
  <1>2. \A w \in Workers : job[w] # Idle => job[w].report # r
    BY <1>1 DEF ReportIInv, JobSound
  <1>3. CASE q # r
    <2>1. /\ row'[q] = row[q] /\ asked'[q] = asked[q]
          /\ queue'[q] = queue[q] /\ cut'[q] = cut[q]
      BY <1>3 DEF RequestReport, RequestCommit, RequestAborts, TypeOK
    <2> QED BY <1>1, <2>1, LeftAloneIsRemembered DEF Owed
  <1>4. CASE q = r
    <2>1. ASSUME NEW sent \in BOOLEAN, RequestReport(r, sent) PROVE HasMessage(r)'
      BY <2>1 DEF RequestReport, HasMessage, TypeOK
    <2>2. CASE RequestCommit(r)
      BY <1>1, <1>2, <1>4, <2>2 DEF RequestCommit, Remembered, HasMessage, TypeOK
    <2>3. CASE RequestAborts(r)
      BY <1>1, <1>2, <1>4, <2>3 DEF RequestAborts, Remembered, TypeOK, Owed
    <2> QED BY <1>1, <1>2, <1>4, <2>1, <2>2, <2>3 DEF Remembered
  <1> QED BY <1>3, <1>4

\* Retention and cleanup touch no report that owes an answer.
LEMMA CleanupRemembers ==
  ASSUME MessageIInv, overlaps = 0,
         (\E r \in Reports : Expire(r) \/ CleanupKeeps(r)) \/ Cleanup \/ CleanupAborts,
         NEW q \in Reports
  PROVE  Remembered(q)'
  <1> TypeOK /\ ReportIInv /\ Remembered(q)
    BY DEF MessageIInv, SoloIInv, ReportIInv
  <1>1. UNCHANGED <<asked, queue, job, cut>>
    <2>1. ASSUME NEW r \in Reports, Expire(r) \/ CleanupKeeps(r) \/ CleanupDeletes(r)
          PROVE  UNCHANGED <<asked, queue, job, cut>>
      BY <2>1 DEF Expire, CleanupKeeps, CleanupDeletes
    <2>2. CASE CleanupLists \/ CleanupCommits \/ CleanupAborts
      BY <2>2 DEF CleanupLists, CleanupCommits, CleanupAborts
    <2> QED BY <2>1, <2>2 DEF Cleanup
  <1>2. row'[q].status \in {row[q].status, "none"}
    <2>1. ASSUME NEW r \in Reports, Expire(r) PROVE row'[q].status = row[q].status
      <3>1. row[r] \in Rows
        BY <2>1, ReadyShape DEF Expire
      <3> QED BY <2>1, <3>1 DEF Expire, TypeOK, Rows
    <2>2. CASE CleanupCommits
      BY <2>2 DEF CleanupCommits, NoRow
    <2>3. ASSUME NEW r \in Reports, CleanupKeeps(r) \/ CleanupDeletes(r)
          PROVE  UNCHANGED row
      BY <2>3 DEF CleanupKeeps, CleanupDeletes
    <2>4. CASE CleanupLists \/ CleanupAborts
      BY <2>4 DEF CleanupLists, CleanupAborts
    <2> QED BY <2>1, <2>2, <2>3, <2>4 DEF Cleanup
  <1> QED BY <1>1, <1>2, LeftAloneIsRemembered DEF Owed

LEMMA MessageStep == MessageIInv /\ [Next]_vars => MessageIInv'
  <1> SUFFICES ASSUME MessageIInv, [Next]_vars, overlaps' = 0, NEW q \in Reports
               PROVE  Remembered(q)'
    BY SoloStep DEF MessageIInv
  <1>1. overlaps = 0
    BY OverlapsGrow DEF MessageIInv, SoloIInv
  <1>2. CASE UNCHANGED vars
    BY <1>1, <1>2 DEF vars, MessageIInv, Remembered, HasMessage, KeepsMessage, Owed
  <1>3. CASE Next
    BY <1>1, <1>3, DeliveryRemembers, TakeRemembers, RequestRemembers, CleanupRemembers
    DEF Next, TakeAny, Delivers
  <1> QED BY <1>2, <1>3

(* A report that was asked for and has no answer yet has a message that will *)
(* be delivered, or spent its last one, whoever died, whatever was lost or   *)
(* refused, as long as no two deliveries overlapped (worker/reports.py:9-11).*)
THEOREM OwedReportHasAMessage == Spec => []OwedHasMessage
  <1>1. Init => MessageIInv
    BY ReportInit DEF Init, MessageIInv, SoloIInv, Remembered, Owed, NoRow
  <1>2. MessageIInv => OwedHasMessage
    <2>1. MessageIInv => overlaps \in Nat
      BY DEF MessageIInv, SoloIInv, ReportIInv, TypeOK
    <2> QED BY <2>1 DEF MessageIInv, Remembered, HasMessage, OwedHasMessage
  <1> QED BY <1>1, <1>2, MessageStep, PTL DEF Spec

HIDE ReportAssumption
-----------------------------------------------------------------------------
LEMMA Between ==
  ASSUME NEW a \in Int, NEW b \in Int, NEW n \in Int, NEW m \in a .. b,
         n - 1 \in a .. b, n <= m
  PROVE  n - 1 + 1 \in a .. b
  OBVIOUS

USE CalendarAssumption
-----------------------------------------------------------------------------
(* Which days a report covers *)

LEMMA OneDate ==
  ASSUME NEW t \in Int, NEW d, NEW e, IsOn(t, d), IsOn(t, e)
  PROVE  d = e
  <1> d \in Int /\ e \in Int /\ d + 1 \in Days /\ e + 1 \in Days /\ d \in Days /\ e \in Days
    BY DEF IsOn, Days
  <1>1. ~(d < e)
    <2> SUFFICES ASSUME d < e PROVE FALSE
      OBVIOUS
    <2>1. Midnight[d + 1] <= Midnight[e]
      BY d + 1 <= e
    <2> QED BY <2>1 DEF IsOn
  <1>2. ~(e < d)
    <2> SUFFICES ASSUME e < d PROVE FALSE
      OBVIOUS
    <2>1. Midnight[e + 1] <= Midnight[d]
      BY e + 1 <= d
    <2> QED BY <2>1 DEF IsOn
  <1> QED BY <1>1, <1>2

LEMMA DateIsTheDay ==
  ASSUME NEW t \in Int, NEW d, IsOn(t, d)
  PROVE  DateOnSite(t) = d
  <1>1. d \in Days
    BY DEF IsOn
  <1>2. IsOn(t, DateOnSite(t))
    BY <1>1 DEF DateOnSite
  <1> QED BY <1>2, OneDate

\* The bounds that the queries are given are those of the period's days on
\* site: a photograph is in them exactly if the period covers the day it was
\* taken on (reporting.py:64-75).
THEOREM BoundsAreWholeDays ==
  ASSUME NEW period, period.start \in Days, period.end + 1 \in Days, period.end \in Days,
         NEW t \in Int, NEW d, IsOn(t, d)
  PROVE  (bounds_utc(period).start <= t /\ t < bounds_utc(period).end) <=> Covers(period, d)
  <1> DEFINE from == Midnight[period.start]
             to == Midnight[period.end + 1]
  <1>1. d \in Int /\ d \in Days /\ d + 1 \in Days /\ period.start \in Int /\ period.end \in Int
    BY DEF IsOn, Days
  <1>2. from \in Int /\ to \in Int /\ Midnight[d] \in Int /\ Midnight[d + 1] \in Int
    BY <1>1
  <1>3. Midnight[d] <= t /\ t < Midnight[d + 1]
    BY DEF IsOn
  <1>4. bounds_utc(period).start = from /\ bounds_utc(period).end = to
    BY DEF bounds_utc
  <1>5. CASE period.start <= d /\ d <= period.end
    <2>1. from <= Midnight[d]
      BY <1>1, <1>5
    <2>2. Midnight[d + 1] <= to
      BY <1>1, <1>5, d + 1 <= period.end + 1
    <2> HIDE DEF from, to
    <2> QED BY <1>2, <1>3, <1>4, <1>5, <2>1, <2>2 DEF Covers
  <1>6. CASE d < period.start
    <2>1. Midnight[d + 1] <= from
      BY <1>1, <1>6, d + 1 <= period.start
    <2> HIDE DEF from, to
    <2> QED BY <1>1, <1>2, <1>3, <1>4, <1>6, <2>1 DEF Covers
  <1>7. CASE period.end < d
    <2>1. to <= Midnight[d]
      BY <1>1, <1>7, period.end + 1 <= d
    <2> HIDE DEF from, to
    <2> QED BY <1>1, <1>2, <1>3, <1>4, <1>7, <2>1 DEF Covers
  <1> QED BY <1>1, <1>5, <1>6, <1>7

LEMMA WeeklyIs ==
  ASSUME NEW today \in Int
  PROVE  /\ Weekly(today).start = today - (today % 7) - 7
         /\ Weekly(today).end = today - (today % 7) - 1
         /\ today % 7 \in 0 .. 6
  <1> DEFINE start == today - (today % 7) - 7
  <1>1. today % 7 \in 0 .. 6
    OBVIOUS
  <1>2. start \in Int
    BY <1>1
  <1>3. Weekly(today) = ReportPeriod(start, start + 6)
    BY DEF Weekly
  <1> HIDE DEF start
  <1>4. Weekly(today) = [start |-> start, end |-> start + 6]
    BY <1>2, <1>3 DEF ReportPeriod
  <1> QED BY <1>1, <1>4 DEF start

\* A weekly report is of a Monday to a Sunday that are over
\* (reporting.py:10-14, 104-109).
THEOREM WeeksAreWhole ==
  ASSUME NEW today \in Int
  PROVE  /\ Weekly(today).start % 7 = 0
         /\ days(Weekly(today)) = 7
         /\ Weekly(today).end < today
  <1> DEFINE r == today % 7
  <1>1. r \in 0 .. 6 /\ Weekly(today).start = today - r - 7 /\ Weekly(today).end = today - r - 1
    BY WeeklyIs
  <1>2. (today - r - 7) % 7 = 0
    OBVIOUS
  <1> HIDE DEF r
  <1> QED BY <1>1, <1>2 DEF days

\* Weekly reports tile the days: a day is in the report of every day of the
\* week after its own and of no other.
THEOREM WeeksTile ==
  ASSUME NEW d \in Int, NEW today \in Int
  PROVE  Covers(Weekly(today), d) <=> today \div 7 = d \div 7 + 1
  <1> DEFINE r == today % 7
  <1>1. r \in 0 .. 6 /\ Weekly(today).start = today - r - 7 /\ Weekly(today).end = today - r - 1
    BY WeeklyIs
  <1>2. today = 7 * (today \div 7) + r
    OBVIOUS
  <1>3. d = 7 * (d \div 7) + (d % 7) /\ d % 7 \in 0 .. 6
    OBVIOUS
  <1>4. today \div 7 \in Int /\ d \div 7 \in Int /\ d % 7 \in Int /\ r \in Int
    OBVIOUS
  <1> HIDE DEF r
  <1> QED BY <1>1, <1>2, <1>3, <1>4 DEF Covers

LEMMA MonthlyIs ==
  ASSUME NEW today \in Days, FirstOf[today] - 1 \in Days
  PROVE  LET end == FirstOf[today] - 1
         IN  Monthly(today) = [start |-> FirstOf[end], end |-> end]
  <1> DEFINE end == FirstOf[today] - 1
  <1>1. FirstOf[today] \in Int /\ end \in Int /\ FirstOf[end] \in Int /\ FirstOf[end] <= end
    OBVIOUS
  <1>2. Monthly(today) = ReportPeriod(FirstOf[end], end)
    BY DEF Monthly
  <1> HIDE DEF end
  <1> QED BY <1>1, <1>2 DEF ReportPeriod, end

\* A monthly report is over when it is asked for, and a day is in it exactly
\* if it is of the month that ended last (reporting.py:111-114).
THEOREM MonthsTile ==
  ASSUME NEW d \in Days, NEW today \in Days, FirstOf[today] - 1 \in Days
  PROVE  /\ Monthly(today).end < today
         /\ Covers(Monthly(today), d) <=> FirstOf[d] = FirstOf[FirstOf[today] - 1]
  <1> DEFINE end == FirstOf[today] - 1
             first == FirstOf[end]
  <1>1. /\ d \in Int /\ today \in Int /\ end \in Int /\ end \in Days /\ FirstOf[today] \in Int
        /\ FirstOf[d] \in Int /\ first \in Int /\ FirstOf[d] <= d /\ first <= end
        /\ FirstOf[today] <= today
    BY DEF Days
  <1>2. Monthly(today).start = first /\ Monthly(today).end = end
    BY MonthlyIs
  <1>3. Monthly(today).end < today
    BY <1>1, <1>2
  <1>4. ASSUME first <= d, d <= end PROVE FirstOf[d] = first
    BY <1>1, <1>4
  <1>5. ASSUME FirstOf[d] = first, end < d PROVE FALSE
    <2>1. FirstOf[today] <= d
      BY <1>1, <1>5
    <2>2. CASE d <= today
      <3>1. FirstOf[d] = FirstOf[today]
        BY <1>1, <2>1, <2>2
      <3> QED BY <1>1, <1>5, <3>1
    <2>3. CASE today < d
      <3>1. FirstOf[d] <= today /\ today <= d
        BY <1>1, <1>5, <2>3
      <3>2. FirstOf[today] = FirstOf[d]
        BY <1>1, <3>1
      <3> QED BY <1>1, <1>5, <3>2
    <2> QED BY <1>1, <2>2, <2>3
  <1>6. ASSUME FirstOf[d] = first PROVE first <= d
    BY <1>1, <1>6
  <1> HIDE DEF end, first
  <1>7. Covers(Monthly(today), d) <=> first <= d /\ d <= end
    BY <1>2 DEF Covers
  <1>8. FirstOf[d] = first <=> first <= d /\ d <= end
    BY <1>1, <1>4, <1>5, <1>6
  <1> QED BY <1>3, <1>7, <1>8 DEF end, first

\* A custom report that is accepted is of one day at least and of a year at
\* most (reporting.py:116-123).
THEOREM CustomIsBounded ==
  ASSUME NEW given \in [Dates -> Int], Custom(given) # NoPeriod
  PROVE  /\ Custom(given) = [start |-> given.period_start, end |-> given.period_end]
         /\ days(Custom(given)) \in 1 .. MAX_CUSTOM_PERIOD_DAYS
  <1> DEFINE s == given.period_start
             e == given.period_end
  <1>1. s \in Int /\ e \in Int
    BY DEF Dates
  <1> HIDE DEF s, e
  <1>2. Custom(given) = IF days(ReportPeriod(s, e)) > MAX_CUSTOM_PERIOD_DAYS THEN NoPeriod
                        ELSE ReportPeriod(s, e)
    BY DEF Custom, s, e
  <1>3. ~(e < s)
    BY <1>1, <1>2 DEF ReportPeriod
  <1>4. ReportPeriod(s, e) = [start |-> s, end |-> e]
    BY <1>1, <1>3 DEF ReportPeriod
  <1>5. days(ReportPeriod(s, e)) = e - s + 1
    BY <1>1, <1>4 DEF days
  <1> QED BY <1>1, <1>2, <1>3, <1>4, <1>5 DEF MAX_CUSTOM_PERIOD_DAYS, s, e

-----------------------------------------------------------------------------
(* What goes into it *)

\* Whenever a weekly report is asked for, its captures are those taken in the
\* week before on the days of the site, and every one of them: no photograph
\* falls between two reports or into both (worker/reports.py:190-196).
THEOREM WeeklyReportsShareNothing ==
  ASSUME NEW now \in Int, NEW today, IsOn(now, today), Weekly(today).start \in Days,
         NEW project, NEW c \in project.captures, c.at \in Int, NEW d, IsOn(c.at, d), NEW given
  PROVE  c \in _collect(project, resolve_period("weekly", now, given)).captures
           <=> today \div 7 = d \div 7 + 1
  <1> DEFINE period == Weekly(today)
  <1>1. today \in Days /\ today \in Int /\ d \in Int
    BY DEF IsOn, Days
  <1>2. resolve_period("weekly", now, given) = period
    BY DateIsTheDay DEF resolve_period
  <1>3. /\ period.start = today - (today % 7) - 7 /\ period.end = today - (today % 7) - 1
        /\ today % 7 \in 0 .. 6
    BY <1>1, WeeklyIs
  <1>4. period.end \in Days /\ period.end + 1 \in Days /\ period.start \in Days
    BY <1>1, <1>3 DEF Days
  <1> HIDE DEF period
  <1>5. (bounds_utc(period).start <= c.at /\ c.at < bounds_utc(period).end) <=> Covers(period, d)
    BY <1>4, BoundsAreWholeDays
  <1>6. Covers(period, d) <=> today \div 7 = d \div 7 + 1
    BY <1>1, WeeksTile DEF period
  <1> QED BY <1>2, <1>5, <1>6 DEF _collect, list_in_window

\* The same of the months.
THEOREM MonthlyReportsShareNothing ==
  ASSUME NEW now \in Int, NEW today, IsOn(now, today), Monthly(today).start \in Days,
         FirstOf[today] - 1 \in Days,
         NEW project, NEW c \in project.captures, c.at \in Int, NEW d, IsOn(c.at, d), NEW given
  PROVE  c \in _collect(project, resolve_period("monthly", now, given)).captures
           <=> FirstOf[d] = FirstOf[FirstOf[today] - 1]
  <1> DEFINE period == Monthly(today)
  <1>1. today \in Days /\ d \in Days
    BY DEF IsOn
  <1>2. resolve_period("monthly", now, given) = period
    BY DateIsTheDay DEF resolve_period
  <1>3. period.end = FirstOf[today] - 1 /\ period.start = FirstOf[FirstOf[today] - 1]
    BY <1>1, MonthlyIs
  <1>4. period.end \in Days /\ period.end + 1 \in Days /\ period.start \in Days
    <2>1. FirstOf[today] \in Int /\ FirstOf[today] <= today
      BY <1>1
    <2>2. FirstOf[today] - 1 \in Days /\ period.start \in Days
      OBVIOUS
    <2>3. FirstOf[today] - 1 + 1 \in Days
      <3>1. FirstDay \in Int /\ LastDay \in Int
        OBVIOUS
      <3> QED
        BY <1>1, <2>1, <2>2, <3>1, Between, Zenon DEF Days
    <2> HIDE DEF period
    <2> QED BY <1>3, <2>2, <2>3
  <1>6. Covers(period, d) <=> FirstOf[d] = FirstOf[FirstOf[today] - 1]
    BY <1>1, MonthsTile
  <1> HIDE DEF period
  <1>5. (bounds_utc(period).start <= c.at /\ c.at < bounds_utc(period).end) <=> Covers(period, d)
    BY <1>4, BoundsAreWholeDays
  <1> QED BY <1>2, <1>5, <1>6 DEF _collect, list_in_window

\* What a report gives as "the project's progress at the end of the period"
\* (domain/reporting.py:108-109) is the percentage of the day after it, if
\* that day was measured: the series includes its upper bound
\* (repositories/image.py:414).
THEOREM EndIsTheDayAfter ==
  ASSUME NEW period, period.start \in Days, period.end \in Days, period.end + 1 \in Days,
         period.start <= period.end,
         NEW project,
         \A x \in project.snapshots : x.window \in Int,
         \A x, y \in project.snapshots : x.window = y.window => x = y,
         NEW s \in project.snapshots, s.window = Midnight[period.end + 1]
  PROVE  displayed_pct(_collect(project, period)) = s.displayed
  <1> DEFINE from == Midnight[period.start]
             to == Midnight[period.end + 1]
             series == {x \in project.snapshots : from <= x.window /\ x.window <= to}
  <1>1. period.start \in Int /\ period.end \in Int
    BY DEF Days
  <1>2. from \in Int /\ to \in Int /\ from <= to
    BY <1>1
  <1>3. _collect(project, period).snapshots = series
    BY DEF _collect, list_series, bounds_utc
  <1> HIDE DEF from, to
  <1>4. s \in series /\ s.window = to
    BY <1>2 DEF to
  <1>5. \A x \in series : x.window \in Int /\ x.window <= s.window
    BY <1>4
  <1>6. \A x \in series : (\A y \in series : y.window <= x.window) => x = s
    BY <1>4, <1>5
  <1>7. Latest(series) = s
    BY <1>4, <1>5, <1>6 DEF Latest
  <1> HIDE DEF series
  <1> QED BY <1>3, <1>4, <1>7 DEF displayed_pct

HIDE CalendarAssumption
USE RemarksAssumption
-----------------------------------------------------------------------------
(* What the emissions say *)

Dues == [type : Types, severity : Severities]
Running == [step : {"writes", "committing"}, due : Seq(Dues), written : SUBSET Dues, beside : BOOLEAN]
EmissionTyped == emission \in [Emitters -> {Rests} \cup Running]

\* An emission has each type once, in what is due or in what it has written;
EachTypeOnce(x) ==
    /\ \A i, j \in DOMAIN x.due : x.due[i].type = x.due[j].type => i = j
    /\ \A i \in DOMAIN x.due : \A w \in x.written : x.due[i].type # w.type
    /\ \A v, w \in x.written : v.type = w.type => v = w
\* of what it has written, no emission wrote a recent one, unless both ran
\* while another did.
News(x) ==
    \A w \in x.written : \A r \in DOMAIN remarks :
        r.by = "emission" /\ r.type = w.type => r.age > Window \/ (r.beside /\ x.beside)

OneOfEach == \A e \in Emitters : Runs(e) => EachTypeOnce(emission[e])
WritesNews == \A e \in Emitters : Runs(e) => News(emission[e])
Together == \A e, f \in Emitters : e # f /\ Runs(e) /\ Runs(f) => emission[e].beside
SaidOnceOfAll ==
    \A r, q \in DOMAIN remarks :
        r.by = "emission" /\ q.by = "emission" /\ r.type = q.type /\ r.age <= Window /\ q.age <= Window
            => (r = q /\ remarks[r] = 1) \/ (r.beside /\ q.beside)
EmissionIInv ==
    RemarksTypeOK /\ EmissionTyped /\ OneOfEach /\ WritesNews /\ Together /\ SaidOnceOfAll

LEMMA RunningRuns == ASSUME NEW x \in Running PROVE x # Rests /\ x.step # "rests"
  BY DEF Running, Rests

\* One emission goes on or ends, and no row changes.
LEMMA OneMoves ==
  ASSUME EmissionIInv, NEW e \in Emitters, NEW x, emission' = [emission EXCEPT ![e] = x],
         remarks' = remarks,
         x = Rests \/ (Runs(e) /\ x \in Running /\ EachTypeOnce(x) /\ News(x)
                       /\ x.beside = emission[e].beside)
  PROVE  /\ EmissionTyped' /\ OneOfEach' /\ WritesNews' /\ Together' /\ SaidOnceOfAll'
         /\ DOMAIN emission' = Emitters
         /\ \A f \in Emitters : emission'[f].step \in {"rests", "writes", "committing"}
<1>1. emission \in [Emitters -> {Rests} \cup Running]
  BY DEF EmissionIInv, EmissionTyped
<1>2. emission'[e] = x /\ \A f \in Emitters \ {e} : emission'[f] = emission[f]
  BY <1>1
<1>3. EmissionTyped' /\ DOMAIN emission' = Emitters
  BY <1>1 DEF EmissionTyped
<1>4. \A f \in Emitters : emission'[f].step \in {"rests", "writes", "committing"}
  <2>1. \A y \in {Rests} \cup Running : y.step \in {"rests", "writes", "committing"}
    BY DEF Rests, Running
  <2> QED
    BY <1>3, <2>1 DEF EmissionTyped
<1>5. \A f \in Emitters : News(emission[f])' <=> News(emission'[f])
  BY DEF News
<1>6. OneOfEach' /\ WritesNews'
  BY <1>2, <1>5 DEF EmissionIInv, OneOfEach, WritesNews, Runs
<1>7. Together'
  BY <1>2 DEF EmissionIInv, Together, Runs
<1>8. SaidOnceOfAll'
  BY DEF EmissionIInv, SaidOnceOfAll
<1> QED
  BY <1>3, <1>4, <1>6, <1>7, <1>8

\* What With and Without do to a bag of remarks.
LEMMA WithAndWithout ==
  ASSUME NEW bag, IsABag(bag), DOMAIN bag \subseteq RemarkRows, NEW x \in RemarkRows
  PROVE  /\ IsABag(With(bag, x)) /\ DOMAIN With(bag, x) = DOMAIN bag \cup {x}
         /\ \A r \in DOMAIN bag : r # x => With(bag, x)[r] = bag[r]
         /\ IsABag(Without(bag, x)) /\ DOMAIN Without(bag, x) \subseteq DOMAIN bag
         /\ \A r \in DOMAIN bag : r # x => r \in DOMAIN Without(bag, x) /\ Without(bag, x)[r] = bag[r]
<1>1. bag \in [DOMAIN bag -> {n \in Nat : n > 0}]
  BY DEF IsABag
<1>2. DOMAIN SetToBag({x}) = {x} /\ SetToBag({x})[x] = 1
  BY DEF SetToBag
<1>3. With(bag, x) = [e \in DOMAIN bag \cup {x} |->
          (IF e \in DOMAIN bag THEN bag[e] ELSE 0) + (IF e \in {x} THEN SetToBag({x})[e] ELSE 0)]
  BY <1>2 DEF With, (+)
<1>4. DEFINE B == [e \in DOMAIN bag |-> IF e \in {x} THEN bag[e] - SetToBag({x})[e] ELSE bag[e]]
<1>5. Without(bag, x) = [e \in {d \in DOMAIN B : B[d] > 0} |-> B[e]]
  BY <1>2 DEF Without, (-)
<1>6. IsABag(With(bag, x))
  BY <1>1, <1>2, <1>3 DEF IsABag
<1>7. \A e \in DOMAIN B : B[e] \in Nat
  BY <1>1, <1>2
<1>8. IsABag(Without(bag, x))
  BY <1>5, <1>7 DEF IsABag
<1> QED
  BY <1>1, <1>2, <1>3, <1>5, <1>6, <1>8

\* Whoever else writes or deletes leaves the promises of the emissions alone.
LEMMA OthersLeaveThem ==
  ASSUME EmissionIInv, emission' = emission,
         \A r \in RemarkRows : r.by = "emission" => (r \in DOMAIN remarks' <=> r \in DOMAIN remarks),
         \A r \in DOMAIN remarks : r.by = "emission" => remarks'[r] = remarks[r],
         DOMAIN remarks' \subseteq RemarkRows
  PROVE  EmissionTyped' /\ OneOfEach' /\ WritesNews' /\ Together' /\ SaidOnceOfAll'
<1>1. \A r \in DOMAIN remarks' : r.by = "emission" => r \in DOMAIN remarks /\ remarks'[r] = remarks[r]
  BY DEF EmissionIInv
<1>2. EmissionTyped' /\ OneOfEach' /\ Together'
  BY DEF EmissionIInv, EmissionTyped, OneOfEach, Together, Runs
<1>3. WritesNews'
  BY <1>1 DEF EmissionIInv, WritesNews, News, Runs
<1>4. SaidOnceOfAll'
  BY <1>1 DEF EmissionIInv, SaidOnceOfAll
<1> QED
  BY <1>2, <1>3, <1>4

LEMMA NoteKeeps ==
  ASSUME EmissionIInv, NEW x \in RemarkRows, x.by # "emission", Note(x),
         emission' = emission, signals' = signals, sweep' \in BOOLEAN,
         changes' = changes, deaths' = deaths, doubles' = doubles
  PROVE  EmissionIInv'
<1>1. IsABag(remarks) /\ DOMAIN remarks \subseteq RemarkRows
  BY DEF EmissionIInv, RemarksTypeOK, BagToSet
<1>2. remarks' = With(remarks, x)
  BY DEF Note
<1>3. /\ IsABag(remarks') /\ DOMAIN remarks' = DOMAIN remarks \cup {x}
      /\ \A r \in DOMAIN remarks : r # x => remarks'[r] = remarks[r]
  BY <1>1, <1>2, WithAndWithout
<1>4. RemarksTypeOK'
  BY <1>1, <1>3 DEF EmissionIInv, RemarksTypeOK, BagToSet, Note
<1>5. EmissionTyped' /\ OneOfEach' /\ WritesNews' /\ Together' /\ SaidOnceOfAll'
  BY <1>1, <1>3, OthersLeaveThem
<1> QED
  BY <1>4, <1>5 DEF EmissionIInv

LEMMA UpdateKeeps ==
  ASSUME EmissionIInv, NEW remark, NEW severity \in NoteSeverities, UpdateRemark(remark, severity)
  PROVE  EmissionIInv'
<1> DEFINE edited == [remark EXCEPT !.severity = severity]
           rest == Without(remarks, remark)
<1>1. IsABag(remarks) /\ DOMAIN remarks \subseteq RemarkRows
  BY DEF EmissionIInv, RemarksTypeOK, BagToSet
<1>2. /\ remark \in RemarkRows /\ edited \in RemarkRows
      /\ remark.by # "emission" /\ edited.by # "emission"
  <2>1. remark \in RemarkRows /\ remark.by = "member"
    BY <1>1 DEF UpdateRemark, BagToSet, is_system_generated
  <2> QED
    BY <2>1 DEF RemarkRows
<1> HIDE DEF edited
<1>3. /\ IsABag(rest) /\ DOMAIN rest \subseteq DOMAIN remarks
      /\ \A r \in DOMAIN remarks : r # remark => r \in DOMAIN rest /\ rest[r] = remarks[r]
  <2>1. remark \in RemarkRows
    BY <1>2
  <2> QED
    BY <1>1, <2>1, WithAndWithout
<1>4. remarks' = With(rest, edited)
  BY DEF UpdateRemark, edited
<1> HIDE DEF rest
<1>5. /\ IsABag(remarks') /\ DOMAIN remarks' = DOMAIN rest \cup {edited}
      /\ \A r \in DOMAIN rest : r # edited => remarks'[r] = rest[r]
  <2>1. DOMAIN rest \subseteq RemarkRows
    BY <1>1, <1>3
  <2> QED
    BY <2>1, <1>2, <1>3, <1>4, WithAndWithout
<1>6. RemarksTypeOK'
  BY <1>1, <1>2, <1>3, <1>5 DEF EmissionIInv, RemarksTypeOK, BagToSet, UpdateRemark
<1>7. EmissionTyped' /\ OneOfEach' /\ WritesNews' /\ Together' /\ SaidOnceOfAll'
  <2>1. emission' = emission
    BY DEF UpdateRemark
  <2>2. \A r \in RemarkRows : r.by = "emission" => (r \in DOMAIN remarks' <=> r \in DOMAIN remarks)
    BY <1>2, <1>3, <1>5
  <2>3. \A r \in DOMAIN remarks : r.by = "emission" => remarks'[r] = remarks[r]
    BY <1>2, <1>3, <1>5
  <2>4. DOMAIN remarks' \subseteq RemarkRows
    BY <1>1, <1>2, <1>3, <1>5
  <2> QED
    BY <2>1, <2>2, <2>3, <2>4, OthersLeaveThem
<1> QED
  BY <1>6, <1>7 DEF EmissionIInv

LEMMA DeleteKeeps ==
  ASSUME EmissionIInv, NEW remark, DeleteRemark(remark)
  PROVE  EmissionIInv'
<1>1. IsABag(remarks) /\ DOMAIN remarks \subseteq RemarkRows
  BY DEF EmissionIInv, RemarksTypeOK, BagToSet
<1>2. remark \in RemarkRows /\ remark.by # "emission"
  BY <1>1 DEF DeleteRemark, BagToSet, is_system_generated
<1>3. remarks' = Without(remarks, remark)
  BY DEF DeleteRemark
<1>4. /\ IsABag(remarks') /\ DOMAIN remarks' \subseteq DOMAIN remarks
      /\ \A r \in DOMAIN remarks : r # remark => r \in DOMAIN remarks' /\ remarks'[r] = remarks[r]
  BY <1>1, <1>2, <1>3, WithAndWithout
<1>5. RemarksTypeOK'
  BY <1>1, <1>4 DEF EmissionIInv, RemarksTypeOK, BagToSet, DeleteRemark
<1>6. EmissionTyped' /\ OneOfEach' /\ WritesNews' /\ Together' /\ SaidOnceOfAll'
  <2>1. emission' = emission
    BY DEF DeleteRemark
  <2>2. DOMAIN remarks' \subseteq RemarkRows
    BY <1>1, <1>4
  <2> QED
    BY <2>1, <2>2, <1>2, <1>4, OthersLeaveThem
<1> QED
  BY <1>5, <1>6 DEF EmissionIInv

EachOnce(s) == s \in Seq(Dues) /\ \A i, j \in DOMAIN s : s[i].type = s[j].type => i = j

TypesIn(s) == {s[i].type : i \in DOMAIN s}

\* One more thing that is due, if it is.
LEMMA Joined ==
  ASSUME NEW s, EachOnce(s), NEW x \in Dues, x.type \notin TypesIn(s),
         NEW t, t = s \/ t = s \o <<x>>
  PROVE  EachOnce(t) /\ TypesIn(t) \subseteq TypesIn(s) \cup {x.type}
<1> USE DEF EachOnce, TypesIn
<1>1. CASE t = s \o <<x>>
  <2>1. /\ t \in Seq(Dues) /\ Len(t) = Len(s) + 1 /\ t[Len(s) + 1] = x
        /\ \A i \in 1..Len(s) : t[i] = s[i]
    BY <1>1
  <2>2. DOMAIN t = 1..Len(s) + 1 /\ DOMAIN s = 1..Len(s) /\ Len(s) \in Nat
    BY <2>1
  <2>3. \A i \in DOMAIN t : i = Len(s) + 1 \/ i \in DOMAIN s
    BY <2>2
  <2>4. ASSUME NEW i \in DOMAIN t, NEW j \in DOMAIN t, t[i].type = t[j].type PROVE i = j
    <3>1. CASE i \in DOMAIN s /\ j \in DOMAIN s
      BY <3>1, <2>1, <2>2, <2>4
    <3>2. CASE i = Len(s) + 1 /\ j \in DOMAIN s
      BY <3>2, <2>1, <2>2, <2>4
    <3>3. CASE i \in DOMAIN s /\ j = Len(s) + 1
      BY <3>3, <2>1, <2>2, <2>4
    <3> QED
      BY <2>3, <2>4, <3>1, <3>2, <3>3
  <2>5. \A i \in DOMAIN t : t[i].type \in TypesIn(s) \cup {x.type}
    BY <2>1, <2>2, <2>3
  <2> QED
    BY <2>1, <2>4, <2>5
<1>2. CASE t = s
  BY <1>2
<1> QED
  BY <1>1, <1>2

\* What is due, each type once.
LEMMA DueOfEach == ASSUME NEW s PROVE EachOnce(due_remarks(s))
<1> DEFINE a == Due("inactivity", "warning")
           b == Due("delay", IF s.schedule = "passed" THEN "critical" ELSE "warning")
           c == Due("system", "info")
           first == When(s.silent = "yes", a)
           second == first \o When(s.schedule # "kept", b)
           third == second \o When(s.rejected >= REJECTION_STREAK, c)
<1>1. /\ a \in Dues /\ b \in Dues /\ c \in Dues
      /\ a.type = "inactivity" /\ b.type = "delay" /\ c.type = "system"
  BY DEF Due, Dues, Types, Severities
<1>2. due_remarks(s) = IF s.state # "live" THEN << >> ELSE third
  BY DEF due_remarks
<1> HIDE DEF a, b, c
<1>3. EachOnce(first) /\ TypesIn(first) \subseteq {"inactivity"}
  <2>1. CASE s.silent = "yes"
    BY <2>1, <1>1 DEF When, EachOnce, TypesIn
  <2>2. CASE s.silent # "yes"
    BY <2>2 DEF When, EachOnce, TypesIn
  <2> QED
    BY <2>1, <2>2
<1> HIDE DEF first
<1>4. EachOnce(second) /\ TypesIn(second) \subseteq TypesIn(first) \cup {b.type}
  <2>1. b.type \notin TypesIn(first)
    BY <1>1, <1>3
  <2>2. second = first \/ second = first \o <<b>>
    <3>1. first \o << >> = first
      BY <1>3 DEF EachOnce
    <3> QED
      BY <3>1 DEF When
  <2> HIDE DEF second
  <2> QED
    BY <1>1, <1>3, <2>1, <2>2, Joined
<1> HIDE DEF second
<1>5. EachOnce(third)
  <2>1. c.type \notin TypesIn(second)
    BY <1>1, <1>3, <1>4
  <2>2. third = second \/ third = second \o <<c>>
    <3>1. second \o << >> = second
      BY <1>4 DEF EachOnce
    <3> QED
      BY <3>1 DEF When
  <2> HIDE DEF third
  <2> QED
    BY <1>1, <1>4, <2>1, <2>2, Joined
<1> HIDE DEF third
<1>6. EachOnce(<< >>)
  BY DEF EachOnce
<1> QED
  BY <1>2, <1>5, <1>6

LEMMA ReadsKeeps == ASSUME EmissionIInv, NEW e \in Emitters, EmissionReads(e) PROVE EmissionIInv'
<1> DEFINE x == [step |-> "writes", due |-> due_remarks(signals), written |-> {}, beside |-> ~RunsAlone(e)]
           Lit(f) == [emission[f] EXCEPT !.beside = TRUE]
<1>1. /\ UNCHANGED <<signals, remarks, sweep, notes, changes, deaths>>
      /\ doubles' \in 0..MaxDoubles
      /\ emission' = [f \in Emitters |-> CASE f = e -> x
                                           [] f # e /\ Runs(f) -> Lit(f)
                                           [] OTHER -> Rests]
  <2>1. UNCHANGED <<signals, remarks, sweep, notes, changes, deaths>>
    BY DEF EmissionReads
  <2>2. doubles \in 0..MaxDoubles /\ MaxDoubles \in Nat
    BY DEF EmissionIInv, RemarksTypeOK
  <2>3. doubles' = doubles \/ (doubles < MaxDoubles /\ doubles' = doubles + 1)
    BY DEF EmissionReads
  <2>4. doubles' \in 0..MaxDoubles
    BY <2>2, <2>3
  <2>5. emission' = [f \in Emitters |-> CASE f = e -> x
                                          [] f # e /\ Runs(f) -> Lit(f)
                                          [] OTHER -> Rests]
    BY DEF EmissionReads
  <2> QED
    BY <2>1, <2>4, <2>5
<1>2. emission \in [Emitters -> {Rests} \cup Running]
  BY DEF EmissionIInv, EmissionTyped
<1>3. /\ x \in Running /\ x.written = {} /\ x.due = due_remarks(signals)
      /\ x.beside = ~RunsAlone(e) /\ x # Rests
  BY DueOfEach, RunningRuns DEF EachOnce, Running
<1>4. ASSUME NEW f \in Emitters, f # e, Runs(f)
      PROVE  /\ Lit(f) \in Running /\ Lit(f).beside
             /\ Lit(f).due = emission[f].due /\ Lit(f).written = emission[f].written
  BY <1>2, <1>4 DEF Running, Runs
<1>5. /\ emission'[e] = x
      /\ \A f \in Emitters : f # e => emission'[f] = IF Runs(f) THEN Lit(f) ELSE Rests
  BY <1>1
<1> HIDE DEF x, Lit
<1>6. ASSUME NEW f \in Emitters
      PROVE  emission'[f] \in {Rests} \cup Running
  <2>1. CASE f = e
    BY <2>1, <1>3, <1>5
  <2>2. CASE f # e
    BY <2>2, <1>4, <1>5
  <2> QED
    BY <2>1, <2>2
<1>7. EmissionTyped' /\ DOMAIN emission' = Emitters
  BY <1>1, <1>6 DEF EmissionTyped
<1>8. ASSUME NEW f \in Emitters, f # e, Runs(f)'
      PROVE  emission'[f] = Lit(f) /\ Runs(f)
  BY <1>5, <1>8 DEF Runs
<1>9. OneOfEach'
  <2> SUFFICES ASSUME NEW f \in Emitters, Runs(f)' PROVE EachTypeOnce(emission'[f])
    BY DEF OneOfEach, EachTypeOnce
  <2>1. CASE f = e
    BY <2>1, <1>3, <1>5, DueOfEach DEF EachTypeOnce, EachOnce
  <2>2. CASE f # e
    <3>1. EachTypeOnce(emission[f])
      BY <2>2, <1>8 DEF EmissionIInv, OneOfEach
    <3> QED
      BY <2>2, <3>1, <1>4, <1>8 DEF EachTypeOnce
  <2> QED
    BY <2>1, <2>2
<1>10. WritesNews'
  <2> SUFFICES ASSUME NEW f \in Emitters, Runs(f)', NEW w \in emission'[f].written,
                      NEW r \in DOMAIN remarks, r.by = "emission", r.type = w.type
               PROVE  r.age > Window \/ (r.beside /\ emission'[f].beside)
    BY <1>1 DEF WritesNews, News
  <2>1. f # e
    BY <1>3, <1>5
  <2>2. News(emission[f])
    BY <2>1, <1>8 DEF EmissionIInv, WritesNews
  <2> QED
    BY <2>1, <2>2, <1>4, <1>8 DEF News
<1>11. Together'
  <2> SUFFICES ASSUME NEW f \in Emitters, NEW g \in Emitters, f # g, Runs(f)', Runs(g)'
               PROVE  emission'[f].beside
    BY DEF Together
  <2>1. CASE f = e
    <3>1. Runs(g)
      BY <2>1, <1>8
    <3>2. ~RunsAlone(e)
      BY <2>1, <3>1 DEF RunsAlone
    <3> QED
      BY <2>1, <3>2, <1>3, <1>5
  <2>2. CASE f # e
    BY <2>2, <1>4, <1>8
  <2> QED
    BY <2>1, <2>2
<1>12. \A f \in Emitters : emission'[f].step \in {"rests", "writes", "committing"}
  <2>1. \A y \in {Rests} \cup Running : y.step \in {"rests", "writes", "committing"}
    BY DEF Rests, Running
  <2> QED
    BY <1>6, <2>1
<1>13. RemarksTypeOK'
  BY <1>1, <1>7, <1>12 DEF EmissionIInv, RemarksTypeOK
<1>14. SaidOnceOfAll'
  BY <1>1 DEF EmissionIInv, SaidOnceOfAll
<1> QED
  BY <1>7, <1>9, <1>10, <1>11, <1>13, <1>14 DEF EmissionIInv

LEMMA WritesKeeps == ASSUME EmissionIInv, NEW e \in Emitters, EmissionWrites(e) PROVE EmissionIInv'
<1> DEFINE y == emission[e]
           due == y.due
           written == y.written
<1>1. y.step = "writes" /\ UNCHANGED <<signals, remarks, sweep, notes, changes, deaths, doubles>>
  BY DEF EmissionWrites
<1>2. y \in Running /\ Runs(e)
  <2>1. y \in {Rests} \cup Running
    BY DEF EmissionIInv, EmissionTyped
  <2>2. y # Rests
    BY <1>1 DEF Rests
  <2> QED
    BY <2>1, <2>2 DEF Runs
<1>3. due \in Seq(Dues) /\ written \in SUBSET Dues
  BY <1>2 DEF Running
<1>4. /\ \A i, j \in DOMAIN due : due[i].type = due[j].type => i = j
      /\ \A i \in DOMAIN due : \A w \in written : due[i].type # w.type
      /\ \A v, w \in written : v.type = w.type => v = w
      /\ News(y)
  BY <1>2 DEF EmissionIInv, OneOfEach, WritesNews, EachTypeOnce
<1>5. SUFFICES ASSUME NEW x, emission' = [emission EXCEPT ![e] = x], x \in Running, x.beside = y.beside,
                      EachTypeOnce(x), News(x)
               PROVE  EmissionIInv'
  <2>0. emission' = [emission EXCEPT ![e] =
             CASE y.due = << >> -> [y EXCEPT !.step = "committing"]
               [] y.due # << >> /\ recent_of_type(Head(due)) -> [y EXCEPT !.due = Tail(y.due)]
               [] OTHER -> [y EXCEPT !.due = Tail(y.due), !.written = y.written \cup {Head(due)}]]
    BY DEF EmissionWrites
  <2>1. CASE due = << >>
    <3> DEFINE x == [y EXCEPT !.step = "committing"]
    <3>1. emission' = [emission EXCEPT ![e] = x]
      BY <2>0, <2>1
    <3>2. x \in Running /\ x.due = due /\ x.written = written /\ x.beside = y.beside
      BY <1>2 DEF Running
    <3> HIDE DEF x
    <3>3. EachTypeOnce(x) /\ News(x)
      BY <3>2, <1>4 DEF EachTypeOnce, News
    <3> QED
      BY <3>1, <3>2, <3>3, <1>5
  <2>2. CASE due # << >>
    <3> DEFINE d == Head(due)
    <3>1. /\ Tail(due) \in Seq(Dues) /\ d \in Dues /\ d = due[1] /\ 1 \in DOMAIN due
          /\ \A i \in DOMAIN Tail(due) : i + 1 \in DOMAIN due /\ Tail(due)[i] = due[i + 1] /\ i + 1 # 1
      BY <2>2, <1>3
    <3>2. /\ \A i, j \in DOMAIN Tail(due) : Tail(due)[i].type = Tail(due)[j].type => i = j
          /\ \A i \in DOMAIN Tail(due) : Tail(due)[i].type # d.type
          /\ \A i \in DOMAIN Tail(due) : \A w \in written : Tail(due)[i].type # w.type
          /\ \A w \in written : w.type # d.type
      <4>1. \A i, j \in DOMAIN Tail(due) : i \in Int /\ j \in Int
        BY <3>1
      <4>2. ASSUME NEW i \in DOMAIN Tail(due), NEW j \in DOMAIN Tail(due), Tail(due)[i].type = Tail(due)[j].type
            PROVE  i = j
        <5>1. i + 1 = j + 1
          BY <4>2, <3>1, <1>4
        <5> QED
          BY <5>1, <4>1
      <4>3. \A i \in DOMAIN Tail(due) : Tail(due)[i].type # d.type
        BY <3>1, <1>4
      <4>4. \A i \in DOMAIN Tail(due) : \A w \in written : Tail(due)[i].type # w.type
        BY <3>1, <1>4
      <4>5. \A w \in written : w.type # d.type
        BY <3>1, <1>4
      <4> QED
        BY <4>2, <4>3, <4>4, <4>5
    <3>3. CASE recent_of_type(d)
      <4> DEFINE x == [y EXCEPT !.due = Tail(y.due)]
      <4>1. emission' = [emission EXCEPT ![e] = x]
        BY <2>0, <2>2, <3>3
      <4>2. x \in Running /\ x.due = Tail(due) /\ x.written = written /\ x.beside = y.beside
        BY <1>2, <3>1 DEF Running
      <4> HIDE DEF x, due, written, d
      <4>3. EachTypeOnce(x)
        BY <4>2, <3>2, <1>4 DEF EachTypeOnce
      <4>4. News(x)
        BY <4>2, <1>4 DEF News, written
      <4> QED
        BY <4>1, <4>2, <4>3, <4>4, <1>5
    <3>4. CASE ~recent_of_type(d)
      <4> DEFINE x == [y EXCEPT !.due = Tail(y.due), !.written = y.written \cup {d}]
      <4>1. emission' = [emission EXCEPT ![e] = x]
        BY <2>0, <2>2, <3>4
      <4>2. x \in Running /\ x.due = Tail(due) /\ x.written = written \cup {d} /\ x.beside = y.beside
        BY <1>2, <1>3, <3>1 DEF Running
      <4>3. \A r \in DOMAIN remarks : r.type = d.type => r.age > Window
        <5>1. \A r \in DOMAIN remarks : r.age \in Int
          BY DEF EmissionIInv, RemarksTypeOK, BagToSet, RemarkRows
        <5> QED
          BY <3>4, <5>1 DEF recent_of_type, BagToSet
      <4> HIDE DEF x, due, written, d
      <4>4. EachTypeOnce(x)
        BY <4>2, <3>2, <1>4 DEF EachTypeOnce
      <4>5. News(x)
        BY <4>2, <4>3, <1>4 DEF News, written
      <4> QED
        BY <4>1, <4>2, <4>4, <4>5, <1>5
    <3> QED
      BY <3>3, <3>4
  <2> QED
    BY <2>1, <2>2
<1>6. /\ EmissionTyped' /\ OneOfEach' /\ WritesNews' /\ Together' /\ SaidOnceOfAll'
      /\ DOMAIN emission' = Emitters
      /\ \A f \in Emitters : emission'[f].step \in {"rests", "writes", "committing"}
  BY <1>1, <1>2, <1>5, OneMoves
<1> QED
  BY <1>1, <1>6 DEF EmissionIInv, RemarksTypeOK

LEMMA CommitKeeps == ASSUME EmissionIInv, NEW e \in Emitters, EmissionCommits(e) PROVE EmissionIInv'
<1> DEFINE y == emission[e]
           new == {Remark(due, "emission", y.beside) : due \in y.written}
<1>1. y.step = "committing" /\ Runs(e) /\ y \in Running
  <2>1. y.step = "committing" /\ y \in {Rests} \cup Running
    BY DEF EmissionCommits, EmissionIInv, EmissionTyped
  <2>2. y # Rests
    BY <2>1 DEF Rests
  <2> QED
    BY <2>1, <2>2 DEF Runs
<1>2. y.written \in SUBSET Dues /\ y.beside \in BOOLEAN
  BY <1>1 DEF Running
<1>3. \A x \in new : /\ x \in RemarkRows /\ x.by = "emission" /\ x.age = 0 /\ x.beside = y.beside
                     /\ \E w \in y.written : w.type = x.type /\ w.severity = x.severity
  BY <1>2 DEF Remark, RemarkRows, Dues
<1>4. IsABag(remarks) /\ DOMAIN remarks \subseteq RemarkRows
  BY DEF EmissionIInv, RemarksTypeOK, BagToSet
<1>5. remarks' = remarks (+) SetToBag(new)
  BY DEF EmissionCommits
<1>6. \A x, z \in new : x.type = z.type => x = z
  <2>1. \A v, w \in y.written : v.type = w.type => v = w
    BY <1>1 DEF EmissionIInv, OneOfEach, EachTypeOnce
  <2>2. \A x \in new : \E w \in y.written : x = Remark(w, "emission", y.beside) /\ x.type = w.type
    BY DEF Remark
  <2> HIDE DEF new
  <2> QED
    BY <2>1, <2>2
<1>7. \A x \in new : \A r \in DOMAIN remarks :
          r.by = "emission" /\ r.type = x.type => r.age > Window \/ (r.beside /\ x.beside)
  <2>1. News(y)
    BY <1>1 DEF EmissionIInv, WritesNews
  <2> QED
    BY <2>1, <1>3 DEF News
<1> HIDE DEF new, y
<1>9. /\ DOMAIN remarks' = DOMAIN remarks \cup new
      /\ \A r \in DOMAIN remarks : r \notin new => remarks'[r] = remarks[r]
      /\ \A r \in new : r \notin DOMAIN remarks => remarks'[r] = 1
      /\ IsABag(remarks')
  <2>1. remarks \in [DOMAIN remarks -> {n \in Nat : n > 0}]
    BY <1>4 DEF IsABag
  <2>2. DOMAIN SetToBag(new) = new /\ \A r \in new : SetToBag(new)[r] = 1
    BY DEF SetToBag
  <2>3. remarks' = [r \in DOMAIN remarks \cup new |->
            (IF r \in DOMAIN remarks THEN remarks[r] ELSE 0) + (IF r \in new THEN SetToBag(new)[r] ELSE 0)]
    BY <1>5, <2>2 DEF (+)
  <2>4. /\ \A r \in DOMAIN remarks : r \notin new => remarks'[r] = remarks[r]
        /\ \A r \in new : r \notin DOMAIN remarks => remarks'[r] = 1
    BY <2>1, <2>2, <2>3
  <2>5. remarks' \in [DOMAIN remarks \cup new -> {n \in Nat : n > 0}]
    BY <2>1, <2>2, <2>3
  <2> QED
    BY <2>3, <2>4, <2>5 DEF IsABag
<1>10. /\ emission' = [emission EXCEPT ![e] = Rests]
       /\ UNCHANGED <<signals, sweep, notes, changes, deaths, doubles>>
  BY DEF EmissionCommits
<1>11. emission \in [Emitters -> {Rests} \cup Running]
  BY DEF EmissionIInv, EmissionTyped
<1>12. EmissionTyped' /\ DOMAIN emission' = Emitters
  BY <1>10, <1>11 DEF EmissionTyped
<1>13. \A f \in Emitters : Runs(f)' => f # e /\ Runs(f) /\ emission'[f] = emission[f]
  BY <1>10, <1>11 DEF Runs
<1>14. RemarksTypeOK'
  <2>1. \A x \in {Rests} \cup Running : x.step \in {"rests", "writes", "committing"}
    BY DEF Rests, Running
  <2>2. \A f \in Emitters : emission'[f].step \in {"rests", "writes", "committing"}
    BY <2>1, <1>12 DEF EmissionTyped
  <2>3. DOMAIN remarks' \subseteq RemarkRows
    BY <1>3, <1>4, <1>9
  <2> QED
    BY <2>2, <2>3, <1>9, <1>10, <1>12 DEF EmissionIInv, RemarksTypeOK, BagToSet
<1>15. OneOfEach' /\ Together'
  BY <1>13 DEF EmissionIInv, OneOfEach, Together
<1>16. WritesNews'
  <2> SUFFICES ASSUME NEW f \in Emitters, Runs(f)', NEW w \in emission'[f].written,
                      NEW r \in DOMAIN remarks', r.by = "emission", r.type = w.type
               PROVE  r.age > Window \/ (r.beside /\ emission'[f].beside)
    BY DEF WritesNews, News
  <2>1. f # e /\ Runs(f) /\ emission'[f] = emission[f]
    BY <1>13
  <2>2. CASE r \in DOMAIN remarks
    <3>1. News(emission[f])
      BY <2>1 DEF EmissionIInv, WritesNews
    <3> QED
      BY <2>1, <2>2, <3>1 DEF News
  <2>3. CASE r \in new
    <3>1. emission[f].beside /\ y.beside
      BY <2>1, <1>1 DEF EmissionIInv, Together, y
    <3> QED
      BY <2>1, <2>3, <3>1, <1>3
  <2> QED
    BY <2>2, <2>3, <1>9
<1>17. SaidOnceOfAll'
  <2> SUFFICES ASSUME NEW r \in DOMAIN remarks', NEW q \in DOMAIN remarks',
                      r.by = "emission", q.by = "emission", r.type = q.type,
                      r.age <= Window, q.age <= Window
               PROVE  (r = q /\ remarks'[r] = 1) \/ (r.beside /\ q.beside)
    BY DEF SaidOnceOfAll
  <2>1. r.age \in Int /\ q.age \in Int
    BY <1>3, <1>4, <1>9 DEF RemarkRows
  <2>2. CASE r \in new /\ q \in new
    <3>1. r = q
      BY <2>2, <1>6
    <3>2. CASE r \in DOMAIN remarks
      BY <3>1, <3>2, <2>1, <2>2, <1>7
    <3>3. CASE r \notin DOMAIN remarks
      BY <3>1, <3>3, <2>2, <1>9
    <3> QED
      BY <3>2, <3>3
  <2>3. CASE r \in new /\ q \notin new
    BY <2>3, <2>1, <1>7, <1>9
  <2>4. CASE r \notin new /\ q \in new
    BY <2>4, <2>1, <1>7, <1>9
  <2>5. CASE r \notin new /\ q \notin new
    BY <2>5, <1>9 DEF EmissionIInv, SaidOnceOfAll
  <2> QED
    BY <2>2, <2>3, <2>4, <2>5
<1> QED
  BY <1>12, <1>14, <1>15, <1>16, <1>17 DEF EmissionIInv

LEMMA TickKeeps == ASSUME EmissionIInv, Tick PROVE EmissionIInv'
<1> DEFINE aged == {Older(old) : old \in DOMAIN remarks}
<1>1. emission' = emission /\ \A e \in Emitters : ~Runs(e)
  BY DEF Tick
<1>2. IsABag(remarks) /\ DOMAIN remarks \subseteq RemarkRows
  BY DEF EmissionIInv, RemarksTypeOK, BagToSet
<1>3. \A old \in RemarkRows :
         /\ Older(old) \in RemarkRows
         /\ Older(old).by = old.by /\ Older(old).type = old.type /\ Older(old).severity = old.severity
         /\ Older(old).beside = old.beside
         /\ Older(old).age <= Window => old.age = Older(old).age - 1
         /\ Older(old).age <= Window => old = [Older(old) EXCEPT !.age = Older(old).age - 1]
  <2> SUFFICES ASSUME NEW old \in RemarkRows
               PROVE  /\ Older(old) \in RemarkRows
                      /\ Older(old).by = old.by /\ Older(old).type = old.type /\ Older(old).severity = old.severity
                      /\ Older(old).beside = old.beside
                      /\ Older(old).age <= Window => old.age = Older(old).age - 1
                      /\ Older(old).age <= Window => old = [Older(old) EXCEPT !.age = Older(old).age - 1]
    OBVIOUS
  <2>1. /\ old = [type |-> old.type, severity |-> old.severity, age |-> old.age, by |-> old.by,
                 beside |-> old.beside]
        /\ old.type \in Types /\ old.severity \in Severities /\ old.age \in 0..Window + 1
        /\ old.by \in {"emission", "sweep", "recompute", "member"} /\ old.beside \in BOOLEAN
    BY DEF RemarkRows
  <2>2. PICK age \in 0..Window + 1 :
           Older(old) = [old EXCEPT !.age = age] /\ (age <= Window => old.age = age - 1)
    <3>1. CASE old.age > Window
      BY <3>1, <2>1 DEF Older
    <3>2. CASE ~(old.age > Window)
      BY <3>2, <2>1 DEF Older
    <3> QED
      BY <3>1, <3>2
  <2>3. Older(old) = [type |-> old.type, severity |-> old.severity, age |-> age, by |-> old.by, beside |-> old.beside]
    <3>1. [old EXCEPT !.age = age]
             = [type |-> old.type, severity |-> old.severity, age |-> age, by |-> old.by, beside |-> old.beside]
      BY DEF RemarkRows
    <3>2. Older(old) = [old EXCEPT !.age = age]
      BY <2>2
    <3> QED
      BY <3>1, <3>2, Zenon
  <2>4. Older(old) \in RemarkRows
    BY <2>1, <2>3 DEF RemarkRows
  <2>5. [Older(old) EXCEPT !.age = Older(old).age - 1]
           = [type |-> old.type, severity |-> old.severity, age |-> age - 1, by |-> old.by,
              beside |-> old.beside]
    BY <2>3
  <2> QED
    BY <2>1, <2>2, <2>3, <2>4, <2>5
<1>4. remarks' = [r \in aged |-> IF r.age > Window THEN 1 ELSE remarks[[r EXCEPT !.age = r.age - 1]]]
  BY DEF Tick, BagToSet
<1>5. \A r \in aged : /\ r \in RemarkRows
                      /\ r.age <= Window => LET old == [r EXCEPT !.age = r.age - 1]
                                            IN  /\ old \in DOMAIN remarks /\ old.by = r.by
                                                /\ old.type = r.type /\ old.age = r.age - 1
                                                /\ old.beside = r.beside
  BY <1>2, <1>3
<1> HIDE DEF aged
<1>6. \A r \in aged : r.age \in Int
  <2>1. aged \subseteq RemarkRows
    BY <1>5
  <2> QED
    BY <2>1 DEF RemarkRows
<1>7. remarks \in [DOMAIN remarks -> {n \in Nat : n > 0}]
  BY <1>2 DEF IsABag
<1>8. DOMAIN remarks' = aged /\ \A r \in aged : remarks'[r] \in {n \in Nat : n > 0}
  BY <1>4, <1>5, <1>6, <1>7
<1>9. IsABag(remarks')
  BY <1>4, <1>8 DEF IsABag
<1>10. RemarksTypeOK'
  BY <1>1, <1>5, <1>8, <1>9 DEF EmissionIInv, RemarksTypeOK, BagToSet, Tick
<1>11. EmissionTyped' /\ OneOfEach' /\ WritesNews' /\ Together'
  BY <1>1 DEF EmissionIInv, EmissionTyped, OneOfEach, WritesNews, Together, Runs
<1>12. SaidOnceOfAll'
  <2> SUFFICES ASSUME NEW r \in aged, NEW q \in aged,
                      r.by = "emission", q.by = "emission", r.type = q.type,
                      r.age <= Window, q.age <= Window
               PROVE  (r = q /\ remarks'[r] = 1) \/ (r.beside /\ q.beside)
    BY <1>8 DEF SaidOnceOfAll
  <2> DEFINE s == [r EXCEPT !.age = r.age - 1]
             t == [q EXCEPT !.age = q.age - 1]
  <2>1. /\ s \in DOMAIN remarks /\ s.by = r.by /\ s.type = r.type /\ s.age = r.age - 1
        /\ s.beside = r.beside /\ t.beside = q.beside
        /\ t \in DOMAIN remarks /\ t.by = q.by /\ t.type = q.type /\ t.age = q.age - 1
    BY <1>5
  <2>2. remarks'[r] = remarks[s]
    BY <1>4, <1>6
  <2>3. s = t => r = q
    <3>1. r \in RemarkRows /\ q \in RemarkRows
      BY <1>5
    <3>2. /\ r = [type |-> r.type, severity |-> r.severity, age |-> r.age, by |-> r.by,
                  beside |-> r.beside] /\ r.age \in Int
          /\ q = [type |-> q.type, severity |-> q.severity, age |-> q.age, by |-> q.by,
                  beside |-> q.beside] /\ q.age \in Int
      BY <3>1 DEF RemarkRows
    <3>3. /\ s.type = r.type /\ s.severity = r.severity /\ s.age = r.age - 1 /\ s.by = r.by /\ s.beside = r.beside
          /\ t.type = q.type /\ t.severity = q.severity /\ t.age = q.age - 1 /\ t.by = q.by /\ t.beside = q.beside
      BY <3>1 DEF RemarkRows
    <3> HIDE DEF s, t
    <3> QED
      BY <3>2, <3>3
  <2>4. s.age <= Window /\ t.age <= Window
    BY <2>1, <1>6
  <2> HIDE DEF s, t
  <2>5. (s = t /\ remarks[s] = 1) \/ (s.beside /\ t.beside)
    BY <2>1, <2>4 DEF EmissionIInv, SaidOnceOfAll
  <2> QED
    BY <2>1, <2>2, <2>3, <2>5
<1> QED
  BY <1>10, <1>11, <1>12 DEF EmissionIInv

LEMMA HappensKeeps == ASSUME EmissionIInv, Happens PROVE EmissionIInv'
<1>1. ASSUME NEW s \in Signals, Becomes(s) PROVE EmissionIInv'
  <2>1. UNCHANGED <<remarks, emission, sweep, notes, deaths, doubles>> /\ signals' = s /\ changes' \in 0..MaxChanges
    BY <1>1 DEF Becomes, EmissionIInv, RemarksTypeOK
  <2> QED
    BY <2>1 DEF EmissionIInv, RemarksTypeOK, EmissionTyped, OneOfEach, WritesNews, News, Together, Runs, SaidOnceOfAll
<1>2. signals \in Signals
  BY DEF EmissionIInv, RemarksTypeOK
<1>3. CASE Becomes([signals EXCEPT !.silent = "no", !.rejected = 0])
  <2>1. 0 \in 0..REJECTION_STREAK
    OBVIOUS
  <2>2. [signals EXCEPT !.silent = "no", !.rejected = 0] \in Signals
    BY <1>2, <2>1 DEF Signals
  <2> QED
    BY <1>1, <1>3, <2>2
<1>4. CASE signals.rejected < REJECTION_STREAK /\ Becomes([signals EXCEPT !.silent = "no", !.rejected = @ + 1])
  <2>1. signals.rejected + 1 \in 0..REJECTION_STREAK
    BY <1>2, <1>4 DEF Signals
  <2>2. [signals EXCEPT !.silent = "no", !.rejected = signals.rejected + 1] \in Signals
    BY <1>2, <2>1 DEF Signals
  <2> QED
    BY <1>1, <1>4, <2>2
<1>5. CASE Becomes([signals EXCEPT !.silent = "yes"])
  BY <1>1, <1>2, <1>5 DEF Signals
<1>6. CASE \E schedule \in {"kept", "behind", "passed"} : Becomes([signals EXCEPT !.schedule = schedule])
  BY <1>1, <1>2, <1>6 DEF Signals
<1>7. CASE Becomes([signals EXCEPT !.state = "approved"])
  BY <1>1, <1>2, <1>7 DEF Signals
<1>8. CASE Becomes([signals EXCEPT !.state = "archived"])
  BY <1>1, <1>2, <1>8 DEF Signals
<1> QED
  BY <1>3, <1>4, <1>5, <1>6, <1>7, <1>8 DEF Happens

LEMMA EmissionStep == ASSUME EmissionIInv, [RemarksNext]_remarksVars PROVE EmissionIInv'
<1>1. ASSUME NEW e \in Emitters, EmissionReads(e) PROVE EmissionIInv'
  BY <1>1, ReadsKeeps
<1>2. ASSUME NEW e \in Emitters, EmissionWrites(e) PROVE EmissionIInv'
  BY <1>2, WritesKeeps
<1>3. ASSUME NEW e \in Emitters, EmissionCommits(e) PROVE EmissionIInv'
  BY <1>3, CommitKeeps
<1>4. ASSUME NEW e \in Emitters, EmissionDies(e) PROVE EmissionIInv'
  <2>1. /\ emission' = [emission EXCEPT ![e] = Rests]
        /\ UNCHANGED <<signals, remarks, sweep, notes, changes, doubles>>
        /\ deaths' \in 0..MaxDeaths
    BY <1>4 DEF EmissionDies, EmissionIInv, RemarksTypeOK
  <2>2. /\ EmissionTyped' /\ OneOfEach' /\ WritesNews' /\ Together' /\ SaidOnceOfAll'
        /\ DOMAIN emission' = Emitters
        /\ \A f \in Emitters : emission'[f].step \in {"rests", "writes", "committing"}
    BY <2>1, OneMoves
  <2> QED
    BY <2>1, <2>2 DEF EmissionIInv, RemarksTypeOK
<1>5. CASE SweepLooks
  BY <1>5 DEF SweepLooks, EmissionIInv, RemarksTypeOK, EmissionTyped, OneOfEach, WritesNews, News, Together, Runs, SaidOnceOfAll
<1>6. CASE SweepSays
  <2>1. Remark(Due("system", "warning"), "sweep", FALSE) \in RemarkRows
        /\ Remark(Due("system", "warning"), "sweep", FALSE).by # "emission"
    BY DEF Remark, Due, RemarkRows, Types, Severities
  <2> QED
    BY <1>6, <2>1, NoteKeeps DEF SweepSays
<1>7. ASSUME NEW severity \in {"warning", "info"}, RecomputeSays(severity) PROVE EmissionIInv'
  <2>1. Remark(Due("system", severity), "recompute", FALSE) \in RemarkRows
        /\ Remark(Due("system", severity), "recompute", FALSE).by # "emission"
    BY DEF Remark, Due, RemarkRows, Types, Severities
  <2>2. sweep \in BOOLEAN
    BY DEF EmissionIInv, RemarksTypeOK
  <2> QED
    BY <1>7, <2>1, <2>2, NoteKeeps DEF RecomputeSays
<1>8. ASSUME NEW severity \in NoteSeverities, NEW type \in NoteTypes, CreateRemark(type, severity)
      PROVE  EmissionIInv'
  <2>1. Remark(Due(type, severity), "member", FALSE) \in RemarkRows
        /\ Remark(Due(type, severity), "member", FALSE).by # "emission"
    BY DEF Remark, Due, RemarkRows
  <2>2. sweep \in BOOLEAN
    BY DEF EmissionIInv, RemarksTypeOK
  <2> QED
    BY <1>8, <2>1, <2>2, NoteKeeps DEF CreateRemark
<1>9. ASSUME NEW severity \in NoteSeverities, NEW remark, UpdateRemark(remark, severity) PROVE EmissionIInv'
  BY <1>9, UpdateKeeps
<1>10. ASSUME NEW remark, DeleteRemark(remark) PROVE EmissionIInv'
  BY <1>10, DeleteKeeps
<1>11. CASE Happens
  BY <1>11, HappensKeeps
<1>12. CASE Tick
  BY <1>12, TickKeeps
<1>13. CASE UNCHANGED remarksVars
  BY <1>13 DEF remarksVars, EmissionIInv, RemarksTypeOK, EmissionTyped, OneOfEach, WritesNews, News, Together, Runs, SaidOnceOfAll
<1> QED
  BY <1>1, <1>2, <1>3, <1>4, <1>5, <1>6, <1>7, <1>8, <1>9, <1>10, <1>11, <1>12, <1>13 DEF RemarksNext

LEMMA InitiallySaidOnce == RemarksInit => EmissionIInv
<1> SUFFICES ASSUME RemarksInit PROVE EmissionIInv
  OBVIOUS
<1>1. DOMAIN EmptyBag = {} /\ IsABag(EmptyBag)
  BY DEF EmptyBag, SetToBag, IsABag
<1>2. /\ 0 \in 0..REJECTION_STREAK /\ 0 \in 0..MaxNotes /\ 0 \in 0..MaxChanges
      /\ 0 \in 0..MaxDeaths /\ 0 \in 0..MaxDoubles
  OBVIOUS
<1>3. signals \in Signals
  BY <1>2 DEF RemarksInit, Signals
<1>4. DOMAIN remarks = {} /\ IsABag(remarks)
  BY <1>1 DEF RemarksInit
<1>5. emission = [e \in Emitters |-> Rests]
  BY DEF RemarksInit
<1>6. \A e \in Emitters : ~Runs(e) /\ emission[e].step = "rests"
  BY <1>5 DEF Runs, Rests
<1>7. EmissionTyped /\ DOMAIN emission = Emitters
  BY <1>5 DEF EmissionTyped
<1>8. RemarksTypeOK
  BY <1>2, <1>3, <1>4, <1>6, <1>7 DEF RemarksInit, RemarksTypeOK, BagToSet
<1> QED
  BY <1>4, <1>6, <1>7, <1>8 DEF EmissionIInv, OneOfEach, WritesNews, Together, SaidOnceOfAll

\* The rows, the signals and the bounds are what they should be, always.
THEOREM RemarksTypeCorrect == RemarksSpec => []RemarksTypeOK
<1>1. EmissionIInv /\ [RemarksNext]_remarksVars => EmissionIInv'
  BY EmissionStep
<1>2. EmissionIInv => RemarksTypeOK
  BY DEF EmissionIInv
<1> QED
  BY InitiallySaidOnce, <1>1, <1>2, PTL DEF RemarksSpec

\* However many emissions run at once, die and are delivered again, and whatever
\* the sweep, recomputes and members write, edit and delete meanwhile: a
\* complaint is repeated inside its window only by emissions each of which ran
\* while another did; one that ran alone repeats nothing and is not repeated
\* (remarks.py:39-42, maintenance.py:146-185).
THEOREM ComplaintsAreSaidOnce == RemarksSpec => []SaidOnce
<1>1. EmissionIInv /\ [RemarksNext]_remarksVars => EmissionIInv'
  BY EmissionStep
<1>2. EmissionIInv => SaidOnce
  BY DEF EmissionIInv, SaidOnceOfAll, SaidOnce, Recent, BagToSet
<1> QED
  BY InitiallySaidOnce, <1>1, <1>2, PTL DEF RemarksSpec

HIDE RemarksAssumption
=============================================================================
