----------------------------- MODULE SiteProofs ------------------------------
(***************************************************************************)
(* The parts of the site that keep their state beside the image pipeline:  *)
(* the schema and its migrations, the members and assets of a project, the *)
(* backup, the wipe of the seed data, the owner's pages and the public     *)
(* feed.  Each part is proved for every value of its constants, in a       *)
(* section of its own:                                                     *)
(*                                                                         *)
(*   - migrations: the schema, its enum types and the rows of predictions  *)
(*     are those of the revision, so that the head is always reached       *)
(*     (MigrationsIInv);                                                   *)
(*   - members and assets: nobody joins unasked, and what is listed has    *)
(*     its bytes.  Three layers: the types (the ids of rows as naturals:   *)
(*     their bound plays no part); the memberships, where a save that was  *)
(*     loaded from an accepted row carries an id its user agreed to        *)
(*     (SavesAgreed); the assets, where an upload has its bytes and no row *)
(*     yet, a flushed deletion still has its row, and neither has a rival  *)
(*     (FilesInFlight);                                                    *)
(*   - backup: a restored row has its bytes, since rows are dumped before  *)
(*     bytes are copied and no byte goes before its row (DumpIsBehind);    *)
(*   - wipe: by the foreign keys of the schema a row goes only with what   *)
(*     it hangs on;                                                        *)
(*   - pages: a refusal is of a page that was out of date, and what the    *)
(*     owner did is shown or is on its way (DashboardIInv);                *)
(*   - feed: a walk sees every project that stays in the feed and in its   *)
(*     place (FeedIInv).                                                   *)
(***************************************************************************)
EXTENDS MCSite, FiniteSetTheorems, SequenceTheorems, WellFoundedInduction, TLAPS

-----------------------------------------------------------------------------
(***************************************************************************)
(* Migrations: wherever earlier commands left the database, `alembic       *)
(* upgrade head` goes through.  The database is at every moment exactly    *)
(* what its revision says (MigrationsIInv), so that no statement of the    *)
(* next one is refused; the fold over the statements of the first revision *)
(* and the fold over the revisions that are left are followed step by step.*)
(***************************************************************************)
\* The first revision makes the tables as models.py declares them, but for two.
LEMMA SameTables ==
  /\ ai_models = AIModelModel /\ users = UserModel /\ projects = ProjectModel
  /\ refresh_tokens = RefreshTokenModel /\ notifications = NotificationModel
  /\ project_members = ProjectMemberModel
  /\ project_progress_snapshots = ProgressSnapshotModel
  /\ reference_assets = ReferenceAssetModel /\ remarks = RemarkModel /\ reports = ReportModel
  /\ audit_logs = AuditLogModel /\ device_events = DeviceEventModel /\ images = ImageModel
  /\ pairing_tokens = PairingTokenModel /\ detection_summaries = DetectionSummaryModel
  /\ detections = DetectionModel /\ contact_messages = ContactMessageModel
  <1>1. ai_models = AIModelModel
    BY DEF ai_models, AIModelModel
  <1>2. users = UserModel
    BY DEF users, UserModel
  <1>3. projects = ProjectModel
    BY DEF projects, ProjectModel
  <1>4. refresh_tokens = RefreshTokenModel
    BY DEF refresh_tokens, RefreshTokenModel
  <1>5. notifications = NotificationModel
    BY DEF notifications, NotificationModel
  <1>6. project_members = ProjectMemberModel
    BY DEF project_members, ProjectMemberModel
  <1>7. project_progress_snapshots = ProgressSnapshotModel
    BY DEF project_progress_snapshots, ProgressSnapshotModel
  <1>8. reference_assets = ReferenceAssetModel
    BY DEF reference_assets, ReferenceAssetModel
  <1>9. remarks = RemarkModel
    BY DEF remarks, RemarkModel
  <1>10. reports = ReportModel
    BY DEF reports, ReportModel
  <1>11. audit_logs = AuditLogModel
    BY DEF audit_logs, AuditLogModel
  <1>12. device_events = DeviceEventModel
    BY DEF device_events, DeviceEventModel
  <1>13. images = ImageModel
    BY DEF images, ImageModel
  <1>14. pairing_tokens = PairingTokenModel
    BY DEF pairing_tokens, PairingTokenModel
  <1>15. detection_summaries = DetectionSummaryModel
    BY DEF detection_summaries, DetectionSummaryModel
  <1>16. detections = DetectionModel
    BY DEF detections, DetectionModel
  <1>17. contact_messages = ContactMessageModel
    BY DEF contact_messages, ContactMessageModel
  <1> QED BY <1>1, <1>2, <1>3, <1>4, <1>5, <1>6, <1>7, <1>8, <1>9, <1>10, <1>11, <1>12,
             <1>13, <1>14, <1>15, <1>16, <1>17

LEMMA Ordered ==
  ASSUME NEW i \in 1..18
  PROVE  i = 1 \/ i = 2 \/ i = 3 \/ i = 4 \/ i = 5 \/ i = 6 \/ i = 7 \/ i = 8 \/ i = 9
         \/ i = 10 \/ i = 11 \/ i = 12 \/ i = 13 \/ i = 14 \/ i = 15 \/ i = 16 \/ i = 17
         \/ i = 18
  OBVIOUS

\* The databases of a command that was refused nothing.  Of a record with several
\* fields replaced at once, each is replaced in turn.
Yes == TRUE
Db(T, Y, M, held) == [tables |-> T, types |-> Y, made |-> M, rows |-> held, ok |-> Yes]

LEMMA DbFields ==
  ASSUME NEW T, NEW Y, NEW M, NEW held
  PROVE  /\ Db(T, Y, M, held).tables = T /\ Db(T, Y, M, held).types = Y
         /\ Db(T, Y, M, held).made = M /\ Db(T, Y, M, held).rows = held
         /\ Db(T, Y, M, held).ok = Yes
  BY DEF Db

LEMMA DbOk ==
  ASSUME NEW T, NEW Y, NEW M, NEW held
  PROVE  [Db(T, Y, M, held) EXCEPT !.ok = Yes] = Db(T, Y, M, held)
  BY DEF Db

LEMMA DbTables ==
  ASSUME NEW T, NEW Y, NEW M, NEW held, NEW T2
  PROVE  [Db(T, Y, M, held) EXCEPT !.tables = T2] = Db(T2, Y, M, held)
  BY DEF Db

LEMMA DbTypes ==
  ASSUME NEW T, NEW Y, NEW M, NEW held, NEW Y2
  PROVE  [Db(T, Y, M, held) EXCEPT !.types = Y2] = Db(T, Y2, M, held)
  BY DEF Db

LEMMA DbMade ==
  ASSUME NEW T, NEW Y, NEW M, NEW held, NEW M2
  PROVE  [Db(T, Y, M, held) EXCEPT !.made = M2] = Db(T, Y, M2, held)
  BY DEF Db

LEMMA DbRows ==
  ASSUME NEW T, NEW Y, NEW M, NEW held, NEW rows2
  PROVE  [Db(T, Y, M, held) EXCEPT !.rows = rows2] = Db(T, Y, M, rows2)
  BY DEF Db

Put(T, name, table) == [t \in DOMAIN T \cup {name} |-> IF t = name THEN table ELSE T[t]]
Cut(T, name) == [t \in DOMAIN T \ {name} |-> T[t]]
RowsLeft(held, name) == IF name = "predictions" THEN {} ELSE held

\* What each statement answers when nothing speaks against it
LEMMA CreateStep ==
  ASSUME NEW T, NEW Y, NEW M, NEW held, NEW name, NEW table, name \notin DOMAIN T,
         (table.types \ M) \cap Y = {}, \A r \in table.refs : r.to \in DOMAIN T
  PROVE  CreateTable(Db(T, Y, M, held), name, table)
           = Db(Put(T, name, table), Y \cup (table.types \ M), M \cup (table.types \ M), held)
  <1> DEFINE d == Db(T, Y, M, held)
             T2 == Put(T, name, table)
             Y2 == Y \cup (table.types \ M)
             M2 == M \cup (table.types \ M)
             fine == d.ok /\ name \notin DOMAIN d.tables
                     /\ (table.types \ d.made) \cap d.types = {}
                     /\ \A r \in table.refs : r.to \in DOMAIN d.tables
  <1>1. d.tables = T /\ d.types = Y /\ d.made = M /\ d.ok = Yes
    BY DbFields
  <1>2. fine = Yes
    BY <1>1 DEF Yes
  <1>3. CreateTable(d, name, table)
          = [d EXCEPT !.ok = fine, !.tables = T2, !.types = Y2, !.made = M2]
    BY <1>1 DEF CreateTable, Put
  <1> HIDE DEF fine, T2, Y2, M2
  <1>4. CreateTable(d, name, table)
          = [d EXCEPT !.ok = Yes, !.tables = T2, !.types = Y2, !.made = M2]
    BY <1>2, <1>3
  <1>5. [d EXCEPT !.ok = Yes, !.tables = T2, !.types = Y2, !.made = M2]
          = Db(T2, Y2, M2, held)
    <2>1. [d EXCEPT !.ok = Yes] = d
      BY DbOk
    <2>2. [d EXCEPT !.tables = T2] = Db(T2, Y, M, held)
      BY DbTables
    <2>3. [Db(T2, Y, M, held) EXCEPT !.types = Y2] = Db(T2, Y2, M, held)
      BY DbTypes
    <2>4. [Db(T2, Y2, M, held) EXCEPT !.made = M2] = Db(T2, Y2, M2, held)
      BY DbMade
    <2> HIDE DEF d
    <2> QED BY <2>1, <2>2, <2>3, <2>4
  <1> QED BY <1>4, <1>5 DEF T2, Y2, M2

LEMMA DropStep ==
  ASSUME NEW T, NEW Y, NEW M, NEW held, NEW name, name \in DOMAIN T,
         \A t \in DOMAIN T \ {name} : \A r \in T[t].refs : r.to # name
  PROVE  DropTable(Db(T, Y, M, held), name) = Db(Cut(T, name), Y, M, RowsLeft(held, name))
  <1> DEFINE d == Db(T, Y, M, held)
             T2 == Cut(T, name)
             kept == RowsLeft(held, name)
             rest == DOMAIN d.tables \ {name}
             fine == d.ok /\ name \in DOMAIN d.tables
                     /\ \A t \in rest : \A r \in d.tables[t].refs : r.to # name
  <1>1. d.tables = T /\ d.rows = held /\ d.ok = Yes
    BY DbFields
  <1>2. fine = Yes
    BY <1>1 DEF Yes
  <1>3. DropTable(d, name) = [d EXCEPT !.ok = fine, !.tables = T2, !.rows = kept]
    BY <1>1 DEF DropTable, Cut, RowsLeft
  <1> HIDE DEF fine, T2, kept
  <1>4. DropTable(d, name) = [d EXCEPT !.ok = Yes, !.tables = T2, !.rows = kept]
    BY <1>2, <1>3
  <1>5. [d EXCEPT !.ok = Yes, !.tables = T2, !.rows = kept] = Db(T2, Y, M, kept)
    <2>1. [d EXCEPT !.ok = Yes] = d
      BY DbOk
    <2>2. [d EXCEPT !.tables = T2] = Db(T2, Y, M, held)
      BY DbTables
    <2>3. [Db(T2, Y, M, held) EXCEPT !.rows = kept] = Db(T2, Y, M, kept)
      BY DbRows
    <2> HIDE DEF d
    <2> QED BY <2>1, <2>2, <2>3
  <1> QED BY <1>4, <1>5 DEF T2, kept

LEMMA TypesStep ==
  ASSUME NEW T, NEW Y, NEW M, NEW held, NEW dropped, DOMAIN T = {}
  PROVE  DropTypes(Db(T, Y, M, held), dropped) = Db(T, Y \ dropped, M, held)
  <1> DEFINE d == Db(T, Y, M, held)
             Y2 == Y \ dropped
             fine == d.ok /\ \A t \in DOMAIN d.tables : d.tables[t].types \cap dropped = {}
  <1>1. d.tables = T /\ d.types = Y /\ d.ok = Yes
    BY DbFields
  <1>2. fine = Yes
    BY <1>1 DEF Yes
  <1>3. DropTypes(d, dropped) = [d EXCEPT !.ok = fine, !.types = Y2]
    BY <1>1 DEF DropTypes
  <1> HIDE DEF fine, Y2
  <1>4. DropTypes(d, dropped) = [d EXCEPT !.ok = Yes, !.types = Y2]
    BY <1>2, <1>3
  <1>5. [d EXCEPT !.ok = Yes] = d
    BY DbOk
  <1>6. [d EXCEPT !.types = Y2] = Db(T, Y2, M, held)
    BY DbTypes
  <1> HIDE DEF d
  <1>7. DropTypes(d, dropped) = Db(T, Y2, M, held)
    BY <1>4, <1>5, <1>6
  <1> QED BY <1>7 DEF d, Y2

\* The statements of the first revision, up and down
LEMMA Nth ==
  /\ CreateOrder[1][1] = "ai_models" /\ CreateOrder[1][2] = ai_models
         /\ DropOrder[18] = "ai_models"
  /\ CreateOrder[2][1] = "users" /\ CreateOrder[2][2] = users /\ DropOrder[17] = "users"
  /\ CreateOrder[3][1] = "projects" /\ CreateOrder[3][2] = projects /\ DropOrder[16] = "projects"
  /\ CreateOrder[4][1] = "refresh_tokens" /\ CreateOrder[4][2] = refresh_tokens
         /\ DropOrder[15] = "refresh_tokens"
  /\ CreateOrder[5][1] = "devices" /\ CreateOrder[5][2] = devices /\ DropOrder[14] = "devices"
  /\ CreateOrder[6][1] = "notifications" /\ CreateOrder[6][2] = notifications
         /\ DropOrder[13] = "notifications"
  /\ CreateOrder[7][1] = "project_members" /\ CreateOrder[7][2] = project_members
         /\ DropOrder[12] = "project_members"
  /\ CreateOrder[8][1] = "project_progress_snapshots"
         /\ CreateOrder[8][2] = project_progress_snapshots
         /\ DropOrder[11] = "project_progress_snapshots"
  /\ CreateOrder[9][1] = "reference_assets" /\ CreateOrder[9][2] = reference_assets
         /\ DropOrder[10] = "reference_assets"
  /\ CreateOrder[10][1] = "remarks" /\ CreateOrder[10][2] = remarks /\ DropOrder[9] = "remarks"
  /\ CreateOrder[11][1] = "reports" /\ CreateOrder[11][2] = reports /\ DropOrder[8] = "reports"
  /\ CreateOrder[12][1] = "audit_logs" /\ CreateOrder[12][2] = audit_logs
         /\ DropOrder[7] = "audit_logs"
  /\ CreateOrder[13][1] = "device_events" /\ CreateOrder[13][2] = device_events
         /\ DropOrder[6] = "device_events"
  /\ CreateOrder[14][1] = "images" /\ CreateOrder[14][2] = images /\ DropOrder[5] = "images"
  /\ CreateOrder[15][1] = "pairing_tokens" /\ CreateOrder[15][2] = pairing_tokens
         /\ DropOrder[4] = "pairing_tokens"
  /\ CreateOrder[16][1] = "detection_summaries" /\ CreateOrder[16][2] = detection_summaries
         /\ DropOrder[3] = "detection_summaries"
  /\ CreateOrder[17][1] = "detections" /\ CreateOrder[17][2] = detections
         /\ DropOrder[2] = "detections"
  /\ CreateOrder[18][1] = "predictions" /\ CreateOrder[18][2] = predictions_m02
         /\ DropOrder[1] = "predictions"
  BY DEF CreateOrder, DropOrder

LEMMA Lengths == DOMAIN CreateOrder = 1..18 /\ DOMAIN DropOrder = 1..18
  BY DEF CreateOrder, DropOrder

LEMMA Named ==
  /\ DOMAIN Metadata = {"ai_models", "users", "projects", "refresh_tokens", "devices",
         "notifications", "project_members", "project_progress_snapshots", "reference_assets",
         "remarks", "reports", "audit_logs", "device_events", "images", "pairing_tokens",
         "detection_summaries", "detections", "predictions", "contact_messages"}
  /\ Metadata["ai_models"] = AIModelModel
  /\ Metadata["users"] = UserModel
  /\ Metadata["projects"] = ProjectModel
  /\ Metadata["refresh_tokens"] = RefreshTokenModel
  /\ Metadata["devices"] = DeviceModel
  /\ Metadata["notifications"] = NotificationModel
  /\ Metadata["project_members"] = ProjectMemberModel
  /\ Metadata["project_progress_snapshots"] = ProgressSnapshotModel
  /\ Metadata["reference_assets"] = ReferenceAssetModel
  /\ Metadata["remarks"] = RemarkModel
  /\ Metadata["reports"] = ReportModel
  /\ Metadata["audit_logs"] = AuditLogModel
  /\ Metadata["device_events"] = DeviceEventModel
  /\ Metadata["images"] = ImageModel
  /\ Metadata["pairing_tokens"] = PairingTokenModel
  /\ Metadata["detection_summaries"] = DetectionSummaryModel
  /\ Metadata["detections"] = DetectionModel
  /\ Metadata["predictions"] = PredictionModel
  /\ Metadata["contact_messages"] = ContactMessageModel
  BY DEF Metadata

\* When a table is created.  Down is up, reversed.
Turn == [ai_models |-> 1, users |-> 2, projects |-> 3, refresh_tokens |-> 4, devices |-> 5,
    notifications |-> 6, project_members |-> 7, project_progress_snapshots |-> 8,
    reference_assets |-> 9, remarks |-> 10, reports |-> 11, audit_logs |-> 12,
    device_events |-> 13, images |-> 14, pairing_tokens |-> 15, detection_summaries |-> 16,
    detections |-> 17, predictions |-> 18]

LEMMA TurnOf ==
  ASSUME NEW n \in 1..18
  PROVE  Turn[CreateOrder[n][1]] = n
  <1>1. Turn["ai_models"] = 1 /\ Turn["users"] = 2 /\ Turn["projects"] = 3
          /\ Turn["refresh_tokens"] = 4 /\ Turn["devices"] = 5 /\ Turn["notifications"] = 6
          /\ Turn["project_members"] = 7 /\ Turn["project_progress_snapshots"] = 8
          /\ Turn["reference_assets"] = 9 /\ Turn["remarks"] = 10 /\ Turn["reports"] = 11
          /\ Turn["audit_logs"] = 12 /\ Turn["device_events"] = 13 /\ Turn["images"] = 14
          /\ Turn["pairing_tokens"] = 15 /\ Turn["detection_summaries"] = 16
          /\ Turn["detections"] = 17 /\ Turn["predictions"] = 18
    BY DEF Turn
  <1> QED BY <1>1, Nth, Ordered

LEMMA Distinct ==
  ASSUME NEW n \in 1..18, NEW m \in 1..18, CreateOrder[n][1] = CreateOrder[m][1]
  PROVE  n = m
  BY TurnOf

LEMMA Reversed ==
  ASSUME NEW n \in 1..18
  PROVE  DropOrder[19 - n] = CreateOrder[n][1]
  BY Nth, Ordered

\* A table refers to tables that were created before it.
LEMMA RefersTo ==
  /\ \A r \in ai_models.refs : r.to \in {}
  /\ \A r \in users.refs : r.to \in {}
  /\ \A r \in projects.refs : r.to \in {"users"}
  /\ \A r \in refresh_tokens.refs : r.to \in {"users"}
  /\ \A r \in devices.refs : r.to \in {"projects"}
  /\ \A r \in notifications.refs : r.to \in {"projects", "users"}
  /\ \A r \in project_members.refs : r.to \in {"projects", "users"}
  /\ \A r \in project_progress_snapshots.refs : r.to \in {"projects"}
  /\ \A r \in reference_assets.refs : r.to \in {"projects", "users"}
  /\ \A r \in remarks.refs : r.to \in {"projects", "users"}
  /\ \A r \in reports.refs : r.to \in {"projects", "users"}
  /\ \A r \in audit_logs.refs : r.to \in {"devices", "users"}
  /\ \A r \in device_events.refs : r.to \in {"devices"}
  /\ \A r \in images.refs : r.to \in {"devices", "projects"}
  /\ \A r \in pairing_tokens.refs : r.to \in {"projects", "users", "devices"}
  /\ \A r \in detection_summaries.refs : r.to \in {"images"}
  /\ \A r \in detections.refs : r.to \in {"images", "ai_models"}
  /\ \A r \in predictions_m02.refs : r.to \in {"images", "ai_models"}
  <1>1. \A r \in ai_models.refs : r.to \in {}
    BY DEF ai_models, Table, Ref
  <1>2. \A r \in users.refs : r.to \in {}
    BY DEF users, Table, Ref
  <1>3. \A r \in projects.refs : r.to \in {"users"}
    BY DEF projects, Table, Ref
  <1>4. \A r \in refresh_tokens.refs : r.to \in {"users"}
    BY DEF refresh_tokens, Table, Ref
  <1>5. \A r \in devices.refs : r.to \in {"projects"}
    BY DEF devices, Table, Ref
  <1>6. \A r \in notifications.refs : r.to \in {"projects", "users"}
    BY DEF notifications, Table, Ref
  <1>7. \A r \in project_members.refs : r.to \in {"projects", "users"}
    BY DEF project_members, Table, Ref
  <1>8. \A r \in project_progress_snapshots.refs : r.to \in {"projects"}
    BY DEF project_progress_snapshots, Table, Ref
  <1>9. \A r \in reference_assets.refs : r.to \in {"projects", "users"}
    BY DEF reference_assets, Table, Ref
  <1>10. \A r \in remarks.refs : r.to \in {"projects", "users"}
    BY DEF remarks, Table, Ref
  <1>11. \A r \in reports.refs : r.to \in {"projects", "users"}
    BY DEF reports, Table, Ref
  <1>12. \A r \in audit_logs.refs : r.to \in {"devices", "users"}
    BY DEF audit_logs, Table, Ref
  <1>13. \A r \in device_events.refs : r.to \in {"devices"}
    BY DEF device_events, Table, Ref
  <1>14. \A r \in images.refs : r.to \in {"devices", "projects"}
    BY DEF images, Table, Ref
  <1>15. \A r \in pairing_tokens.refs : r.to \in {"projects", "users", "devices"}
    BY DEF pairing_tokens, Table, Ref
  <1>16. \A r \in detection_summaries.refs : r.to \in {"images"}
    BY DEF detection_summaries, Table, Ref
  <1>17. \A r \in detections.refs : r.to \in {"images", "ai_models"}
    BY DEF detections, Table, Ref
  <1>18. \A r \in predictions_m02.refs : r.to \in {"images", "ai_models"}
    BY DEF predictions_m02, Table, Ref
  <1> QED BY <1>1, <1>2, <1>3, <1>4, <1>5, <1>6, <1>7, <1>8, <1>9, <1>10, <1>11, <1>12, <1>13,
      <1>14, <1>15, <1>16, <1>17, <1>18

LEMMA RefersBack ==
  ASSUME NEW n \in 1..18, NEW r \in CreateOrder[n][2].refs
  PROVE  \E m \in 1..n - 1 : CreateOrder[m][1] = r.to
  <1>1. CASE n = 1
    BY <1>1, Nth, RefersTo
  <1>2. CASE n = 2
    BY <1>2, Nth, RefersTo
  <1>3. CASE n = 3
    <2>1. r.to = CreateOrder[2][1]
      BY <1>3, Nth, RefersTo
    <2> QED BY <1>3, <2>1
  <1>4. CASE n = 4
    <2>1. r.to = CreateOrder[2][1]
      BY <1>4, Nth, RefersTo
    <2> QED BY <1>4, <2>1
  <1>5. CASE n = 5
    <2>1. r.to = CreateOrder[3][1]
      BY <1>5, Nth, RefersTo
    <2> QED BY <1>5, <2>1
  <1>6. CASE n = 6
    <2>1. r.to = CreateOrder[3][1] \/ r.to = CreateOrder[2][1]
      BY <1>6, Nth, RefersTo
    <2> QED BY <1>6, <2>1
  <1>7. CASE n = 7
    <2>1. r.to = CreateOrder[3][1] \/ r.to = CreateOrder[2][1]
      BY <1>7, Nth, RefersTo
    <2> QED BY <1>7, <2>1
  <1>8. CASE n = 8
    <2>1. r.to = CreateOrder[3][1]
      BY <1>8, Nth, RefersTo
    <2> QED BY <1>8, <2>1
  <1>9. CASE n = 9
    <2>1. r.to = CreateOrder[3][1] \/ r.to = CreateOrder[2][1]
      BY <1>9, Nth, RefersTo
    <2> QED BY <1>9, <2>1
  <1>10. CASE n = 10
    <2>1. r.to = CreateOrder[3][1] \/ r.to = CreateOrder[2][1]
      BY <1>10, Nth, RefersTo
    <2> QED BY <1>10, <2>1
  <1>11. CASE n = 11
    <2>1. r.to = CreateOrder[3][1] \/ r.to = CreateOrder[2][1]
      BY <1>11, Nth, RefersTo
    <2> QED BY <1>11, <2>1
  <1>12. CASE n = 12
    <2>1. r.to = CreateOrder[5][1] \/ r.to = CreateOrder[2][1]
      BY <1>12, Nth, RefersTo
    <2> QED BY <1>12, <2>1
  <1>13. CASE n = 13
    <2>1. r.to = CreateOrder[5][1]
      BY <1>13, Nth, RefersTo
    <2> QED BY <1>13, <2>1
  <1>14. CASE n = 14
    <2>1. r.to = CreateOrder[5][1] \/ r.to = CreateOrder[3][1]
      BY <1>14, Nth, RefersTo
    <2> QED BY <1>14, <2>1
  <1>15. CASE n = 15
    <2>1. r.to = CreateOrder[3][1] \/ r.to = CreateOrder[2][1] \/ r.to = CreateOrder[5][1]
      BY <1>15, Nth, RefersTo
    <2> QED BY <1>15, <2>1
  <1>16. CASE n = 16
    <2>1. r.to = CreateOrder[14][1]
      BY <1>16, Nth, RefersTo
    <2> QED BY <1>16, <2>1
  <1>17. CASE n = 17
    <2>1. r.to = CreateOrder[14][1] \/ r.to = CreateOrder[1][1]
      BY <1>17, Nth, RefersTo
    <2> QED BY <1>17, <2>1
  <1>18. CASE n = 18
    <2>1. r.to = CreateOrder[14][1] \/ r.to = CreateOrder[1][1]
      BY <1>18, Nth, RefersTo
    <2> QED BY <1>18, <2>1
  <1> QED BY Ordered, <1>1, <1>2, <1>3, <1>4, <1>5, <1>6, <1>7, <1>8, <1>9, <1>10, <1>11, <1>12,
      <1>13, <1>14, <1>15, <1>16, <1>17, <1>18

\* Folds.  The library defines them by a recursive function that is chosen; that
\* there is one follows from the least length for which there is none.
LEMMA LeastNatural ==
  ASSUME NEW T \in SUBSET Nat, T # {}
  PROVE  \E k \in T : \A j \in T : k <= j
  <1> DEFINE R == OpToRel(<, Nat)
  <1>1. \A j, k \in Nat : <<j, k>> \in R <=> j < k
    BY DEF OpToRel
  <1>2. IsWellFoundedOn(R, Nat)
    BY NatLessThanWellFounded
  <1> HIDE DEF R
  <1>3. T \subseteq Nat
    OBVIOUS
  <1>4. PICK k \in T : \A j \in T : ~(<<j, k>> \in R)
    BY <1>2, <1>3, WFMin, Zenon
  <1>5. ASSUME NEW j \in T PROVE k <= j
    <2>1. j \in Nat /\ k \in Nat /\ ~(j < k)
      BY <1>1, <1>3, <1>4
    <2> QED BY <2>1
  <1> QED BY <1>5

LEMMA MaxIn ==
  ASSUME NEW n \in Nat, NEW s \in SUBSET (1..n), s # {}
  PROVE  Max(s) \in s /\ \A i \in s : Max(s) >= i
  <1> DEFINE below == {n - i : i \in s}
  <1>1. below \in SUBSET Nat /\ below # {}
    <2>1. \A i \in s : n - i \in Nat
      OBVIOUS
    <2> QED BY <2>1
  <1>2. PICK b \in below : \A c \in below : b <= c
    BY <1>1, LeastNatural
  <1>3. PICK x \in s : b = n - x
    BY <1>2
  <1>4. ASSUME NEW i \in s PROVE x >= i
    <2>1. b <= n - i
      BY <1>2
    <2> QED BY <1>3, <2>1
  <1>5. \E y \in s : \A i \in s : y >= i
    BY <1>4
  <1> HIDE DEF below
  <1> QED BY <1>5 DEF Max

LEMMA MaxOfPrefix ==
  ASSUME NEW k \in Nat, NEW s \in SUBSET (1..k), k \in s
  PROVE  Max(s) = k
  <1>1. s # {}
    OBVIOUS
  <1>2. Max(s) \in s /\ \A i \in s : Max(s) >= i
    BY <1>1, MaxIn
  <1>3. s \subseteq 1..k
    OBVIOUS
  <1>4. Max(s) \in 1..k /\ Max(s) >= k
    BY <1>2, <1>3
  <1> QED BY <1>4

\* The three folds of the migrations: over the tables created, the tables dropped,
\* and the revisions a command applies.
Step(kind, d, x) ==
  CASE kind = "create" -> CreateTable(d, x[1], x[2])
    [] kind = "drop" -> DropTable(d, x)
    [] OTHER -> Upgraded([d EXCEPT !.made = {}], x)

Folded(kind, base, seq, it, s) ==
  IF s = {} THEN base ELSE Step(kind, it[s \ {Max(s)}], seq[Max(s)])
FoldsUpTo(kind, base, seq, it, k) ==
  it = [s \in SUBSET (1..k) |-> Folded(kind, base, seq, it, s)]

LEMMA FoldExists ==
  ASSUME NEW kind, NEW base, NEW seq, NEW n \in Nat
  PROVE  \E it : FoldsUpTo(kind, base, seq, it, n)
  <1> DEFINE T == {k \in Nat : ~ \E it : FoldsUpTo(kind, base, seq, it, k)}
  <1>1. SUFFICES T = {}
    OBVIOUS
  <1>2. SUFFICES ASSUME T # {} PROVE FALSE
    OBVIOUS
  <1>3. PICK k \in T : \A j \in T : k <= j
    BY <1>2, LeastNatural
  <1>4. k # 0
    <2> DEFINE it == [s \in SUBSET (1..0) |-> base]
    <2>1. \A s \in SUBSET (1..0) : s = {}
      OBVIOUS
    <2>2. [s \in SUBSET (1..0) |-> Folded(kind, base, seq, it, s)] = it
      BY <2>1 DEF Folded
    <2> QED BY <2>2 DEF FoldsUpTo
  <1>5. k - 1 \in Nat /\ k - 1 \notin T
    BY <1>3, <1>4
  <1>6. PICK f : FoldsUpTo(kind, base, seq, f, k - 1)
    BY <1>5
  <1> DEFINE j == k - 1
             g == [s \in SUBSET (1..k) |->
                     IF k \in s THEN Step(kind, f[s \ {k}], seq[k]) ELSE f[s]]
  <1>7. ASSUME NEW s \in SUBSET (1..k) PROVE g[s] = Folded(kind, base, seq, g, s)
    <2>1. CASE k \in s
      <3>1. Max(s) = k
        BY <1>5, <2>1, MaxOfPrefix
      <3>2. s \ {k} \in SUBSET (1..k) /\ k \notin s \ {k}
        OBVIOUS
      <3>3. g[s \ {k}] = f[s \ {k}]
        BY <3>2
      <3> QED BY <2>1, <3>1, <3>3 DEF Folded
    <2>2. CASE k \notin s
      <3>1. s \in SUBSET (1..k - 1)
        BY <1>3, <2>2
      <3>2. f[s] = Folded(kind, base, seq, f, s)
        BY <1>6, <3>1 DEF FoldsUpTo
      <3>3. CASE s = {}
        BY <2>2, <3>2, <3>3 DEF Folded
      <3>4. CASE s # {}
        <4>1. Max(s) \in s
          BY <1>5, <3>1, <3>4, MaxIn
        <4>2. s \ {Max(s)} \in SUBSET (1..k) /\ k \notin s \ {Max(s)}
          BY <2>2
        <4>3. g[s \ {Max(s)}] = f[s \ {Max(s)}]
          BY <4>2
        <4> QED BY <2>2, <3>2, <3>4, <4>3 DEF Folded
      <3> QED BY <3>3, <3>4
    <2> QED BY <2>1, <2>2
  <1>8. g = [s \in SUBSET (1..k) |-> Folded(kind, base, seq, g, s)]
    <2>1. g = [s \in SUBSET (1..k) |-> g[s]]
      OBVIOUS
    <2> HIDE DEF g
    <2> QED BY <1>7, <2>1
  <1> QED BY <1>3, <1>8 DEF FoldsUpTo

LEMMA FoldStarts ==
  ASSUME NEW kind, NEW base, NEW seq, NEW it, NEW n \in Nat, FoldsUpTo(kind, base, seq, it, n)
  PROVE  it[1..0] = base
  <1>1. 1..0 = {} /\ 1..0 \in SUBSET (1..n)
    OBVIOUS
  <1>2. it[1..0] = Folded(kind, base, seq, it, 1..0)
    BY <1>1 DEF FoldsUpTo
  <1> QED BY <1>1, <1>2 DEF Folded

LEMMA FoldContinues ==
  ASSUME NEW kind, NEW base, NEW seq, NEW it, NEW n \in Nat, FoldsUpTo(kind, base, seq, it, n),
         NEW k \in 1..n
  PROVE  it[1..k] = Step(kind, it[1..k - 1], seq[k])
  <1>1. 1..k \in SUBSET (1..n) /\ k \in Nat /\ k >= 1
    OBVIOUS
  <1>2. it[1..k] = Folded(kind, base, seq, it, 1..k)
    BY <1>1 DEF FoldsUpTo
  <1>3. Max(1..k) = k
    <2>1. k \in 1..k /\ 1..k \in SUBSET (1..k)
      BY <1>1
    <2> QED BY <1>1, <2>1, MaxOfPrefix
  <1>4. (1..k) \ {k} = 1..k - 1 /\ 1..k # {}
    <2>1. \A i : i \in (1..k) \ {k} <=> i \in 1..k - 1
      BY <1>1
    <2>2. k \in 1..k
      BY <1>1
    <2> QED BY <2>1, <2>2
  <1> QED BY <1>2, <1>3, <1>4 DEF Folded

LEMMA CreatesAll ==
  ASSUME NEW d
  PROVE  \E it : FoldsUpTo("create", d, CreateOrder, it, 18) /\ upgrade_m02(d) = it[1..18]
  <1> DEFINE it == CHOOSE it : it = [s \in SUBSET (1..18) |->
                      IF s = {} THEN d
                      ELSE CreateTable(it[s \ {Max(s)}], CreateOrder[Max(s)][1],
                          CreateOrder[Max(s)][2])]
  <1>1. \A e, x : Step("create", e, x) = CreateTable(e, x[1], x[2])
    BY DEF Step
  <1>0. \A f, s : Folded("create", d, CreateOrder, f, s) = IF s = {} THEN d
          ELSE CreateTable(f[s \ {Max(s)}], CreateOrder[Max(s)][1], CreateOrder[Max(s)][2])
    BY <1>1 DEF Folded
  <1>2. \E f : f = [s \in SUBSET (1..18) |->
                      IF s = {} THEN d
                      ELSE CreateTable(f[s \ {Max(s)}], CreateOrder[Max(s)][1],
                          CreateOrder[Max(s)][2])]
    <2>1. PICK f : FoldsUpTo("create", d, CreateOrder, f, 18)
      BY FoldExists
    <2> DEFINE g == [s \in SUBSET (1..18) |-> IF s = {} THEN d
        ELSE CreateTable(f[s \ {Max(s)}], CreateOrder[Max(s)][1], CreateOrder[Max(s)][2])]
    <2>2. f = [s \in SUBSET (1..18) |-> Folded("create", d, CreateOrder, f, s)]
      BY <2>1 DEF FoldsUpTo
    <2>3. \A s \in SUBSET (1..18) : f[s] = g[s]
      BY <1>0, <2>2
    <2>4. f = [s \in SUBSET (1..18) |-> f[s]] /\ g = [s \in SUBSET (1..18) |-> g[s]]
      BY <2>2
    <2> HIDE DEF g
    <2>5. f = g
      BY <2>3, <2>4
    <2> QED BY <2>5 DEF g
  <1>3. it = [s \in SUBSET (1..18) |->
                      IF s = {} THEN d
                      ELSE CreateTable(it[s \ {Max(s)}], CreateOrder[Max(s)][1],
                          CreateOrder[Max(s)][2])]
    BY <1>2
  <1>4. upgrade_m02(d) = it[1..18]
    BY Lengths DEF upgrade_m02, FoldLeft, MapThenFoldSet
  <1> HIDE DEF it
  <1>5. FoldsUpTo("create", d, CreateOrder, it, 18)
    <2> DEFINE g == [s \in SUBSET (1..18) |-> Folded("create", d, CreateOrder, it, s)]
    <2>1. \A s \in SUBSET (1..18) : it[s] = g[s]
      BY <1>0, <1>3
    <2>2. it = [s \in SUBSET (1..18) |-> it[s]] /\ g = [s \in SUBSET (1..18) |-> g[s]]
      BY <1>3
    <2> HIDE DEF g
    <2>3. it = g
      BY <2>1, <2>2
    <2> QED BY <2>3 DEF FoldsUpTo, g
  <1> QED BY <1>4, <1>5

LEMMA DropsAll ==
  ASSUME NEW d
  PROVE  \E it : FoldsUpTo("drop", d, DropOrder, it, 18)
                 /\ downgrade_m02(d) = DropTypes(it[1..18], ENUM_TYPES)
  <1> DEFINE it == CHOOSE it : it = [s \in SUBSET (1..18) |->
                      IF s = {} THEN d
                      ELSE DropTable(it[s \ {Max(s)}], DropOrder[Max(s)])]
  <1>1. \A e, x : Step("drop", e, x) = DropTable(e, x)
    BY DEF Step
  <1>0. \A f, s : Folded("drop", d, DropOrder, f, s) = IF s = {} THEN d
          ELSE DropTable(f[s \ {Max(s)}], DropOrder[Max(s)])
    BY <1>1 DEF Folded
  <1>2. \E f : f = [s \in SUBSET (1..18) |->
                      IF s = {} THEN d
                      ELSE DropTable(f[s \ {Max(s)}], DropOrder[Max(s)])]
    <2>1. PICK f : FoldsUpTo("drop", d, DropOrder, f, 18)
      BY FoldExists
    <2> DEFINE g == [s \in SUBSET (1..18) |-> IF s = {} THEN d
        ELSE DropTable(f[s \ {Max(s)}], DropOrder[Max(s)])]
    <2>2. f = [s \in SUBSET (1..18) |-> Folded("drop", d, DropOrder, f, s)]
      BY <2>1 DEF FoldsUpTo
    <2>3. \A s \in SUBSET (1..18) : f[s] = g[s]
      BY <1>0, <2>2
    <2>4. f = [s \in SUBSET (1..18) |-> f[s]] /\ g = [s \in SUBSET (1..18) |-> g[s]]
      BY <2>2
    <2> HIDE DEF g
    <2>5. f = g
      BY <2>3, <2>4
    <2> QED BY <2>5 DEF g
  <1>3. it = [s \in SUBSET (1..18) |->
                      IF s = {} THEN d
                      ELSE DropTable(it[s \ {Max(s)}], DropOrder[Max(s)])]
    BY <1>2
  <1>4. downgrade_m02(d) = DropTypes(it[1..18], ENUM_TYPES)
    BY Lengths DEF downgrade_m02, FoldLeft, MapThenFoldSet
  <1> HIDE DEF it
  <1>5. FoldsUpTo("drop", d, DropOrder, it, 18)
    <2> DEFINE g == [s \in SUBSET (1..18) |-> Folded("drop", d, DropOrder, it, s)]
    <2>1. \A s \in SUBSET (1..18) : it[s] = g[s]
      BY <1>0, <1>3
    <2>2. it = [s \in SUBSET (1..18) |-> it[s]] /\ g = [s \in SUBSET (1..18) |-> g[s]]
      BY <1>3
    <2> HIDE DEF g
    <2>3. it = g
      BY <2>1, <2>2
    <2> QED BY <2>3 DEF FoldsUpTo, g
  <1> QED BY <1>4, <1>5

UpgradedThrough(d, seq) == FoldLeft(LAMBDA e, to : Upgraded([e EXCEPT !.made = {}], to), d, seq)

LEMMA UpgradesAll ==
  ASSUME NEW d, NEW seq, NEW n \in Nat, DOMAIN seq = 1..n
  PROVE  \E it : FoldsUpTo("upgrade", d, seq, it, n)
                 /\ UpgradedThrough(d, seq) = it[1..n]
  <1> DEFINE it == CHOOSE it : it = [s \in SUBSET (1..n) |->
                      IF s = {} THEN d
                      ELSE Upgraded([it[s \ {Max(s)}] EXCEPT !.made = {}], seq[Max(s)])]
  <1>1. \A e, x : Step("upgrade", e, x) = Upgraded([e EXCEPT !.made = {}], x)
    BY DEF Step
  <1>0. \A f, s : Folded("upgrade", d, seq, f, s) = IF s = {} THEN d
          ELSE Upgraded([f[s \ {Max(s)}] EXCEPT !.made = {}], seq[Max(s)])
    BY <1>1 DEF Folded
  <1>2. \E f : f = [s \in SUBSET (1..n) |->
                      IF s = {} THEN d
                      ELSE Upgraded([f[s \ {Max(s)}] EXCEPT !.made = {}], seq[Max(s)])]
    <2>1. PICK f : FoldsUpTo("upgrade", d, seq, f, n)
      BY FoldExists
    <2> DEFINE g == [s \in SUBSET (1..n) |-> IF s = {} THEN d
        ELSE Upgraded([f[s \ {Max(s)}] EXCEPT !.made = {}], seq[Max(s)])]
    <2>2. f = [s \in SUBSET (1..n) |-> Folded("upgrade", d, seq, f, s)]
      BY <2>1 DEF FoldsUpTo
    <2>3. \A s \in SUBSET (1..n) : f[s] = g[s]
      BY <1>0, <2>2
    <2>4. f = [s \in SUBSET (1..n) |-> f[s]] /\ g = [s \in SUBSET (1..n) |-> g[s]]
      BY <2>2
    <2> HIDE DEF g
    <2>5. f = g
      BY <2>3, <2>4
    <2> QED BY <2>5 DEF g
  <1>3. it = [s \in SUBSET (1..n) |->
                      IF s = {} THEN d
                      ELSE Upgraded([it[s \ {Max(s)}] EXCEPT !.made = {}], seq[Max(s)])]
    BY <1>2
  <1>4. UpgradedThrough(d, seq) = it[1..n]
    BY DEF UpgradedThrough, FoldLeft, MapThenFoldSet
  <1> HIDE DEF it
  <1>5. FoldsUpTo("upgrade", d, seq, it, n)
    <2> DEFINE g == [s \in SUBSET (1..n) |-> Folded("upgrade", d, seq, it, s)]
    <2>1. \A s \in SUBSET (1..n) : it[s] = g[s]
      BY <1>0, <1>3
    <2>2. it = [s \in SUBSET (1..n) |-> it[s]] /\ g = [s \in SUBSET (1..n) |-> g[s]]
      BY <1>3
    <2> HIDE DEF g
    <2>3. it = g
      BY <2>1, <2>2
    <2> QED BY <2>3 DEF FoldsUpTo, g
  <1> QED BY <1>4, <1>5

\* The schema of each revision: the tables there are, as they are then
AllNames == DOMAIN Metadata
NamesAt(r) == IF r = 0 THEN {} ELSE IF r = 1 THEN AllNames \ {"contact_messages"} ELSE AllNames
TableAt(r, t) == IF t = "devices" /\ r < 3 THEN devices
                 ELSE IF t = "predictions" /\ r < 4 THEN predictions_m02 ELSE Metadata[t]
SchemaAt(r) == [t \in NamesAt(r) |-> TableAt(r, t)]
AllTypes == UNION {Metadata[t].types : t \in AllNames}
TypesAt(r) == IF r = 0 THEN {} ELSE AllTypes

UpTo(k) == {CreateOrder[n][1] : n \in 1..k}
TypesUpTo(k) == UNION {CreateOrder[n][2].types : n \in 1..k}

LEMMA Tabled ==
  ASSUME NEW n \in 1..18
  PROVE  CreateOrder[n][1] \in NamesAt(1) /\ CreateOrder[n][2] = TableAt(1, CreateOrder[n][1])
  BY Nth, Named, SameTables, Ordered DEF NamesAt, TableAt, AllNames

LEMMA FirstNames == UpTo(18) = NamesAt(1)
  <1>1. \A t \in NamesAt(1) : \E n \in 1..18 : CreateOrder[n][1] = t
    <2> SUFFICES ASSUME NEW t \in NamesAt(1) PROVE \E n \in 1..18 : CreateOrder[n][1] = t
      OBVIOUS
    <2> QED BY Nth, Named DEF NamesAt, AllNames
  <1> QED BY <1>1, Tabled DEF UpTo

LEMMA SameTypes ==
  /\ devices.types = DeviceModel.types
  /\ predictions_m02.types = PredictionModel.types
  /\ contact_messages.types = {}
  BY DEF devices, DeviceModel, predictions_m02, PredictionModel, contact_messages, Table

LEMMA FirstTypes == TypesUpTo(18) = AllTypes
  <1>1. \A n \in 1..18 : CreateOrder[n][1] \in AllNames
                         /\ CreateOrder[n][2].types = Metadata[CreateOrder[n][1]].types
    <2> SUFFICES ASSUME NEW n \in 1..18
                 PROVE CreateOrder[n][1] \in AllNames
                       /\ CreateOrder[n][2].types = Metadata[CreateOrder[n][1]].types
      OBVIOUS
    <2>1. CreateOrder[n][1] \in AllNames /\ CreateOrder[n][2] = TableAt(1, CreateOrder[n][1])
      BY Tabled DEF NamesAt
    <2> QED BY <2>1, SameTypes, Named DEF TableAt
  <1>2. \A t \in AllNames : t = "contact_messages" \/ \E n \in 1..18 : CreateOrder[n][1] = t
    BY FirstNames DEF UpTo, NamesAt
  <1>3. Metadata["contact_messages"].types = {}
    BY Named, SameTables, SameTypes
  <1>4. TypesUpTo(18) \subseteq AllTypes
    BY <1>1 DEF TypesUpTo, AllTypes
  <1>5. ASSUME NEW y \in AllTypes PROVE y \in TypesUpTo(18)
    <2>1. PICK t \in AllNames : y \in Metadata[t].types
      BY DEF AllTypes
    <2>2. PICK n \in 1..18 : CreateOrder[n][1] = t
      BY <1>2, <1>3, <2>1
    <2> QED BY <1>1, <2>1, <2>2 DEF TypesUpTo
  <1> QED BY <1>4, <1>5

\* The first k tables are there; and, below, the last k are gone.
Created(k, held) == Db([t \in UpTo(k) |-> TableAt(1, t)], TypesUpTo(k), TypesUpTo(k), held)

LEMMA CreateNext ==
  ASSUME NEW k \in 1..18, NEW held
  PROVE  CreateTable(Created(k - 1, held), CreateOrder[k][1], CreateOrder[k][2])
             = Created(k, held)
  <1> DEFINE T == [t \in UpTo(k - 1) |-> TableAt(1, t)]
             Y == TypesUpTo(k - 1)
             name == CreateOrder[k][1]
             table == CreateOrder[k][2]
             T2 == Put(T, name, table)
             Y2 == Y \cup (table.types \ Y)
  <1>0. 1..k = 1..(k - 1) \cup {k}
    OBVIOUS
  <1>1. name \notin DOMAIN T
    BY Distinct DEF UpTo
  <1>2. \A r \in table.refs : r.to \in DOMAIN T
    BY RefersBack DEF UpTo
  <1>3. T2 = [t \in UpTo(k) |-> TableAt(1, t)]
    <2>1. UpTo(k) = UpTo(k - 1) \cup {name}
      BY <1>0 DEF UpTo
    <2>2. table = TableAt(1, name)
      BY Tabled
    <2>3. DOMAIN T = UpTo(k - 1)
      OBVIOUS
    <2> HIDE DEF name, table
    <2> QED BY <2>1, <2>2, <2>3 DEF Put
  <1>4. Y2 = TypesUpTo(k)
    BY <1>0 DEF TypesUpTo
  <1> HIDE DEF T, name, table, Y
  <1>5. CreateTable(Db(T, Y, Y, held), name, table) = Db(T2, Y2, Y2, held)
    <2>1. (table.types \ Y) \cap Y = {}
      OBVIOUS
    <2> QED BY <1>1, <1>2, <2>1, CreateStep
  <1> HIDE DEF T2, Y2
  <1>6. CreateTable(Db(T, Y, Y, held), name, table) = Created(k, held)
    BY <1>3, <1>4, <1>5 DEF Created
  <1> QED BY <1>6 DEF Created, T, Y, name, table

LEMMA CreatesSchema ==
  ASSUME NEW held
  PROVE  upgrade_m02(Db(SchemaAt(0), TypesAt(0), {}, held))
             = Db(SchemaAt(1), TypesAt(1), AllTypes, held)
  <1>1. Db(SchemaAt(0), TypesAt(0), {}, held) = Created(0, held)
    <2>1. UpTo(0) = {} /\ TypesUpTo(0) = {}
      BY DEF UpTo, TypesUpTo
    <2> QED BY <2>1 DEF Created, SchemaAt, TypesAt, NamesAt
  <1>2. Db(SchemaAt(1), TypesAt(1), AllTypes, held) = Created(18, held)
    BY FirstNames, FirstTypes DEF Created, SchemaAt, TypesAt
  <1>3. PICK it : FoldsUpTo("create", Created(0, held), CreateOrder, it, 18)
                  /\ upgrade_m02(Created(0, held)) = it[1..18]
    BY CreatesAll
  <1> DEFINE T == {k \in 0..18 : it[1..k] # Created(k, held)}
  <1>4. T = {}
    <2> SUFFICES ASSUME T # {} PROVE FALSE
      OBVIOUS
    <2>1. PICK k \in T : \A j \in T : k <= j
      <3>1. T \in SUBSET Nat
        OBVIOUS
      <3> HIDE DEF T
      <3> QED BY <3>1, LeastNatural
    <2>2. k # 0
      BY <1>3, <2>1, FoldStarts
    <2>3. k \in 1..18 /\ k - 1 \in 0..18 /\ k - 1 \notin T
      BY <2>1, <2>2
    <2>4. it[1..k - 1] = Created(k - 1, held)
      BY <2>3
    <2>5. it[1..k] = Step("create", it[1..k - 1], CreateOrder[k])
      BY <1>3, <2>3, FoldContinues
    <2>6. it[1..k] = CreateTable(Created(k - 1, held), CreateOrder[k][1], CreateOrder[k][2])
      BY <2>4, <2>5 DEF Step
    <2> QED BY <2>1, <2>3, <2>6, CreateNext
  <1>5. it[1..18] = Created(18, held)
    <2>1. \A k \in 0..18 : k \notin T
      BY <1>4
    <2>2. \A k \in 0..18 : it[1..k] = Created(k, held)
      BY <2>1
    <2>3. 18 \in 0..18
      OBVIOUS
    <2> QED BY <2>2, <2>3
  <1> QED BY <1>1, <1>2, <1>3, <1>5

\* ENUM_TYPES forgets none: a type that is left over would be refused at the next upgrade.
LEMMA TypesAreListed ==
  /\ ai_models.types \subseteq ENUM_TYPES
  /\ users.types \subseteq ENUM_TYPES
  /\ projects.types \subseteq ENUM_TYPES
  /\ refresh_tokens.types \subseteq ENUM_TYPES
  /\ devices.types \subseteq ENUM_TYPES
  /\ notifications.types \subseteq ENUM_TYPES
  /\ project_members.types \subseteq ENUM_TYPES
  /\ project_progress_snapshots.types \subseteq ENUM_TYPES
  /\ reference_assets.types \subseteq ENUM_TYPES
  /\ remarks.types \subseteq ENUM_TYPES
  /\ reports.types \subseteq ENUM_TYPES
  /\ audit_logs.types \subseteq ENUM_TYPES
  /\ device_events.types \subseteq ENUM_TYPES
  /\ images.types \subseteq ENUM_TYPES
  /\ pairing_tokens.types \subseteq ENUM_TYPES
  /\ detection_summaries.types \subseteq ENUM_TYPES
  /\ detections.types \subseteq ENUM_TYPES
  /\ predictions_m02.types \subseteq ENUM_TYPES
  <1>1. ai_models.types \subseteq ENUM_TYPES
    BY DEF ai_models, Table, ENUM_TYPES
  <1>2. users.types \subseteq ENUM_TYPES
    BY DEF users, Table, ENUM_TYPES
  <1>3. projects.types \subseteq ENUM_TYPES
    BY DEF projects, Table, ENUM_TYPES
  <1>4. refresh_tokens.types \subseteq ENUM_TYPES
    BY DEF refresh_tokens, Table, ENUM_TYPES
  <1>5. devices.types \subseteq ENUM_TYPES
    BY DEF devices, Table, ENUM_TYPES
  <1>6. notifications.types \subseteq ENUM_TYPES
    BY DEF notifications, Table, ENUM_TYPES
  <1>7. project_members.types \subseteq ENUM_TYPES
    BY DEF project_members, Table, ENUM_TYPES
  <1>8. project_progress_snapshots.types \subseteq ENUM_TYPES
    BY DEF project_progress_snapshots, Table, ENUM_TYPES
  <1>9. reference_assets.types \subseteq ENUM_TYPES
    BY DEF reference_assets, Table, ENUM_TYPES
  <1>10. remarks.types \subseteq ENUM_TYPES
    BY DEF remarks, Table, ENUM_TYPES
  <1>11. reports.types \subseteq ENUM_TYPES
    BY DEF reports, Table, ENUM_TYPES
  <1>12. audit_logs.types \subseteq ENUM_TYPES
    BY DEF audit_logs, Table, ENUM_TYPES
  <1>13. device_events.types \subseteq ENUM_TYPES
    BY DEF device_events, Table, ENUM_TYPES
  <1>14. images.types \subseteq ENUM_TYPES
    BY DEF images, Table, ENUM_TYPES
  <1>15. pairing_tokens.types \subseteq ENUM_TYPES
    BY DEF pairing_tokens, Table, ENUM_TYPES
  <1>16. detection_summaries.types \subseteq ENUM_TYPES
    BY DEF detection_summaries, Table, ENUM_TYPES
  <1>17. detections.types \subseteq ENUM_TYPES
    BY DEF detections, Table, ENUM_TYPES
  <1>18. predictions_m02.types \subseteq ENUM_TYPES
    BY DEF predictions_m02, Table, ENUM_TYPES
  <1> QED BY <1>1, <1>2, <1>3, <1>4, <1>5, <1>6, <1>7, <1>8, <1>9, <1>10, <1>11, <1>12, <1>13,
      <1>14, <1>15, <1>16, <1>17, <1>18

LEMMA AllTypesListed == AllTypes \subseteq ENUM_TYPES
  <1>1. \A n \in 1..18 : CreateOrder[n][2].types \subseteq ENUM_TYPES
    BY TypesAreListed, Nth, Ordered
  <1>2. TypesUpTo(18) \subseteq ENUM_TYPES
    BY <1>1 DEF TypesUpTo
  <1> QED BY <1>2, FirstTypes

Dropped(k, Y, held) ==
  Db([t \in UpTo(18 - k) |-> TableAt(1, t)], Y, {}, IF k = 0 THEN held ELSE {})

LEMMA DropNext ==
  ASSUME NEW k \in 1..18, NEW Y, NEW held
  PROVE  DropTable(Dropped(k - 1, Y, held), DropOrder[k]) = Dropped(k, Y, held)
  <1> DEFINE n == 19 - k
             T == [t \in UpTo(n) |-> TableAt(1, t)]
             name == DropOrder[k]
             before == IF k - 1 = 0 THEN held ELSE {}
             after == IF k = 0 THEN held ELSE {}
  <1>1. n \in 1..18 /\ 18 - (k - 1) = n /\ 18 - k = n - 1 /\ 19 - n = k
    OBVIOUS
  <1>2. name = CreateOrder[n][1]
    BY <1>1, Reversed
  <1>3. UpTo(n) = UpTo(n - 1) \cup {name} /\ name \notin UpTo(n - 1)
    <2>1. 1..n = 1..(n - 1) \cup {n} /\ \A m \in 1..(n - 1) : m \in 1..18 /\ m # n
      BY <1>1
    <2>2. UpTo(n) = UpTo(n - 1) \cup {name}
      BY <1>2, <2>1 DEF UpTo
    <2>3. name \notin UpTo(n - 1)
      BY <1>1, <1>2, <2>1, Distinct DEF UpTo
    <2> QED BY <2>2, <2>3
  <1>4. RowsLeft(before, name) = after
    <2>1. CASE k = 1
      BY <2>1, Nth DEF RowsLeft
    <2>2. CASE k # 1
      BY <2>2 DEF RowsLeft
    <2> QED BY <2>1, <2>2
  <1>5. ASSUME NEW t \in UpTo(n) \ {name}, NEW r \in T[t].refs PROVE r.to # name
    <2>1. t \in UpTo(n - 1)
      BY <1>3
    <2>2. PICK m \in 1..(n - 1) : CreateOrder[m][1] = t
      BY <2>1 DEF UpTo
    <2>3. m \in 1..18 /\ m < n
      BY <1>1, <2>2
    <2>4. T[t] = CreateOrder[m][2]
      BY <2>2, <2>3, Tabled
    <2>5. PICK j \in 1..(m - 1) : CreateOrder[j][1] = r.to
      BY <2>3, <2>4, RefersBack
    <2>6. j \in 1..18 /\ j # n
      BY <1>1, <2>3
    <2> QED BY <1>1, <1>2, <2>5, <2>6, Distinct
  <1> HIDE DEF n, name, before, after
  <1>6. Cut(T, name) = [t \in UpTo(n - 1) |-> TableAt(1, t)]
    BY <1>3 DEF Cut
  <1>7. DOMAIN T = UpTo(n)
    OBVIOUS
  <1> HIDE DEF T
  <1>8. name \in DOMAIN T /\ \A t \in DOMAIN T \ {name} : \A r \in T[t].refs : r.to # name
    BY <1>3, <1>5, <1>7
  <1>9. DropTable(Db(T, Y, {}, before), name) = Db(Cut(T, name), Y, {}, after)
    BY <1>4, <1>8, DropStep
  <1>10. DropTable(Db(T, Y, {}, before), name) = Dropped(k, Y, held)
    BY <1>1, <1>6, <1>9 DEF Dropped, after
  <1> QED BY <1>1, <1>10 DEF Dropped, T, before, name

LEMMA DropsSchema ==
  ASSUME NEW held
  PROVE  downgrade_m02(Db(SchemaAt(1), TypesAt(1), {}, held))
             = Db(SchemaAt(0), TypesAt(0), {}, {})
  <1> DEFINE Y == TypesAt(1)
  <1>1. Db(SchemaAt(1), Y, {}, held) = Dropped(0, Y, held)
    BY FirstNames DEF Dropped, SchemaAt
  <1> DEFINE base == Dropped(0, Y, held)
  <1>2. PICK it : FoldsUpTo("drop", base, DropOrder, it, 18)
                  /\ downgrade_m02(base) = DropTypes(it[1..18], ENUM_TYPES)
    BY DropsAll
  <1> DEFINE T == {k \in 0..18 : it[1..k] # Dropped(k, Y, held)}
  <1>3. T = {}
    <2> SUFFICES ASSUME T # {} PROVE FALSE
      OBVIOUS
    <2>1. PICK k \in T : \A j \in T : k <= j
      <3>1. T \in SUBSET Nat
        OBVIOUS
      <3> HIDE DEF T
      <3> QED BY <3>1, LeastNatural
    <2>2. k # 0
      BY <1>2, <2>1, FoldStarts
    <2>3. k \in 1..18 /\ k - 1 \in 0..18 /\ k - 1 \notin T
      BY <2>1, <2>2
    <2>4. it[1..k - 1] = Dropped(k - 1, Y, held)
      BY <2>3
    <2>5. it[1..k] = Step("drop", it[1..k - 1], DropOrder[k])
      BY <1>2, <2>3, FoldContinues
    <2>6. it[1..k] = DropTable(Dropped(k - 1, Y, held), DropOrder[k])
      BY <2>4, <2>5 DEF Step
    <2>7. it[1..k] = Dropped(k, Y, held)
      BY <2>3, <2>6, DropNext
    <2> QED BY <2>1, <2>7
  <1>4. it[1..18] = Dropped(18, Y, held)
    <2>1. \A k \in 0..18 : k \notin T
      BY <1>3
    <2>2. \A k \in 0..18 : it[1..k] = Dropped(k, Y, held)
      BY <2>1
    <2>3. 18 \in 0..18
      OBVIOUS
    <2> QED BY <2>2, <2>3
  <1> HIDE DEF T
  <1> DEFINE empty == SchemaAt(0)
  <1>5. DOMAIN empty = {} /\ Dropped(18, Y, held) = Db(empty, Y, {}, {})
    <2>1. UpTo(0) = {} /\ NamesAt(0) = {} /\ 18 - 18 = 0
      BY DEF UpTo, NamesAt
    <2> QED BY <2>1 DEF Dropped, SchemaAt
  <1>6. Y \ ENUM_TYPES = TypesAt(0)
    BY AllTypesListed DEF TypesAt
  <1> HIDE DEF empty, Y
  <1>7. DropTypes(Db(empty, Y, {}, {}), ENUM_TYPES) = Db(empty, Y \ ENUM_TYPES, {}, {})
    BY <1>5, TypesStep
  <1>8. downgrade_m02(Dropped(0, Y, held)) = Db(empty, TypesAt(0), {}, {})
    BY <1>2, <1>4, <1>5, <1>6, <1>7
  <1> QED BY <1>1, <1>8 DEF Y, empty

LEMMA TableFields ==
  ASSUME NEW R, NEW K, NEW C, NEW E, NEW L
  PROVE  /\ Table(R, K, C, E, L).refs = R /\ Table(R, K, C, E, L).keys = K
         /\ Table(R, K, C, E, L).checks = C /\ Table(R, K, C, E, L).types = E
         /\ Table(R, K, C, E, L).columns = L
  BY DEF Table

LEMMA TableColumns ==
  ASSUME NEW R, NEW K, NEW C, NEW E, NEW L, NEW L2
  PROVE  [Table(R, K, C, E, L) EXCEPT !.columns = L2] = Table(R, K, C, E, L2)
  BY DEF Table

LEMMA TableKeys ==
  ASSUME NEW R, NEW K, NEW C, NEW E, NEW L, NEW K2
  PROVE  [Table(R, K, C, E, L) EXCEPT !.keys = K2] = Table(R, K2, C, E, L)
  BY DEF Table

LEMMA TableChecks ==
  ASSUME NEW R, NEW K, NEW C, NEW E, NEW L, NEW C2
  PROVE  [Table(R, K, C, E, L) EXCEPT !.checks = C2] = Table(R, K, C2, E, L)
  BY DEF Table

\* Shorthands that keep what a statement is given and what it writes in one piece
HasTable(T, name, R, K, C, E, L) ==
  T = [t \in DOMAIN T |-> T[t]] /\ name \in DOMAIN T /\ T[name] = Table(R, K, C, E, L)
WithColumns(d, name, new) == [d EXCEPT !.tables[name].columns = new]
WithKeys(d, name, new) == [d EXCEPT !.tables[name].keys = new]
WithChecks(d, name, new) == [d EXCEPT !.tables[name].checks = new]

LEMMA PutAgain ==
  ASSUME NEW T, T = [t \in DOMAIN T |-> T[t]], NEW name \in DOMAIN T, NEW table
  PROVE  [T EXCEPT ![name] = table] = Put(T, name, table)
  BY DEF Put

LEMMA SetColumns ==
  ASSUME NEW T, NEW Y, NEW M, NEW held, NEW name,
         NEW R, NEW K, NEW C, NEW E, NEW L, HasTable(T, name, R, K, C, E, L), NEW L2
  PROVE  WithColumns(Db(T, Y, M, held), name, L2)
             = Db(Put(T, name, Table(R, K, C, E, L2)), Y, M, held)
  <1> DEFINE d == Db(T, Y, M, held)
             old == Table(R, K, C, E, L)
             table == Table(R, K, C, E, L2)
             T2 == Put(T, name, table)
  <1>1. d.tables = T
    BY DbFields
  <1>2. [old EXCEPT !.columns = L2] = table
    BY TableColumns
  <1>3. [T EXCEPT ![name] = table] = T2
    BY PutAgain DEF HasTable
  <1>4. [d EXCEPT !.tables = T2] = Db(T2, Y, M, held)
    BY DbTables
  <1>5. T[name] = old
    BY DEF HasTable
  <1> HIDE DEF d, old, table, T2
  <1>6. [T[name] EXCEPT !.columns = L2] = table
    BY <1>2, <1>5
  <1>7. [d EXCEPT !.tables[name].columns = L2]
          = [d EXCEPT !.tables = [T EXCEPT ![name] = [T[name] EXCEPT !.columns = L2]]]
    BY <1>1
  <1>8. [d EXCEPT !.tables[name].columns = L2] = Db(T2, Y, M, held)
    BY <1>3, <1>4, <1>6, <1>7
  <1> QED BY <1>8 DEF d, T2, table, WithColumns

LEMMA SetKeys ==
  ASSUME NEW T, NEW Y, NEW M, NEW held, NEW name,
         NEW R, NEW K, NEW C, NEW E, NEW L, HasTable(T, name, R, K, C, E, L), NEW K2
  PROVE  WithKeys(Db(T, Y, M, held), name, K2)
             = Db(Put(T, name, Table(R, K2, C, E, L)), Y, M, held)
  <1> DEFINE d == Db(T, Y, M, held)
             old == Table(R, K, C, E, L)
             table == Table(R, K2, C, E, L)
             T2 == Put(T, name, table)
  <1>1. d.tables = T
    BY DbFields
  <1>2. [old EXCEPT !.keys = K2] = table
    BY TableKeys
  <1>3. [T EXCEPT ![name] = table] = T2
    BY PutAgain DEF HasTable
  <1>4. [d EXCEPT !.tables = T2] = Db(T2, Y, M, held)
    BY DbTables
  <1>5. T[name] = old
    BY DEF HasTable
  <1> HIDE DEF d, old, table, T2
  <1>6. [T[name] EXCEPT !.keys = K2] = table
    BY <1>2, <1>5
  <1>7. [d EXCEPT !.tables[name].keys = K2]
          = [d EXCEPT !.tables = [T EXCEPT ![name] = [T[name] EXCEPT !.keys = K2]]]
    BY <1>1
  <1>8. [d EXCEPT !.tables[name].keys = K2] = Db(T2, Y, M, held)
    BY <1>3, <1>4, <1>6, <1>7
  <1> QED BY <1>8 DEF d, T2, table, WithKeys

LEMMA SetChecks ==
  ASSUME NEW T, NEW Y, NEW M, NEW held, NEW name,
         NEW R, NEW K, NEW C, NEW E, NEW L, HasTable(T, name, R, K, C, E, L), NEW C2
  PROVE  WithChecks(Db(T, Y, M, held), name, C2)
             = Db(Put(T, name, Table(R, K, C2, E, L)), Y, M, held)
  <1> DEFINE d == Db(T, Y, M, held)
             old == Table(R, K, C, E, L)
             table == Table(R, K, C2, E, L)
             T2 == Put(T, name, table)
  <1>1. d.tables = T
    BY DbFields
  <1>2. [old EXCEPT !.checks = C2] = table
    BY TableChecks
  <1>3. [T EXCEPT ![name] = table] = T2
    BY PutAgain DEF HasTable
  <1>4. [d EXCEPT !.tables = T2] = Db(T2, Y, M, held)
    BY DbTables
  <1>5. T[name] = old
    BY DEF HasTable
  <1> HIDE DEF d, old, table, T2
  <1>6. [T[name] EXCEPT !.checks = C2] = table
    BY <1>2, <1>5
  <1>7. [d EXCEPT !.tables[name].checks = C2]
          = [d EXCEPT !.tables = [T EXCEPT ![name] = [T[name] EXCEPT !.checks = C2]]]
    BY <1>1
  <1>8. [d EXCEPT !.tables[name].checks = C2] = Db(T2, Y, M, held)
    BY <1>3, <1>4, <1>6, <1>7
  <1> QED BY <1>8 DEF d, T2, table, WithChecks

LEMMA AddStep ==
  ASSUME NEW T, NEW Y, NEW M, NEW held, NEW name,
         NEW R, NEW K, NEW C, NEW E, NEW L, HasTable(T, name, R, K, C, E, L), NEW column
  PROVE  AddColumn(Db(T, Y, M, held), name, column)
           = Db(Put(T, name, Table(R, K, C, E, L \cup {column})), Y, M, held)
  <1> DEFINE d == Db(T, Y, M, held)
             L2 == L \cup {column}
  <1>1. d.tables[name].columns = L
    BY DbFields, TableFields DEF HasTable
  <1>2. AddColumn(d, name, column) = WithColumns(d, name, L2)
    BY <1>1 DEF AddColumn, WithColumns
  <1> HIDE DEF L2
  <1>3. WithColumns(d, name, L2) = Db(Put(T, name, Table(R, K, C, E, L2)), Y, M, held)
    BY SetColumns
  <1> QED BY <1>2, <1>3 DEF L2

LEMMA TakeStep ==
  ASSUME NEW T, NEW Y, NEW M, NEW held, NEW name,
         NEW R, NEW K, NEW C, NEW E, NEW L, HasTable(T, name, R, K, C, E, L), NEW column,
             column \in L
  PROVE  DropColumn(Db(T, Y, M, held), name, column)
           = Db(Put(T, name, Table(R, K, C, E, L \ {column})), Y, M, held)
  <1> DEFINE d == Db(T, Y, M, held)
             L2 == L \ {column}
             fine == d.ok /\ column \in d.tables[name].columns
  <1>1. d.tables[name].columns = L /\ d.ok = Yes /\ d.rows = held
    BY DbFields, TableFields DEF HasTable
  <1>2. fine = Yes
    BY <1>1 DEF Yes
  <1>3. DropColumn(d, name, column) = [d EXCEPT !.ok = fine, !.tables[name].columns = L2]
    BY <1>1 DEF DropColumn
  <1>4. [d EXCEPT !.ok = Yes] = d
    BY DbOk
  <1> HIDE DEF L2, fine
  <1>5. WithColumns(d, name, L2) = Db(Put(T, name, Table(R, K, C, E, L2)), Y, M, held)
    BY SetColumns
  <1> HIDE DEF d
  <1>6. DropColumn(d, name, column) = WithColumns(d, name, L2)
    BY <1>2, <1>3, <1>4 DEF WithColumns
  <1> QED BY <1>5, <1>6 DEF L2, d

LEMMA KeyStep ==
  ASSUME NEW T, NEW Y, NEW M, NEW held,
         NEW R, NEW K, NEW C, NEW E, NEW L, HasTable(T, "predictions", R, K, C, E, L), NEW old,
             old \in K, NEW new,
         KeyFits(held, new)
  PROVE  ReplaceKey(Db(T, Y, M, held), old, new)
           = Db(Put(T, "predictions", Table(R, (K \ {old}) \cup {new}, C, E, L)), Y, M, held)
  <1> DEFINE d == Db(T, Y, M, held)
             K2 == (K \ {old}) \cup {new}
             fine == d.ok /\ old \in d.tables["predictions"].keys /\ KeyFits(d.rows, new)
  <1>1. d.tables["predictions"].keys = K /\ d.ok = Yes /\ d.rows = held
    BY DbFields, TableFields DEF HasTable
  <1>2. fine = Yes
    BY <1>1 DEF Yes
  <1>3. ReplaceKey(d, old, new) = [d EXCEPT !.ok = fine, !.tables["predictions"].keys = K2]
    BY <1>1 DEF ReplaceKey
  <1>4. [d EXCEPT !.ok = Yes] = d
    BY DbOk
  <1> HIDE DEF K2, fine
  <1>5. WithKeys(d, "predictions", K2) = Db(Put(T, "predictions", Table(R, K2, C, E, L)), Y, M,
          held)
    BY SetKeys
  <1> HIDE DEF d
  <1>6. ReplaceKey(d, old, new) = WithKeys(d, "predictions", K2)
    BY <1>2, <1>3, <1>4 DEF WithKeys
  <1> QED BY <1>5, <1>6 DEF K2, d

LEMMA CheckStep ==
  ASSUME NEW T, NEW Y, NEW M, NEW held,
         NEW R, NEW K, NEW C, NEW E, NEW L, HasTable(T, "predictions", R, K, C, E, L), NEW old,
             old \in C, NEW new,
         RangeFits(held, new)
  PROVE  ReplaceCheck(Db(T, Y, M, held), old, new)
           = Db(Put(T, "predictions", Table(R, K, (C \ {old}) \cup {new}, E, L)), Y, M, held)
  <1> DEFINE d == Db(T, Y, M, held)
             C2 == (C \ {old}) \cup {new}
             fine == d.ok /\ old \in d.tables["predictions"].checks /\ RangeFits(d.rows, new)
  <1>1. d.tables["predictions"].checks = C /\ d.ok = Yes /\ d.rows = held
    BY DbFields, TableFields DEF HasTable
  <1>2. fine = Yes
    BY <1>1 DEF Yes
  <1>3. ReplaceCheck(d, old, new) = [d EXCEPT !.ok = fine, !.tables["predictions"].checks = C2]
    BY <1>1 DEF ReplaceCheck
  <1>4. [d EXCEPT !.ok = Yes] = d
    BY DbOk
  <1> HIDE DEF C2, fine
  <1>5. WithChecks(d, "predictions", C2) = Db(Put(T, "predictions", Table(R, K, C2, E, L)), Y,
          M, held)
    BY SetChecks
  <1> HIDE DEF d
  <1>6. ReplaceCheck(d, old, new) = WithChecks(d, "predictions", C2)
    BY <1>2, <1>3, <1>4 DEF WithChecks
  <1> QED BY <1>5, <1>6 DEF C2, d

\* The later revisions
LEMMA DeviceTables ==
  /\ devices = Table(DeviceModel.refs, DeviceModel.keys, DeviceModel.checks, DeviceModel.types,
                     {"secret_hash"})
  /\ DeviceModel = Table(DeviceModel.refs, DeviceModel.keys, DeviceModel.checks,
         DeviceModel.types,
                         {"secret_encrypted"})
  BY DEF devices, DeviceModel, Table

OtherChecks == {"confidence_range", "progress_range"}

LEMMA PredictionTables ==
  /\ predictions_m02 = Table(PredictionModel.refs, {OneRowPerImage},
         OtherChecks \cup {TenClasses},
                             PredictionModel.types, {})
  /\ PredictionModel = Table(PredictionModel.refs, {OneCurrentRowPerImage},
                             OtherChecks \cup {FourClasses}, PredictionModel.types,
                             {"superseded_at"})
  /\ OneRowPerImage # OneCurrentRowPerImage
  /\ TenClasses \notin OtherChecks /\ FourClasses \notin OtherChecks /\ TenClasses # FourClasses
  <1>1. predictions_m02 = Table(PredictionModel.refs, {OneRowPerImage},
          OtherChecks \cup {TenClasses},
                             PredictionModel.types, {})
    BY DEF predictions_m02, PredictionModel, Table, OtherChecks
  <1>2. PredictionModel = Table(PredictionModel.refs, {OneCurrentRowPerImage},
                             OtherChecks \cup {FourClasses}, PredictionModel.types,
                             {"superseded_at"})
    BY DEF PredictionModel, Table, OtherChecks, OneCurrentRowPerImage, FourClasses
  <1>3. OneRowPerImage # OneCurrentRowPerImage
    BY DEF OneRowPerImage, OneCurrentRowPerImage, Key, KeyWhere
  <1>4. TenClasses \notin OtherChecks /\ FourClasses \notin OtherChecks
          /\ TenClasses # FourClasses
    BY DEF OtherChecks, TenClasses, FourClasses
  <1> QED BY <1>1, <1>2, <1>3, <1>4

LEMMA SchemaHolds ==
  ASSUME NEW r \in 1..4
  PROVE  /\ SchemaAt(r) = [t \in DOMAIN SchemaAt(r) |-> SchemaAt(r)[t]]
         /\ DOMAIN SchemaAt(r) = NamesAt(r)
         /\ \A t \in NamesAt(r) : SchemaAt(r)[t] = TableAt(r, t)
         /\ "devices" \in NamesAt(r) /\ "predictions" \in NamesAt(r)
  <1>1. "devices" \in NamesAt(r) /\ "predictions" \in NamesAt(r)
    BY Named DEF NamesAt, AllNames
  <1> QED BY <1>1 DEF SchemaAt

LEMMA Messages ==
  /\ "contact_messages" \notin NamesAt(1)
  /\ NamesAt(2) = NamesAt(1) \cup {"contact_messages"}
  /\ NamesAt(3) = NamesAt(2) /\ NamesAt(4) = NamesAt(2)
  /\ \A t \in NamesAt(1) : TableAt(2, t) = TableAt(1, t)
  /\ TableAt(2, "contact_messages") = contact_messages
  BY Named, SameTables DEF NamesAt, AllNames, TableAt

LEMMA UpToMessages ==
  ASSUME NEW held
  PROVE  upgrade_m04(Db(SchemaAt(1), TypesAt(1), {}, held))
             = Db(SchemaAt(2), TypesAt(2), {}, held)
  <1> DEFINE T == SchemaAt(1)
             T2 == SchemaAt(2)
             Y == TypesAt(1)
             name == "contact_messages"
             table == contact_messages
  <1>1. name \notin DOMAIN T
    BY SchemaHolds, Messages
  <1>2. table.types = {} /\ table.refs = {}
    BY DEF contact_messages, Table
  <1>3. Put(T, name, table) = T2
    BY Messages DEF Put, SchemaAt
  <1>4. TypesAt(2) = Y
    BY DEF TypesAt
  <1> HIDE DEF T, T2, Y, name, table
  <1>5. (table.types \ {}) \cap Y = {} /\ (\A r \in table.refs : r.to \in DOMAIN T)
        /\ table.types \ {} = {} /\ Y \cup {} = Y /\ {} \cup {} = {}
    BY <1>2
  <1>6. CreateTable(Db(T, Y, {}, held), name, table)
          = Db(Put(T, name, table), Y \cup (table.types \ {}), {} \cup (table.types \ {}), held)
    BY <1>1, <1>5, CreateStep
  <1>7. CreateTable(Db(T, Y, {}, held), name, table) = Db(T2, Y, {}, held)
    BY <1>3, <1>5, <1>6
  <1> QED BY <1>4, <1>7 DEF T, T2, Y, name, table, upgrade_m04

LEMMA DownFromMessages ==
  ASSUME NEW held
  PROVE  downgrade_m04(Db(SchemaAt(2), TypesAt(2), {}, held))
             = Db(SchemaAt(1), TypesAt(1), {}, held)
  <1> DEFINE T == SchemaAt(2)
             T2 == SchemaAt(1)
             Y == TypesAt(2)
             name == "contact_messages"
  <1>1. name \in DOMAIN T
    BY SchemaHolds, Messages
  <1>2. ASSUME NEW t \in DOMAIN T \ {name}, NEW r \in T[t].refs PROVE r.to # name
    <2>1. t \in NamesAt(1)
      BY SchemaHolds, Messages
    <2>2. PICK m \in 1..18 : CreateOrder[m][1] = t
      BY <2>1, FirstNames DEF UpTo
    <2>3. T[t] = CreateOrder[m][2]
      BY <2>1, <2>2, SchemaHolds, Messages, Tabled
    <2>4. PICK j \in 1..m - 1 : CreateOrder[j][1] = r.to
      BY <2>3, RefersBack
    <2>5. r.to \in NamesAt(1)
      BY <2>4, Tabled
    <2> QED BY <2>5, Messages
  <1>3. Cut(T, name) = T2
    BY Messages DEF Cut, SchemaAt
  <1>4. TypesAt(1) = Y /\ RowsLeft(held, name) = held
    BY DEF TypesAt, RowsLeft
  <1> HIDE DEF T, T2, Y, name
  <1>5. DropTable(Db(T, Y, {}, held), name) = Db(Cut(T, name), Y, {}, RowsLeft(held, name))
    BY <1>1, <1>2, DropStep
  <1> QED BY <1>3, <1>4, <1>5 DEF T, T2, Y, name, downgrade_m04

LEMMA PutHas ==
  ASSUME NEW T, NEW name, NEW R, NEW K, NEW C, NEW E, NEW L
  PROVE  HasTable(Put(T, name, Table(R, K, C, E, L)), name, R, K, C, E, L)
  <1> DEFINE table == Table(R, K, C, E, L)
  <1> HIDE DEF table
  <1>1. Put(T, name, table) = [t \in DOMAIN Put(T, name, table) |-> Put(T, name, table)[t]]
        /\ name \in DOMAIN Put(T, name, table) /\ Put(T, name, table)[name] = table
    BY DEF Put
  <1> QED BY <1>1 DEF HasTable, table

LEMMA PutPut ==
  ASSUME NEW T, NEW name \in DOMAIN T, NEW a, NEW b
  PROVE  Put(Put(T, name, a), name, b) = Put(T, name, b)
  BY DEF Put

LEMMA PutAt ==
  ASSUME NEW r \in 1..4, NEW q \in 1..4, NEW name \in NamesAt(r), NamesAt(r) = NamesAt(q),
         \A t \in NamesAt(r) \ {name} : TableAt(r, t) = TableAt(q, t)
  PROVE  Put(SchemaAt(r), name, TableAt(q, name)) = SchemaAt(q)
  BY DEF Put, SchemaAt

LEMMA ChangedTables ==
  /\ \A t \in NamesAt(2) \ {"devices"} : TableAt(2, t) = TableAt(3, t)
  /\ \A t \in NamesAt(3) \ {"predictions"} : TableAt(3, t) = TableAt(4, t)
  /\ TableAt(2, "devices") = devices /\ TableAt(3, "devices") = DeviceModel
  /\ TableAt(3, "predictions") = predictions_m02 /\ TableAt(4, "predictions") = PredictionModel
  /\ TypesAt(2) = TypesAt(3) /\ TypesAt(3) = TypesAt(4)
  BY Named DEF TableAt, TypesAt

LEMMA UpToSecrets ==
  ASSUME NEW held
  PROVE  upgrade_m05(Db(SchemaAt(2), TypesAt(2), {}, held))
             = Db(SchemaAt(3), TypesAt(3), {}, held)
  <1> DEFINE T == SchemaAt(2)
             T3 == SchemaAt(3)
             Y == TypesAt(2)
             name == "devices"
             R == DeviceModel.refs
             K == DeviceModel.keys
             C == DeviceModel.checks
             E == DeviceModel.types
             L == {"secret_hash"}
             L2 == L \cup {"secret_encrypted"}
             L3 == L2 \ {"secret_hash"}
             T2 == Put(T, name, Table(R, K, C, E, L2))
  <1>1. HasTable(T, name, R, K, C, E, L)
    BY SchemaHolds, ChangedTables, DeviceTables DEF HasTable
  <1>2. HasTable(T2, name, R, K, C, E, L2)
    BY PutHas
  <1>3. Put(T, name, Table(R, K, C, E, L3)) = T3
    <2>1. L3 = {"secret_encrypted"}
      OBVIOUS
    <2>2. Table(R, K, C, E, L3) = TableAt(3, name)
      BY <2>1, DeviceTables, ChangedTables
    <2>3. name \in NamesAt(2) /\ NamesAt(2) = NamesAt(3)
      BY SchemaHolds, Messages
    <2> HIDE DEF L3, R, K, C, E
    <2> QED BY <2>2, <2>3, ChangedTables, PutAt
  <1>4. "secret_hash" \in L2 /\ TypesAt(3) = Y
    BY ChangedTables
  <1>5. name \in DOMAIN T
    BY SchemaHolds
  <1> HIDE DEF T, T3, Y, name, R, K, C, E, L
  <1>6. AddColumn(Db(T, Y, {}, held), name, "secret_encrypted") = Db(T2, Y, {}, held)
    BY <1>1, AddStep
  <1>7. Put(T2, name, Table(R, K, C, E, L3)) = Put(T, name, Table(R, K, C, E, L3))
    BY <1>5, PutPut
  <1> HIDE DEF T2, L2
  <1>8. DropColumn(Db(T2, Y, {}, held), name, "secret_hash")
          = Db(Put(T2, name, Table(R, K, C, E, L3)), Y, {}, held)
    BY <1>2, <1>4, TakeStep
  <1> HIDE DEF L3
  <1>9. DropColumn(AddColumn(Db(T, Y, {}, held), name, "secret_encrypted"), name, "secret_hash")
          = Db(T3, Y, {}, held)
    BY <1>3, <1>6, <1>7, <1>8
  <1> QED BY <1>4, <1>9 DEF T, T3, Y, name, upgrade_m05

LEMMA DownFromSecrets ==
  ASSUME NEW held
  PROVE  downgrade_m05(Db(SchemaAt(3), TypesAt(3), {}, held))
             = Db(SchemaAt(2), TypesAt(2), {}, held)
  <1> DEFINE T == SchemaAt(3)
             T3 == SchemaAt(2)
             Y == TypesAt(3)
             name == "devices"
             R == DeviceModel.refs
             K == DeviceModel.keys
             C == DeviceModel.checks
             E == DeviceModel.types
             L == {"secret_encrypted"}
             L2 == L \cup {"secret_hash"}
             L3 == L2 \ {"secret_encrypted"}
             T2 == Put(T, name, Table(R, K, C, E, L2))
  <1>1. HasTable(T, name, R, K, C, E, L)
    BY SchemaHolds, ChangedTables, DeviceTables DEF HasTable
  <1>2. HasTable(T2, name, R, K, C, E, L2)
    BY PutHas
  <1>3. Put(T, name, Table(R, K, C, E, L3)) = T3
    <2>1. L3 = {"secret_hash"}
      OBVIOUS
    <2>2. Table(R, K, C, E, L3) = TableAt(2, name)
      BY <2>1, DeviceTables, ChangedTables
    <2>3. name \in NamesAt(3) /\ NamesAt(3) = NamesAt(2)
      BY SchemaHolds, Messages
    <2> HIDE DEF L3, R, K, C, E
    <2> QED BY <2>2, <2>3, ChangedTables, PutAt
  <1>4. "secret_encrypted" \in L2 /\ TypesAt(2) = Y
    BY ChangedTables
  <1>5. name \in DOMAIN T
    BY SchemaHolds
  <1> HIDE DEF T, T3, Y, name, R, K, C, E, L
  <1>6. AddColumn(Db(T, Y, {}, held), name, "secret_hash") = Db(T2, Y, {}, held)
    BY <1>1, AddStep
  <1>7. Put(T2, name, Table(R, K, C, E, L3)) = Put(T, name, Table(R, K, C, E, L3))
    BY <1>5, PutPut
  <1> HIDE DEF T2, L2
  <1>8. DropColumn(Db(T2, Y, {}, held), name, "secret_encrypted")
          = Db(Put(T2, name, Table(R, K, C, E, L3)), Y, {}, held)
    BY <1>2, <1>4, TakeStep
  <1> HIDE DEF L3
  <1>9. DropColumn(AddColumn(Db(T, Y, {}, held), name, "secret_hash"), name, "secret_encrypted")
          = Db(T3, Y, {}, held)
    BY <1>3, <1>6, <1>7, <1>8
  <1> QED BY <1>4, <1>9 DEF T, T3, Y, name, downgrade_m05

KeptOnly(held) == {p \in held : p.class = "kept"}
Flat(held) == {[p EXCEPT !.superseded = FALSE] : p \in held}
NarrowKey == {OneRowPerImage}
CurrentKey == {OneCurrentRowPerImage}

LEMMA Swapped ==
  /\ (NarrowKey \ {OneRowPerImage}) \cup {OneCurrentRowPerImage} = CurrentKey
  /\ (CurrentKey \ {OneCurrentRowPerImage}) \cup {OneRowPerImage} = NarrowKey
  /\ ((OtherChecks \cup {TenClasses}) \ {TenClasses}) \cup {FourClasses}
         = OtherChecks \cup {FourClasses}
  /\ ((OtherChecks \cup {FourClasses}) \ {FourClasses}) \cup {TenClasses}
         = OtherChecks \cup {TenClasses}
  BY PredictionTables DEF NarrowKey, CurrentKey

LEMMA UpToFourClasses ==
  ASSUME NEW held, KeyFits(held, OneRowPerImage)
  PROVE  upgrade_m09(Db(SchemaAt(3), TypesAt(3), {}, held))
           = Db(SchemaAt(4), TypesAt(4), {}, KeptOnly(held))
  <1> DEFINE T == SchemaAt(3)
             T4 == SchemaAt(4)
             Y == TypesAt(3)
             name == "predictions"
             R == PredictionModel.refs
             E == PredictionModel.types
             C == OtherChecks \cup {TenClasses}
             C2 == OtherChecks \cup {FourClasses}
             L == {}
             L2 == {"superseded_at"}
             T1 == Put(T, name, Table(R, NarrowKey, C, E, L2))
             T2 == Put(T1, name, Table(R, CurrentKey, C, E, L2))
             T3 == Put(T2, name, Table(R, CurrentKey, C2, E, L2))
             some == KeptOnly(held)
  <1>1. HasTable(T, name, R, NarrowKey, C, E, L)
    BY SchemaHolds, ChangedTables, PredictionTables DEF HasTable, NarrowKey
  <1>2. HasTable(T1, name, R, NarrowKey, C, E, L2) /\ HasTable(T2, name, R, CurrentKey, C, E, L2)
    BY PutHas
  <1>3. T3 = T4
    <2> DEFINE table == Table(R, CurrentKey, C2, E, L2)
    <2>1. table = TableAt(4, name)
      BY PredictionTables, ChangedTables DEF CurrentKey
    <2>2. name \in NamesAt(3) /\ NamesAt(3) = NamesAt(4) /\ DOMAIN T = NamesAt(3)
      BY SchemaHolds, Messages
    <2>3. Put(T, name, TableAt(4, name)) = T4
      BY <2>2, ChangedTables, PutAt
    <2>4. T2 = Put(T, name, Table(R, CurrentKey, C, E, L2))
      BY <2>2, PutPut
    <2> HIDE DEF T, T4, table, T1
    <2>5. T3 = Put(T, name, table)
      BY <2>2, <2>4, PutPut DEF table
    <2> QED BY <2>1, <2>3, <2>5
  <1>4. Y = TypesAt(4) /\ L \cup {"superseded_at"} = L2
    BY ChangedTables
  <1>5. OneRowPerImage \in NarrowKey /\ TenClasses \in C
    BY DEF NarrowKey
  <1>6. KeyFits(held, OneCurrentRowPerImage)
    BY PredictionTables DEF KeyFits, Counted
  <1>7. RangeFits(some, FourClasses)
    BY DEF RangeFits, KeptOnly
  <1>8. (NarrowKey \ {OneRowPerImage}) \cup {OneCurrentRowPerImage} = CurrentKey
        /\ (C \ {TenClasses}) \cup {FourClasses} = C2
    BY Swapped
  <1>9. AddColumn(Db(T, Y, {}, held), "predictions", "superseded_at") = Db(T1, Y, {}, held)
    <2> HIDE DEF T, Y, R, E, C, L, L2, name
    <2>1. AddColumn(Db(T, Y, {}, held), name, "superseded_at")
            = Db(Put(T, name, Table(R, NarrowKey, C, E, L \cup {"superseded_at"})), Y, {}, held)
      BY <1>1, AddStep
    <2> QED BY <1>4, <2>1 DEF name
  <1> DEFINE N == NarrowKey
             K2 == CurrentKey
  <1> HIDE DEF T, T4, Y, R, E, C, C2, L, L2, some
  <1>10. ReplaceKey(Db(T1, Y, {}, held), OneRowPerImage, OneCurrentRowPerImage)
           = Db(T2, Y, {}, held)
    <2> HIDE DEF T1
    <2>1. ReplaceKey(Db(T1, Y, {}, held), OneRowPerImage, OneCurrentRowPerImage)
        = Db(Put(T1, "predictions", Table(R,
            (NarrowKey \ {OneRowPerImage}) \cup {OneCurrentRowPerImage}, C, E, L2)), Y, {}, held)
      BY <1>2, <1>5, <1>6, KeyStep
    <2> QED BY <1>8, <2>1
  <1>11. ReplaceCheck(Db(T2, Y, {}, some), TenClasses, FourClasses) = Db(T3, Y, {}, some)
    <2> HIDE DEF T2
    <2>1. ReplaceCheck(Db(T2, Y, {}, some), TenClasses, FourClasses)
        = Db(Put(T2, "predictions", Table(R, CurrentKey, (C \ {TenClasses}) \cup {FourClasses},
            E, L2)), Y, {}, some)
      BY <1>2, <1>5, <1>7, CheckStep
    <2> QED BY <1>8, <2>1
  <1> HIDE DEF T1, T2, T3
  <1> DEFINE keyed == Db(T2, Y, {}, held)
             d == Db(T, Y, {}, held)
  <1>12. keyed.rows = held /\ [keyed EXCEPT !.rows = some] = Db(T2, Y, {}, some)
    BY DbFields, DbRows
  <1>13. ReplaceKey(AddColumn(d, "predictions", "superseded_at"), OneRowPerImage,
           OneCurrentRowPerImage) = keyed
    BY <1>9, <1>10
  <1> HIDE DEF keyed, d
  <1>14. [keyed EXCEPT !.rows = {p \in keyed.rows : p.class = "kept"}] = [keyed EXCEPT !.rows
           = some]
    BY <1>12 DEF some, KeptOnly
  <1>15. upgrade_m09(d)
           = ReplaceCheck([keyed EXCEPT !.rows = {p \in keyed.rows : p.class
               = "kept"}], TenClasses, FourClasses)
    BY <1>13 DEF upgrade_m09
  <1>16. upgrade_m09(d) = Db(T4, Y, {}, some)
    BY <1>3, <1>11, <1>12, <1>14, <1>15
  <1> QED BY <1>4, <1>16 DEF d, T, Y, T4, some

LEMMA KeyAsked ==
  ASSUME NEW d, NEW old, NEW new, d = Db(d.tables, d.types, d.made, d.rows), ReplaceKey(d, old,
         new).ok
  PROVE  KeyFits(d.rows, new)
  <1> DEFINE fine == d.ok /\ old \in d.tables["predictions"].keys /\ KeyFits(d.rows, new)
  <1>1. ReplaceKey(d, old, new).ok = fine
    BY DEF ReplaceKey, Db
  <1> QED BY <1>1

LEMMA DownFromFourClasses ==
  ASSUME NEW held, downgrade_m09(Db(SchemaAt(4), TypesAt(4), {}, held)).ok
  PROVE  /\ KeyFits(Flat(held), OneRowPerImage)
         /\ downgrade_m09(Db(SchemaAt(4), TypesAt(4), {}, held))
             = Db(SchemaAt(3), TypesAt(3), {}, Flat(held))
  <1> DEFINE T == SchemaAt(4)
             T4 == SchemaAt(3)
             Y == TypesAt(4)
             name == "predictions"
             R == PredictionModel.refs
             E == PredictionModel.types
             C == OtherChecks \cup {FourClasses}
             C2 == OtherChecks \cup {TenClasses}
             L == {"superseded_at"}
             L2 == {}
             T1 == Put(T, name, Table(R, CurrentKey, C2, E, L))
             T2 == Put(T1, name, Table(R, CurrentKey, C2, E, L2))
             T3 == Put(T2, name, Table(R, NarrowKey, C2, E, L2))
             some == Flat(held)
  <1>1. HasTable(T, name, R, CurrentKey, C, E, L)
    BY SchemaHolds, ChangedTables, PredictionTables DEF HasTable, CurrentKey
  <1>2. HasTable(T1, name, R, CurrentKey, C2, E, L)
          /\ HasTable(T2, name, R, CurrentKey, C2, E, L2)
    BY PutHas
  <1>3. T3 = T4
    <2> DEFINE table == Table(R, NarrowKey, C2, E, L2)
    <2>1. table = TableAt(3, name)
      BY PredictionTables, ChangedTables DEF NarrowKey
    <2>2. name \in NamesAt(4) /\ NamesAt(3) = NamesAt(4) /\ DOMAIN T = NamesAt(4)
      BY SchemaHolds, Messages
    <2>3. Put(T, name, TableAt(3, name)) = T4
      BY <2>2, ChangedTables, PutAt
    <2>4. T2 = Put(T, name, Table(R, CurrentKey, C2, E, L2))
      BY <2>2, PutPut
    <2> HIDE DEF T, T4, table, T1
    <2>5. T3 = Put(T, name, table)
      BY <2>2, <2>4, PutPut DEF table
    <2> QED BY <2>1, <2>3, <2>5
  <1>4. Y = TypesAt(3) /\ L \ {"superseded_at"} = L2 /\ "superseded_at" \in L
    BY ChangedTables
  <1>5. OneCurrentRowPerImage \in CurrentKey /\ FourClasses \in C
    BY DEF CurrentKey
  <1>7. RangeFits(held, TenClasses)
    BY PredictionTables DEF RangeFits
  <1>8. (CurrentKey \ {OneCurrentRowPerImage}) \cup {OneRowPerImage} = NarrowKey
        /\ (C \ {FourClasses}) \cup {TenClasses} = C2
    BY Swapped
  <1> HIDE DEF T, T4, Y, R, E, C, C2, L, L2, some
  <1>9. ReplaceCheck(Db(T, Y, {}, held), FourClasses, TenClasses) = Db(T1, Y, {}, held)
    <2>1. ReplaceCheck(Db(T, Y, {}, held), FourClasses, TenClasses)
        = Db(Put(T, "predictions", Table(R, CurrentKey, (C \ {FourClasses}) \cup {TenClasses},
            E, L)), Y, {}, held)
      BY <1>1, <1>5, <1>7, CheckStep
    <2> QED BY <1>8, <2>1
  <1>10. DropColumn(Db(T1, Y, {}, held), "predictions", "superseded_at") = Db(T2, Y, {}, held)
    <2> HIDE DEF T1, name
    <2>1. DropColumn(Db(T1, Y, {}, held), name, "superseded_at")
            = Db(Put(T1, name, Table(R, CurrentKey, C2, E, L \ {"superseded_at"})), Y, {}, held)
      BY <1>2, <1>4, TakeStep
    <2> QED BY <1>4, <2>1 DEF name
  <1> DEFINE wide == Db(T2, Y, {}, held)
             flat == Db(T2, Y, {}, some)
             d == Db(T, Y, {}, held)
  <1>11. wide.rows = held /\ [wide EXCEPT !.rows = some] = flat
    BY DbFields, DbRows
  <1>12. DropColumn(ReplaceCheck(d, FourClasses, TenClasses), "predictions", "superseded_at")
           = wide
    BY <1>9, <1>10
  <1>13. flat = Db(flat.tables, flat.types, flat.made, flat.rows) /\ flat.rows = some
    BY DbFields
  <1> HIDE DEF wide, flat, d
  <1>14. [wide EXCEPT !.rows = {[p EXCEPT !.superseded = FALSE] : p \in wide.rows}] = flat
    BY <1>11 DEF some, Flat
  <1>15. downgrade_m09(d) = ReplaceKey(flat, OneCurrentRowPerImage, OneRowPerImage)
    BY <1>12, <1>14 DEF downgrade_m09
  <1>16. KeyFits(some, OneRowPerImage)
    <2>1. ReplaceKey(flat, OneCurrentRowPerImage, OneRowPerImage).ok
      BY <1>15 DEF d, T, Y
    <2> QED BY <1>13, <2>1, KeyAsked
  <1>17. ReplaceKey(Db(T2, Y, {}, some), OneCurrentRowPerImage, OneRowPerImage)
           = Db(T3, Y, {}, some)
    <2> HIDE DEF T2
    <2>1. ReplaceKey(Db(T2, Y, {}, some), OneCurrentRowPerImage, OneRowPerImage)
        = Db(Put(T2, "predictions", Table(R,
            (CurrentKey \ {OneCurrentRowPerImage}) \cup {OneRowPerImage}, C2, E, L2)), Y, {},
            some)
      BY <1>2, <1>5, <1>16, KeyStep
    <2> QED BY <1>8, <2>1
  <1>18. downgrade_m09(d) = Db(T4, Y, {}, some)
    BY <1>3, <1>15, <1>17 DEF flat
  <1> QED BY <1>4, <1>16, <1>18 DEF d, T, Y, T4, some

\* One revision up, from rows that have one prediction per image
LEMMA UpgradedOnce ==
  ASSUME NEW r \in 0..3, NEW held, KeyFits(held, OneRowPerImage)
  PROVE  Upgraded(Db(SchemaAt(r), TypesAt(r), {}, held), r + 1)
           = Db(SchemaAt(r + 1), TypesAt(r + 1), IF r = 0 THEN AllTypes ELSE {},
                IF r = 3 THEN KeptOnly(held) ELSE held)
  <1>1. CASE r = 0
    <2>1. Upgraded(Db(SchemaAt(0), TypesAt(0), {}, held), 1)
            = upgrade_m02(Db(SchemaAt(0), TypesAt(0), {}, held))
      BY DEF Upgraded
    <2> QED BY <1>1, <2>1, CreatesSchema
  <1>2. CASE r = 1
    <2>1. Upgraded(Db(SchemaAt(1), TypesAt(1), {}, held), 2)
            = upgrade_m04(Db(SchemaAt(1), TypesAt(1), {}, held))
      BY DEF Upgraded
    <2> QED BY <1>2, <2>1, UpToMessages
  <1>3. CASE r = 2
    <2>1. Upgraded(Db(SchemaAt(2), TypesAt(2), {}, held), 3)
            = upgrade_m05(Db(SchemaAt(2), TypesAt(2), {}, held))
      BY DEF Upgraded
    <2> QED BY <1>3, <2>1, UpToSecrets
  <1>4. CASE r = 3
    <2>1. Upgraded(Db(SchemaAt(3), TypesAt(3), {}, held), 4)
            = upgrade_m09(Db(SchemaAt(3), TypesAt(3), {}, held))
      BY DEF Upgraded
    <2> QED BY <1>4, <2>1, UpToFourClasses
  <1> QED BY <1>1, <1>2, <1>3, <1>4

\* As many revisions as are left, one after the other
Reached(e, q) ==
  \E held, m : e = Db(SchemaAt(q), TypesAt(q), m, held)
               /\ (q < Latest => KeyFits(held, OneRowPerImage))

LEMMA ReachedNext ==
  ASSUME NEW q \in 0..3, NEW e, Reached(e, q)
  PROVE  Reached(Upgraded([e EXCEPT !.made = {}], q + 1), q + 1)
  <1>1. PICK held, m : e = Db(SchemaAt(q), TypesAt(q), m, held)
                       /\ (q < Latest => KeyFits(held, OneRowPerImage))
    BY DEF Reached
  <1> DEFINE T == SchemaAt(q)
             Y == TypesAt(q)
             rows2 == IF q = 3 THEN KeptOnly(held) ELSE held
             m2 == IF q = 0 THEN AllTypes ELSE {}
  <1>2. KeyFits(held, OneRowPerImage)
    BY <1>1 DEF Latest
  <1>3. Upgraded(Db(T, Y, {}, held), q + 1) = Db(SchemaAt(q + 1), TypesAt(q + 1), m2, rows2)
    BY <1>2, UpgradedOnce
  <1>4. q + 1 < Latest => rows2 = held
    BY DEF Latest
  <1> HIDE DEF T, Y, rows2, m2
  <1>5. [Db(T, Y, m, held) EXCEPT !.made = {}] = Db(T, Y, {}, held)
    BY DbMade
  <1>6. Upgraded([e EXCEPT !.made = {}], q + 1) = Db(SchemaAt(q + 1), TypesAt(q + 1), m2, rows2)
    BY <1>1, <1>3, <1>5 DEF T, Y
  <1> QED BY <1>2, <1>4, <1>6 DEF Reached

LEMMA HeadReachedFrom ==
  ASSUME NEW r \in 0..Latest, NEW d, Reached(d, r)
  PROVE  Reached(UpgradedThrough(d, [n \in 1..Latest - r |-> r + n]), Latest)
  <1> DEFINE left == [n \in 1..Latest - r |-> r + n]
             N == Latest - r
  <1>1. N \in Nat /\ DOMAIN left = 1..N
    BY DEF Latest
  <1>0. \A n \in 1..N : left[n] = r + n
    OBVIOUS
  <1> HIDE DEF left, N
  <1>2. PICK it : FoldsUpTo("upgrade", d, left, it, N) /\ UpgradedThrough(d, left) = it[1..N]
    BY <1>1, UpgradesAll
  <1> DEFINE T == {k \in 0..N : ~Reached(it[1..k], r + k)}
  <1>3. T = {}
    <2> SUFFICES ASSUME T # {} PROVE FALSE
      OBVIOUS
    <2>1. PICK k \in T : \A j \in T : k <= j
      <3>1. T \in SUBSET Nat
        OBVIOUS
      <3> HIDE DEF T
      <3> QED BY <3>1, LeastNatural
    <2>2. k # 0
      <3>1. it[1..0] = d /\ r + 0 = r
        BY <1>1, <1>2, FoldStarts
      <3> QED BY <2>1, <3>1
    <2>3. k \in 1..N /\ k - 1 \in 0..N /\ k - 1 \notin T
      BY <1>1, <2>1, <2>2
    <2>4. Reached(it[1..k - 1], r + (k - 1))
      BY <2>3
    <2>5. it[1..k] = Step("upgrade", it[1..k - 1], left[k])
      BY <1>1, <1>2, <2>3, FoldContinues
    <2>6. it[1..k] = Upgraded([it[1..k - 1] EXCEPT !.made = {}], r + k)
      BY <1>0, <2>3, <2>5 DEF Step
    <2>7. r + (k - 1) \in 0..3 /\ (r + (k - 1)) + 1 = r + k
      BY <2>3 DEF N, Latest
    <2> DEFINE e == it[1..k - 1]
               q == r + (k - 1)
    <2>8. Reached(e, q) /\ q \in 0..3 /\ q + 1 = r + k
      BY <2>4, <2>7
    <2> HIDE DEF e, q
    <2>9. Reached(Upgraded([e EXCEPT !.made = {}], q + 1), q + 1)
      BY <2>8, ReachedNext
    <2> QED BY <2>1, <2>6, <2>8, <2>9 DEF e
  <1>4. Reached(it[1..N], r + N)
    <2>1. \A k \in 0..N : k \notin T
      BY <1>3
    <2>2. \A k \in 0..N : Reached(it[1..k], r + k)
      BY <2>1
    <2>3. N \in 0..N
      BY <1>1
    <2> QED BY <2>2, <2>3
  <1>5. r + N = Latest
    BY DEF N, Latest
  <1> QED BY <1>2, <1>4, <1>5 DEF left

\* The invariant of the migrations: the schema is exactly the one of the revision,
\* no type is left over, and the predictions keep the key and the check they have there.
RowsFit(r, held) ==
  IF r = Latest THEN KeyFits(held, OneCurrentRowPerImage) /\ RangeFits(held, FourClasses)
                ELSE KeyFits(held, OneRowPerImage)

MigrationsIInv ==
  /\ MigrationsTypeOK
  /\ tables = SchemaAt(revision)
  /\ types = TypesAt(revision)
  /\ RowsFit(revision, predictions)

LEMMA HeadFromIInv == MigrationsIInv => HeadIsReached
  <1> SUFFICES ASSUME MigrationsIInv PROVE HeadIsReached
    OBVIOUS
  <1> USE DEF MigrationsIInv
  <1> DEFINE left == [n \in 1..Latest - revision |-> revision + n]
             end == UpgradedThrough(Database, left)
  <1>1. revision \in 0..Latest
    BY DEF MigrationsTypeOK
  <1>2. Database = Db(SchemaAt(revision), TypesAt(revision), {}, predictions)
    BY DEF Database, Db, Yes
  <1>3. revision < Latest => KeyFits(predictions, OneRowPerImage)
    BY <1>1 DEF RowsFit, Latest
  <1>4. Reached(Database, revision)
    BY <1>2, <1>3 DEF Reached
  <1>5. Reached(end, Latest)
    BY <1>1, <1>4, HeadReachedFrom
  <1>6. PICK held, m : end = Db(SchemaAt(Latest), TypesAt(Latest), m, held)
    BY <1>5 DEF Reached
  <1>7. SchemaAt(Latest) = Metadata
    <2>1. NamesAt(4) = AllNames /\ \A t \in AllNames : TableAt(4, t) = Metadata[t]
      BY DEF NamesAt, TableAt
    <2>2. Metadata = [t \in AllNames |-> Metadata[t]]
      BY DEF Metadata, AllNames
    <2> QED BY <2>1, <2>2 DEF SchemaAt, Latest
  <1>8. TypesAt(Latest) = UNION {Metadata[t].types : t \in DOMAIN Metadata}
    BY DEF TypesAt, Latest, AllTypes, AllNames
  <1> DEFINE T == SchemaAt(Latest)
             Y == TypesAt(Latest)
  <1>9. end.ok = Yes /\ end.tables = T /\ end.types = Y
    <2> HIDE DEF end, T, Y
    <2>1. end = Db(T, Y, m, held)
      BY <1>6 DEF T, Y
    <2> QED BY <2>1, DbFields
  <1>10. end = FoldLeft(LAMBDA d, to : Upgraded([d EXCEPT !.made = {}], to), Database, left)
    BY DEF UpgradedThrough
  <1> HIDE DEF end
  <1>11. end.ok /\ end.tables = Metadata /\ end.types
           = UNION {Metadata[t].types : t \in DOMAIN Metadata}
    BY <1>7, <1>8, <1>9 DEF Yes
  <1> QED BY <1>11 DEF HeadIsReached, end, UpgradedThrough

\* What each step of the migrations keeps
LEMMA RowsOfType ==
  ASSUME NEW p \in Predictions, NEW b \in BOOLEAN
  PROVE  /\ [p EXCEPT !.superseded = b] \in Predictions
         /\ [p EXCEPT !.superseded = b].image = p.image
         /\ [p EXCEPT !.superseded = b].class = p.class
         /\ [p EXCEPT !.superseded = b].superseded = b
  BY DEF Predictions

LEMMA SchemaTyped ==
  ASSUME NEW r \in 0..Latest
  PROVE  DOMAIN SchemaAt(r) \subseteq DOMAIN Metadata /\ TypesAt(r) \subseteq ENUM_TYPES
  BY AllTypesListed DEF SchemaAt, NamesAt, AllNames, TypesAt

LEMMA InitMigrations == MigrationsInit => MigrationsIInv
  <1> SUFFICES ASSUME MigrationsInit PROVE MigrationsIInv
    OBVIOUS
  <1> USE DEF MigrationsInit
  <1>1. SchemaAt(0) = << >>
    BY DEF SchemaAt, NamesAt
  <1>2. tables = SchemaAt(revision)
    BY <1>1
  <1>3. types = TypesAt(revision)
    BY DEF TypesAt
  <1>4. revision \in 0..Latest
    BY DEF Latest
  <1>5. DOMAIN tables \subseteq DOMAIN Metadata /\ types \subseteq ENUM_TYPES
    BY <1>2, <1>3, <1>4, SchemaTyped
  <1>6. MigrationsTypeOK
    BY <1>4, <1>5, MigrationAssumption DEF MigrationsTypeOK
  <1>7. RowsFit(revision, predictions)
    BY DEF RowsFit, KeyFits, Counted, Latest
  <1> QED BY <1>2, <1>3, <1>6, <1>7 DEF MigrationsIInv

\* What both directions leave: the schema of the revision they end at
LEMMA MovesTo ==
  ASSUME MigrationsIInv, NEW r \in 0..Latest, NEW held, NEW m, revision' = r,
         Committed(Db(SchemaAt(r), TypesAt(r), m, held)), RowsFit(r, held), held
             \subseteq Predictions,
         lastPrediction' = lastPrediction, downgrades' \in 0..MaxDowngrades
  PROVE  MigrationsIInv'
  <1> DEFINE T == SchemaAt(r)
             Y == TypesAt(r)
             d == Db(T, Y, m, held)
  <1>1. d.tables = T /\ d.types = Y /\ d.rows = held
    BY DbFields
  <1>2. tables' = d.tables /\ types' = d.types /\ predictions' = d.rows
    BY DEF Committed
  <1>3. tables' = SchemaAt(revision') /\ types' = TypesAt(revision')
          /\ RowsFit(revision', predictions')
    BY <1>1, <1>2
  <1>4. MigrationsTypeOK'
    BY <1>1, <1>2, SchemaTyped DEF MigrationsIInv, MigrationsTypeOK
  <1> QED BY <1>3, <1>4 DEF MigrationsIInv

LEMMA UpgradeKeeps == MigrationsIInv /\ Upgrade => MigrationsIInv'
  <1> SUFFICES ASSUME MigrationsIInv, Upgrade PROVE MigrationsIInv'
    OBVIOUS
  <1> USE DEF MigrationsIInv
  <1>1. revision \in 0..3 /\ revision + 1 \in 0..Latest /\ revision' = revision + 1
    BY DEF MigrationsTypeOK, Upgrade, Latest
  <1>2. Database = Db(SchemaAt(revision), TypesAt(revision), {}, predictions)
    BY DEF Database, Db, Yes
  <1>3. KeyFits(predictions, OneRowPerImage)
    BY <1>1 DEF RowsFit, Latest
  <1> DEFINE m == IF revision = 0 THEN AllTypes ELSE {}
             held == IF revision = 3 THEN KeptOnly(predictions) ELSE predictions
  <1>4. Upgraded(Database, revision + 1)
          = Db(SchemaAt(revision + 1), TypesAt(revision + 1), m, held)
    BY <1>1, <1>2, <1>3, UpgradedOnce
  <1>5. RowsFit(revision + 1, held)
    <2>1. CASE revision = 3
      <3>1. KeyFits(held, OneCurrentRowPerImage)
        BY <1>3, <2>1, PredictionTables DEF KeyFits, Counted, KeptOnly
      <3>2. RangeFits(held, FourClasses)
        BY <2>1 DEF RangeFits, KeptOnly
      <3> QED BY <2>1, <3>1, <3>2 DEF RowsFit, Latest
    <2>2. CASE revision # 3
      BY <1>1, <1>3, <2>2 DEF RowsFit, Latest
    <2> QED BY <2>1, <2>2
  <1>6. held \subseteq Predictions
    BY DEF MigrationsTypeOK, KeptOnly
  <1> HIDE DEF m, held
  <1>7. Committed(Db(SchemaAt(revision + 1), TypesAt(revision + 1), m, held))
    BY <1>4 DEF Upgrade
  <1>8. lastPrediction' = lastPrediction /\ downgrades' \in 0..MaxDowngrades
    BY DEF Upgrade, MigrationsTypeOK
  <1> QED BY <1>1, <1>5, <1>6, <1>7, <1>8, MovesTo

LEMMA FlatRows ==
  ASSUME NEW held \in SUBSET Predictions
  PROVE  Flat(held) \subseteq Predictions
  BY RowsOfType DEF Flat

LEMMA DowngradeKeeps == MigrationsIInv /\ Downgrade => MigrationsIInv'
  <1> SUFFICES ASSUME MigrationsIInv, Downgrade PROVE MigrationsIInv'
    OBVIOUS
  <1> USE DEF MigrationsIInv
  <1>1. revision \in 1..4 /\ revision - 1 \in 0..Latest /\ revision' = revision - 1
    BY DEF MigrationsTypeOK, Downgrade, Latest
  <1>2. Database = Db(SchemaAt(revision), TypesAt(revision), {}, predictions)
    BY DEF Database, Db, Yes
  <1>3. Committed(Downgraded(Database, revision))
    BY DEF Downgrade
  <1>4. \E held : /\ Downgraded(Database, revision)
                       = Db(SchemaAt(revision - 1), TypesAt(revision - 1), {}, held)
                  /\ RowsFit(revision - 1, held) /\ held \subseteq Predictions
    <2>1. CASE revision = 1
      <3>1. Downgraded(Database, revision) = Db(SchemaAt(0), TypesAt(0), {}, {})
        <4>1. Downgraded(Database, revision) = downgrade_m02(Database)
          BY <2>1 DEF Downgraded
        <4> QED BY <1>2, <2>1, <4>1, DropsSchema
      <3>2. RowsFit(0, {})
        BY DEF RowsFit, KeyFits, Counted, Latest
      <3>3. {} \subseteq Predictions /\ revision - 1 = 0
        BY <2>1
      <3> QED BY <3>1, <3>2, <3>3
    <2>2. CASE revision = 2
      <3>1. Downgraded(Database, revision) = Db(SchemaAt(1), TypesAt(1), {}, predictions)
        <4>1. Downgraded(Database, revision) = downgrade_m04(Database)
          BY <2>2 DEF Downgraded
        <4> QED BY <1>2, <2>2, <4>1, DownFromMessages
      <3>2. RowsFit(1, predictions) /\ predictions \subseteq Predictions /\ revision - 1 = 1
        BY <2>2 DEF RowsFit, Latest, MigrationsTypeOK
      <3> QED BY <3>1, <3>2
    <2>3. CASE revision = 3
      <3>1. Downgraded(Database, revision) = Db(SchemaAt(2), TypesAt(2), {}, predictions)
        <4>1. Downgraded(Database, revision) = downgrade_m05(Database)
          BY <2>3 DEF Downgraded
        <4> QED BY <1>2, <2>3, <4>1, DownFromSecrets
      <3>2. RowsFit(2, predictions) /\ predictions \subseteq Predictions /\ revision - 1 = 2
        BY <2>3 DEF RowsFit, Latest, MigrationsTypeOK
      <3> QED BY <3>1, <3>2
    <2>4. CASE revision = 4
      <3>0. Downgraded(Database, revision) = downgrade_m09(Database)
        BY <2>4 DEF Downgraded
      <3>1. downgrade_m09(Db(SchemaAt(4), TypesAt(4), {}, predictions)).ok
        BY <1>2, <1>3, <2>4, <3>0 DEF Committed
      <3>2. /\ KeyFits(Flat(predictions), OneRowPerImage)
            /\ downgrade_m09(Db(SchemaAt(4), TypesAt(4), {}, predictions))
                 = Db(SchemaAt(3), TypesAt(3), {}, Flat(predictions))
        BY <3>1, DownFromFourClasses
      <3>3. Flat(predictions) \subseteq Predictions
        BY FlatRows DEF MigrationsTypeOK
      <3>4. RowsFit(3, Flat(predictions)) /\ revision - 1 = 3
        BY <2>4, <3>2 DEF RowsFit, Latest
      <3>5. Downgraded(Database, revision) = Db(SchemaAt(3), TypesAt(3), {}, Flat(predictions))
        BY <1>2, <2>4, <3>0, <3>2
      <3> QED BY <3>3, <3>4, <3>5
    <2> QED BY <1>1, <2>1, <2>2, <2>3, <2>4
  <1>5. PICK held : /\ Downgraded(Database, revision)
                       = Db(SchemaAt(revision - 1), TypesAt(revision - 1), {}, held)
                    /\ RowsFit(revision - 1, held) /\ held \subseteq Predictions
    BY <1>4
  <1>6. lastPrediction' = lastPrediction /\ downgrades' \in 0..MaxDowngrades
    BY MigrationAssumption DEF Downgrade, MigrationsTypeOK
  <1>7. Committed(Db(SchemaAt(revision - 1), TypesAt(revision - 1), {}, held))
    BY <1>3, <1>5
  <1> QED BY <1>1, <1>5, <1>6, <1>7, MovesTo

LEMMA RowsKeep ==
  ASSUME MigrationsIInv, UNCHANGED <<revision, tables, types, downgrades>>,
         predictions' \subseteq Predictions, lastPrediction' \in 0..MaxPredictions,
         RowsFit(revision, predictions')
  PROVE  MigrationsIInv'
  BY DEF MigrationsIInv, MigrationsTypeOK

LEMMA ScoredKeeps ==
  ASSUME MigrationsIInv, NEW i \in Images, NEW class \in {"kept", "retired"}, Scored(i, class)
  PROVE  MigrationsIInv'
  <1> USE DEF MigrationsIInv
  <1> DEFINE row == [id |-> lastPrediction + 1, image |-> i, class |-> class,
      superseded |-> FALSE]
             rest == {p \in predictions : p.image # i}
             past == {[p EXCEPT !.superseded = TRUE] : p \in predictions \ rest}
             held == rest \cup {row} \cup (IF revision = Latest THEN past ELSE {})
  <1>1. predictions' = held /\ (revision = Latest => class = "kept")
        /\ UNCHANGED <<revision, tables, types, downgrades>>
               /\ lastPrediction' \in 0..MaxPredictions
    BY MigrationAssumption DEF Scored, MigrationsTypeOK
  <1>2. predictions \subseteq Predictions /\ lastPrediction + 1 \in 1..MaxPredictions
    BY MigrationAssumption DEF Scored, MigrationsTypeOK
  <1>3. row \in Predictions /\ row.image = i /\ row.class = class
    BY <1>2 DEF Predictions
  <1>4. \A p \in past : p \in Predictions /\ p.superseded = TRUE
                        /\ \E q \in predictions : q.image = p.image /\ q.class = p.class
    <2> SUFFICES ASSUME NEW p \in past
                 PROVE  p \in Predictions /\ p.superseded = TRUE
                        /\ \E q \in predictions : q.image = p.image /\ q.class = p.class
      OBVIOUS
    <2>1. PICK q \in predictions : p = [q EXCEPT !.superseded = TRUE]
      OBVIOUS
    <2>2. q \in Predictions
      BY <1>2
    <2> HIDE DEF past
    <2>3. p \in Predictions /\ p.superseded = TRUE /\ q.image = p.image /\ q.class = p.class
      BY <2>1, <2>2, RowsOfType
    <2> QED BY <2>3
  <1> HIDE DEF row, past
  <1>5. held \subseteq Predictions
    BY <1>2, <1>3, <1>4
  <1>6. RowsFit(revision, held)
    <2>1. CASE revision = Latest
      <3>1. KeyFits(predictions, OneCurrentRowPerImage) /\ RangeFits(predictions, FourClasses)
        BY <2>1 DEF RowsFit
      <3>2. Counted(held, OneCurrentRowPerImage)
              \subseteq Counted(rest, OneCurrentRowPerImage) \cup {row}
        BY <1>4, PredictionTables DEF Counted
      <3>3. \A p, q \in Counted(rest, OneCurrentRowPerImage) : p.image = q.image => p = q
        BY <3>1, PredictionTables DEF KeyFits, Counted
      <3>4. \A p \in Counted(rest, OneCurrentRowPerImage) : p.image # i
        BY PredictionTables DEF Counted
      <3>5. KeyFits(held, OneCurrentRowPerImage)
        BY <1>3, <3>2, <3>3, <3>4 DEF KeyFits
      <3>6. RangeFits(held, FourClasses)
        BY <1>1, <1>3, <1>4, <2>1, <3>1 DEF RangeFits
      <3> QED BY <2>1, <3>5, <3>6 DEF RowsFit
    <2>2. CASE revision # Latest
      <3>1. KeyFits(predictions, OneRowPerImage)
        BY <2>2 DEF RowsFit
      <3>2. KeyFits(held, OneRowPerImage)
        BY <1>3, <2>2, <3>1 DEF KeyFits, Counted
      <3> QED BY <2>2, <3>2 DEF RowsFit
    <2> QED BY <2>1, <2>2
  <1> HIDE DEF held
  <1> QED BY <1>1, <1>5, <1>6, RowsKeep

LEMMA DiscardKeeps == MigrationsIInv /\ DiscardHistory => MigrationsIInv'
  <1> SUFFICES ASSUME MigrationsIInv, DiscardHistory PROVE MigrationsIInv'
    OBVIOUS
  <1>1. revision = Latest /\ predictions' = {p \in predictions : ~ p.superseded}
        /\ UNCHANGED <<revision, tables, types, downgrades>> /\ lastPrediction' = lastPrediction
    BY DEF DiscardHistory
  <1>2. KeyFits(predictions, OneCurrentRowPerImage) /\ RangeFits(predictions, FourClasses)
    BY <1>1 DEF MigrationsIInv, RowsFit
  <1>3. RowsFit(revision, predictions')
    BY <1>1, <1>2, PredictionTables DEF RowsFit, KeyFits, Counted, RangeFits
  <1>4. predictions' \subseteq Predictions /\ lastPrediction' \in 0..MaxPredictions
    BY <1>1 DEF MigrationsIInv, MigrationsTypeOK
  <1> QED BY <1>1, <1>3, <1>4, RowsKeep

LEMMA MigrationsStep == MigrationsIInv /\ [MigrationsNext]_migrationVars => MigrationsIInv'
  <1> SUFFICES ASSUME MigrationsIInv, [MigrationsNext]_migrationVars PROVE MigrationsIInv'
    OBVIOUS
  <1>1. CASE Upgrade
    BY <1>1, UpgradeKeeps
  <1>2. CASE Downgrade
    BY <1>2, DowngradeKeeps
  <1>3. CASE \E i \in Images, class \in {"kept", "retired"} : Scored(i, class)
    BY <1>3, ScoredKeeps
  <1>4. CASE DiscardHistory
    BY <1>4, DiscardKeeps
  <1>5. CASE UNCHANGED migrationVars
    BY <1>5 DEF migrationVars, MigrationsIInv, MigrationsTypeOK, RowsFit, RangeFits, KeyFits,
        Counted
  <1> QED BY <1>1, <1>2, <1>3, <1>4, <1>5 DEF MigrationsNext

\* The database is what its revision says: whatever was applied, reverted and stored
\* before, its tables, types and rows are those that the revision describes.
THEOREM SchemaInvariant == MigrationsSpec => []MigrationsIInv
  <1>1. MigrationsInit => MigrationsIInv
    BY InitMigrations
  <1>2. MigrationsIInv /\ [MigrationsNext]_migrationVars => MigrationsIInv'
    BY MigrationsStep
  <1> QED BY <1>1, <1>2, PTL DEF MigrationsSpec

\* HeadIsReachedFromHere: where only the database moves, it is the machine of
\* the migrations, beside programs that have not started.
THEOREM HeadStaysReachable == SiteSpec => []HeadIsReachedFromHere
  <1> DEFINE IInv == machine = "database" => MigrationsIInv
  <1>1. SiteInit => IInv
    BY InitMigrations DEF SiteInit, DatabaseInit
  <1>2. IInv /\ [SiteNext]_siteVars => IInv'
    <2> SUFFICES ASSUME IInv, [SiteNext]_siteVars PROVE IInv'
      OBVIOUS
    <2>1. machine' = machine
      BY DEF SiteNext, siteVars
    <2>2. CASE machine # "database"
      BY <2>1, <2>2
    <2>3. CASE machine = "database"
      <3>1. MigrationsIInv
        BY <2>3
      <3>2. [MigrationsNext]_migrationVars
        BY <2>3 DEF SiteNext, siteVars, DatabaseNext, DatabaseVars
      <3> QED BY <3>1, <3>2, MigrationsStep
    <2> QED BY <2>2, <2>3
  <1>3. IInv => HeadIsReachedFromHere
    BY HeadFromIInv DEF HeadIsReachedFromHere
  <1> QED BY <1>1, <1>2, <1>3, PTL DEF SiteSpec

-----------------------------------------------------------------------------
(* Members and assets: types *)

USE TeamAssumption


TeamMembers == [id : Nat, role : TeamRoles, status : {"pending", "accepted"}]

Invites == [op : {"invite"}, user : Users, role : GivenRoles]
TeamSaves == [op : {"save"}, user : Users, loaded : TeamMembers, entity : TeamMembers]
TeamDeletes == [op : {"delete"}, user : Users, loaded : TeamMembers]
TeamFiles == [op : {"upload", "unlink", "unlinked"}, asset : Assets]

TeamRequests == {Idle} \cup Invites \cup TeamSaves \cup TeamDeletes \cup TeamFiles

TeamTyped ==
    /\ member \in [Users -> TeamMembers \cup {NoMember}]
    /\ lastId \in Nat
    /\ agreed \in [Users -> SUBSET Nat]
    /\ req \in [Requests -> TeamRequests]

LEMMA MemberShape ==
  ASSUME TeamTyped, NEW u \in Users, Has(u)
  PROVE  member[u] \in TeamMembers
  BY DEF TeamTyped, Has

\* A row that is pending or accepted is there.
LEMMA StatusShape ==
  ASSUME TeamTyped, NEW u \in Users, member[u].status \in {"pending", "accepted"}
  PROVE  Has(u)
  BY DEF Has, NoMember

LEMMA RequestShapes ==
  ASSUME TeamTyped, NEW r \in Requests
  PROVE  /\ req[r].op = "invite" => req[r] \in Invites
         /\ req[r].op = "save" => req[r] \in TeamSaves
         /\ req[r].op = "delete" => req[r] \in TeamDeletes
         /\ req[r].op \in {"upload", "unlink", "unlinked"} => req[r] \in TeamFiles
  BY DEF TeamTyped, TeamRequests, Invites, TeamSaves, TeamDeletes, TeamFiles, Idle

LEMMA SavedOverTyped ==
  ASSUME NEW current \in TeamMembers, NEW seen \in TeamMembers, NEW entity \in TeamMembers
  PROVE  /\ SavedOver(current, seen, entity) \in TeamMembers
         /\ SavedOver(current, seen, entity).id \in {current.id, entity.id}
         /\ SavedOver(current, seen, entity).status \in {current.status, entity.status}
  BY DEF SavedOver, TeamMembers

(* A request that was let in is well formed.                               *)
LEMMA ReadsTyped ==
  ASSUME TeamTyped, NEW r \in Requests, NEW u \in Users
  PROVE  /\ \A actor \in Users, role \in GivenRoles :
               Invite(r, actor, u, role) \/ ChangeRole(r, actor, u, role)
               => req' \in [Requests -> TeamRequests]
         /\ \A actor \in Users :
               RemoveMember(r, actor, u) => req' \in [Requests -> TeamRequests]
         /\ \A accept \in BOOLEAN :
               Respond(r, u, accept) => req' \in [Requests -> TeamRequests]
         /\ \A actor \in Users, a \in Assets :
               Upload(r, actor, a) \/ Unlink(r, actor, a)
               => req' \in [Requests -> TeamRequests]
  <1>1. ASSUME NEW actor \in Users, NEW role \in GivenRoles, Invite(r, actor, u, role)
        PROVE  req' \in [Requests -> TeamRequests]
    BY <1>1 DEF Invite, Starts, TeamTyped, TeamRequests, Invites
  <1>2. ASSUME NEW actor \in Users, NEW role \in GivenRoles, ChangeRole(r, actor, u, role)
        PROVE  req' \in [Requests -> TeamRequests]
    <2>1. member[u] \in TeamMembers
      BY <1>2, MemberShape DEF ChangeRole
    <2>2. [member[u] EXCEPT !.role = role] \in TeamMembers
      BY <2>1 DEF TeamMembers, TeamRoles
    <2> QED
      BY <1>2, <2>1, <2>2 DEF ChangeRole, Starts, TeamTyped, TeamRequests, TeamSaves
  <1>3. ASSUME NEW actor \in Users, RemoveMember(r, actor, u)
        PROVE  req' \in [Requests -> TeamRequests]
    <2>1. member[u] \in TeamMembers
      BY <1>3, MemberShape DEF RemoveMember
    <2> QED
      BY <1>3, <2>1 DEF RemoveMember, Starts, TeamTyped, TeamRequests, TeamDeletes
  <1>4. ASSUME NEW accept \in BOOLEAN, Respond(r, u, accept)
        PROVE  req' \in [Requests -> TeamRequests]
    <2>1. member[u] \in TeamMembers
      BY <1>4, MemberShape, StatusShape DEF Respond
    <2>2. [member[u] EXCEPT !.status = "accepted"] \in TeamMembers
      BY <2>1 DEF TeamMembers
    <2>3. CASE accept
      BY <1>4, <2>1, <2>2, <2>3 DEF Respond, Starts, TeamTyped, TeamRequests, TeamSaves
    <2>4. CASE ~accept
      BY <1>4, <2>1, <2>4 DEF Respond, Starts, TeamTyped, TeamRequests, TeamDeletes
    <2> QED BY <2>3, <2>4
  <1>5. ASSUME NEW actor \in Users, NEW a \in Assets,
               Upload(r, actor, a) \/ Unlink(r, actor, a)
        PROVE  req' \in [Requests -> TeamRequests]
    BY <1>5 DEF Upload, Unlink, Starts, TeamTyped, TeamRequests, TeamFiles
  <1> QED
    BY <1>1, <1>2, <1>3, <1>4, <1>5

LEMMA AnswerTyped ==
  ASSUME TeamTyped, NEW r \in Requests, Answer(r)
  PROVE  req' \in [Requests -> TeamRequests]
  BY DEF Answer, TeamTyped, TeamRequests

(* What a save that finds its row leaves in it.                            *)
LEMMA SaveLeaves ==
  ASSUME TeamTyped, NEW r \in Requests, SaveCommits(r),
         Holds(req[r].user, req[r].entity.id)
  PROVE  \E new \in TeamMembers :
            /\ member' = [member EXCEPT ![req[r].user] = new]
            /\ new.id = req[r].entity.id
            /\ new.status \in {member[req[r].user].status, req[r].entity.status}
  <1> DEFINE u == req[r].user
             entity == req[r].entity
  <1>1. u \in Users /\ entity \in TeamMembers /\ req[r].loaded \in TeamMembers
    BY RequestShapes DEF SaveCommits, TeamSaves
  <1>2. member[u] \in TeamMembers /\ member[u].id = entity.id
    BY <1>1, MemberShape DEF Holds
  <1>3. PICK seen \in {req[r].loaded, member[u]} :
               member' = [member EXCEPT ![u] = SavedOver(member[u], seen, entity)]
    BY DEF SaveCommits
  <1> DEFINE new == SavedOver(member[u], seen, entity)
  <1>4. /\ new \in TeamMembers
        /\ new.id \in {member[u].id, entity.id}
        /\ new.status \in {member[u].status, entity.status}
    BY <1>1, <1>2, <1>3, SavedOverTyped
  <1>5. member' = [member EXCEPT ![u] = new]
    BY <1>3
  <1> HIDE DEF new
  <1> QED
    BY <1>2, <1>4, <1>5

LEMMA TypedStep == TeamTyped /\ [Next]_vars => TeamTyped'
  <1> SUFFICES ASSUME TeamTyped, [Next]_vars PROVE TeamTyped'
    OBVIOUS
  <1>1. ASSUME NEW r \in Requests, NEW actor \in Users, NEW u \in Users,
               NEW role \in GivenRoles, Invite(r, actor, u, role)
        PROVE  TeamTyped'
    BY <1>1, ReadsTyped DEF Invite, TeamTyped
  <1>2. ASSUME NEW r \in Requests, NEW actor \in Users, NEW u \in Users,
               NEW role \in GivenRoles, ChangeRole(r, actor, u, role)
        PROVE  TeamTyped'
    BY <1>2, ReadsTyped DEF ChangeRole, TeamTyped
  <1>3. ASSUME NEW r \in Requests, NEW actor \in Users, NEW u \in Users,
               RemoveMember(r, actor, u)
        PROVE  TeamTyped'
    BY <1>3, ReadsTyped DEF RemoveMember, TeamTyped
  <1>4. ASSUME NEW r \in Requests, NEW u \in Users, NEW accept \in BOOLEAN,
               Respond(r, u, accept)
        PROVE  TeamTyped'
    BY <1>4, ReadsTyped DEF Respond, TeamTyped
  <1>5. ASSUME NEW r \in Requests, NEW actor \in Users, NEW a \in Assets,
               Upload(r, actor, a) \/ Unlink(r, actor, a)
        PROVE  TeamTyped'
    BY <1>5, ReadsTyped DEF Upload, Unlink, TeamTyped
  <1>6. ASSUME NEW r \in Requests, InviteCommits(r) PROVE TeamTyped'
    <2>1. req[r].user \in Users /\ req[r].role \in TeamRoles
      BY <1>6, RequestShapes DEF InviteCommits, Invites, TeamRoles
    <2>2. [id |-> lastId + 1, role |-> req[r].role, status |-> "pending"] \in TeamMembers
      BY <2>1 DEF TeamMembers, TeamTyped
    <2>3. member' \in [Users -> TeamMembers \cup {NoMember}] /\ lastId' \in Nat
      BY <1>6, <2>1, <2>2 DEF InviteCommits, TeamTyped
    <2> QED
      BY <1>6, <2>3, AnswerTyped DEF InviteCommits, TeamTyped
  <1>7. ASSUME NEW r \in Requests, SaveCommits(r) PROVE TeamTyped'
    <2>1. req[r].user \in Users /\ req[r].entity.id \in Nat
      BY <1>7, RequestShapes DEF SaveCommits, TeamSaves, TeamMembers
    <2>2. member' \in [Users -> TeamMembers \cup {NoMember}]
      <3>1. CASE Holds(req[r].user, req[r].entity.id)
        BY <1>7, <2>1, <3>1, SaveLeaves DEF TeamTyped
      <3>2. CASE ~Holds(req[r].user, req[r].entity.id)
        BY <1>7, <3>2 DEF SaveCommits, TeamTyped
      <3> QED BY <3>1, <3>2
    <2>3. agreed' \in [Users -> SUBSET Nat]
      BY <1>7, <2>1 DEF SaveCommits, TeamTyped
    <2> QED
      BY <1>7, <2>2, <2>3, AnswerTyped DEF SaveCommits, TeamTyped
  <1>8. ASSUME NEW r \in Requests, DeleteCommits(r) PROVE TeamTyped'
    BY <1>8, AnswerTyped DEF DeleteCommits, TeamTyped
  <1>9. ASSUME NEW r \in Requests, UploadCommits(r) \/ UnlinkCommits(r) PROVE TeamTyped'
    BY <1>9, AnswerTyped DEF UploadCommits, UnlinkCommits, TeamTyped
  <1>10. ASSUME NEW r \in Requests, UnlinkFlushes(r) PROVE TeamTyped'
    <2>1. [req[r] EXCEPT !.op = "unlinked"] \in TeamRequests
      BY <1>10, RequestShapes DEF UnlinkFlushes, TeamFiles, TeamRequests
    <2>2. req' = [req EXCEPT ![r] = [req[r] EXCEPT !.op = "unlinked"]] \/ Answer(r)
      BY <1>10 DEF UnlinkFlushes
    <2>3. req' \in [Requests -> TeamRequests]
      BY <2>1, <2>2, AnswerTyped DEF TeamTyped
    <2> QED
      BY <1>10, <2>3 DEF UnlinkFlushes, TeamTyped
  <1>11. ASSUME NEW r \in Requests, RequestFails(r) PROVE TeamTyped'
    BY <1>11, AnswerTyped DEF RequestFails, TeamTyped
  <1>12. CASE UNCHANGED vars
    BY <1>12 DEF vars, TeamTyped
  <1> QED
    BY <1>1, <1>2, <1>3, <1>4, <1>5, <1>6, <1>7, <1>8, <1>9, <1>10, <1>11, <1>12
    DEF Next, Commits

-----------------------------------------------------------------------------
(* Memberships *)

\* A save of an accepted row carries an id its user agreed to.
SavesAgreed ==
    \A r \in Requests : req[r].op = "save" =>
        /\ req[r].entity.id = req[r].loaded.id
        /\ req[r].loaded.status = "accepted"
           => req[r].loaded.id \in agreed[req[r].user]

TeamIInv == TeamTyped /\ SavesAgreed /\ NobodyJoinsUnasked

LEMMA TeamInitIInv == Init => TeamIInv
  BY DEF Init, TeamIInv, TeamTyped, SavesAgreed, NobodyJoinsUnasked, TeamMembers,
         TeamRoles, NoMember, TeamRequests, Idle

\* Nobody takes back what they agreed to.
LEMMA AgreedGrows ==
  ASSUME TeamTyped, [Next]_vars, NEW u \in Users
  PROVE  agreed[u] \subseteq agreed'[u]
  <1>1. ASSUME NEW r \in Requests, SaveCommits(r) PROVE agreed[u] \subseteq agreed'[u]
    BY <1>1 DEF SaveCommits, TeamTyped
  <1>2. CASE UNCHANGED agreed
    BY <1>2
  <1> QED
    BY <1>1, <1>2
    DEF Next, Commits, Invite, ChangeRole, RemoveMember, Respond, Upload, Unlink,
        InviteCommits, DeleteCommits, UploadCommits, UnlinkFlushes, UnlinkCommits,
        RequestFails, vars

\* A save that was not in flight was loaded in this step.
LEMMA SaveIsLoaded ==
  ASSUME TeamTyped, [Next]_vars, NEW q \in Requests, req'[q].op = "save",
         req'[q] # req[q]
  PROVE  /\ req'[q].user \in Users
         /\ Has(req'[q].user)
         /\ req'[q].loaded = member[req'[q].user]
         /\ req'[q].entity.id = req'[q].loaded.id
         /\ UNCHANGED agreed
  <1> DEFINE Goal == /\ req'[q].user \in Users
                     /\ Has(req'[q].user)
                     /\ req'[q].loaded = member[req'[q].user]
                     /\ req'[q].entity.id = req'[q].loaded.id
                     /\ UNCHANGED agreed
  <1>1. ASSUME NEW r \in Requests, NEW actor \in Users, NEW u \in Users,
               NEW role \in GivenRoles, ChangeRole(r, actor, u, role)
        PROVE  Goal
    <2> DEFINE entity == [member[u] EXCEPT !.role = role]
    <2>1. r = q
      BY <1>1 DEF ChangeRole, Starts, TeamTyped
    <2>2. req'[q] = [op |-> "save", user |-> u, loaded |-> member[u],
                     entity |-> entity]
      BY <1>1, <2>1 DEF ChangeRole, Starts, TeamTyped
    <2>3. member[u] \in TeamMembers /\ Has(u)
      BY <1>1, MemberShape DEF ChangeRole
    <2>4. entity.id = member[u].id
      BY <2>3 DEF TeamMembers
    <2>5. UNCHANGED agreed
      BY <1>1 DEF ChangeRole
    <2> HIDE DEF entity
    <2>6. /\ req'[q].user = u
          /\ req'[q].loaded = member[u]
          /\ req'[q].entity = entity
      BY <2>2
    <2> QED
      BY <2>3, <2>4, <2>5, <2>6
  <1>2. ASSUME NEW r \in Requests, NEW u \in Users, NEW accept \in BOOLEAN,
               Respond(r, u, accept)
        PROVE  Goal
    <2> DEFINE entity == [member[u] EXCEPT !.status = "accepted"]
    <2>1. r = q
      BY <1>2 DEF Respond, Starts, TeamTyped
    <2>2. req'[q] = [op |-> "save", user |-> u, loaded |-> member[u],
                     entity |-> entity]
      BY <1>2, <2>1 DEF Respond, Starts, TeamTyped
    <2>3. member[u] \in TeamMembers /\ Has(u)
      BY <1>2, MemberShape, StatusShape DEF Respond
    <2>4. entity.id = member[u].id
      BY <2>3 DEF TeamMembers
    <2>5. UNCHANGED agreed
      BY <1>2 DEF Respond
    <2> HIDE DEF entity
    <2>6. /\ req'[q].user = u
          /\ req'[q].loaded = member[u]
          /\ req'[q].entity = entity
      BY <2>2
    <2> QED
      BY <2>3, <2>4, <2>5, <2>6
  <1>3. ASSUME NEW r \in Requests, NEW request, req' = [req EXCEPT ![r] = request],
               request.op # "save"
        PROVE  FALSE
    BY <1>3 DEF TeamTyped
  <1>4. \/ \E r \in Requests, actor, u \in Users, role \in GivenRoles :
              ChangeRole(r, actor, u, role)
        \/ \E r \in Requests, u \in Users, accept \in BOOLEAN : Respond(r, u, accept)
        \/ \E r \in Requests : \E request :
              req' = [req EXCEPT ![r] = request] /\ request.op # "save"
        \/ UNCHANGED req
    <2> DEFINE Other == \E r \in Requests : \E request :
                          req' = [req EXCEPT ![r] = request] /\ request.op # "save"
    <2>1. ASSUME NEW r \in Requests, Answer(r) PROVE Other
      BY <2>1 DEF Answer, Idle
    <2>2. ASSUME NEW r \in Requests, UnlinkFlushes(r) PROVE Other
      <3>1. [req[r] EXCEPT !.op = "unlinked"].op # "save"
        BY <2>2, RequestShapes DEF UnlinkFlushes, TeamFiles
      <3> QED
        BY <2>1, <2>2, <3>1 DEF UnlinkFlushes
    <2>3. ASSUME NEW r \in Requests, NEW actor \in Users, NEW u \in Users,
                 NEW role \in GivenRoles, Invite(r, actor, u, role)
          PROVE  Other
      BY <2>3 DEF Invite, Starts
    <2>4. ASSUME NEW r \in Requests, NEW actor \in Users, NEW u \in Users,
                 RemoveMember(r, actor, u)
          PROVE  Other
      BY <2>4 DEF RemoveMember, Starts
    <2>5. ASSUME NEW r \in Requests, NEW actor \in Users, NEW a \in Assets,
                 Upload(r, actor, a)
          PROVE  Other
      BY <2>5 DEF Upload, Starts
    <2>6. ASSUME NEW r \in Requests, NEW actor \in Users, NEW a \in Assets,
                 Unlink(r, actor, a)
          PROVE  Other
      BY <2>6 DEF Unlink, Starts
    <2>7. ASSUME NEW r \in Requests, Commits(r) \/ RequestFails(r) PROVE Other
      BY <2>1, <2>2, <2>7
      DEF Commits, InviteCommits, SaveCommits, DeleteCommits, UploadCommits,
          UnlinkCommits, RequestFails
    <2> HIDE DEF Other
    <2>8. CASE UNCHANGED vars
      BY <2>8 DEF vars
    <2>9. ASSUME Next
          PROVE  \/ \E r \in Requests, actor, u \in Users, role \in GivenRoles :
                       ChangeRole(r, actor, u, role)
                 \/ \E r \in Requests, u \in Users, accept \in BOOLEAN :
                       Respond(r, u, accept)
                 \/ Other
      BY <2>3, <2>4, <2>5, <2>6, <2>7, <2>9 DEF Next
    <2> QED
      BY <2>8, <2>9 DEF Other
  <1> QED
    BY <1>1, <1>2, <1>3, <1>4

LEMMA SavesAgreedStep == TeamIInv /\ [Next]_vars => SavesAgreed'
  <1> SUFFICES ASSUME TeamIInv, [Next]_vars, NEW q \in Requests, req'[q].op = "save"
               PROVE  /\ req'[q].entity.id = req'[q].loaded.id
                      /\ req'[q].loaded.status = "accepted"
                         => req'[q].loaded.id \in agreed'[req'[q].user]
    BY DEF SavesAgreed
  <1> TeamTyped
    BY DEF TeamIInv
  <1>1. CASE req'[q] = req[q]
    <2>1. req[q].user \in Users
      BY <1>1, RequestShapes DEF TeamSaves
    <2> QED
      BY <1>1, <2>1, AgreedGrows DEF TeamIInv, SavesAgreed
  <1>2. CASE req'[q] # req[q]
    BY <1>2, SaveIsLoaded DEF TeamIInv, NobodyJoinsUnasked
  <1> QED BY <1>1, <1>2

LEMMA JoinStep == TeamIInv /\ [Next]_vars => NobodyJoinsUnasked'
  <1> SUFFICES ASSUME TeamIInv, [Next]_vars PROVE NobodyJoinsUnasked'
    OBVIOUS
  <1> TeamTyped
    BY DEF TeamIInv
  <1>1. ASSUME NEW r \in Requests, InviteCommits(r) PROVE NobodyJoinsUnasked'
    BY <1>1 DEF InviteCommits, TeamIInv, TeamTyped, NobodyJoinsUnasked
  <1>2. ASSUME NEW r \in Requests, DeleteCommits(r) PROVE NobodyJoinsUnasked'
    BY <1>2 DEF DeleteCommits, TeamIInv, TeamTyped, NobodyJoinsUnasked, NoMember
  <1>3. ASSUME NEW r \in Requests, SaveCommits(r) PROVE NobodyJoinsUnasked'
    <2> DEFINE u == req[r].user
               entity == req[r].entity
    <2>1. CASE ~Holds(u, entity.id)
      BY <1>3, <2>1 DEF SaveCommits, TeamIInv, NobodyJoinsUnasked
    <2>2. CASE Holds(u, entity.id)
      <3>1. u \in Users /\ entity \in TeamMembers /\ req[r].op = "save"
        BY <1>3, RequestShapes DEF SaveCommits, TeamSaves
      <3>2. PICK new \in TeamMembers :
                  /\ member' = [member EXCEPT ![u] = new]
                  /\ new.id = entity.id
                  /\ new.status \in {member[u].status, entity.status}
        BY <1>3, <2>2, SaveLeaves
      <3>3. ASSUME new.status = "accepted" PROVE entity.id \in agreed'[u]
        <4>1. CASE member[u].status = "accepted"
          BY <2>2, <3>1, <4>1, AgreedGrows DEF Holds, TeamIInv, NobodyJoinsUnasked
        <4>2. CASE entity.status = "accepted" /\ req[r].loaded.status # entity.status
          BY <1>3, <2>2, <3>1, <4>2 DEF SaveCommits, TeamTyped
        <4>3. CASE entity.status = "accepted" /\ req[r].loaded.status = "accepted"
          BY <3>1, <4>3, AgreedGrows DEF TeamIInv, SavesAgreed
        <4> QED BY <3>2, <3>3, <4>1, <4>2, <4>3
      <3>4. ASSUME NEW v \in Users, v # u, member'[v].status = "accepted"
            PROVE  member'[v].id \in agreed'[v]
        <4>1. member'[v] = member[v]
          BY <3>2, <3>4 DEF TeamTyped
        <4> QED BY <3>4, <4>1, AgreedGrows DEF TeamIInv, NobodyJoinsUnasked
      <3>5. member'[u] = new
        BY <3>1, <3>2 DEF TeamTyped
      <3> QED BY <3>2, <3>3, <3>4, <3>5 DEF NobodyJoinsUnasked
    <2> QED BY <2>1, <2>2
  <1>4. CASE UNCHANGED <<member, agreed>>
    BY <1>4 DEF TeamIInv, NobodyJoinsUnasked
  <1> QED
    BY <1>1, <1>2, <1>3, <1>4
    DEF Next, Commits, Invite, ChangeRole, RemoveMember, Respond, Upload, Unlink,
        UploadCommits, UnlinkFlushes, UnlinkCommits, RequestFails, vars

LEMMA TeamStepIInv == TeamIInv /\ [Next]_vars => TeamIInv'
  BY TypedStep, SavesAgreedStep, JoinStep DEF TeamIInv

(* The inductive invariant of the memberships: the rows and requests are     *)
(* well formed, and what is saved from an accepted row was agreed to.        *)
THEOREM TeamInvariant == Spec => []TeamIInv
  BY TeamInitIInv, TeamStepIInv, PTL DEF Spec

(* Nobody is on the team who did not accept this very invitation, whatever   *)
(* managers change or remove between its loading and its saving              *)
(* (member.py:106-126, members.py:196-205).                                  *)
THEOREM JoinedWasAsked == Spec => []NobodyJoinsUnasked
  <1>1. TeamIInv => NobodyJoinsUnasked
    BY DEF TeamIInv
  <1> QED BY <1>1, TeamInvariant, PTL

-----------------------------------------------------------------------------
(* Assets *)

\* Two requests do not upload one asset, and do not both delete its row.
NoRival(q, r) ==
    /\ req[q].op \in {"upload", "unlinked"}
    /\ req[q].op = req[r].op
    /\ req[q].asset = req[r].asset
    => q = r

FilesInFlight ==
    \A q \in Requests :
        /\ req[q].op = "upload" => req[q].asset \in blob \ asset
        /\ req[q].op = "unlinked" => req[q].asset \in asset
        /\ \A r \in Requests : NoRival(q, r)

FilesIInv == TeamTyped /\ FilesInFlight /\ ListedHasBytes

LEMMA FilesInitIInv == Init => FilesIInv
  BY TeamInitIInv
  DEF Init, FilesIInv, TeamIInv, FilesInFlight, NoRival, ListedHasBytes, Idle

\* A request that stands for no file disturbs none that does.
LEMMA OtherRequest ==
  ASSUME FilesIInv, NEW r \in Requests, NEW request \in TeamRequests,
         req' = [req EXCEPT ![r] = request],
         req[r].op # "unlinked", request.op \notin {"upload", "unlinked"},
         UNCHANGED <<asset, blob>>, undone \subseteq undone'
  PROVE  FilesInFlight' /\ ListedHasBytes'
  <1>1. FilesInFlight'
    BY DEF FilesIInv, TeamTyped, FilesInFlight, NoRival
  <1>2. \A a \in asset : Unlinking(a) => Unlinking(a)'
    BY DEF FilesIInv, TeamTyped, Unlinking
  <1> QED
    BY <1>1, <1>2 DEF FilesIInv, ListedHasBytes

LEMMA UploadStep ==
  ASSUME FilesIInv, NEW r \in Requests, NEW actor \in Users, NEW a \in Assets,
         Upload(r, actor, a)
  PROVE  FilesInFlight' /\ ListedHasBytes'
  <1>1. /\ req[r] = Idle
        /\ req' = [req EXCEPT ![r] = [op |-> "upload", asset |-> a]]
        /\ blob' = blob \cup {a}
        /\ asset' = asset /\ undone' = undone
        /\ a \notin asset
    BY DEF Upload, Starts
  <1>2. \A q \in Requests : req[q].op = "upload" => req[q].asset # a
    BY DEF Upload, Idle
  <1>3. /\ req'[r] = [op |-> "upload", asset |-> a]
        /\ \A q \in Requests : q # r => req'[q] = req[q]
    BY <1>1 DEF FilesIInv, TeamTyped
  <1>4. FilesInFlight'
    BY <1>1, <1>2, <1>3 DEF FilesIInv, FilesInFlight, NoRival
  <1>5. \A b \in asset : Unlinking(b) => Unlinking(b)'
    BY <1>1, <1>3 DEF Unlinking, Idle
  <1> QED
    BY <1>1, <1>4, <1>5 DEF FilesIInv, ListedHasBytes

LEMMA UploadCommitsStep ==
  ASSUME FilesIInv, NEW r \in Requests, UploadCommits(r)
  PROVE  FilesInFlight' /\ ListedHasBytes'
  <1> DEFINE a == req[r].asset
  <1>1. /\ req[r].op = "upload"
        /\ asset' = asset \cup {a} /\ blob' = blob /\ undone' = undone
        /\ req' = [req EXCEPT ![r] = Idle]
    BY DEF UploadCommits, Answer
  <1>2. /\ req'[r] = Idle
        /\ \A q \in Requests : q # r => req'[q] = req[q]
    BY <1>1 DEF FilesIInv, TeamTyped
  <1>3. a \in blob /\ \A q \in Requests : q # r /\ req[q].op = "upload" => req[q].asset # a
    BY <1>1 DEF FilesIInv, FilesInFlight, NoRival
  <1>4. FilesInFlight'
    BY <1>1, <1>2, <1>3 DEF FilesIInv, FilesInFlight, NoRival, Idle
  <1>5. \A b \in asset : Unlinking(b) => Unlinking(b)'
    BY <1>1, <1>2 DEF Unlinking
  <1> QED
    BY <1>1, <1>3, <1>4, <1>5 DEF FilesIInv, ListedHasBytes

LEMMA UnlinkFlushesStep ==
  ASSUME FilesIInv, NEW r \in Requests, UnlinkFlushes(r), req[r].asset \in asset
  PROVE  FilesInFlight' /\ ListedHasBytes'
  <1> DEFINE a == req[r].asset
  <1>1. /\ req[r].op = "unlink" /\ ~Unlinking(a)
        /\ asset' = asset /\ blob' = blob \ {a} /\ undone' = undone
        /\ req' = [req EXCEPT ![r] = [req[r] EXCEPT !.op = "unlinked"]]
    BY DEF UnlinkFlushes
  <1>2. [req[r] EXCEPT !.op = "unlinked"] = [op |-> "unlinked", asset |-> a]
    BY <1>1, RequestShapes DEF TeamFiles, FilesIInv
  <1>3. /\ req'[r] = [op |-> "unlinked", asset |-> a]
        /\ \A q \in Requests : q # r => req'[q] = req[q]
    BY <1>1, <1>2 DEF FilesIInv, TeamTyped
  <1>4. FilesInFlight'
    BY <1>1, <1>3 DEF FilesIInv, FilesInFlight, NoRival, Unlinking
  <1>5. \A b \in asset : Unlinking(b) => Unlinking(b)'
    BY <1>1, <1>3 DEF Unlinking
  <1>6. Unlinking(a)'
    BY <1>3 DEF Unlinking
  <1> QED
    BY <1>1, <1>4, <1>5, <1>6 DEF FilesIInv, ListedHasBytes

\* A deletion that ends, with its row or by a rollback.
LEMMA UnlinkEndsStep ==
  ASSUME FilesIInv, NEW r \in Requests, req[r].op = "unlinked", Answer(r),
         UNCHANGED blob,
         \/ asset' = asset \ {req[r].asset} /\ undone' = undone
         \/ asset' = asset /\ undone' = undone \cup {req[r].asset}
  PROVE  FilesInFlight' /\ ListedHasBytes'
  <1> DEFINE a == req[r].asset
  <1>1. /\ req'[r] = Idle
        /\ \A q \in Requests : q # r => req'[q] = req[q]
    BY DEF Answer, FilesIInv, TeamTyped
  <1>2. \A q \in Requests : q # r /\ req[q].op = "unlinked" => req[q].asset # a
    BY DEF FilesIInv, FilesInFlight, NoRival
  <1>3. FilesInFlight'
    BY <1>1, <1>2 DEF FilesIInv, FilesInFlight, NoRival, Idle
  <1>4. \A b \in asset : b # a /\ Unlinking(b) => Unlinking(b)'
    BY <1>1 DEF Unlinking
  <1>5. \A b \in asset' : b # a \/ b \in undone'
    OBVIOUS
  <1>6. asset' \subseteq asset /\ undone \subseteq undone'
    OBVIOUS
  <1> QED
    BY <1>3, <1>4, <1>5, <1>6 DEF FilesIInv, ListedHasBytes

LEMMA FilesStepIInv == FilesIInv /\ [Next]_vars => FilesIInv'
  <1> SUFFICES ASSUME FilesIInv, [Next]_vars PROVE FilesInFlight' /\ ListedHasBytes'
    BY TypedStep DEF FilesIInv
  <1> TeamTyped /\ TeamTyped'
    BY TypedStep DEF FilesIInv
  <1> DEFINE Goal == FilesInFlight' /\ ListedHasBytes'
  <1>1. ASSUME NEW r \in Requests, NEW request, req' = [req EXCEPT ![r] = request],
               req[r].op # "unlinked", request.op \notin {"upload", "unlinked"},
               UNCHANGED <<asset, blob>>, undone \subseteq undone'
        PROVE  Goal
    <2>1. request \in TeamRequests
      <3>1. req'[r] = request
        BY <1>1 DEF TeamTyped
      <3> QED BY <3>1 DEF TeamTyped
    <2> QED BY <1>1, <2>1, OtherRequest
  <1>2. ASSUME NEW r \in Requests, NEW actor \in Users, NEW u \in Users,
               NEW role \in GivenRoles, Invite(r, actor, u, role)
        PROVE  Goal
    <2> DEFINE request == [op |-> "invite", user |-> u, role |-> role]
    <2>1. /\ req' = [req EXCEPT ![r] = request] /\ req[r].op # "unlinked"
          /\ request.op = "invite"
          /\ UNCHANGED <<asset, blob, undone>>
      BY <1>2 DEF Invite, Starts, Idle
    <2> HIDE DEF request, Goal
    <2> QED BY <1>1, <2>1
  <1>3. ASSUME NEW r \in Requests, NEW actor \in Users, NEW u \in Users,
               NEW role \in GivenRoles, ChangeRole(r, actor, u, role)
        PROVE  Goal
    <2> DEFINE request == [op |-> "save", user |-> u, loaded |-> member[u],
                           entity |-> [member[u] EXCEPT !.role = role]]
    <2>1. /\ req' = [req EXCEPT ![r] = request] /\ req[r].op # "unlinked"
          /\ request.op = "save"
          /\ UNCHANGED <<asset, blob, undone>>
      BY <1>3 DEF ChangeRole, Starts, Idle
    <2> HIDE DEF request, Goal
    <2> QED BY <1>1, <2>1
  <1>4. ASSUME NEW r \in Requests, NEW actor \in Users, NEW u \in Users,
               RemoveMember(r, actor, u)
        PROVE  Goal
    <2> DEFINE request == [op |-> "delete", user |-> u, loaded |-> member[u]]
    <2>1. /\ req' = [req EXCEPT ![r] = request] /\ req[r].op # "unlinked"
          /\ request.op = "delete"
          /\ UNCHANGED <<asset, blob, undone>>
      BY <1>4 DEF RemoveMember, Starts, Idle
    <2> HIDE DEF request, Goal
    <2> QED BY <1>1, <2>1
  <1>5. ASSUME NEW r \in Requests, NEW u \in Users, NEW accept \in BOOLEAN,
               Respond(r, u, accept)
        PROVE  Goal
    <2> DEFINE request ==
          IF accept THEN [op |-> "save", user |-> u, loaded |-> member[u],
                          entity |-> [member[u] EXCEPT !.status = "accepted"]]
                    ELSE [op |-> "delete", user |-> u, loaded |-> member[u]]
    <2>1. /\ req' = [req EXCEPT ![r] = request] /\ req[r].op # "unlinked"
          /\ request.op \in {"save", "delete"}
          /\ UNCHANGED <<asset, blob, undone>>
      BY <1>5 DEF Respond, Starts, Idle
    <2> HIDE DEF request, Goal
    <2> QED BY <1>1, <2>1
  <1>6. ASSUME NEW r \in Requests, NEW actor \in Users, NEW a \in Assets,
               Unlink(r, actor, a)
        PROVE  Goal
    <2> DEFINE request == [op |-> "unlink", asset |-> a]
    <2>1. /\ req' = [req EXCEPT ![r] = request] /\ req[r].op # "unlinked"
          /\ request.op = "unlink"
          /\ UNCHANGED <<asset, blob, undone>>
      BY <1>6 DEF Unlink, Starts, Idle
    <2> HIDE DEF request, Goal
    <2> QED BY <1>1, <2>1
  <1>7. ASSUME NEW r \in Requests, Answer(r), req[r].op # "unlinked",
               UNCHANGED <<asset, blob>>, undone \subseteq undone'
        PROVE  Goal
    <2>1. req' = [req EXCEPT ![r] = Idle] /\ Idle.op = "idle"
      BY <1>7 DEF Answer, Idle
    <2> HIDE DEF Goal
    <2> QED BY <1>1, <1>7, <2>1
  <1>8. ASSUME NEW r \in Requests,
               InviteCommits(r) \/ SaveCommits(r) \/ DeleteCommits(r)
        PROVE  Goal
    <2> HIDE DEF Goal
    <2> QED BY <1>7, <1>8 DEF InviteCommits, SaveCommits, DeleteCommits
  <1>9. ASSUME NEW r \in Requests, UnlinkFlushes(r) PROVE Goal
    <2>1. CASE req[r].asset \in asset
      BY <1>9, <2>1, UnlinkFlushesStep
    <2>2. CASE req[r].asset \notin asset
      <3> HIDE DEF Goal
      <3> QED BY <1>7, <1>9, <2>2 DEF UnlinkFlushes
    <2> QED BY <2>1, <2>2
  <1>10. ASSUME NEW r \in Requests, UnlinkCommits(r) PROVE Goal
    BY <1>10, UnlinkEndsStep DEF UnlinkCommits
  <1>11. ASSUME NEW r \in Requests, RequestFails(r) PROVE Goal
    <2>1. CASE req[r].op = "unlinked"
      BY <1>11, <2>1, UnlinkEndsStep DEF RequestFails
    <2>2. CASE req[r].op # "unlinked"
      <3> HIDE DEF Goal
      <3> QED BY <1>7, <1>11, <2>2 DEF RequestFails
    <2> QED BY <2>1, <2>2
  <1>12. ASSUME UNCHANGED vars PROVE Goal
    BY <1>12 DEF vars, FilesIInv, FilesInFlight, NoRival, ListedHasBytes, Unlinking
  <1>13. ASSUME NEW r \in Requests, NEW actor \in Users, NEW a \in Assets,
                Upload(r, actor, a)
         PROVE  Goal
    BY <1>13, UploadStep
  <1>14. ASSUME NEW r \in Requests, UploadCommits(r) PROVE Goal
    BY <1>14, UploadCommitsStep
  <1> HIDE DEF Goal
  <1>15. ASSUME NEW r \in Requests, Commits(r) \/ RequestFails(r) PROVE Goal
    BY <1>8, <1>9, <1>10, <1>11, <1>14, <1>15 DEF Commits
  <1>16. ASSUME Next PROVE Goal
    BY <1>2, <1>3, <1>4, <1>5, <1>6, <1>13, <1>15, <1>16 DEF Next
  <1>17. Goal
    BY <1>12, <1>16
  <1> QED BY <1>17 DEF Goal

(* What is listed has its bytes or a rolled-back deletion behind it, whoever *)
(* deletes it at the same time and however an upload of it ended             *)
(* (content.py:155-162).                                                     *)
THEOREM ListedIsStored == Spec => []ListedHasBytes
  <1>1. FilesIInv => ListedHasBytes
    BY DEF FilesIInv
  <1> QED BY <1>1, FilesInitIInv, FilesStepIInv, PTL DEF Spec

HIDE TeamAssumption

-----------------------------------------------------------------------------
(* Backup *)

USE BackupAssumption


\* Bytes are there before a row is, and gone before it goes: but while a
\* restore is under way, which has rows of the dump before their bytes.
RowsHaveBytes ==
    /\ writing \subseteq stored \cup removed
    /\ copying = "loaded" => listed \subseteq stored \cup removed \cup dump
    /\ copying \in {"idle", "dumped", "whole", "restored"} => listed \subseteq stored \cup removed

\* A row of the dump is still to be copied, was, or is removed; until the copy
\* begins it is in the bucket, or is removed.
DumpIsBehind ==
    copying = "dumped" =>
        /\ dump \subseteq stored \cup removed
        /\ pending \subseteq stored \cup removed
        /\ pending \cup mirror # {} => dump \subseteq pending \cup mirror \cup removed

\* A backup that is whole has the bytes of its rows.
WholeBackup ==
    copying \in {"whole", "dropped", "loaded", "half", "restored"} => dump \subseteq mirror \cup removed

BackupIInv == BackupTypeOK /\ RowsHaveBytes /\ DumpIsBehind /\ WholeBackup

LEMMA BackupInitIInv == BackupInit => BackupIInv
  BY DEF BackupInit, BackupIInv, BackupTypeOK, Steps, RowsHaveBytes, DumpIsBehind, WholeBackup

LEMMA RequestsKeepBackup ==
  ASSUME BackupIInv, NEW f \in Files,
         Store(f) \/ Commit(f) \/ Abort(f) \/ Unstore(f) \/ Unlist(f)
  PROVE  BackupIInv'
  <1> USE DEF BackupIInv, BackupTypeOK, RowsHaveBytes, DumpIsBehind, WholeBackup, HasSchema
  <1>1. CASE Store(f)
    BY <1>1 DEF Store
  <1>2. CASE Commit(f)
    BY <1>2 DEF Commit
  <1>3. CASE Abort(f)
    BY <1>3 DEF Abort
  <1>4. CASE Unstore(f)
    BY <1>4 DEF Unstore
  <1>5. CASE Unlist(f)
    BY <1>5 DEF Unlist
  <1> QED BY <1>1, <1>2, <1>3, <1>4, <1>5

LEMMA CopyKeepsBackup ==
  ASSUME BackupIInv,
         \/ Dump \/ MirrorStarts \/ (\E f \in Files : MirrorCopies(f)) \/ BackupEnds
  PROVE  BackupIInv'
  <1> USE DEF BackupIInv, BackupTypeOK, RowsHaveBytes, DumpIsBehind, WholeBackup
  <1>1. CASE Dump
    BY <1>1 DEF Dump, Steps
  <1>2. CASE MirrorStarts
    BY <1>2 DEF MirrorStarts
  <1>3. ASSUME NEW f \in Files, MirrorCopies(f) PROVE BackupIInv'
    BY <1>3 DEF MirrorCopies
  <1>4. CASE BackupEnds
    BY <1>4 DEF BackupEnds, Steps
  <1> QED BY <1>1, <1>2, <1>3, <1>4

LEMMA RestoreKeepsBackup ==
  ASSUME BackupIInv, DropSchema \/ LoadDump \/ MirrorBack \/ RestoreFails
  PROVE  BackupIInv'
  <1> USE DEF BackupIInv, BackupTypeOK, RowsHaveBytes, DumpIsBehind, WholeBackup, Steps
  <1>1. CASE DropSchema
    BY <1>1 DEF DropSchema
  <1>2. CASE LoadDump
    BY <1>2 DEF LoadDump
  <1>3. CASE MirrorBack
    BY <1>3 DEF MirrorBack
  <1>4. CASE RestoreFails
    BY <1>4 DEF RestoreFails
  <1> QED BY <1>1, <1>2, <1>3, <1>4

LEMMA DisasterKeepsBackup ==
  ASSUME BackupIInv, Disaster
  PROVE  BackupIInv'
  BY DEF BackupIInv, BackupTypeOK, RowsHaveBytes, DumpIsBehind, WholeBackup, Disaster, Steps

(* However a backup, the requests beside it, disasters and restores follow   *)
(* each other, a row of the dump has its bytes in the bucket copied after it,*)
(* or was removed.                                                           *)
THEOREM BackupInvariant == BackupSpec => []BackupIInv
  <1>1. BackupIInv /\ [BackupNext]_backupVars => BackupIInv'
    <2>1. CASE UNCHANGED backupVars
      BY <2>1 DEF backupVars, BackupIInv, BackupTypeOK, RowsHaveBytes, DumpIsBehind, WholeBackup
    <2> QED
      BY <2>1, RequestsKeepBackup, CopyKeepsBackup, RestoreKeepsBackup, DisasterKeepsBackup
      DEF BackupNext
  <1> QED BY <1>1, BackupInitIInv, PTL DEF BackupSpec

(* A finished restore lists no file whose bytes nobody deleted and that are  *)
(* not there: the dump is older than the copy of the bucket                  *)
(* (backup.py:88-148, restore.py).                                           *)
THEOREM RestoresWithItsBytes == BackupSpec => []RestoredHasBytes
  <1>1. BackupIInv => RestoredHasBytes
    BY DEF BackupIInv, RowsHaveBytes, RestoredHasBytes
  <1> QED BY <1>1, BackupInvariant, PTL

HIDE BackupAssumption

-----------------------------------------------------------------------------
(* The wipe *)

USE SeedAssumption


\* By the foreign keys of the schema a row goes only with what it hangs on
\* (models.py).
LEMMA GoesWithWhatItHangsOn ==
  ASSUME NEW t \in DOMAIN Metadata, NEW f \in Metadata[t].refs, f.on = "CASCADE"
  PROVE  f.column \in Hangers
  <1>1. CASE t = "users"
    <2>1. Metadata[t] = UserModel
      BY <1>1 DEF Metadata
    <2>2. UserModel.refs = {}
      BY DEF UserModel, Table
    <2> QED BY <2>1, <2>2 DEF Ref, Hangers
  <1>2. CASE t = "refresh_tokens"
    <2>1. Metadata[t] = RefreshTokenModel
      BY <1>2 DEF Metadata
    <2>2. RefreshTokenModel.refs = {Ref("user_id", "users", "CASCADE")}
      BY DEF RefreshTokenModel, Table
    <2> QED BY <2>1, <2>2 DEF Ref, Hangers
  <1>3. CASE t = "projects"
    <2>1. Metadata[t] = ProjectModel
      BY <1>3 DEF Metadata
    <2>2. ProjectModel.refs = {Ref("owner_id", "users", "RESTRICT"),
                     Ref("approved_by", "users", "SET_NULL")}
      BY DEF ProjectModel, Table
    <2> QED BY <2>1, <2>2 DEF Ref, Hangers
  <1>4. CASE t = "project_members"
    <2>1. Metadata[t] = ProjectMemberModel
      BY <1>4 DEF Metadata
    <2>2. ProjectMemberModel.refs = {Ref("project_id", "projects", "CASCADE"),
                     Ref("user_id", "users", "CASCADE"),
                     Ref("invited_by", "users", "SET_NULL")}
      BY DEF ProjectMemberModel, Table
    <2> QED BY <2>1, <2>2 DEF Ref, Hangers
  <1>5. CASE t = "remarks"
    <2>1. Metadata[t] = RemarkModel
      BY <1>5 DEF Metadata
    <2>2. RemarkModel.refs = {Ref("project_id", "projects", "CASCADE"),
                     Ref("author_id", "users", "SET_NULL")}
      BY DEF RemarkModel, Table
    <2> QED BY <2>1, <2>2 DEF Ref, Hangers
  <1>6. CASE t = "reference_assets"
    <2>1. Metadata[t] = ReferenceAssetModel
      BY <1>6 DEF Metadata
    <2>2. ReferenceAssetModel.refs = {Ref("project_id", "projects", "CASCADE"),
                     Ref("uploaded_by", "users", "RESTRICT")}
      BY DEF ReferenceAssetModel, Table
    <2> QED BY <2>1, <2>2 DEF Ref, Hangers
  <1>7. CASE t = "devices"
    <2>1. Metadata[t] = DeviceModel
      BY <1>7 DEF Metadata
    <2>2. DeviceModel.refs = {Ref("project_id", "projects", "CASCADE")}
      BY DEF DeviceModel, Table
    <2> QED BY <2>1, <2>2 DEF Ref, Hangers
  <1>8. CASE t = "pairing_tokens"
    <2>1. Metadata[t] = PairingTokenModel
      BY <1>8 DEF Metadata
    <2>2. PairingTokenModel.refs = {Ref("project_id", "projects", "CASCADE"),
                     Ref("used_by_device_id", "devices", "SET_NULL"),
                     Ref("created_by", "users", "CASCADE")}
      BY DEF PairingTokenModel, Table
    <2> QED BY <2>1, <2>2 DEF Ref, Hangers
  <1>9. CASE t = "device_events"
    <2>1. Metadata[t] = DeviceEventModel
      BY <1>9 DEF Metadata
    <2>2. DeviceEventModel.refs = {Ref("device_id", "devices", "CASCADE")}
      BY DEF DeviceEventModel, Table
    <2> QED BY <2>1, <2>2 DEF Ref, Hangers
  <1>10. CASE t = "images"
    <2>1. Metadata[t] = ImageModel
      BY <1>10 DEF Metadata
    <2>2. ImageModel.refs = {Ref("project_id", "projects", "CASCADE"),
                     Ref("device_id", "devices", "SET_NULL")}
      BY DEF ImageModel, Table
    <2> QED BY <2>1, <2>2 DEF Ref, Hangers
  <1>11. CASE t = "predictions"
    <2>1. Metadata[t] = PredictionModel
      BY <1>11 DEF Metadata
    <2>2. PredictionModel.refs = {Ref("image_id", "images", "CASCADE"),
                     Ref("model_id", "ai_models", "RESTRICT")}
      BY DEF PredictionModel, Table
    <2> QED BY <2>1, <2>2 DEF Ref, Hangers
  <1>12. CASE t = "detections"
    <2>1. Metadata[t] = DetectionModel
      BY <1>12 DEF Metadata
    <2>2. DetectionModel.refs = {Ref("image_id", "images", "CASCADE"),
                     Ref("model_id", "ai_models", "RESTRICT")}
      BY DEF DetectionModel, Table
    <2> QED BY <2>1, <2>2 DEF Ref, Hangers
  <1>13. CASE t = "detection_summaries"
    <2>1. Metadata[t] = DetectionSummaryModel
      BY <1>13 DEF Metadata
    <2>2. DetectionSummaryModel.refs = {Ref("image_id", "images", "CASCADE")}
      BY DEF DetectionSummaryModel, Table
    <2> QED BY <2>1, <2>2 DEF Ref, Hangers
  <1>14. CASE t = "project_progress_snapshots"
    <2>1. Metadata[t] = ProgressSnapshotModel
      BY <1>14 DEF Metadata
    <2>2. ProgressSnapshotModel.refs = {Ref("project_id", "projects", "CASCADE")}
      BY DEF ProgressSnapshotModel, Table
    <2> QED BY <2>1, <2>2 DEF Ref, Hangers
  <1>15. CASE t = "reports"
    <2>1. Metadata[t] = ReportModel
      BY <1>15 DEF Metadata
    <2>2. ReportModel.refs = {Ref("project_id", "projects", "CASCADE"),
                     Ref("requested_by", "users", "RESTRICT")}
      BY DEF ReportModel, Table
    <2> QED BY <2>1, <2>2 DEF Ref, Hangers
  <1>16. CASE t = "ai_models"
    <2>1. Metadata[t] = AIModelModel
      BY <1>16 DEF Metadata
    <2>2. AIModelModel.refs = {}
      BY DEF AIModelModel, Table
    <2> QED BY <2>1, <2>2 DEF Ref, Hangers
  <1>17. CASE t = "notifications"
    <2>1. Metadata[t] = NotificationModel
      BY <1>17 DEF Metadata
    <2>2. NotificationModel.refs = {Ref("user_id", "users", "CASCADE"),
                     Ref("project_id", "projects", "CASCADE")}
      BY DEF NotificationModel, Table
    <2> QED BY <2>1, <2>2 DEF Ref, Hangers
  <1>18. CASE t = "contact_messages"
    <2>1. Metadata[t] = ContactMessageModel
      BY <1>18 DEF Metadata
    <2>2. ContactMessageModel.refs = {}
      BY DEF ContactMessageModel, Table
    <2> QED BY <2>1, <2>2 DEF Ref, Hangers
  <1>19. CASE t = "audit_logs"
    <2>1. Metadata[t] = AuditLogModel
      BY <1>19 DEF Metadata
    <2>2. AuditLogModel.refs = {Ref("actor_user_id", "users", "SET_NULL"),
                     Ref("actor_device_id", "devices", "SET_NULL")}
      BY DEF AuditLogModel, Table
    <2> QED BY <2>1, <2>2 DEF Ref, Hangers
  <1> QED
    BY <1>1, <1>2, <1>3, <1>4, <1>5, <1>6, <1>7, <1>8, <1>9, <1>10,
       <1>11, <1>12, <1>13, <1>14, <1>15, <1>16, <1>17, <1>18, <1>19 DEF Metadata

LEMMA TheirsHangTogether ==
  ASSUME NEW r \in Theirs, NEW gone, NEW nulls, NEW f \in References(r, gone, nulls),
         f.on = "CASCADE"
  PROVE  gone \cap Theirs # {}
  <1>1. r \in Rows
    BY DEF Rows
  <1>2. f \in Metadata[RowOf[r].table].refs
    BY DEF References
  <1>3. f.column \in Hangers
    BY <1>1, <1>2, GoesWithWhatItHangsOn
  <1> QED BY <1>3 DEF References

LEMMA NothingOfTheirsGoes ==
  ASSUME NEW d, NEW gone, gone \cap Theirs = {}
  PROVE  WithThem(d, gone) \cap Theirs = {}
  <1> DEFINE more(taken) ==
            taken \cup {r \in d.rows \ taken :
                           \E f \in References(r, taken, d.cleared) : f.on = "CASCADE"}
  <1>1. ASSUME NEW taken, taken \cap Theirs = {} PROVE more(taken) \cap Theirs = {}
    BY <1>1, TheirsHangTogether
  <1>2. WithThem(d, gone) = more(more(more(gone)))
    BY DEF WithThem
  <1> HIDE DEF more
  <1> QED BY <1>1, <1>2

LEMMA DeleteSparesThem ==
  ASSUME NEW d, NEW targets, targets \cap Theirs = {}
  PROVE  d.rows \cap Theirs \subseteq Delete(d, targets).rows
  <1>1. Delete(d, targets).rows = d.rows \ WithThem(d, targets \cap d.rows)
    BY DEF Delete
  <1> QED BY <1>1, NothingOfTheirsGoes

LEMMA WipedSparesThem == rows \cap Theirs \subseteq Wiped(Now).rows
  <1> DEFINE d1 == Delete(Now, DOMAIN SeedProjects)
             d2 == Delete(d1, DOMAIN SeedUsers)
  <1>1. /\ DOMAIN SeedProjects \cap Theirs = {}
        /\ DOMAIN SeedUsers \cap Theirs = {}
        /\ DOMAIN SeedModels \cap Theirs = {}
    BY DEF Seeded
  <1>2. Now.rows = rows
    BY DEF Now
  <1>3. Now.rows \cap Theirs \subseteq d1.rows
    BY <1>1, DeleteSparesThem
  <1>4. d1.rows \cap Theirs \subseteq d2.rows
    BY <1>1, DeleteSparesThem
  <1>5. d2.rows \cap Theirs \subseteq Delete(d2, DOMAIN SeedModels).rows
    BY <1>1, DeleteSparesThem
  <1>6. Wiped(Now) = Delete(d2, DOMAIN SeedModels)
    BY DEF Wiped
  <1> HIDE DEF d1, d2
  <1> QED BY <1>2, <1>3, <1>4, <1>5, <1>6

(* A wipe takes nothing of what others made: by the rules of the foreign     *)
(* keys a row goes with what it hangs on, never with the user who owned,     *)
(* uploaded, approved or did it (models.py:12-13, seed_db.py:97-115).        *)
THEOREM WipeTakesNothingOfTheirs == SeedSpec => WipeSparesOthers
  <1>1. [SeedNext]_seedVars => [rows \cap Theirs \subseteq rows']_seedVars
    <2>1. ASSUME NEW only \in BOOLEAN, Wipe(only) PROVE rows \cap Theirs \subseteq rows'
      BY <2>1, WipedSparesThem DEF Wipe
    <2>2. ASSUME Seed \/ SeedFails \/ \E r \in Rows : Insert(r) PROVE rows \subseteq rows'
      BY <2>2 DEF Seed, SeedFails, Insert
    <2> QED BY <2>1, <2>2 DEF SeedNext
  <1> QED BY <1>1, PTL DEF SeedSpec, WipeSparesOthers

HIDE SeedAssumption

-----------------------------------------------------------------------------
(* The owner's pages: shapes *)

USE DashboardAssumption


Data(q) == [can : SUBSET Permissions, self : MemberRows, listed : [Lists[q] -> Int]]
Answers(q) == [can : SUBSET Permissions, self : MemberRows, listed : [Lists[q] -> Nat]]

Fetches(q) ==
    {NotFetching, Asked, [at |-> "refused"]}
        \cup [at : {"guarded"}, can : SUBSET Permissions]
        \cup [at : {"answered"}, data : Answers(q)]

Entries(q) == [data : Data(q), invalid : BOOLEAN, error : BOOLEAN, fetch : Fetches(q)]

Promises == [query : Queries, part : Parts, version : Nat, here : BOOLEAN]

\* A button of page p whose hook invalidates what its success changes there.
OnPage(op, p) ==
    \A q \in Mounts(p) : q \in Invalidates(op) \/ Mutation[op].changes \cap Lists[q] = {}

HasData(q) == query[q].data # NoData(q)

Caches ==
    /\ DOMAIN query = Queries
    /\ \A q \in Queries : query[q] \in Entries(q)

DashboardTyped ==
    /\ myRow \in MemberRows
    /\ public \in BOOLEAN
    /\ version \in [Parts -> Nat]
    /\ page \in Pages
    /\ Caches
    /\ DOMAIN press = Presses
    /\ promised \subseteq Promises

\* A dialog is open on the workspace, from a folder that allowed its button.
DialogOffered ==
    dialog # NoDialog =>
        /\ page = "manage"
        /\ dialog.is \in DOMAIN Dialogs
        /\ Mutation[Dialogs[dialog.is]].needs \subseteq dialog.can

\* A press under way was offered: from rights that allow it, on a page that
\* showed the queries it mounts.
OfferedWell(p) ==
    /\ p.op \in Operations
    /\ p.page \in Pages
    /\ OnPage(p.op, p.page)
    /\ p.op \notin OfAccount => Mutation[p.op].needs \subseteq p.shown
    /\ \A q \in Mounts(p.page) : HasData(q)

PressOffered ==
    \A c \in Presses : press[c].at \in {"sent", "served"} => OfferedWell(press[c])

\* What a success made is no newer than what there is.
MadeWell(p) ==
    /\ DOMAIN p.made = Mutation[p.op].changes
    /\ \A part \in DOMAIN p.made : p.made[part] \in Nat /\ p.made[part] <= version[part]

MadeIsThere == \A c \in Presses : press[c].at = "served" => MadeWell(press[c])

Well(those) ==
    \A c \in those :
        /\ press[c].at \in {"sent", "served"} => OfferedWell(press[c])
        /\ press[c].at = "served" =>
              /\ MadeWell(press[c])
              /\ press[c].verdict \in {"forbidden", "not found"} =>
                    press[c].shown # press[c].held

PromisedIsThere == \A x \in promised : x.version <= version[x.part]

\* An entry shows version v of part p, or will, or shows an error.
EntryShows(entry, p, v) ==
    /\ entry.fetch.at = "answered" => entry.fetch.data.listed[p] >= v
    /\ entry.data.listed[p] >= v \/ entry.error \/ entry.fetch # NotFetching

PromisesHold ==
    \A x \in promised : x.here /\ x.part \in Lists[x.query] =>
        EntryShows(query[x.query], x.part, x.version)

DashboardIInv ==
    /\ DashboardTyped /\ DialogOffered /\ PressOffered /\ MadeIsThere
    /\ PromisedIsThere /\ PromisesHold /\ RefusedIsOutOfDate

-----------------------------------------------------------------------------
(* Tables *)

LEMMA ListsOfParts ==
  ASSUME NEW q \in Queries
  PROVE  Lists[q] \subseteq Parts /\ Lists[q] # {}
  <1>1. CASE q = "folder"
    BY <1>1 DEF Lists, Parts
  <1>2. CASE q = "mine"
    BY <1>2 DEF Lists, Parts
  <1>3. CASE q = "invitations"
    BY <1>3 DEF Lists, Parts
  <1> QED BY <1>1, <1>2, <1>3 DEF Queries

LEMMA RightsOfRoles ==
  ASSUME NEW role \in Roles
  PROVE  RolePermissions[role] \subseteq Permissions /\ "project:view" \in RolePermissions[role]
  <1> USE DEF RolePermissions, Viewer, Employee, Collaborator, Editor, Engineer, Manager,
              Owner, Permissions
  <1>1. CASE role = "viewer"
    BY <1>1
  <1>2. CASE role = "employee"
    BY <1>2
  <1>3. CASE role = "collaborator"
    BY <1>3
  <1>4. CASE role = "editor"
    BY <1>4
  <1>5. CASE role = "engineer"
    BY <1>5
  <1>6. CASE role = "manager"
    BY <1>6
  <1>7. CASE role = "owner"
    BY <1>7
  <1> QED BY <1>1, <1>2, <1>3, <1>4, <1>5, <1>6, <1>7 DEF Roles

LEMMA HeldTyped ==
  ASSUME NEW row \in MemberRows, NEW open \in BOOLEAN
  PROVE  /\ Held(row, open) \subseteq Permissions
         /\ ~can_view_project(row, open) => Held(row, open) = {}
  <1>1. row.status = "accepted" => row.role \in Roles
    BY DEF MemberRows, NoRow
  <1>2. /\ resolve_permissions(row) \subseteq Permissions
        /\ "project:view" \notin resolve_permissions(row) => resolve_permissions(row) = {}
    BY <1>1, RightsOfRoles DEF resolve_permissions
  <1> QED
    BY <1>2 DEF Held, can_view_project, Permissions

LEMMA AdmittedByRights ==
  ASSUME NEW row \in MemberRows, NEW open \in BOOLEAN, NEW endpoint, NEW shown,
         endpoint.needs # {}, endpoint.needs \subseteq shown,
         Admitted(endpoint, row, open) # "let in"
  PROVE  shown # Held(row, open)
  BY HeldTyped DEF Admitted

LEMMA NeedsSomething ==
  ASSUME NEW op \in Operations
  PROVE  /\ op \notin OfAccount => Mutation[op].needs # {}
         /\ Mutation[op].changes \subseteq Parts
  <1> USE DEF Mutation, OfAccount, Parts, create_project, approve_project, create_remark,
              upload_asset, invite_member, change_member_role, remove_member,
              respond_to_invitation, issue_pairing_token, update_device, unpair_device,
              request_report
  <1> op \in {"create_project", "approve_project", "create_remark", "upload_asset",
              "invite_member", "change_member_role", "remove_member", "change_own_role",
              "remove_own_row", "accept", "decline", "issue_pairing_token",
              "update_device", "unpair_device", "request_report"}
    BY DEF Operations
  <1>1. CASE op \in {"create_project", "approve_project", "create_remark", "upload_asset"}
    BY <1>1
  <1>2. CASE op \in {"invite_member", "change_member_role", "remove_member", "change_own_role"}
    BY <1>2
  <1>3. CASE op \in {"remove_own_row", "accept", "decline", "issue_pairing_token"}
    BY <1>3
  <1>4. CASE op \in {"update_device", "unpair_device", "request_report"}
    BY <1>4
  <1> QED BY <1>1, <1>2, <1>3, <1>4

LEMMA DialogButtons ==
  ASSUME NEW d \in DOMAIN Dialogs
  PROVE  /\ Dialogs[d] \in Operations \ OfAccount
         /\ OnPage(Dialogs[d], "manage")
  <1> USE DEF Dialogs, Operations, OfAccount, OnPage, Mounts, Invalidates, Mutation
  <1>1. CASE d = "pairing"
    BY <1>1 DEF issue_pairing_token
  <1>2. CASE d = "reporting"
    BY <1>2
  <1>3. CASE d = "approving"
    BY <1>3
  <1> QED BY <1>1, <1>2, <1>3

LEMMA OpensFromRights ==
  ASSUME NEW d \in DOMAIN Dialogs, NEW folder, Opens(folder, d)
  PROVE  Mutation[Dialogs[d]].needs \subseteq folder.can
  <1> USE DEF Opens, Dialogs, Can, Mutation
  <1>1. CASE d = "pairing"
    BY <1>1 DEF PairingModal, issue_pairing_token
  <1>2. CASE d = "reporting"
    BY <1>2 DEF ReportModal, request_report
  <1>3. CASE d = "approving"
    BY <1>3 DEF ApproveDialog, approve_project
  <1> QED BY <1>1, <1>2, <1>3

-----------------------------------------------------------------------------
(* Entries of the cache *)

\* What may become of the entry of q without breaking a promise.
Advances(q, new) ==
    /\ new \in Entries(q)
    /\ HasData(q) => new.data # NoData(q)
    /\ \A p \in Lists[q], v \in Nat :
          v <= version[p] /\ EntryShows(query[q], p, v) => EntryShows(new, p, v)

LEMMA Empty ==
  ASSUME NEW q \in Queries
  PROVE  NoData(q) \in Data(q)
  BY DEF NoData, Data, MemberRows

LEMMA NotEmpty ==
  ASSUME NEW q \in Queries, NEW data, NEW p \in Lists[q], data.listed[p] \in Nat
  PROVE  data # NoData(q)
  <1>1. NoData(q).listed[p] = -1
    BY DEF NoData
  <1> QED BY <1>1

LEMMA Asking ==
  ASSUME DashboardTyped, NEW q \in Queries, NEW mark \in BOOLEAN
  PROVE  /\ Advances(q, [query[q] EXCEPT !.fetch = Asked])
         /\ Advances(q, [query[q] EXCEPT !.invalid = mark, !.fetch = Asked])
         /\ Advances(q, [query[q] EXCEPT !.invalid = mark])
         /\ Advances(q, query[q])
  <1>1. query[q] \in Entries(q)
    BY DEF DashboardTyped, Caches
  <1> USE DEF Advances, EntryShows, HasData
  <1>2. Asked \in Fetches(q) /\ Asked.at = "asked" /\ Asked # NotFetching
    BY DEF Fetches, Asked, NotFetching
  <1> DEFINE e1 == [query[q] EXCEPT !.fetch = Asked]
             e2 == [query[q] EXCEPT !.invalid = mark, !.fetch = Asked]
             e3 == [query[q] EXCEPT !.invalid = mark]
  <1>3. e1 \in Entries(q) /\ e1.fetch = Asked /\ e1.data = query[q].data
    BY <1>1, <1>2 DEF Entries
  <1>4. e2 \in Entries(q) /\ e2.fetch = Asked /\ e2.data = query[q].data
    BY <1>1, <1>2 DEF Entries
  <1>5. e3 \in Entries(q) /\ e3.fetch = query[q].fetch /\ e3.data = query[q].data
        /\ e3.error = query[q].error
    BY <1>1 DEF Entries
  <1> HIDE DEF e1, e2, e3
  <1>6. Advances(q, e1) /\ Advances(q, e2)
    BY <1>2, <1>3, <1>4
  <1>7. Advances(q, e3) /\ Advances(q, query[q])
    BY <1>1, <1>5
  <1> QED BY <1>6, <1>7 DEF e1, e2, e3

LEMMA Reading ==
  ASSUME DashboardTyped, NEW q \in Queries, NEW fetch \in Fetches(q),
         fetch # NotFetching,
         fetch.at = "answered" => \A p \in Lists[q] : fetch.data.listed[p] = version[p]
  PROVE  Advances(q, [query[q] EXCEPT !.fetch = fetch])
  <1>1. query[q] \in Entries(q)
    BY DEF DashboardTyped, Caches
  <1> DEFINE e == [query[q] EXCEPT !.fetch = fetch]
  <1>2. e \in Entries(q) /\ e.fetch = fetch /\ e.data = query[q].data
    BY <1>1 DEF Entries
  <1> HIDE DEF e
  <1>3. Advances(q, e)
    BY <1>2 DEF Advances, EntryShows, HasData
  <1> QED BY <1>3 DEF e

LEMMA Answering ==
  ASSUME DashboardTyped, NEW q \in Queries, query[q].fetch.at = "answered"
  PROVE  Advances(q, [data |-> query[q].fetch.data, invalid |-> FALSE, error |-> FALSE,
                      fetch |-> NotFetching])
  <1>1. query[q] \in Entries(q)
    BY DEF DashboardTyped, Caches
  <1>2. query[q].fetch.data \in Answers(q)
    BY <1>1 DEF Entries, Fetches, NotFetching, Asked
  <1> DEFINE data == query[q].fetch.data
             e == [data |-> data, invalid |-> FALSE, error |-> FALSE, fetch |-> NotFetching]
  <1>3. data \in Data(q)
    BY <1>2 DEF Answers, Data
  <1>4. data # NoData(q)
    BY <1>2, ListsOfParts, NotEmpty DEF Answers
  <1>5. e \in Entries(q) /\ e.data = data /\ e.fetch.at = "idle"
    BY <1>3 DEF Entries, Fetches, NotFetching
  <1> QED BY <1>4, <1>5 DEF Advances, EntryShows, HasData

LEMMA GivingUp ==
  ASSUME DashboardTyped, NEW q \in Queries
  PROVE  Advances(q, [query[q] EXCEPT !.error = TRUE, !.fetch = NotFetching])
  <1>1. query[q] \in Entries(q)
    BY DEF DashboardTyped, Caches
  <1> DEFINE e == [query[q] EXCEPT !.error = TRUE, !.fetch = NotFetching]
  <1>2. e \in Entries(q) /\ e.error = TRUE /\ e.fetch.at = "idle" /\ e.data = query[q].data
    BY <1>1 DEF Entries, Fetches, NotFetching
  <1> HIDE DEF e
  <1>3. Advances(q, e)
    BY <1>2 DEF Advances, EntryShows, HasData
  <1> QED BY <1>3 DEF e

-----------------------------------------------------------------------------
(* Steps of the cache *)

HoldsPromise(x, entry) == x.here /\ x.part \in Lists[x.query] => EntryShows(entry, x.part, x.version)

\* A step of the cache, of the page or of a press that ends.
LEMMA PageStep ==
  ASSUME DashboardIInv, DOMAIN query' = Queries,
         \A q \in Queries : query'[q] \in Entries(q) /\ (HasData(q) => query'[q].data # NoData(q)),
         page' \in Pages, (dialog' = dialog /\ page' = page) \/ dialog' = NoDialog,
         DOMAIN press' = Presses,
         \A c \in Presses : press'[c] = press[c] \/ press'[c].at = "over",
         \A x \in promised' : /\ x \in Promises
                              /\ x.version <= version[x.part]
                              /\ HoldsPromise(x, query'[x.query]),
         UNCHANGED <<myRow, public, version>>
  PROVE  DashboardIInv'
  <1>1. DashboardTyped'
    BY DEF DashboardIInv, DashboardTyped, Caches
  <1>2. DialogOffered'
    BY DEF DashboardIInv, DialogOffered
  <1>3. PressOffered'
    <2>1. \A p \in Pages : Mounts(p) \subseteq Queries
      BY DEF Mounts, Queries
    <2> QED BY <2>1 DEF DashboardIInv, PressOffered, OfferedWell, HasData
  <1>4. MadeIsThere' /\ RefusedIsOutOfDate'
    BY DEF DashboardIInv, MadeIsThere, MadeWell, RefusedIsOutOfDate
  <1>5. PromisedIsThere' /\ PromisesHold'
    BY DEF PromisedIsThere, PromisesHold, HoldsPromise
  <1> QED
    BY <1>1, <1>2, <1>3, <1>4, <1>5 DEF DashboardIInv

\* What was promised is kept by entries that advance.
LEMMA StillHolds ==
  ASSUME DashboardIInv, \A q \in Queries : Advances(q, query'[q]), NEW x \in promised
  PROVE  x \in Promises /\ x.version <= version[x.part] /\ HoldsPromise(x, query'[x.query])
  <1>1. x \in Promises /\ x.query \in Queries /\ x.version \in Nat /\ x.version <= version[x.part]
    BY DEF DashboardIInv, DashboardTyped, Promises, PromisedIsThere
  <1>2. x.here /\ x.part \in Lists[x.query] => EntryShows(query[x.query], x.part, x.version)
    BY DEF DashboardIInv, PromisesHold
  <1> QED BY <1>1, <1>2 DEF Advances, HoldsPromise

\* A step that does nothing but advance entries.
LEMMA CacheStep ==
  ASSUME DashboardIInv, DOMAIN query' = Queries,
         \A q \in Queries : Advances(q, query'[q]),
         page' \in Pages, (dialog' = dialog /\ page' = page) \/ dialog' = NoDialog,
         UNCHANGED <<myRow, public, version, press, promised>>
  PROVE  DashboardIInv'
  <1>1. \A q \in Queries : query'[q] \in Entries(q) /\ (HasData(q) => query'[q].data # NoData(q))
    BY DEF Advances
  <1>2. DOMAIN press = Presses
    BY DEF DashboardIInv, DashboardTyped
  <1> QED BY <1>1, <1>2, StillHolds, PageStep

\* One entry of the cache is replaced.
LEMMA OneEntry ==
  ASSUME DashboardIInv, NEW q \in Queries, NEW new, Advances(q, new),
         query' = [query EXCEPT ![q] = new],
         UNCHANGED <<myRow, public, version, page, dialog, press, promised>>
  PROVE  DashboardIInv'
  <1> DashboardTyped
    BY DEF DashboardIInv
  <1>1. DOMAIN query' = Queries
    BY DEF DashboardTyped, Caches
  <1>2. ASSUME NEW r \in Queries PROVE Advances(r, query'[r])
    <2>1. Advances(r, query[r])
      BY Asking
    <2>2. query'[r] = IF r = q THEN new ELSE query[r]
      BY DEF DashboardTyped, Caches
    <2> QED BY <2>1, <2>2
  <1> QED
    BY <1>1, <1>2, CacheStep DEF DashboardTyped

LEMMA RefetchAdvances ==
  ASSUME DashboardTyped, NEW queries, NEW q \in Queries
  PROVE  Advances(q, Refetched(queries)[q]) /\ DOMAIN Refetched(queries) = Queries
  <1>1. Refetched(queries)[q] \in {[query[q] EXCEPT !.fetch = Asked], query[q]}
    BY DEF Refetched
  <1>2. DOMAIN Refetched(queries) = Queries
    BY DEF Refetched
  <1> QED BY <1>1, <1>2, Asking

LEMMA InvalidationAdvances ==
  ASSUME DashboardTyped, NEW queries, NEW q \in Queries
  PROVE  Advances(q, Invalidated(queries)[q]) /\ DOMAIN Invalidated(queries) = Queries
  <1>1. Invalidated(queries)[q] \in
           {[query[q] EXCEPT !.invalid = TRUE, !.fetch = Asked],
            [query[q] EXCEPT !.invalid = TRUE], query[q]}
    BY DEF Invalidated
  <1>2. DOMAIN Invalidated(queries) = Queries
    BY DEF Invalidated
  <1> QED BY <1>1, <1>2, Asking

LEMMA FetchSteps ==
  ASSUME DashboardIInv,
         \/ (\E p \in Pages : Navigate(p)) \/ Poll \/ EventArrives
         \/ GuardReads \/ FolderReads
         \/ \E q \in Queries : ListReads(q) \/ Cached(q) \/ FetchRefused(q) \/ FetchLost(q)
  PROVE  DashboardIInv'
  <1> DashboardTyped
    BY DEF DashboardIInv
  <1>0. "folder" \in Queries /\ query["folder"] \in Entries("folder")
    BY DEF DashboardTyped, Caches, Queries
  <1>1. ASSUME NEW p \in Pages, Navigate(p) PROVE DashboardIInv'
    <2>1. PICK stale \in SUBSET Mounts(p) : query' = Refetched(stale)
      BY <1>1 DEF Navigate
    <2>2. DOMAIN query' = Queries /\ \A q \in Queries : Advances(q, query'[q])
      BY <1>0, <2>1, RefetchAdvances
    <2>3. page' = p /\ dialog' = NoDialog /\ UNCHANGED <<myRow, public, version, press, promised>>
      BY <1>1 DEF Navigate
    <2> QED BY <2>2, <2>3, CacheStep
  <1>2. ASSUME Poll PROVE DashboardIInv'
    <2>1. DOMAIN query' = Queries /\ \A q \in Queries : Advances(q, query'[q])
      BY <1>0, <1>2, RefetchAdvances DEF Poll
    <2>2. page \in Pages /\ UNCHANGED <<myRow, public, version, page, dialog, press, promised>>
      BY <1>2 DEF Poll, DashboardTyped
    <2> QED BY <2>1, <2>2, CacheStep
  <1>3. ASSUME EventArrives PROVE DashboardIInv'
    <2>1. DOMAIN query' = Queries /\ \A q \in Queries : Advances(q, query'[q])
      BY <1>0, <1>3, InvalidationAdvances DEF EventArrives
    <2>2. page \in Pages /\ UNCHANGED <<myRow, public, version, page, dialog, press, promised>>
      BY <1>3 DEF EventArrives, DashboardTyped
    <2> QED BY <2>1, <2>2, CacheStep
  <1>4. ASSUME GuardReads PROVE DashboardIInv'
    <2>1. PICK fetch \in {[at |-> "guarded", can |-> Held(myRow, public)],
                          [at |-> "refused"]} :
                query' = [query EXCEPT !["folder"] = [query["folder"] EXCEPT !.fetch = fetch]]
      BY <1>4 DEF GuardReads, FetchIs
    <2>2. Held(myRow, public) \subseteq Permissions
      BY HeldTyped DEF DashboardTyped
    <2>3. fetch \in Fetches("folder") /\ fetch # NotFetching /\ fetch.at # "answered"
      BY <2>1, <2>2 DEF Fetches, NotFetching
    <2> QED BY <1>0, <1>4, <2>1, <2>3, Reading, OneEntry DEF GuardReads
  <1>5. ASSUME FolderReads PROVE DashboardIInv'
    <2> DEFINE data == [can |-> query["folder"].fetch.can, self |-> myRow,
                        listed |-> Listed("folder")]
               fetch == [at |-> "answered", data |-> data]
    <2>1. query["folder"].fetch.can \subseteq Permissions
      BY <1>0, <1>5 DEF FolderReads, Entries, Fetches, NotFetching, Asked
    <2>2. Listed("folder") \in [Lists["folder"] -> Nat]
      BY <1>0, ListsOfParts DEF Listed, DashboardTyped
    <2>3. data \in Answers("folder")
      BY <2>1, <2>2 DEF Answers, DashboardTyped
    <2>4. fetch \in Fetches("folder") /\ fetch # NotFetching
      BY <2>3 DEF Fetches, NotFetching
    <2>5. \A p \in Lists["folder"] : fetch.data.listed[p] = version[p]
      BY DEF Listed
    <2>6. query' = [query EXCEPT !["folder"] = [query["folder"] EXCEPT !.fetch = fetch]]
      BY <1>5 DEF FolderReads, FetchIs
    <2> HIDE DEF fetch
    <2> QED BY <1>0, <1>5, <2>4, <2>5, <2>6, Reading, OneEntry DEF FolderReads
  <1>6. ASSUME NEW q \in Queries, ListReads(q) PROVE DashboardIInv'
    <2>1. PICK row \in {myRow, NoRow} :
             query' = [query EXCEPT ![q] =
                         [query[q] EXCEPT !.fetch =
                            [at |-> "answered",
                             data |-> [can |-> {}, self |-> row, listed |-> Listed(q)]]]]
      BY <1>6 DEF ListReads, FetchIs
    <2> DEFINE data == [can |-> {}, self |-> row, listed |-> Listed(q)]
               fetch == [at |-> "answered", data |-> data]
    <2>2. Listed(q) \in [Lists[q] -> Nat]
      BY ListsOfParts DEF Listed, DashboardTyped
    <2>3. data \in Answers(q)
      BY <2>2 DEF Answers, DashboardTyped, MemberRows
    <2>4. fetch \in Fetches(q) /\ fetch # NotFetching
      BY <2>3 DEF Fetches, NotFetching
    <2>5. \A p \in Lists[q] : fetch.data.listed[p] = version[p]
      BY DEF Listed
    <2>6. query' = [query EXCEPT ![q] = [query[q] EXCEPT !.fetch = fetch]]
      BY <2>1
    <2> HIDE DEF fetch
    <2> QED BY <1>6, <2>4, <2>5, <2>6, Reading, OneEntry DEF ListReads
  <1>7. ASSUME NEW q \in Queries, Cached(q) PROVE DashboardIInv'
    BY <1>7, Answering, OneEntry DEF Cached
  <1>8. ASSUME NEW q \in Queries, AttemptFails(q),
               UNCHANGED <<myRow, public, version, page, dialog, press, promised>>
        PROVE  DashboardIInv'
    <2>1. CASE FetchIs(q, Asked)
      BY <1>8, <2>1, Asking, OneEntry DEF FetchIs
    <2>2. CASE query' = [query EXCEPT ![q] =
                           [query[q] EXCEPT !.error = TRUE, !.fetch = NotFetching]]
      BY <1>8, <2>2, GivingUp, OneEntry
    <2>3. query' = [query EXCEPT ![q].error = TRUE, ![q].fetch = NotFetching] =>
             query' = [query EXCEPT ![q] =
                         [query[q] EXCEPT !.error = TRUE, !.fetch = NotFetching]]
      BY DEF DashboardTyped, Caches, Entries
    <2> QED BY <1>8, <2>1, <2>2, <2>3 DEF AttemptFails
  <1>9. ASSUME NEW q \in Queries, FetchRefused(q) \/ FetchLost(q) PROVE DashboardIInv'
    BY <1>8, <1>9 DEF FetchRefused, FetchLost
  <1> QED
    BY <1>1, <1>2, <1>3, <1>4, <1>5, <1>6, <1>7, <1>9

-----------------------------------------------------------------------------
(* Patches *)

LEMMA PatchStep ==
  ASSUME DashboardIInv, NEW shown \in [Lists["folder"] -> Int], NEW kept,
         FolderPatched(shown),
         [query["folder"].data EXCEPT !.listed = shown] # NoData("folder"),
         \A p \in kept \cap Lists["folder"] : shown[p] = query["folder"].data.listed[p],
         promised' \subseteq StillPromised,
         \A x \in promised' : x.query = "folder" => x.part \in kept
  PROVE  DashboardIInv'
  <1> DashboardTyped
    BY DEF DashboardIInv
  <1> DEFINE old == query["folder"]
             data == [old.data EXCEPT !.listed = shown]
             new == [old EXCEPT !.data = data, !.invalid = FALSE, !.error = FALSE]
  <1>1. "folder" \in Queries /\ old \in Entries("folder")
    BY DEF DashboardTyped, Caches, Queries
  <1>2. /\ query' = [query EXCEPT !["folder"] = new]
        /\ UNCHANGED <<myRow, public, version, page, dialog, press>>
    BY DEF FolderPatched, new, data, old
  <1>3. data \in Data("folder") /\ data.listed = shown /\ data # NoData("folder")
    BY <1>1 DEF Entries, Data
  <1> HIDE DEF data
  <1>4. new \in Entries("folder")
    BY <1>1, <1>3 DEF Entries
  <1>5. new.data = data /\ new.fetch = old.fetch
    BY <1>1 DEF Entries
  <1>6. new.data \in Data("folder") /\ new.data.listed = shown /\ new.data # NoData("folder")
    BY <1>3, <1>5
  <1> HIDE DEF new
  <1>7. DOMAIN query' = Queries
        /\ \A q \in Queries : query'[q] = IF q = "folder" THEN new ELSE query[q]
    BY <1>2 DEF DashboardTyped, Caches
  <1>8. \A q \in Queries : query'[q] \in Entries(q) /\ (HasData(q) => query'[q].data # NoData(q))
    BY <1>4, <1>6, <1>7 DEF DashboardTyped, Caches, HasData
  <1>9. ASSUME NEW x \in promised'
        PROVE  x \in Promises /\ x.version <= version[x.part] /\ HoldsPromise(x, query'[x.query])
    <2>1. x \in promised /\ x \in Promises /\ x.query \in Queries /\ x.version <= version[x.part]
      BY <1>9 DEF DashboardIInv, DashboardTyped, Promises, PromisedIsThere, StillPromised
    <2>2. x.here /\ x.part \in Lists[x.query] => EntryShows(query[x.query], x.part, x.version)
      BY <2>1 DEF DashboardIInv, PromisesHold
    <2>3. CASE x.query # "folder"
      BY <1>7, <2>1, <2>2, <2>3 DEF HoldsPromise
    <2>4. CASE x.query = "folder"
      <3>1. x.part \in kept /\ (old.fetch # NotFetching \/ ~old.error)
        BY <1>9, <2>4 DEF StillPromised, Fetching
      <3>2. ASSUME x.here, x.part \in Lists["folder"] PROVE EntryShows(new, x.part, x.version)
        <4>1. EntryShows(old, x.part, x.version)
          BY <2>2, <2>4, <3>2
        <4>2. new.data.listed[x.part] = old.data.listed[x.part]
          BY <1>6, <3>1, <3>2
        <4> QED BY <1>5, <3>1, <4>1, <4>2 DEF EntryShows
      <3>3. query'[x.query] = new
        BY <1>1, <1>7, <2>4
      <3>4. HoldsPromise(x, new)
        <4> SUFFICES ASSUME x.here, x.part \in Lists[x.query]
                     PROVE  EntryShows(new, x.part, x.version)
          BY DEF HoldsPromise
        <4>1. x.part \in Lists["folder"]
          BY <2>4
        <4> QED BY <3>2, <4>1
      <3> QED BY <2>1, <3>3, <3>4
    <2> QED BY <2>1, <2>3, <2>4
  <1> QED
    BY <1>2, <1>7, <1>8, <1>9, PageStep DEF DashboardTyped

LEMMA PatchSteps ==
  ASSUME DashboardIInv, NumbersPatched \/ ApprovalAnnounced
  PROVE  DashboardIInv'
  <1> DashboardTyped
    BY DEF DashboardIInv
  <1> DEFINE data == query["folder"].data
  <1>1. data \in Data("folder")
    BY DEF DashboardTyped, Caches, Queries, Entries
  <1>2. data.listed \in [Lists["folder"] -> Int]
    BY <1>1 DEF Data
  <1>3. CASE NumbersPatched
    <2>1. [data EXCEPT !.listed = data.listed] = data
      BY <1>1 DEF Data
    <2>2. promised' \subseteq StillPromised /\ \A x \in promised' : x.part \in Parts
      BY <1>3 DEF NumbersPatched, StillPromised, DashboardTyped, Promises
    <2>3. FolderPatched(data.listed) /\ data # NoData("folder")
      BY <1>3 DEF NumbersPatched, FolderPatched
    <2> HIDE DEF data
    <2> QED BY <1>2, <2>1, <2>2, <2>3, PatchStep DEF data
  <1>4. CASE ApprovalAnnounced
    <2> DEFINE shown == [data.listed EXCEPT !["approval"] = AwaitingInspection]
    <2>1. "approval" \in Lists["folder"] /\ "approval" \in Parts
      BY DEF Lists, Parts
    <2>2. shown \in [Lists["folder"] -> Int] /\ shown["approval"] \in Nat
      BY <1>2, <2>1 DEF AwaitingInspection
    <2>3. \A p \in (Parts \ {"approval"}) \cap Lists["folder"] : shown[p] = data.listed[p]
      BY <1>2
    <2>4. [data EXCEPT !.listed = shown] # NoData("folder")
      <3>1. [data EXCEPT !.listed = shown].listed = shown
        BY <1>1 DEF Data
      <3> QED BY <2>1, <2>2, <3>1, NotEmpty DEF Queries
    <2>5. FolderPatched(shown)
      BY <1>4 DEF ApprovalAnnounced
    <2>6. promised' \subseteq StillPromised
          /\ \A x \in promised' : x.part \in Parts \ {"approval"}
      BY <1>4 DEF ApprovalAnnounced, StillPromised, DashboardTyped, Promises
    <2> HIDE DEF data, shown
    <2> QED BY <2>2, <2>3, <2>4, <2>5, <2>6, PatchStep DEF data
  <1> QED BY <1>3, <1>4

-----------------------------------------------------------------------------
(* Presses *)

LEMMA OfferedFromRights ==
  ASSUME DashboardIInv, NEW op \in Operations, Offers(op)
  PROVE  /\ OnPage(op, page)
         /\ op \notin OfAccount => Mutation[op].needs \subseteq ShownTo(op)
         /\ \A q \in Mounts(page) : HasData(q)
  <1> DEFINE folder == query["folder"].data
  <1>1. CASE page = "create" /\ CreateProjectPage(op)
    BY <1>1 DEF CreateProjectPage, OnPage, Mounts, OfAccount
  <1>2. CASE page = "invitations" /\ Ready("invitations")
               /\ InvitationsPage(query["invitations"].data, op)
    BY <1>2 DEF InvitationsPage, Ready, HasData, OnPage, Mounts, OfAccount, Invalidates
  <1>3. CASE Ready("folder") /\ page = "manage" /\ dialog = NoDialog /\ ManageProjectPage(folder, op)
    <2>1. op \in {"create_remark", "upload_asset"} /\ Mutation[op].needs \subseteq folder.can
      BY <1>3 DEF ManageProjectPage, AssetPanel, Can, Mutation, create_remark, upload_asset
    <2> HIDE DEF folder
    <2> QED
      BY <1>3, <2>1 DEF Ready, HasData, OnPage, Mounts, OfAccount, Invalidates, ShownTo, folder
  <1>4. CASE Ready("folder") /\ page = "manage" /\ dialog # NoDialog /\ op = Dialogs[dialog.is]
    <2>1. dialog.is \in DOMAIN Dialogs /\ Mutation[op].needs \subseteq dialog.can
      BY <1>4 DEF DashboardIInv, DialogOffered
    <2>2. op \notin OfAccount /\ OnPage(op, "manage")
      BY <1>4, <2>1, DialogButtons
    <2> QED BY <1>4, <2>1, <2>2 DEF Ready, HasData, Mounts, ShownTo
  <1>5. CASE Ready("folder") /\ page = "devices" /\ DevicesPage(folder, op)
    <2>1. op \in {"update_device", "unpair_device"} /\ Mutation[op].needs \subseteq folder.can
      BY <1>5 DEF DevicesPage, Can, Mutation, update_device, unpair_device
    <2>2. dialog = NoDialog
      BY <1>5 DEF DashboardIInv, DialogOffered
    <2> HIDE DEF folder
    <2> QED
      BY <1>5, <2>1, <2>2
      DEF Ready, HasData, OnPage, Mounts, OfAccount, Invalidates, ShownTo, folder
  <1>6. CASE Ready("folder") /\ page = "members" /\ MembersPage(folder, op)
    <2>1. /\ op \in {"invite_member", "change_member_role", "remove_member",
                     "change_own_role", "remove_own_row"}
          /\ Mutation[op].needs \subseteq folder.can
      BY <1>6 DEF MembersPage, Can, Mutation, invite_member, change_member_role, remove_member
    <2>2. dialog = NoDialog
      BY <1>6 DEF DashboardIInv, DialogOffered
    <2> HIDE DEF folder
    <2> QED
      BY <1>6, <2>1, <2>2
      DEF Ready, HasData, OnPage, Mounts, OfAccount, Invalidates, ShownTo, folder
  <1> QED
    BY <1>1, <1>2, <1>3, <1>4, <1>5, <1>6 DEF Offers

\* What was made stays no newer than what there is while versions grow.
LEMMA MadeStays ==
  ASSUME DashboardTyped, version' \in [Parts -> Nat],
         \A p \in Parts : version[p] <= version'[p],
         NEW c \in Presses, press'[c] = press[c], press[c].op \in Operations,
         MadeWell(press[c])
  PROVE  MadeWell(press[c])'
  <1> DEFINE made == press[c].made
  <1>1. DOMAIN made \subseteq Parts
    BY NeedsSomething DEF MadeWell
  <1>2. ASSUME NEW p \in DOMAIN made
        PROVE  made[p] \in Nat /\ made[p] <= version'[p]
    <2>1. p \in Parts /\ made[p] \in Nat /\ made[p] <= version[p]
      BY <1>1 DEF MadeWell
    <2>2. version[p] \in Nat /\ version'[p] \in Nat /\ version[p] <= version'[p]
      BY <2>1 DEF DashboardTyped
    <2> HIDE DEF made
    <2> QED BY <2>1, <2>2
  <1> QED BY <1>2 DEF MadeWell

\* A step of some presses that leaves the cache and what was promised alone,
\* while versions only grow.
LEMMA GrowStep ==
  ASSUME DashboardIInv, NEW those,
         DOMAIN press' = Presses, \A d \in Presses \ those : press'[d] = press[d],
         myRow' \in MemberRows,
         version' \in [Parts -> Nat], \A p \in Parts : version[p] <= version'[p],
         Well(those)',
         public' \in BOOLEAN, UNCHANGED <<page, dialog, query, promised>>
  PROVE  DashboardIInv'
  <1>1. DashboardTyped' /\ DialogOffered'
    BY DEF DashboardIInv, DashboardTyped, Caches, DialogOffered
  <1>2. PressOffered'
    BY DEF DashboardIInv, PressOffered, OfferedWell, HasData, Well
  <1>3. MadeIsThere'
    <2> SUFFICES ASSUME NEW d \in Presses, press'[d].at = "served"
                 PROVE  MadeWell(press[d])'
      BY DEF MadeIsThere
    <2>1. CASE d \notin those
      <3>1. press'[d] = press[d] /\ press[d].op \in Operations /\ MadeWell(press[d])
        BY <2>1 DEF DashboardIInv, MadeIsThere, PressOffered, OfferedWell
      <3> QED BY <3>1, MadeStays DEF DashboardIInv
    <2> QED BY <2>1 DEF Well
  <1>4. PromisedIsThere'
    <2> SUFFICES ASSUME NEW x \in promised PROVE x.version <= version'[x.part]
      BY DEF PromisedIsThere
    <2>1. x.part \in Parts /\ x.version \in Nat /\ x.version <= version[x.part]
      BY DEF DashboardIInv, DashboardTyped, PromisedIsThere, Promises
    <2> DEFINE before == version[x.part]
               after == version'[x.part]
    <2>2. before \in Nat /\ after \in Nat /\ before <= after /\ x.version <= before
      BY <2>1 DEF DashboardIInv, DashboardTyped
    <2> HIDE DEF before, after
    <2>3. x.version <= after
      BY ONLY <2>1, <2>2
    <2> QED BY <2>3 DEF after
  <1>5. PromisesHold'
    BY DEF DashboardIInv, PromisesHold, EntryShows
  <1>6. RefusedIsOutOfDate'
    BY DEF DashboardIInv, RefusedIsOutOfDate, Well
  <1> QED
    BY <1>1, <1>2, <1>3, <1>4, <1>5, <1>6 DEF DashboardIInv

\* One press.
LEMMA OnePress ==
  ASSUME DashboardIInv, NEW c \in Presses,
         DOMAIN press' = Presses, \A d \in Presses : d # c => press'[d] = press[d],
         myRow' \in MemberRows,
         version' \in [Parts -> Nat], \A p \in Parts : version[p] <= version'[p],
         press'[c].at \in {"sent", "served"} => OfferedWell(press[c])',
         press'[c].at = "served" =>
             /\ MadeWell(press[c])'
             /\ press'[c].verdict \in {"forbidden", "not found"} => press'[c].shown # press'[c].held,
         public' \in BOOLEAN, UNCHANGED <<page, dialog, query, promised>>
  PROVE  DashboardIInv'
  <1>1. Well({c})'
    BY DEF Well
  <1>2. \A d \in Presses \ {c} : press'[d] = press[d]
    OBVIOUS
  <1> QED BY <1>1, <1>2, GrowStep

LEMMA PressKeeps ==
  ASSUME DashboardIInv, NEW c \in Presses, NEW op \in Operations, Press(c, op)
  PROVE  DashboardIInv'
  <1> DashboardTyped
    BY DEF DashboardIInv
  <1> DEFINE new == [at |-> "sent", op |-> op, page |-> page, shown |-> ShownTo(op)]
  <1>1. press' = [press EXCEPT ![c] = new]
        /\ UNCHANGED <<myRow, public, version, page, dialog, query, promised>>
    BY DEF Press
  <1>2. new.at = "sent" /\ new.op = op /\ new.page = page /\ new.shown = ShownTo(op)
    OBVIOUS
  <1> HIDE DEF new
  <1>3. /\ DOMAIN press' = Presses /\ press'[c] = new
        /\ \A d \in Presses : d # c => press'[d] = press[d]
    BY <1>1 DEF DashboardTyped
  <1>4. page \in Pages /\ myRow' \in MemberRows
        /\ version' \in [Parts -> Nat] /\ \A p \in Parts : version[p] <= version'[p]
    BY <1>1 DEF DashboardTyped
  <1>5. /\ OnPage(op, page)
        /\ op \notin OfAccount => Mutation[op].needs \subseteq ShownTo(op)
        /\ \A q \in Mounts(page) : HasData(q)
    BY OfferedFromRights DEF Press
  <1>6. /\ press'[c].at = "sent" /\ press'[c].op = op /\ press'[c].page = page
        /\ press'[c].shown = ShownTo(op)
    BY <1>2, <1>3
  <1>7. OfferedWell(press[c])'
    BY <1>1, <1>4, <1>5, <1>6 DEF OfferedWell, HasData
  <1>8. press'[c].at # "served"
    BY <1>6
  <1>9. public' \in BOOLEAN
    BY <1>1 DEF DashboardTyped
  <1> QED
    BY <1>1, <1>3, <1>4, <1>7, <1>8, <1>9, OnePress

LEMMA LostKeeps ==
  ASSUME DashboardIInv, NEW c \in Presses, PressLost(c)
  PROVE  DashboardIInv'
  <1> DashboardTyped
    BY DEF DashboardIInv
  <1>1. press' = [press EXCEPT ![c] = [at |-> "over"]]
        /\ UNCHANGED <<myRow, public, version, page, dialog, query, promised>>
    BY DEF PressLost
  <1>2. /\ DOMAIN press' = Presses /\ press'[c].at = "over"
        /\ \A d \in Presses : d # c => press'[d] = press[d]
    BY <1>1 DEF DashboardTyped
  <1>3. myRow' \in MemberRows /\ version' \in [Parts -> Nat]
        /\ public' \in BOOLEAN /\ \A p \in Parts : version[p] <= version'[p]
    BY <1>1 DEF DashboardTyped
  <1> QED BY <1>1, <1>2, <1>3, OnePress

LEMMA VersionsGrow ==
  ASSUME DashboardTyped, NEW parts
  PROVE  /\ Changed(parts) \in [Parts -> Nat]
         /\ \A p \in Parts : version[p] <= Changed(parts)[p]
  BY DEF DashboardTyped, Changed

\* A row that is answered or whose role is changed.
LEMMA PendingRow ==
  ASSUME NEW row \in MemberRows, row.status = "pending"
  PROVE  [row EXCEPT !.status = "accepted"] \in MemberRows
  <1>1. row \in [role : Roles, status : {"pending", "accepted"}]
    BY DEF MemberRows, NoRow
  <1> QED BY <1>1 DEF MemberRows

LEMMA NewRole ==
  ASSUME NEW row \in MemberRows, row # NoRow, NEW role \in Roles
  PROVE  [row EXCEPT !.role = role] \in MemberRows
  BY DEF MemberRows

LEMMA NobodyHolds ==
  ASSUME NEW open \in BOOLEAN
  PROVE  "member:manage" \notin Held(NoRow, open)
  <1>1. resolve_permissions(NoRow) = {}
    BY DEF resolve_permissions, NoRow
  <1>2. Held(NoRow, open) \subseteq {"project:view"}
    BY <1>1 DEF Held
  <1> QED BY <1>2

\* The row after a press that was done.
LEMMA RowAfterPress ==
  ASSUME DashboardTyped, NEW op \in Operations,
         op \notin OfAccount => Admitted(Mutation[op], myRow, public) = "let in",
         Verdict(op) = "done", NEW row \in MyRowAfter(op)
  PROVE  row \in MemberRows
  <1>0. myRow \in MemberRows /\ public \in BOOLEAN
    BY DEF DashboardTyped
  <1>1. CASE op = "accept"
    <2>1. myRow.status = "pending" /\ row = [myRow EXCEPT !.status = "accepted"]
      BY <1>1 DEF Verdict, MyRowAfter
    <2> QED BY <1>0, <2>1, PendingRow
  <1>2. CASE op = "decline"
    BY <1>2 DEF MyRowAfter, MemberRows
  <1>3. CASE op = "change_own_role"
    <2>1. "member:manage" \in Held(myRow, public)
      <3>1. Mutation[op].needs = {"member:manage"}
        BY <1>3 DEF Mutation, change_member_role
      <3>2. Admitted(Mutation[op], myRow, public) = "let in"
        BY <1>3 DEF OfAccount
      <3> HIDE DEF Mutation
      <3> QED BY <3>1, <3>2 DEF Admitted
    <2>2. myRow # NoRow
      BY <1>0, <2>1, NobodyHolds
    <2>3. PICK r \in Given : row = [myRow EXCEPT !.role = r]
      BY <1>3 DEF MyRowAfter
    <2> QED BY <1>0, <2>2, <2>3, NewRole
  <1>4. CASE op \notin {"accept", "decline", "change_own_role"}
    BY <1>0, <1>4 DEF MyRowAfter
  <1> QED
    BY <1>1, <1>2, <1>3, <1>4

LEMMA ServeKeeps ==
  ASSUME DashboardIInv, NEW c \in Presses, Serve(c)
  PROVE  DashboardIInv'
  <1> DashboardTyped
    BY DEF DashboardIInv
  <1> DEFINE op == press[c].op
             admitted == IF op \in OfAccount THEN "let in"
                         ELSE Admitted(Mutation[op], myRow, public)
             verdict == IF admitted = "let in" THEN Verdict(op) ELSE admitted
             effects == Mutation[op].changes
             held == Held(myRow, public)
             made == [p \in effects |-> version'[p]]
             new == [at |-> "served", op |-> op, page |-> press[c].page,
                     shown |-> press[c].shown, verdict |-> verdict, held |-> held,
                     made |-> made]
  <1>1. /\ op \in Operations /\ press[c].page \in Pages /\ OnPage(op, press[c].page)
        /\ op \notin OfAccount => Mutation[op].needs \subseteq press[c].shown
        /\ \A q \in Mounts(press[c].page) : HasData(q)
    BY DEF Serve, DashboardIInv, PressOffered, OfferedWell
  <1>2. /\ press' = [press EXCEPT ![c] = new]
        /\ UNCHANGED <<public, page, dialog, query, promised>>
    BY DEF Serve
  <1>3. myRow' \in MemberRows /\ version' \in [Parts -> Nat]
        /\ \A p \in Parts : version[p] <= version'[p]
    <2>1. CASE verdict = "done"
      <3>1. admitted = "let in" /\ Verdict(op) = "done"
        BY <2>1, <1>1 DEF Admitted
      <3>2. version' = Changed(effects) /\ myRow' \in MyRowAfter(op)
        BY <2>1 DEF Serve
      <3>3. myRow' \in MemberRows
        BY <1>1, <3>1, <3>2, RowAfterPress
      <3> QED BY <3>2, <3>3, VersionsGrow
    <2>2. CASE verdict # "done"
      <3>1. UNCHANGED <<version, myRow>>
        BY <2>2 DEF Serve
      <3> QED BY <3>1 DEF DashboardTyped
    <2> QED BY <2>1, <2>2
  <1>4. verdict \in {"forbidden", "not found"} => press[c].shown # held
    <2> SUFFICES ASSUME verdict \in {"forbidden", "not found"} PROVE press[c].shown # held
      OBVIOUS
    <2>1. admitted # "let in"
      BY DEF Verdict
    <2>2. op \notin OfAccount /\ Admitted(Mutation[op], myRow, public) # "let in"
      BY <2>1
    <2> QED BY <1>1, <2>2, NeedsSomething, AdmittedByRights DEF DashboardTyped
  <1>5. effects \subseteq Parts
    BY <1>1, NeedsSomething
  <1>6. DOMAIN made = effects
        /\ \A p \in effects : made[p] \in Nat /\ made[p] <= version'[p]
    BY <1>3, <1>5
  <1> HIDE DEF made, verdict, held
  <1>7. /\ new.at = "served" /\ new.op = op /\ new.page = press[c].page
        /\ new.shown = press[c].shown /\ new.verdict = verdict /\ new.held = held
        /\ new.made = made
    OBVIOUS
  <1> HIDE DEF new
  <1>8. /\ DOMAIN press' = Presses /\ press'[c] = new
        /\ \A d \in Presses : d # c => press'[d] = press[d]
    BY <1>2 DEF DashboardTyped
  <1> HIDE DEF op
  <1>9. OfferedWell(press[c])'
    BY <1>1, <1>2, <1>7, <1>8 DEF OfferedWell, HasData
  <1>10. MadeWell(press[c])'
    BY <1>6, <1>7, <1>8 DEF MadeWell, effects
  <1>11. press'[c].verdict \in {"forbidden", "not found"} => press'[c].shown # press'[c].held
    BY <1>4, <1>7, <1>8
  <1>12. public' \in BOOLEAN
    BY <1>2 DEF DashboardTyped
  <1> QED
    BY <1>2, <1>3, <1>8, <1>9, <1>10, <1>11, <1>12, OnePress
\* The answer of a success invalidates what its page listed of what it changed.
LEMMA AnsweredKeeps ==
  ASSUME DashboardIInv, NEW c \in Presses, Answered(c)
  PROVE  DashboardIInv'
  <1> DashboardTyped
    BY DEF DashboardIInv
  <1> DEFINE op == press[c].op
             done == press[c].verdict = "done"
             made == press[c].made
  <1>1. OfferedWell(press[c]) /\ MadeWell(press[c])
    BY DEF Answered, DashboardIInv, PressOffered, MadeIsThere
  <1>2. /\ query' = IF done THEN Invalidated(Invalidates(op)) ELSE query
        /\ press' = [press EXCEPT ![c] = [at |-> "over"]]
        /\ UNCHANGED <<myRow, public, version>>
    BY DEF Answered
  <1>3. DOMAIN query' = Queries /\ \A q \in Queries : Advances(q, query'[q])
    <2>1. CASE done
      <3>1. query' = Invalidated(Invalidates(op))
        BY <1>2, <2>1
      <3>2. "folder" \in Queries
        BY DEF Queries
      <3> QED BY <3>1, <3>2, InvalidationAdvances
    <2>2. CASE ~done
      <3>1. query' = query
        BY <1>2, <2>2
      <3>2. \A q \in Queries : Advances(q, query[q])
        BY Asking
      <3> QED BY <3>1, <3>2 DEF DashboardTyped, Caches
    <2> QED BY <2>1, <2>2
  <1>4. page' \in Pages /\ ((dialog' = dialog /\ page' = page) \/ dialog' = NoDialog)
    BY DEF Answered, DashboardIInv, DialogOffered, DashboardTyped, Pages
  <1>5. DOMAIN press' = Presses /\ \A d \in Presses : press'[d] = press[d] \/ press'[d].at = "over"
    BY <1>2 DEF DashboardTyped
  <1>6. ASSUME NEW x \in promised'
        PROVE  x \in Promises /\ x.version <= version[x.part] /\ HoldsPromise(x, query'[x.query])
    <2>1. CASE x \in promised
      BY <1>3, <2>1, StillHolds
    <2>2. CASE x \notin promised
      <3>1. PICK q \in Queries, p \in DOMAIN made :
               /\ done
               /\ x = [query |-> q, part |-> p, version |-> made[p],
                       here |-> Mounted(q) /\ q \in Mounts(press[c].page)]
        BY <2>2 DEF Answered
      <3>2. p \in Mutation[op].changes /\ p \in Parts /\ made[p] \in Nat /\ made[p] <= version[p]
        BY <1>1, <3>1, NeedsSomething DEF OfferedWell, MadeWell
      <3>3. x.query = q /\ x.part = p /\ x.version = made[p]
            /\ x.here = (Mounted(q) /\ q \in Mounts(press[c].page))
        BY <3>1
      <3>4. x \in Promises
        BY <3>1, <3>2 DEF Promises
      <3>5. ASSUME x.here, p \in Lists[q] PROVE EntryShows(query'[q], p, made[p])
        <4>1. Mounted(q) /\ q \in Mounts(press[c].page)
          BY <3>3, <3>5
        <4>2. q \in Invalidates(op) /\ query[q].data # NoData(q)
          BY <1>1, <3>2, <3>5, <4>1 DEF OfferedWell, OnPage, HasData
        <4>3. query'[q] = [query[q] EXCEPT !.invalid = TRUE, !.fetch = Asked]
          BY <1>2, <3>1, <4>1, <4>2 DEF Invalidated
        <4>4. query[q] \in Entries(q)
          BY DEF DashboardTyped, Caches
        <4>5. query'[q].fetch = Asked
          BY <4>3, <4>4 DEF Entries
        <4> QED BY <4>5 DEF EntryShows, Asked, NotFetching
      <3> QED BY <3>2, <3>3, <3>4, <3>5 DEF HoldsPromise
    <2> QED BY <2>1, <2>2
  <1>7. \A q \in Queries : query'[q] \in Entries(q) /\ (HasData(q) => query'[q].data # NoData(q))
    BY <1>3 DEF Advances
  <1> QED BY <1>2, <1>3, <1>4, <1>5, <1>6, <1>7, PageStep

-----------------------------------------------------------------------------
(* Dialogs, and what others do *)

LEMMA DialogKeeps ==
  ASSUME DashboardIInv, CloseDialog \/ \E d \in DOMAIN Dialogs : OpenDialog(d)
  PROVE  DashboardIInv'
  <1>1. UNCHANGED <<myRow, public, version, page, query, press, promised>>
    BY DEF CloseDialog, OpenDialog
  <1>2. DialogOffered'
    <2>1. CASE CloseDialog
      BY <2>1 DEF CloseDialog, DialogOffered
    <2>2. ASSUME NEW d \in DOMAIN Dialogs, OpenDialog(d) PROVE DialogOffered'
      <3>1. Mutation[Dialogs[d]].needs \subseteq query["folder"].data.can
        BY <2>2, OpensFromRights DEF OpenDialog
      <3>2. page' = "manage" /\ dialog'.is = d /\ dialog'.can = query["folder"].data.can
        BY <2>2 DEF OpenDialog
      <3> HIDE DEF Dialogs, Mutation
      <3> QED BY <3>1, <3>2 DEF DialogOffered
    <2> QED BY <2>1, <2>2
  <1>3. DashboardTyped' /\ PressOffered' /\ MadeIsThere'
    BY <1>1 DEF DashboardIInv, DashboardTyped, Caches, PressOffered, OfferedWell, HasData,
                MadeIsThere, MadeWell
  <1>4. PromisedIsThere' /\ PromisesHold' /\ RefusedIsOutOfDate'
    BY <1>1 DEF DashboardIInv, PromisedIsThere, PromisesHold, EntryShows, RefusedIsOutOfDate
  <1> QED BY <1>2, <1>3, <1>4 DEF DashboardIInv

LEMMA OthersKeep ==
  ASSUME DashboardIInv, ApprovalMoves \/ set_visibility \/ RowMoves
  PROVE  DashboardIInv'
  <1> DashboardTyped
    BY DEF DashboardIInv
  <1>1. PICK parts : Elsewhere(parts)
    BY DEF ApprovalMoves, set_visibility, RowMoves
  <1>2. /\ version' = Changed(parts) /\ UNCHANGED <<page, dialog, query, press, promised>>
        /\ public' \in BOOLEAN
    BY <1>1 DEF Elsewhere, ApprovalMoves, set_visibility, RowMoves, DashboardTyped
  <1>3. myRow' \in MemberRows
    <2>1. CASE RowMoves
      <3>1. myRow # NoRow => myRow.status \in {"pending", "accepted"}
        BY DEF DashboardTyped, MemberRows
      <3> QED BY <2>1, <3>1 DEF RowMoves, MemberRows
    <2>2. CASE ~RowMoves
      BY <2>2 DEF ApprovalMoves, set_visibility, DashboardTyped
    <2> QED BY <2>1, <2>2
  <1>4. version' \in [Parts -> Nat] /\ \A p \in Parts : version[p] <= version'[p]
    BY <1>2, VersionsGrow
  <1>5. DOMAIN press' = Presses /\ \A d \in Presses \ {} : press'[d] = press[d]
    BY <1>2 DEF DashboardTyped
  <1>6. Well({})'
    BY DEF Well
  <1> QED BY <1>2, <1>3, <1>4, <1>5, <1>6, GrowStep

-----------------------------------------------------------------------------
(* The invariant *)

LEMMA DashboardStarts ==
  ASSUME DashboardInit
  PROVE  DashboardIInv
  <1>1. ASSUME NEW q \in Queries PROVE query[q] \in Entries(q)
    BY Empty DEF DashboardInit, Entries, Fetches
  <1>2. DashboardTyped
    BY <1>1 DEF DashboardInit, DashboardTyped, Caches, Parts
  <1>3. \A c \in Presses : press[c].at = "new"
    BY DEF DashboardInit
  <1> QED
    BY <1>2, <1>3 DEF DashboardInit, DashboardIInv, DialogOffered, PressOffered, MadeIsThere,
                      PromisedIsThere, PromisesHold, RefusedIsOutOfDate

LEMMA DashboardStutters ==
  ASSUME DashboardIInv, UNCHANGED dashboardVars
  PROVE  DashboardIInv'
  BY DEF dashboardVars, DashboardIInv, DashboardTyped, Caches, DialogOffered, PressOffered,
         OfferedWell, HasData, MadeIsThere, MadeWell, PromisedIsThere, PromisesHold, EntryShows,
         RefusedIsOutOfDate

\* The invariant the two properties of the owner's pages follow from.
THEOREM DashboardInvariant == DashboardSpec => []DashboardIInv
  <1>1. DashboardInit => DashboardIInv
    BY DashboardStarts
  <1>2. DashboardIInv /\ [DashboardNext]_dashboardVars => DashboardIInv'
    <2> SUFFICES ASSUME DashboardIInv, [DashboardNext]_dashboardVars PROVE DashboardIInv'
      OBVIOUS
    <2>1. CASE \/ (\E p \in Pages : Navigate(p)) \/ Poll \/ EventArrives
               \/ GuardReads \/ FolderReads
               \/ \E q \in Queries : ListReads(q) \/ Cached(q) \/ FetchRefused(q) \/ FetchLost(q)
      BY <2>1, FetchSteps
    <2>2. CASE NumbersPatched \/ ApprovalAnnounced
      BY <2>2, PatchSteps
    <2>3. CASE CloseDialog \/ \E d \in DOMAIN Dialogs : OpenDialog(d)
      BY <2>3, DialogKeeps
    <2>4. ASSUME NEW c \in Presses,
                 (\E op \in Operations : Press(c, op)) \/ Serve(c) \/ PressLost(c) \/ Answered(c)
          PROVE  DashboardIInv'
      BY <2>4, PressKeeps, ServeKeeps, LostKeeps, AnsweredKeeps
    <2>5. CASE ApprovalMoves \/ set_visibility \/ RowMoves
      BY <2>5, OthersKeep
    <2>6. CASE UNCHANGED dashboardVars
      BY <2>6, DashboardStutters
    <2> QED
      BY <2>1, <2>2, <2>3, <2>4, <2>5, <2>6 DEF DashboardNext
  <1> QED BY <1>1, <1>2, PTL DEF DashboardSpec

\* Every button is rendered from the permissions block: whatever the role, the
\* status of the membership and the visibility, a press is refused for want of
\* a permission only if the caller's rights changed after the folder it was
\* offered from was read.
THEOREM RefusalsAreOutOfDate == DashboardSpec => []RefusedIsOutOfDate
  <1>1. DashboardIInv => RefusedIsOutOfDate
    BY DEF DashboardIInv
  <1> QED BY <1>1, DashboardInvariant, PTL

\* When a success was answered and nothing is being fetched, the page it was
\* done on shows it.
THEOREM OwnActionsShow == DashboardSpec => []OwnActionShows
  <1>1. DashboardIInv => OwnActionShows
    <2> SUFFICES ASSUME DashboardIInv, NEW x \in promised, Stands(x), x.here PROVE Kept(x)
      BY DEF OwnActionShows
    <2>1. EntryShows(query[x.query], x.part, x.version)
      BY DEF Stands, DashboardIInv, PromisesHold
    <2> QED BY <2>1 DEF Stands, Ready, Fetching, Kept, EntryShows
  <1> QED BY <1>1, DashboardInvariant, PTL

HIDE DashboardAssumption

-----------------------------------------------------------------------------
(* The order of the feed *)

USE FeedAssumption


Projects == [Ids -> ProjectRows \cup {NoProject}]

LEMMA KeyTyped ==
  ASSUME project \in Projects, NEW i \in Ids
  PROVE  i \in Nat /\ sort_key(project[i]) \in Int
  <1>1. project[i] \in ProjectRows \cup {NoProject}
    BY DEF Projects
  <1>2. project[i].created \in Int /\ project[i].captured \in Int
    BY <1>1 DEF ProjectRows, NoProject, Stamps, Never
  <1> QED BY <1>2 DEF sort_key

\* Latest activity first, the id breaks a tie: a strict order of all projects.
LEMMA FeedOrder ==
  ASSUME project \in Projects, NEW i \in Ids, NEW j \in Ids
  PROVE  /\ ~Before(i, i)
         /\ Before(i, j) => ~Before(j, i)
         /\ i # j => Before(i, j) \/ Before(j, i)
         /\ \A k \in Ids : Before(i, j) /\ Before(j, k) => Before(i, k)
  <1> DEFINE key(x) == sort_key(project[x])
  <1>1. \A x \in Ids : x \in Nat /\ key(x) \in Int
    BY KeyTyped
  <1>2. \A x, y \in Ids : Before(x, y) <=> key(x) > key(y) \/ (key(x) = key(y) /\ x > y)
    BY DEF Before
  <1> HIDE DEF key
  <1> QED BY <1>1, <1>2

\* How many of ids come before i.
Rank(i, ids) == Cardinality({j \in ids : Before(j, i)})

LEMMA RankTyped ==
  ASSUME project \in Projects, NEW ids \in SUBSET Ids, NEW i \in Ids
  PROVE  /\ IsFiniteSet(ids) /\ Cardinality(ids) \in Nat
         /\ Rank(i, ids) \in Nat
         /\ i \in ids => Rank(i, ids) < Cardinality(ids)
  <1> DEFINE ahead == {j \in ids : Before(j, i)}
  <1>1. IsFiniteSet(ids)
    BY FS_Subset
  <1>2. IsFiniteSet(ahead) /\ Cardinality(ahead) <= Cardinality(ids)
        /\ (Cardinality(ids) = Cardinality(ahead) => ids = ahead)
    BY <1>1, FS_Subset
  <1>3. Cardinality(ids) \in Nat /\ Cardinality(ahead) \in Nat
    BY <1>1, <1>2, FS_CardinalityType
  <1>4. i \in ids => i \notin ahead
    BY FeedOrder
  <1>5. i \in ids => Cardinality(ahead) # Cardinality(ids)
    BY <1>2, <1>4
  <1> HIDE DEF ahead
  <1>6. i \in ids => Cardinality(ahead) < Cardinality(ids)
    BY <1>2, <1>3, <1>5
  <1> QED BY <1>1, <1>3, <1>6 DEF Rank, ahead

LEMMA RankGrows ==
  ASSUME project \in Projects, NEW ids \in SUBSET Ids, NEW i \in ids, NEW j \in ids
  PROVE  Before(i, j) <=> Rank(i, ids) < Rank(j, ids)
  <1>1. ASSUME NEW x \in ids, NEW y \in ids, Before(x, y)
        PROVE  Rank(x, ids) < Rank(y, ids)
    <2> DEFINE a == {k \in ids : Before(k, x)}
               b == {k \in ids : Before(k, y)}
    <2>1. a \subseteq b /\ x \in b /\ x \notin a
      BY <1>1, FeedOrder
    <2>2. IsFiniteSet(b)
      BY RankTyped, FS_Subset
    <2>3. Cardinality(a) <= Cardinality(b) /\ (Cardinality(b) = Cardinality(a) => b = a)
      BY <2>1, <2>2, FS_Subset
    <2>4. Cardinality(a) \in Nat /\ Cardinality(b) \in Nat
      BY RankTyped DEF Rank
    <2>5. Cardinality(a) # Cardinality(b)
      BY <2>1, <2>3
    <2> HIDE DEF a, b
    <2>6. Cardinality(a) < Cardinality(b)
      BY <2>3, <2>4, <2>5
    <2> QED BY <2>6 DEF Rank, a, b
  <1>2. Rank(i, ids) \in Nat /\ Rank(j, ids) \in Nat
    BY RankTyped
  <1>3. CASE Before(i, j)
    BY <1>1, <1>3
  <1>4. CASE Before(j, i)
    <2>1. Rank(j, ids) < Rank(i, ids) /\ ~Before(i, j)
      BY <1>1, <1>4, FeedOrder
    <2> QED BY <1>2, <2>1
  <1>5. CASE i = j
    BY <1>2, <1>5, FeedOrder
  <1> QED BY <1>3, <1>4, <1>5, FeedOrder

\* Every place of the order is taken.
LEMMA RankOnto ==
  ASSUME project \in Projects, NEW ids \in SUBSET Ids,
         NEW k \in Nat, k < Cardinality(ids)
  PROVE  \E i \in ids : Rank(i, ids) = k
  <1> DEFINE n == Cardinality(ids)
             places == 0..(n - 1)
             f == [i \in ids |-> Rank(i, ids)]
  <1>1. IsFiniteSet(ids) /\ n \in Nat
    <2>1. IsFiniteSet(ids)
      BY FS_Subset
    <2> QED BY <2>1, FS_CardinalityType
  <1>2. \A i \in ids : Rank(i, ids) \in Nat /\ Rank(i, ids) < n
    BY RankTyped
  <1> HIDE DEF n
  <1>3. f \in [ids -> places]
    BY <1>1, <1>2
  <1>4. \A i, j \in ids : Rank(i, ids) = Rank(j, ids) => i = j
    <2> SUFFICES ASSUME NEW i \in ids, NEW j \in ids, Rank(i, ids) = Rank(j, ids), i # j
                 PROVE  FALSE
      OBVIOUS
    <2>1. Before(i, j) \/ Before(j, i)
      BY FeedOrder
    <2>2. Rank(i, ids) < Rank(j, ids) \/ Rank(j, ids) < Rank(i, ids)
      BY <2>1, RankGrows
    <2> QED BY <1>2, <2>2
  <1>5. f \in Injection(ids, places)
    BY <1>3, <1>4 DEF Injection, IsInjective
  <1>6. IsFiniteSet(places) /\ Cardinality(places) = n
    <2>1. 0 \in Int /\ n - 1 \in Int
      BY <1>1
    <2>2. IsFiniteSet(places) /\ Cardinality(places) = IF 0 > n - 1 THEN 0 ELSE (n - 1) - 0 + 1
      BY <2>1, FS_Interval
    <2> HIDE DEF places
    <2> QED BY <1>1, <2>2
  <1>7. f \in Surjection(ids, places)
    <2>1. Cardinality(ids) = Cardinality(places) <=> f \in Surjection(ids, places)
      BY <1>5, <1>6, FS_Injection
    <2> QED BY <1>6, <2>1 DEF n
  <1>8. k \in places
    BY <1>1 DEF n
  <1> QED BY <1>7, <1>8 DEF Surjection

LEMMA FirstRowsAre ==
  ASSUME project \in Projects, NEW ids \in SUBSET Ids, NEW n \in Nat
  PROVE  /\ FirstRows(n, ids) \in Seq(Ids)
         /\ Len(FirstRows(n, ids)) = IF Cardinality(ids) < n THEN Cardinality(ids) ELSE n
         /\ \A k \in 1..Len(FirstRows(n, ids)) :
               /\ FirstRows(n, ids)[k] \in ids
               /\ Rank(FirstRows(n, ids)[k], ids) = k - 1
  <1> DEFINE m == IF Cardinality(ids) < n THEN Cardinality(ids) ELSE n
             first == FirstRows(n, ids)
  <1>1. m \in Nat /\ m <= Cardinality(ids) /\ Cardinality(ids) \in Nat
    <2>1. Cardinality(ids) \in Nat
      BY FS_Subset, FS_CardinalityType
    <2> QED BY <2>1
  <1>2. first = [k \in 1..m |-> CHOOSE i \in ids : Rank(i, ids) = k - 1]
    BY DEF FirstRows, Rank
  <1> HIDE DEF m, first
  <1>3. ASSUME NEW k \in 1..m PROVE first[k] \in ids /\ Rank(first[k], ids) = k - 1
    <2>1. k - 1 \in Nat /\ k - 1 < Cardinality(ids)
      BY <1>1
    <2>2. \E i \in ids : Rank(i, ids) = k - 1
      BY <2>1, RankOnto
    <2> QED BY <1>2, <2>2
  <1>4. first \in [1..m -> Ids]
    BY <1>2, <1>3
  <1>5. first \in Seq(Ids) /\ Len(first) = m
    BY <1>1, <1>4
  <1> QED BY <1>3, <1>5 DEF m, first
-----------------------------------------------------------------------------
(* A page *)

Cursors == {Start, Ended} \cup [at : {"after"}, id : Ids, moment : Int]
On(i, items) == \E n \in DOMAIN items : items[n] = i

FeedTyped ==
    /\ project \in Projects
    /\ cursor \in Cursors
    /\ pages \in Seq(Seq(Ids))

LEMMA CursorOf ==
  ASSUME project \in Projects, NEW last \in Ids
  PROVE  /\ _encode_cursor(last) \in Cursors \ {Start, Ended}
         /\ \A i \in Ids : After(_encode_cursor(last), i) <=> Before(last, i)
  <1> DEFINE c == _encode_cursor(last)
  <1>1. c = [at |-> "after", id |-> last, moment |-> sort_key(project[last])]
    BY DEF _encode_cursor, sort_key
  <1>2. sort_key(project[last]) \in Int
    BY KeyTyped
  <1> HIDE DEF c
  <1>3. c \in Cursors /\ c # Start /\ c # Ended
    BY <1>1, <1>2 DEF Cursors, Start, Ended
  <1>4. \A i \in Ids : After(c, i) <=> Before(last, i)
    <2>1. c.moment = sort_key(project[last]) /\ c.id = last
      BY <1>1
    <2> SUFFICES ASSUME NEW i \in Ids PROVE After(c, i) <=> Before(last, i)
      OBVIOUS
    <2>2. After(c, i) <=> \/ sort_key(project[i]) < sort_key(project[last])
                          \/ sort_key(project[i]) = sort_key(project[last]) /\ i < last
      BY <1>3, <2>1 DEF After
    <2>3. sort_key(project[i]) \in Int /\ i \in Nat /\ last \in Nat
      BY KeyTyped
    <2> QED BY <1>2, <2>2, <2>3 DEF Before
  <1> QED BY <1>3, <1>4 DEF c

\* What is beyond the last row of a page was beyond the cursor it was asked with.
LEMMA CursorMovesOn ==
  ASSUME project \in Projects, cursor \in Cursors \ {Ended}, NEW last \in Ids,
         After(cursor, last), NEW i \in Ids, Before(last, i)
  PROVE  After(cursor, i)
  <1> DEFINE key(x) == sort_key(project[x])
  <1>1. key(last) \in Int /\ key(i) \in Int /\ i \in Nat /\ last \in Nat
    BY KeyTyped
  <1>2. key(last) > key(i) \/ (key(last) = key(i) /\ last > i)
    BY DEF Before
  <1>3. CASE cursor = Start
    BY <1>3 DEF After
  <1>4. CASE cursor # Start
    <2>1. cursor.moment \in Int /\ cursor.id \in Nat
      BY <1>4 DEF Cursors
    <2>2. key(last) < cursor.moment \/ (key(last) = cursor.moment /\ last < cursor.id)
      BY <1>4 DEF After
    <2>3. key(i) < cursor.moment \/ (key(i) = cursor.moment /\ i < cursor.id)
      <3> HIDE DEF key
      <3> QED BY <1>1, <1>2, <2>1, <2>2
    <2> QED BY <2>3 DEF After
  <1> QED BY <1>3, <1>4

\* A page has what is listed beyond its cursor and not beyond the next one.
LEMMA PageIs ==
  ASSUME FeedTyped, cursor # Ended
  PROVE  /\ list_public_feed.items \in Seq(Ids)
         /\ list_public_feed.next \in Cursors \ {Start}
         /\ \A i \in Ids :
               On(i, list_public_feed.items) <=>
                  /\ i \in ListedIn(project) /\ After(cursor, i)
                  /\ list_public_feed.next = Ended \/ ~After(list_public_feed.next, i)
         /\ list_public_feed.next # Ended =>
               \A i \in Ids : After(list_public_feed.next, i) => After(cursor, i)
  <1> USE DEF FeedTyped
  <1> DEFINE matching == {i \in ListedIn(project) : After(cursor, i)}
             size == Cardinality(matching)
             fetched == FirstRows(Limit + 1, matching)
             more == Len(fetched) > Limit
             shown == IF more THEN SubSeq(fetched, 1, Limit) ELSE fetched
             next == IF more THEN _encode_cursor(shown[Limit]) ELSE Ended
  <1>1. list_public_feed = [items |-> shown, next |-> next]
    BY DEF list_public_feed
  <1>2. matching \in SUBSET Ids /\ size \in Nat
    <2>1. matching \in SUBSET Ids
      BY DEF ListedIn
    <2> QED BY <2>1, FS_Subset, FS_CardinalityType
  <1>3. \A i \in Ids : i \in matching <=> i \in ListedIn(project) /\ After(cursor, i)
    OBVIOUS
  <1> HIDE DEF matching, size
  <1>4. /\ fetched \in Seq(Ids)
        /\ Len(fetched) = IF size < Limit + 1 THEN size ELSE Limit + 1
        /\ \A k \in 1..Len(fetched) : fetched[k] \in matching /\ Rank(fetched[k], matching) = k - 1
    <2>1. Limit + 1 \in Nat
      OBVIOUS
    <2> QED BY <1>2, <2>1, FirstRowsAre DEF size
  <1>5. \A i \in matching : Rank(i, matching) \in Nat /\ Rank(i, matching) < size
    BY <1>2, RankTyped DEF size
  <1>6. \A i, j \in matching : Rank(i, matching) = Rank(j, matching) => i = j
    <2> SUFFICES ASSUME NEW i \in matching, NEW j \in matching, i # j
                 PROVE  Rank(i, matching) # Rank(j, matching)
      OBVIOUS
    <2>1. Before(i, j) \/ Before(j, i)
      BY <1>2, FeedOrder
    <2>2. Rank(i, matching) < Rank(j, matching) \/ Rank(j, matching) < Rank(i, matching)
      BY <1>2, <2>1, RankGrows
    <2> QED BY <1>5, <2>2
  <1> HIDE DEF fetched
  <1>7. CASE ~more
    <2>1. shown = fetched /\ next = Ended
      BY <1>7
    <2>2. Len(fetched) = size
      BY <1>2, <1>4, <1>7
    <2>3. ASSUME NEW i \in Ids PROVE On(i, fetched) <=> i \in matching
      <3>1. ASSUME i \in matching PROVE On(i, fetched)
        <4>1. Rank(i, matching) + 1 \in 1..Len(fetched)
          BY <1>2, <1>5, <2>2, <3>1
        <4>2. fetched[Rank(i, matching) + 1] = i
          <5> DEFINE j == fetched[Rank(i, matching) + 1]
          <5>1. j \in matching /\ Rank(j, matching) = (Rank(i, matching) + 1) - 1
            BY <1>4, <4>1
          <5>2. Rank(j, matching) = Rank(i, matching)
            BY <1>5, <3>1, <5>1
          <5> HIDE DEF j
          <5>3. j = i
            BY <1>6, <3>1, <5>1, <5>2
          <5> QED BY <5>3 DEF j
        <4> QED BY <1>4, <4>1, <4>2 DEF On
      <3>2. ASSUME On(i, fetched) PROVE i \in matching
        BY <1>4, <3>2 DEF On
      <3> QED BY <3>1, <3>2
    <2> HIDE DEF shown, next
    <2> QED BY <1>1, <1>3, <1>4, <2>1, <2>3 DEF Cursors, Start, Ended
  <1>8. CASE more
    <2>1. Limit \in Nat /\ Limit >= 1 /\ Len(fetched) = Limit + 1 /\ Limit < size
      BY <1>2, <1>4, <1>8
    <2>2. /\ shown \in Seq(Ids) /\ Len(shown) = Limit
          /\ \A k \in 1..Limit : shown[k] = fetched[k]
      <3>1. shown = SubSeq(fetched, 1, Limit)
        BY <1>8
      <3>2. \A k \in 1..Limit : fetched[k] \in Ids
        BY <1>2, <1>4, <2>1
      <3> HIDE DEF shown
      <3>3. /\ shown \in Seq(Ids) /\ Len(shown) = IF 1 <= Limit THEN Limit - 1 + 1 ELSE 0
            /\ \A k \in 1..Limit - 1 + 1 : SubSeq(fetched, 1, Limit)[k] = fetched[1 + k - 1]
        BY <3>1, <3>2, <2>1, SubSeqProperties
      <3>4. \A k \in 1..Limit : k \in 1..Limit - 1 + 1 /\ 1 + k - 1 = k
        BY <2>1
      <3> QED BY <2>1, <3>1, <3>3, <3>4
    <2> DEFINE last == shown[Limit]
    <2>3. next = _encode_cursor(last)
      BY <1>8
    <2> HIDE DEF next, shown, more
    <2>4. last \in matching /\ Rank(last, matching) = Limit - 1
      BY <1>4, <2>1, <2>2
    <2> HIDE DEF last
    <2>5. last \in Ids /\ After(cursor, last)
      BY <1>2, <1>3, <2>4
    <2>6. next \in Cursors \ {Start, Ended} /\ \A i \in Ids : After(next, i) <=> Before(last, i)
      BY <2>3, <2>5, CursorOf
    <2>7. ASSUME NEW i \in Ids PROVE On(i, shown) <=> i \in matching /\ ~After(next, i)
      <3>1. i \in matching => (After(next, i) <=> Limit - 1 < Rank(i, matching))
        BY <1>2, <2>4, <2>6, RankGrows
      <3>2. ASSUME i \in matching, ~After(next, i) PROVE On(i, shown)
        <4> DEFINE k == Rank(i, matching) + 1
        <4>1. k \in 1..Limit /\ k \in 1..Len(fetched) /\ k - 1 = Rank(i, matching)
          BY <1>5, <2>1, <3>1, <3>2
        <4> HIDE DEF k
        <4>2. fetched[k] \in matching /\ Rank(fetched[k], matching) = Rank(i, matching)
          BY <1>4, <4>1
        <4>3. shown[k] = i
          BY <1>6, <2>2, <3>2, <4>1, <4>2
        <4> QED BY <2>2, <4>1, <4>3 DEF On
      <3>3. ASSUME On(i, shown) PROVE i \in matching /\ ~After(next, i)
        <4>1. PICK k \in 1..Limit : shown[k] = i
          BY <2>2, <3>3 DEF On
        <4>2. i \in matching /\ Rank(i, matching) = k - 1
          BY <1>4, <2>1, <2>2, <4>1
        <4> QED BY <2>1, <3>1, <4>1, <4>2
      <3> QED BY <3>2, <3>3
    <2>8. ASSUME NEW i \in Ids, After(next, i) PROVE After(cursor, i)
      BY <2>5, <2>6, <2>8, CursorMovesOn
    <2> QED BY <1>1, <1>3, <2>2, <2>6, <2>7, <2>8
  <1> QED BY <1>7, <1>8

-----------------------------------------------------------------------------
(* A walk *)

LEMMA ShownOnce ==
  ASSUME pages \in Seq(Seq(Ids)), NEW items \in Seq(Ids), pages' = Append(pages, items),
         NEW i \in Ids
  PROVE  /\ Shows(i) \in Nat
         /\ Shows(i)' = IF On(i, items) THEN Shows(i) + 1 ELSE Shows(i)
  <1> DEFINE k0 == {k \in DOMAIN pages : On(i, pages[k])}
             k1 == {k \in DOMAIN pages' : On(i, pages'[k])}
             new == Len(pages) + 1
  <1>1. Len(pages) \in Nat /\ DOMAIN pages = 1..Len(pages)
    OBVIOUS
  <1>2. /\ DOMAIN pages' = 1..new
        /\ pages'[new] = items
        /\ \A k \in 1..Len(pages) : pages'[k] = pages[k]
    BY <1>1, AppendProperties
  <1>3. k1 = IF On(i, items) THEN k0 \cup {new} ELSE k0
    BY <1>1, <1>2
  <1>4. IsFiniteSet(k0)
    <2>1. IsFiniteSet(1..Len(pages))
      BY <1>1, FS_Interval
    <2> QED BY <1>1, <2>1, FS_Subset
  <1>5. new \notin k0
    BY <1>1
  <1>6. Shows(i) = Cardinality(k0) /\ Shows(i)' = Cardinality(k1)
    BY DEF Shows, On
  <1> HIDE DEF k0, k1
  <1>7. Cardinality(k0) \in Nat
    BY <1>4, FS_CardinalityType
  <1>8. Cardinality(k0 \cup {new}) = Cardinality(k0) + 1
    BY <1>4, <1>5, FS_AddElement
  <1> QED BY <1>3, <1>6, <1>7, <1>8

Steady == Ids \ (unlisted \cup shifted)

\* A project that stayed where it was is on a page if it is not beyond the
\* cursor, and is still to come if it is.
WalkedOver ==
    cursor # Start =>
        \A i \in Steady :
            /\ i \in ListedIn(project)
            /\ Shows(i) = IF cursor # Ended /\ After(cursor, i) THEN 0 ELSE 1

AtTheStart == cursor = Start => pages = << >> /\ unlisted = {} /\ shifted = {}

FeedIInv == FeedTyped /\ AtTheStart /\ WalkedOver

LEMMA NothingShown == pages = << >> => \A i \in Ids : Shows(i) = 0
  <1> SUFFICES ASSUME pages = << >>, NEW i \in Ids PROVE Shows(i) = 0
    OBVIOUS
  <1>1. {k \in DOMAIN pages : \E n \in DOMAIN pages[k] : pages[k][n] = i} = {}
    OBVIOUS
  <1> QED BY <1>1, FS_EmptySet DEF Shows

LEMMA PageKeeps ==
  ASSUME FeedIInv, public_feed
  PROVE  FeedIInv'
  <1> DEFINE items == list_public_feed.items
             next == list_public_feed.next
  <1>0. FeedTyped /\ cursor # Ended
    BY DEF FeedIInv, public_feed
  <1>1. /\ items \in Seq(Ids) /\ next \in Cursors \ {Start}
        /\ \A i \in Ids : On(i, items) <=> /\ i \in ListedIn(project) /\ After(cursor, i)
                                           /\ next = Ended \/ ~After(next, i)
        /\ next # Ended => \A i \in Ids : After(next, i) => After(cursor, i)
    BY <1>0, PageIs
  <1>2. /\ pages' = Append(pages, items) /\ cursor' = next
        /\ unlisted' = IF cursor = Start THEN Ids \ ListedIn(project) ELSE unlisted
        /\ UNCHANGED <<project, filter, shifted>>
    BY DEF public_feed
  <1> HIDE DEF items, next
  <1>3. FeedTyped'
    BY <1>0, <1>1, <1>2, AppendProperties DEF FeedTyped
  <1>4. AtTheStart'
    BY <1>1, <1>2 DEF AtTheStart
  <1>5. WalkedOver'
    <2> SUFFICES ASSUME NEW i \in Steady'
                 PROVE  /\ i \in ListedIn(project)
                        /\ Shows(i)' = IF next # Ended /\ After(next, i) THEN 0 ELSE 1
      BY <1>2 DEF WalkedOver, ListedIn, After
    <2>1. /\ i \in Ids /\ i \in ListedIn(project)
          /\ Shows(i) = IF After(cursor, i) THEN 0 ELSE 1
      <3>1. CASE cursor = Start
        <4>1. i \in Ids /\ i \in ListedIn(project)
          BY <1>2, <3>1 DEF Steady
        <4>2. Shows(i) = 0
          BY <3>1, <4>1, NothingShown DEF FeedIInv, AtTheStart
        <4> QED BY <3>1, <4>1, <4>2 DEF After
      <3>2. CASE cursor # Start
        <4>1. i \in Steady
          BY <1>2, <3>2 DEF Steady
        <4> QED BY <1>0, <3>2, <4>1 DEF FeedIInv, WalkedOver, Steady
      <3> QED BY <3>1, <3>2
    <2>2. Shows(i)' = IF On(i, items) THEN Shows(i) + 1 ELSE Shows(i)
      BY <1>0, <1>1, <1>2, <2>1, ShownOnce DEF FeedTyped
    <2> QED BY <1>1, <2>1, <2>2
  <1> QED BY <1>3, <1>4, <1>5 DEF FeedIInv

\* A change to a project touches neither the place nor the listing of another.
LEMMA ChangeKeeps ==
  ASSUME FeedIInv, NEW k \in Ids, NEW row \in ProjectRows, Becomes(k, row)
  PROVE  FeedIInv'
  <1>1. /\ project' = [project EXCEPT ![k] = row]
        /\ unlisted' = IF _public_filter(row, filter) THEN unlisted ELSE unlisted \cup {k}
        /\ shifted' = IF sort_key(row) # sort_key(project[k]) THEN shifted \cup {k} ELSE shifted
        /\ UNCHANGED <<filter, cursor, pages>>
        /\ pages # << >>
    BY DEF Becomes
  <1>2. FeedTyped'
    BY <1>1 DEF FeedIInv, FeedTyped, Projects
  <1>3. cursor # Start
    BY <1>1 DEF FeedIInv, AtTheStart
  <1>4. ASSUME NEW i \in Steady'
        PROVE  /\ i \in Steady /\ i \in ListedIn(project)'
               /\ sort_key(project'[i]) = sort_key(project[i])
    <2>1. i \in Steady /\ i \in Ids
      BY <1>1 DEF Steady
    <2>2. i \in ListedIn(project)
      BY <1>3, <2>1 DEF FeedIInv, WalkedOver
    <2>3. project \in [Ids -> ProjectRows \cup {NoProject}]
      BY DEF FeedIInv, FeedTyped, Projects
    <2>4. CASE i # k
      BY <1>1, <2>1, <2>2, <2>3, <2>4 DEF ListedIn
    <2>5. CASE i = k
      <3>1. project'[i] = row
        BY <1>1, <2>3, <2>5
      <3>2. _public_filter(row, filter) /\ sort_key(row) = sort_key(project[k])
        BY <1>1, <2>5 DEF Steady
      <3> QED BY <1>1, <2>1, <2>5, <3>1, <3>2 DEF ListedIn
    <2> QED BY <2>4, <2>5
  <1>5. WalkedOver'
    <2> SUFFICES ASSUME NEW i \in Steady'
                 PROVE  /\ i \in ListedIn(project)'
                        /\ Shows(i)' = IF cursor # Ended /\ After(cursor, i)' THEN 0 ELSE 1
      BY <1>1 DEF WalkedOver
    <2>1. After(cursor, i)' <=> After(cursor, i)
      BY <1>1, <1>4 DEF After
    <2>2. Shows(i)' = Shows(i)
      BY <1>1 DEF Shows
    <2> QED BY <1>3, <1>4, <2>1, <2>2 DEF FeedIInv, WalkedOver
  <1> QED BY <1>1, <1>2, <1>3, <1>5 DEF FeedIInv, AtTheStart

LEMMA ProjectsChange ==
  ASSUME FeedIInv, NEW i \in Ids,
         CreateProject(i) \/ Capture(i) \/ SetVisibility(i) \/ ArchiveProject(i) \/ refresh_status(i)
  PROVE  FeedIInv'
  <1>1. Exists(i) => project[i] \in ProjectRows
    BY DEF Exists, FeedIInv, FeedTyped, Projects
  <1>2. CASE CreateProject(i)
    <2>1. PICK visible \in BOOLEAN :
             Becomes(i, [public |-> visible, status |-> "active",
                         created |-> MaxStamp, captured |-> Never])
      BY <1>2 DEF CreateProject
    <2>2. [public |-> visible, status |-> "active", created |-> MaxStamp, captured |-> Never]
             \in ProjectRows
      BY DEF ProjectRows, Stamps
    <2> QED BY <2>1, <2>2, ChangeKeeps
  <1>3. CASE Capture(i)
    <2>1. PICK stamp \in Stamps : Becomes(i, [project[i] EXCEPT !.captured = stamp])
      BY <1>3 DEF Capture
    <2>2. [project[i] EXCEPT !.captured = stamp] \in ProjectRows
      BY <1>1, <1>3 DEF Capture, ProjectRows
    <2> QED BY <2>1, <2>2, ChangeKeeps
  <1>4. CASE SetVisibility(i)
    <2>1. [project[i] EXCEPT !.public = ~@] \in ProjectRows
      BY <1>1, <1>4 DEF SetVisibility, ProjectRows
    <2> QED BY <1>4, <2>1, ChangeKeeps DEF SetVisibility
  <1>5. CASE ArchiveProject(i)
    <2>1. [project[i] EXCEPT !.status = "archived"] \in ProjectRows
      BY <1>1, <1>5 DEF ArchiveProject, ProjectRows
    <2> QED BY <1>5, <2>1, ChangeKeeps DEF ArchiveProject
  <1>6. CASE refresh_status(i)
    <2>1. PICK status \in {"active", "inactive"} :
             Becomes(i, [project[i] EXCEPT !.status = status])
      BY <1>6 DEF refresh_status
    <2>2. [project[i] EXCEPT !.status = status] \in ProjectRows
      BY <1>1, <1>6 DEF refresh_status, ProjectRows
    <2> QED BY <2>1, <2>2, ChangeKeeps
  <1> QED BY <1>2, <1>3, <1>4, <1>5, <1>6

(* A project that stays where it was is on exactly as many pages as it      *)
(* should: none while it is beyond the cursor, one from then on.            *)
THEOREM FeedInvariant == FeedSpec => []FeedIInv
  <1>1. FeedInit => FeedIInv
    BY DEF FeedInit, FeedIInv, FeedTyped, Projects, Cursors, AtTheStart, WalkedOver
  <1>2. FeedIInv /\ [FeedNext]_feedVars => FeedIInv'
    <2> SUFFICES ASSUME FeedIInv, [FeedNext]_feedVars PROVE FeedIInv'
      OBVIOUS
    <2>1. CASE public_feed
      BY <2>1, PageKeeps
    <2>2. CASE StartsOver
      BY <2>2 DEF StartsOver, FeedIInv, FeedTyped, Cursors, AtTheStart, WalkedOver
    <2>3. ASSUME NEW i \in Ids,
                 \/ CreateProject(i) \/ Capture(i) \/ SetVisibility(i)
                 \/ ArchiveProject(i) \/ refresh_status(i)
          PROVE  FeedIInv'
      BY <2>3, ProjectsChange
    <2>4. CASE UNCHANGED feedVars
      <3>1. UNCHANGED <<project, filter, cursor, pages, unlisted, shifted>>
        BY <2>4 DEF feedVars
      <3>2. FeedTyped' /\ AtTheStart' /\ Steady' = Steady /\ ListedIn(project)' = ListedIn(project)
        BY <3>1 DEF FeedIInv, FeedTyped, AtTheStart, Steady, ListedIn
      <3>3. ASSUME NEW i \in Ids
            PROVE  Shows(i)' = Shows(i) /\ (After(cursor, i)' <=> After(cursor, i))
        BY <3>1 DEF Shows, After
      <3>4. WalkedOver'
        BY <3>1, <3>2, <3>3 DEF FeedIInv, WalkedOver, Steady
      <3> QED BY <3>2, <3>4 DEF FeedIInv
    <2> QED BY <2>1, <2>2, <2>3, <2>4 DEF FeedNext
  <1> QED BY <1>1, <1>2, PTL DEF FeedSpec

(* A walk neither skips nor repeats a project that was there throughout and *)
(* did not move (public.py:77-78), for every number of projects, page size, *)
(* filter and course of the changes beside it.                              *)
THEOREM WalkSeesAll == FeedSpec => []StillIsSeen
  <1>1. FeedIInv => StillIsSeen
    BY DEF FeedIInv, WalkedOver, StillIsSeen, Steady, Start, Ended
  <1> QED BY <1>1, FeedInvariant, PTL


==============================================================================
