------------------------------ MODULE Migrations ------------------------------
(***************************************************************************)
(* The four revisions of the database, up and down, beside the program      *)
(* that writes predictions between them.                                    *)
(*                                                                          *)
(* A revision is a sequence of statements in one transaction                *)
(* (transaction_per_migration): each statement may be refused, by the       *)
(* schema it finds or by the rows, and then nothing of the revision         *)
(* happened.  A refused revision is therefore no step of this machine.      *)
(*                                                                          *)
(* The class of a prediction is "kept" when its index is one of the four    *)
(* the classifier has now, and "retired" when it is another of the ten it   *)
(* once had.                                                                *)
(***************************************************************************)
EXTENDS Integers, Sequences, FiniteSets, SequencesExt, Schema

CONSTANTS
    Images,         \* photographs that get predictions
    MaxPredictions, \* rows of predictions in the life of the database
    MaxDowngrades   \* times the operator goes back

ASSUME MigrationAssumption == MaxPredictions \in Nat /\ MaxDowngrades \in Nat

VARIABLES
    revision,       \* alembic_version, 0 before the first revision
    tables,         \* the schema of each table there is
    types,          \* the enum types there are
    predictions,    \* rows of predictions
    lastPrediction, \* the last id given to a prediction
    downgrades      \* (bound) revisions reverted

migrationVars == <<revision, tables, types, predictions, lastPrediction, downgrades>>

-----------------------------------------------------------------------------
(***************************************************************************)
(* The tables as the first revisions make them.                             *)
(***************************************************************************)
ai_models ==
    Table({}, {Key({"name", "version"}), KeyWhere({"kind"}, "is_active")}, {}, {"model_kind"}, {})

users ==
    Table({}, {Key({"email"}), Key({"username"})}, {"email_shape", "username_length"},
          {"professional_role", "visibility"}, {})

projects ==
    Table({Ref("approved_by", "users", "SET_NULL"), Ref("owner_id", "users", "RESTRICT")},
          {Key({"project_code"})},
          {"machine_ceiling_requires_approval", "project_code_format", "window_mode_valid",
           "deadline_after_start", "latitude_range", "longitude_range", "progress_range",
           "worker_count_non_negative"},
          {"visibility", "project_status", "approval_state", "macro_stage"}, {})

refresh_tokens == Table({Ref("user_id", "users", "CASCADE")}, {Key({"token_hash"})}, {}, {}, {})

devices ==
    Table({Ref("project_id", "projects", "CASCADE")},
          {Key({"device_name"}), Key({"project_id", "face"})},
          {"device_name_format", "weight_range"}, {"camera_face", "device_status"},
          {"secret_hash"})

notifications ==
    Table({Ref("project_id", "projects", "CASCADE"), Ref("user_id", "users", "CASCADE")},
          {}, {}, {"notification_type"}, {})

project_members ==
    Table({Ref("invited_by", "users", "SET_NULL"), Ref("project_id", "projects", "CASCADE"),
           Ref("user_id", "users", "CASCADE")},
          {Key({"project_id", "user_id"})}, {}, {"membership_role", "membership_status"}, {})

project_progress_snapshots ==
    Table({Ref("project_id", "projects", "CASCADE")}, {Key({"project_id", "window_start"})},
          {"percentages_range", "window_ordered"}, {"macro_stage"}, {})

reference_assets ==
    Table({Ref("project_id", "projects", "CASCADE"), Ref("uploaded_by", "users", "RESTRICT")},
          {}, {"size_positive"}, {"asset_kind"}, {})

remarks ==
    Table({Ref("author_id", "users", "SET_NULL"), Ref("project_id", "projects", "CASCADE")},
          {}, {"effective_range_valid"}, {"remark_type", "severity"}, {})

reports ==
    Table({Ref("project_id", "projects", "CASCADE"), Ref("requested_by", "users", "RESTRICT")},
          {}, {"period_ordered"}, {"report_kind", "report_format", "report_status"}, {})

audit_logs ==
    Table({Ref("actor_device_id", "devices", "SET_NULL"), Ref("actor_user_id", "users", "SET_NULL")},
          {}, {}, {}, {})

device_events == Table({Ref("device_id", "devices", "CASCADE")}, {}, {}, {}, {})

images ==
    Table({Ref("device_id", "devices", "SET_NULL"), Ref("project_id", "projects", "CASCADE")},
          {Key({"project_id", "sha256"})}, {"sha256_length", "latitude_range", "longitude_range"},
          {"image_source", "image_status"}, {})

pairing_tokens ==
    Table({Ref("created_by", "users", "CASCADE"), Ref("project_id", "projects", "CASCADE"),
           Ref("used_by_device_id", "devices", "SET_NULL")},
          {Key({"token_hash"})}, {}, {"camera_face"}, {})

detection_summaries ==
    Table({Ref("image_id", "images", "CASCADE")}, {Key({"image_id"})},
          {"total_objects_non_negative"}, {}, {})

detections ==
    Table({Ref("image_id", "images", "CASCADE"), Ref("model_id", "ai_models", "RESTRICT")},
          {}, {"bbox_normalised", "confidence_range"}, {}, {})

OneRowPerImage == Key({"image_id"})
OneCurrentRowPerImage == KeyWhere({"image_id"}, "superseded_at IS NULL")
TenClasses == "fine_class_index BETWEEN 0 AND 9"
FourClasses == "fine_class_index BETWEEN 0 AND 3"

predictions_m02 ==
    Table({Ref("image_id", "images", "CASCADE"), Ref("model_id", "ai_models", "RESTRICT")},
          {OneRowPerImage}, {"confidence_range", TenClasses, "progress_range"}, {"macro_stage"}, {})

contact_messages == Table({}, {}, {"message_min_length"}, {}, {})

\* The first revision, in the order of its create_table statements
CreateOrder ==
    << <<"ai_models", ai_models>>, <<"users", users>>, <<"projects", projects>>,
       <<"refresh_tokens", refresh_tokens>>, <<"devices", devices>>,
       <<"notifications", notifications>>, <<"project_members", project_members>>,
       <<"project_progress_snapshots", project_progress_snapshots>>,
       <<"reference_assets", reference_assets>>, <<"remarks", remarks>>, <<"reports", reports>>,
       <<"audit_logs", audit_logs>>, <<"device_events", device_events>>, <<"images", images>>,
       <<"pairing_tokens", pairing_tokens>>, <<"detection_summaries", detection_summaries>>,
       <<"detections", detections>>, <<"predictions", predictions_m02>> >>

DropOrder ==
    << "predictions", "detections", "detection_summaries", "pairing_tokens", "images",
       "device_events", "audit_logs", "reports", "remarks", "reference_assets",
       "project_progress_snapshots", "project_members", "notifications", "devices",
       "refresh_tokens", "projects", "users", "ai_models" >>

\* ENUM_TYPES.  Mutant: a type that was added to a table and forgotten here.
ENUM_TYPES_Forgotten ==
    {"approval_state", "asset_kind", "camera_face", "device_status", "image_source",
     "image_status", "macro_stage", "membership_role", "membership_status", "model_kind",
     "notification_type", "professional_role", "project_status", "remark_type", "report_format",
     "report_kind", "report_status", "visibility"}

ENUM_TYPES ==
    {"approval_state", "asset_kind", "camera_face", "device_status", "image_source",
     "image_status", "macro_stage", "membership_role", "membership_status", "model_kind",
     "notification_type", "professional_role", "project_status", "remark_type", "report_format",
     "report_kind", "report_status", "severity", "visibility"}

-----------------------------------------------------------------------------
(***************************************************************************)
(* Statements.  A database is [tables, types, made, rows, ok]: made are the *)
(* types this command created, which it does not create again for the next  *)
(* table; ok is lost by a statement that is refused.                        *)
(***************************************************************************)
Database == [tables |-> tables, types |-> types, made |-> {}, rows |-> predictions, ok |-> TRUE]

CreateTable(d, name, table) ==
    LET new == table.types \ d.made
        there == DOMAIN d.tables
    IN  [d EXCEPT !.ok = /\ @
                         /\ name \notin there
                         /\ new \cap d.types = {}
                         /\ \A r \in table.refs : r.to \in there,
                  !.tables = [t \in there \cup {name} |-> IF t = name THEN table ELSE d.tables[t]],
                  !.types = @ \cup new,
                  !.made = @ \cup new]

DropTable(d, name) ==
    LET rest == DOMAIN d.tables \ {name}
    IN  [d EXCEPT !.ok = /\ @
                         /\ name \in DOMAIN d.tables
                         /\ \A t \in rest : \A r \in d.tables[t].refs : r.to # name,
                  !.tables = [t \in rest |-> d.tables[t]],
                  !.rows = IF name = "predictions" THEN {} ELSE @]

DropTypes(d, dropped) ==
    [d EXCEPT !.ok = @ /\ \A t \in DOMAIN d.tables : d.tables[t].types \cap dropped = {},
              !.types = @ \ dropped]

AddColumn(d, name, column) == [d EXCEPT !.tables[name].columns = @ \cup {column}]
DropColumn(d, name, column) ==
    [d EXCEPT !.ok = @ /\ column \in d.tables[name].columns,
              !.tables[name].columns = @ \ {column}]

\* The two keys and the two ranges that revisions put on rows that exist
Counted(rows, key) ==
    IF key = OneRowPerImage THEN rows ELSE {p \in rows : ~ p.superseded}
KeyFits(rows, key) ==
    \A p, q \in Counted(rows, key) : p.image = q.image => p = q
RangeFits(rows, check) == check = FourClasses => \A p \in rows : p.class = "kept"

ReplaceKey(d, old, new) ==
    [d EXCEPT !.ok = @ /\ old \in d.tables["predictions"].keys /\ KeyFits(d.rows, new),
              !.tables["predictions"].keys = (@ \ {old}) \cup {new}]

ReplaceCheck(d, old, new) ==
    [d EXCEPT !.ok = @ /\ old \in d.tables["predictions"].checks /\ RangeFits(d.rows, new),
              !.tables["predictions"].checks = (@ \ {old}) \cup {new}]

-----------------------------------------------------------------------------
(***************************************************************************)
(* The revisions.                                                           *)
(***************************************************************************)
upgrade_m02(d) == FoldLeft(LAMBDA e, t : CreateTable(e, t[1], t[2]), d, CreateOrder)
downgrade_m02(d) == DropTypes(FoldLeft(DropTable, d, DropOrder), ENUM_TYPES)

upgrade_m04(d) == CreateTable(d, "contact_messages", contact_messages)
downgrade_m04(d) == DropTable(d, "contact_messages")

upgrade_m05(d) == DropColumn(AddColumn(d, "devices", "secret_encrypted"), "devices", "secret_hash")
downgrade_m05(d) == DropColumn(AddColumn(d, "devices", "secret_hash"), "devices", "secret_encrypted")


upgrade_m09(d) ==
    LET keyed == ReplaceKey(AddColumn(d, "predictions", "superseded_at"),
                            OneRowPerImage, OneCurrentRowPerImage)
        rid   == [keyed EXCEPT !.rows = {p \in @ : p.class = "kept"}]
    IN  ReplaceCheck(rid, TenClasses, FourClasses)

\* Without superseded_at every row of an image counts.
downgrade_m09(d) ==
    LET wide == DropColumn(ReplaceCheck(d, FourClasses, TenClasses), "predictions", "superseded_at")
    IN  ReplaceKey([wide EXCEPT !.rows = {[p EXCEPT !.superseded = FALSE] : p \in @}],
                   OneCurrentRowPerImage, OneRowPerImage)

Latest == 4

Upgraded(d, to) ==
    CASE to = 1 -> upgrade_m02(d) [] to = 2 -> upgrade_m04(d)
      [] to = 3 -> upgrade_m05(d) [] to = 4 -> upgrade_m09(d)

Downgraded(d, from) ==
    CASE from = 1 -> downgrade_m02(d) [] from = 2 -> downgrade_m04(d)
      [] from = 3 -> downgrade_m05(d) [] from = 4 -> downgrade_m09(d)

-----------------------------------------------------------------------------
Predictions == [id : 1 .. MaxPredictions, image : Images, class : {"kept", "retired"},
                superseded : BOOLEAN]

MigrationsTypeOK ==
    /\ revision \in 0 .. Latest
    /\ DOMAIN tables \subseteq DOMAIN Metadata
    /\ types \subseteq ENUM_TYPES
    /\ predictions \subseteq Predictions
    /\ lastPrediction \in 0 .. MaxPredictions
    /\ downgrades \in 0 .. MaxDowngrades

MigrationsInit ==
    /\ revision = 0
    /\ tables = << >>
    /\ types = {}
    /\ predictions = {}
    /\ lastPrediction = 0
    /\ downgrades = 0

Committed(d) ==
    /\ d.ok
    /\ tables' = d.tables
    /\ types' = d.types
    /\ predictions' = d.rows

Upgrade ==
    /\ revision < Latest
    /\ Committed(Upgraded(Database, revision + 1))
    /\ revision' = revision + 1
    /\ UNCHANGED <<lastPrediction, downgrades>>

Downgrade ==
    /\ revision > 0
    /\ downgrades < MaxDowngrades
    /\ Committed(Downgraded(Database, revision))
    /\ revision' = revision - 1
    /\ downgrades' = downgrades + 1
    /\ UNCHANGED lastPrediction

\* A worker of the release the schema belongs to scores an image: before m09
\* it could still know ten classes and wrote one row per image; since, it
\* marks the current row superseded and adds the next.
Scored(i, class) ==
    /\ revision > 0
    /\ lastPrediction < MaxPredictions
    /\ revision = Latest => class = "kept"
    /\ LET row  == [id |-> lastPrediction + 1, image |-> i, class |-> class, superseded |-> FALSE]
           rest == {p \in predictions : p.image # i}
           past == {[p EXCEPT !.superseded = TRUE] : p \in predictions \ rest}
       IN  predictions' = rest \cup {row} \cup (IF revision = Latest THEN past ELSE {})
    /\ lastPrediction' = lastPrediction + 1
    /\ UNCHANGED <<revision, tables, types, downgrades>>

\* What the m09 downgrade asks for first: DELETE ... WHERE superseded_at IS NOT NULL
DiscardHistory ==
    /\ revision = Latest
    /\ predictions' = {p \in predictions : ~ p.superseded}
    /\ predictions' # predictions
    /\ UNCHANGED <<revision, tables, types, lastPrediction, downgrades>>

MigrationsNext ==
    \/ Upgrade
    \/ Downgrade
    \/ \E i \in Images, class \in {"kept", "retired"} : Scored(i, class)
    \/ DiscardHistory

MigrationsSpec == MigrationsInit /\ [][MigrationsNext]_migrationVars

-----------------------------------------------------------------------------
\* Whatever revisions were applied and reverted before, and whatever the
\* program stored in between, `alembic upgrade head` goes through and ends
\* with the tables the code is written against (env.py's target_metadata) and
\* with no enum type that no table has: the migrations "must be reversible".
HeadIsReached ==
    LET left == [n \in 1 .. Latest - revision |-> revision + n]
        end  == FoldLeft(LAMBDA d, to : Upgraded([d EXCEPT !.made = {}], to), Database, left)
    IN  /\ end.ok
        /\ end.tables = Metadata
        /\ end.types = UNION {Metadata[t].types : t \in DOMAIN Metadata}
=============================================================================
