-------------------------------- MODULE Schema --------------------------------
(***************************************************************************)
(* The tables the code is written against: what models.py declares.         *)
(*                                                                          *)
(* Of a table the model keeps what one row can do to another: the columns   *)
(* that refer to other tables, with what a deletion there does here, the    *)
(* unique keys, the checks and the enum types.  Of its other columns it     *)
(* keeps the nullable ones that some revision adds or drops.                *)
(***************************************************************************)
EXTENDS TLC

\* ForeignKey(table.id, ondelete=rule)
Ref(column, table, rule) == [column |-> column, to |-> table, on |-> rule]
\* unique=True, UniqueConstraint, and the partial unique indexes
KeyWhere(columns, condition) == [columns |-> columns, where |-> condition]
Key(columns) == KeyWhere(columns, "always")

Table(refs, keys, checks, types, columns) ==
    [refs |-> refs, keys |-> keys, checks |-> checks, types |-> types, columns |-> columns]

-----------------------------------------------------------------------------
UserModel ==
    Table({}, {Key({"username"}), Key({"email"})}, {"username_length", "email_shape"},
          {"professional_role", "visibility"}, {})

RefreshTokenModel ==
    Table({Ref("user_id", "users", "CASCADE")}, {Key({"token_hash"})}, {}, {}, {})

ProjectModel ==
    Table({Ref("owner_id", "users", "RESTRICT"), Ref("approved_by", "users", "SET_NULL")},
          {Key({"project_code"})},
          {"project_code_format", "deadline_after_start", "progress_range", "latitude_range",
           "longitude_range", "worker_count_non_negative", "window_mode_valid",
           "machine_ceiling_requires_approval"},
          {"visibility", "project_status", "approval_state", "macro_stage"}, {})

ProjectMemberModel ==
    Table({Ref("project_id", "projects", "CASCADE"), Ref("user_id", "users", "CASCADE"),
           Ref("invited_by", "users", "SET_NULL")},
          {Key({"project_id", "user_id"})}, {}, {"membership_role", "membership_status"}, {})

RemarkModel ==
    Table({Ref("project_id", "projects", "CASCADE"), Ref("author_id", "users", "SET_NULL")},
          {}, {"effective_range_valid"}, {"remark_type", "severity"}, {})

ReferenceAssetModel ==
    Table({Ref("project_id", "projects", "CASCADE"), Ref("uploaded_by", "users", "RESTRICT")},
          {}, {"size_positive"}, {"asset_kind"}, {})

DeviceModel ==
    Table({Ref("project_id", "projects", "CASCADE")},
          {Key({"device_name"}), Key({"project_id", "face"})},
          {"weight_range", "device_name_format"}, {"camera_face", "device_status"},
          {"secret_encrypted"})

PairingTokenModel ==
    Table({Ref("project_id", "projects", "CASCADE"), Ref("used_by_device_id", "devices", "SET_NULL"),
           Ref("created_by", "users", "CASCADE")},
          {Key({"token_hash"})}, {}, {"camera_face"}, {})

DeviceEventModel == Table({Ref("device_id", "devices", "CASCADE")}, {}, {}, {}, {})

ImageModel ==
    Table({Ref("project_id", "projects", "CASCADE"), Ref("device_id", "devices", "SET_NULL")},
          {Key({"project_id", "sha256"})}, {"sha256_length", "latitude_range", "longitude_range"},
          {"image_source", "image_status"}, {})

PredictionModel ==
    Table({Ref("image_id", "images", "CASCADE"), Ref("model_id", "ai_models", "RESTRICT")},
          {KeyWhere({"image_id"}, "superseded_at IS NULL")},
          {"confidence_range", "progress_range", "fine_class_index BETWEEN 0 AND 3"},
          {"macro_stage"}, {"superseded_at"})

DetectionModel ==
    Table({Ref("image_id", "images", "CASCADE"), Ref("model_id", "ai_models", "RESTRICT")},
          {}, {"confidence_range", "bbox_normalised"}, {}, {})

DetectionSummaryModel ==
    Table({Ref("image_id", "images", "CASCADE")}, {Key({"image_id"})},
          {"total_objects_non_negative"}, {}, {})

ProgressSnapshotModel ==
    Table({Ref("project_id", "projects", "CASCADE")}, {Key({"project_id", "window_start"})},
          {"window_ordered", "percentages_range"}, {"macro_stage"}, {})

ReportModel ==
    Table({Ref("project_id", "projects", "CASCADE"), Ref("requested_by", "users", "RESTRICT")},
          {}, {"period_ordered"}, {"report_kind", "report_format", "report_status"}, {})

AIModelModel ==
    Table({}, {Key({"name", "version"}), KeyWhere({"kind"}, "is_active")}, {}, {"model_kind"}, {})

NotificationModel ==
    Table({Ref("user_id", "users", "CASCADE"), Ref("project_id", "projects", "CASCADE")},
          {}, {}, {"notification_type"}, {})

ContactMessageModel == Table({}, {}, {"message_min_length"}, {}, {})

\* Mutant: an audit entry goes with its actor.
AuditLogModel_Cascades ==
    Table({Ref("actor_user_id", "users", "CASCADE"), Ref("actor_device_id", "devices", "CASCADE")},
          {}, {}, {}, {})

AuditLogModel ==
    Table({Ref("actor_user_id", "users", "SET_NULL"), Ref("actor_device_id", "devices", "SET_NULL")},
          {}, {}, {}, {})

\* Base.metadata: every table the ORM knows, by its __tablename__
Metadata ==
    [users |-> UserModel, refresh_tokens |-> RefreshTokenModel, projects |-> ProjectModel,
     project_members |-> ProjectMemberModel, remarks |-> RemarkModel,
     reference_assets |-> ReferenceAssetModel, devices |-> DeviceModel,
     pairing_tokens |-> PairingTokenModel, device_events |-> DeviceEventModel,
     images |-> ImageModel, predictions |-> PredictionModel, detections |-> DetectionModel,
     detection_summaries |-> DetectionSummaryModel,
     project_progress_snapshots |-> ProgressSnapshotModel, reports |-> ReportModel,
     ai_models |-> AIModelModel, notifications |-> NotificationModel,
     contact_messages |-> ContactMessageModel, audit_logs |-> AuditLogModel]
=============================================================================
