------------------------------ MODULE MCDatabase ------------------------------
(***************************************************************************)
(* What happens to the stored data outside of requests: its schema is       *)
(* migrated, demonstration data is put in and wiped, the stack is backed up *)
(* and restored.  The three machines share no variable; each moves while    *)
(* the others have not started, so that their states add up.                *)
(***************************************************************************)
EXTENDS Migrations, SeedData, Backup

CONSTANTS Dana, DanaProject, DanaImage, DanaPrediction, ApprovedProject, AliceProject,
          AliceUpload, AliceReport, AliceEntry, CameraEntry, DanaMembership, Namesake

\* The seed's Alice may in the end have approved, uploaded, reported, invited
\* and done things elsewhere; the stub model judged a photograph of Dana's
\* project; somebody may take the name of Alice while she is wiped.
MCOthers ==
    [r \in {Dana, Namesake} |-> Row("users", << >>)]
    @@ (DanaProject :> Row("projects", [owner_id |-> Dana]))
    @@ (AliceProject :> Row("projects", [owner_id |-> Alice]))
    @@ (ApprovedProject :> Row("projects", [owner_id |-> Dana, approved_by |-> Alice]))
    @@ (DanaImage :> Row("images", [project_id |-> DanaProject]))
    @@ (DanaPrediction :> Row("predictions", [image_id |-> DanaImage, model_id |-> Stub]))
    @@ (AliceUpload :> Row("reference_assets", [project_id |-> DanaProject, uploaded_by |-> Alice]))
    @@ (AliceReport :> Row("reports", [project_id |-> DanaProject, requested_by |-> Alice]))
    @@ (AliceEntry :> Row("audit_logs", [actor_user_id |-> Alice]))
    @@ (CameraEntry :> Row("audit_logs", [actor_device_id |-> Camera]))
    @@ (DanaMembership :> Row("project_members",
                              [project_id |-> Flagship, user_id |-> Dana, invited_by |-> Alice]))

MCTheirs == DOMAIN MCOthers \ {DanaMembership}

MCSameKey(r, s) == r = s \/ {r, s} = {Alice, Namesake}

Unmigrated == revision = 0 /\ downgrades = 0 /\ lastPrediction = 0
Unseeded == rows = {} /\ script = "idle"
Unbacked == stored = {} /\ removed = {} /\ copying = "idle" /\ disasters = 0

DatabaseInit == MigrationsInit /\ SeedInit /\ BackupInit

DatabaseNext ==
    \/ Unseeded /\ Unbacked /\ MigrationsNext /\ UNCHANGED <<seedVars, backupVars>>
    \/ Unmigrated /\ Unbacked /\ SeedNext /\ UNCHANGED <<migrationVars, backupVars>>
    \/ Unmigrated /\ Unseeded /\ BackupNext /\ UNCHANGED <<migrationVars, seedVars>>

DatabaseVars == <<migrationVars, seedVars, backupVars>>

DatabaseSpec == DatabaseInit /\ [][DatabaseNext]_DatabaseVars
=============================================================================
