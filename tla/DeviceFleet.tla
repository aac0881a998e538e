---------------------------- MODULE DeviceFleet ----------------------------
(***************************************************************************)
(* The cameras of one project: pairing codes, claims, signed events,        *)
(* settings, unpairing, and the worker that marks silent cameras offline    *)
(* and alerts on a dark site.                                               *)
(*                                                                          *)
(* The database holds one row for each face that was ever paired            *)
(* (uq_devices_project_face counts revoked rows too), so a row is named by  *)
(* its face.  A request is two transactions' worth of interleaving: what it *)
(* read when it was let in, and what it writes when it commits.             *)
(*                                                                          *)
(* External parts: the camera's own memory (`nvs`, the identity file of     *)
(* the simulator, the localStorage of the phone page), the network that     *)
(* loses answers, and the clock.                                            *)
(***************************************************************************)
EXTENDS Integers, FiniteSets

CONSTANTS
    Faces,          \* façades a camera can watch (CameraFace)
    Cameras,        \* pieces of hardware, or phones, that claim codes
    Codes,          \* pairing codes that can be issued
    Requests,       \* HTTP requests in flight at one time
    Weights,        \* aggregation weights an owner can set
    DefaultWeight,  \* CameraFace.default_weight of the faces modelled
    NoFace,         \* a camera that was never provisioned
    CodeLifetime,   \* pairing_token_ttl_minutes, in ticks
    OfflineAfter,   \* OFFLINE_AFTER_HOURS, in ticks
    AlertAfter,     \* ALL_OFFLINE_ALERT_HOURS, in ticks
    DedupeWindow,   \* DEDUPE_WINDOW_HOURS, in ticks
    MaxTime         \* bound of the clock

ASSUME FleetAssumption ==
    /\ {CodeLifetime, OfflineAfter, AlertAfter, DedupeWindow, MaxTime} \subseteq Nat
    /\ OfflineAfter <= AlertAfter
    /\ DefaultWeight \in Weights
    /\ NoFace \notin Faces

VARIABLES
    now,        \* the clock
    row,        \* row[f]: the devices row of face f, or NoRow
    code,       \* code[c]: the pairing_tokens row of code c
    nvs,        \* nvs[k]: the face whose identity and secret camera k keeps
    req,        \* req[r]: what request r read, while it is in flight
    sweep,      \* what devices.sweep_offline read, while it runs
    saidAt      \* when the last "system" remark of the project was written

fleetVars == <<now, row, code, nvs, req, sweep, saidAt>>

-----------------------------------------------------------------------------
Never == -1
Times == 0 .. MaxTime
Moments == Times \cup {Never}

Statuses == {"paired", "online", "offline", "revoked"}
Rows == [status : Statuses, revoked : BOOLEAN, secret : BOOLEAN,
         seenAt : Moments, weight : Weights]
NoRow == [status |-> "none"]

Tokens == [state : {"unissued"}]
          \cup [state : {"open", "used"}, face : Faces, expiresAt : Nat]

Idle == [op |-> "idle"]
Claims == [op : {"claim"}, camera : Cameras, code : Codes]
Events == [op : {"event"}, face : Faces]
Saves == [op : {"settings"}, face : Faces, loaded : Rows, weight : Weights]

NoSweep == [op |-> "idle"]
Sweeps == [op : {"sweep"}, at : Times, loaded : [Faces -> Rows \cup {NoRow}]]

FleetRequests == {Idle} \cup Claims \cup Events \cup Saves

FleetStateOK ==
    /\ now \in Times
    /\ row \in [Faces -> Rows \cup {NoRow}]
    /\ code \in [Codes -> Tokens]
    /\ nvs \in [Cameras -> Faces \cup {NoFace}]
    /\ sweep \in Sweeps \cup {NoSweep}
    /\ saidAt \in Moments

FleetTypeOK == FleetStateOK /\ req \in [Requests -> FleetRequests]

FleetInit ==
    /\ now = 0
    /\ row = [f \in Faces |-> NoRow]
    /\ code = [c \in Codes |-> [state |-> "unissued"]]
    /\ nvs = [k \in Cameras |-> NoFace]
    /\ req = [r \in Requests |-> Idle]
    /\ sweep = NoSweep
    /\ saidAt = Never

-----------------------------------------------------------------------------
(***************************************************************************)
(* Reading and writing device rows.                                         *)
(***************************************************************************)
Known(f) == row[f] # NoRow

\* Device.is_usable
IsUsable(device) == device.status # "revoked" /\ ~device.revoked

\* SqlAlchemyDeviceRepository.face_taken: revoked rows do not count.
FaceTaken(f) == Known(f) /\ row[f].status # "revoked"

\* Mutant: the secret is one more column that a save assigns.
SavedOver_WithSecret(current, seen, wanted) ==
    [column \in DOMAIN current |->
        IF wanted[column] # seen[column] THEN wanted[column] ELSE current[column]]

\* SqlAlchemyDeviceRepository.update: every attribute but the secret is
\* assigned from the entity, and the session writes the columns that differ
\* from `seen`, the row it has just read again (nothing kept the first one
\* alive in its identity map).
SavedOver(current, seen, wanted) ==
    [column \in DOMAIN current |->
        IF column # "secret" /\ wanted[column] # seen[column]
        THEN wanted[column] ELSE current[column]]

\* That second read comes before or after what others commit meanwhile.
Rereads(loaded, current) == {loaded, current}

\* SqlAlchemyDeviceRepository.record_heartbeat: a targeted UPDATE by id.
HeardFrom(device) == [device EXCEPT !.seenAt = now, !.status = "online"]

\* SqlAlchemyDeviceRepository.revoke
Revoked(device) ==
    [device EXCEPT !.status = "revoked", !.revoked = TRUE, !.secret = FALSE]

\* DeviceIdentity: the face a camera's requests are signed as.
signed_headers(k) == nvs[k]

\* get_current_device: the row is usable and still has a secret.  A camera
\* keeps the secret of its face, so the signature of a known face verifies.
Authentic(k) ==
    /\ signed_headers(k) # NoFace
    /\ IsUsable(row[signed_headers(k)])
    /\ row[signed_headers(k)].secret

Answer(r) == req' = [req EXCEPT ![r] = Idle]

-----------------------------------------------------------------------------
(***************************************************************************)
(* Pairing.                                                                 *)
(***************************************************************************)
\* IssuePairingToken.execute, behind POST .../pairing-tokens.
IssuePairingToken(c, f, replaceExisting) ==
    /\ code[c].state = "unissued"
    /\ replaceExisting \/ ~FaceTaken(f)
    /\ code' = [code EXCEPT ![c] =
                    [state |-> "open", face |-> f, expiresAt |-> now + CodeLifetime]]
    /\ UNCHANGED <<now, row, nvs, req, sweep, saidAt>>

\* ClaimPairingToken.execute up to the INSERT: the code is read and checked.
ClaimRead(r, k, c) ==
    /\ req[r] = Idle
    /\ code[c].state = "open"
    /\ code[c].expiresAt > now
    /\ req' = [req EXCEPT ![r] = [op |-> "claim", camera |-> k, code |-> c]]
    /\ UNCHANGED <<now, row, code, nvs, sweep, saidAt>>

\* Mutant: no unique constraint behind the INSERT.
FaceIsFree_Unconstrained(f) == TRUE

\* The INSERT of the new row: uq_devices_project_face and the unique
\* device_name let one row of a face exist, whatever its status.
FaceIsFree(f) == ~Known(f)

\* What camera k keeps once its claim of face f was or was not answered.
claim_code(k, f, answered) == IF answered THEN [nvs EXCEPT ![k] = f] ELSE nvs

\* The row is inserted, the code is marked used without a condition, and the
\* secret goes out in the one answer that ever holds it.
ClaimCommit(r, answered) ==
    /\ req[r].op = "claim"
    /\ LET c == req[r].code
           f == code[c].face
       IN  /\ FaceIsFree(f)
           /\ row' = [row EXCEPT ![f] =
                        [status |-> "paired", revoked |-> FALSE, secret |-> TRUE,
                         seenAt |-> Never, weight |-> DefaultWeight]]
           /\ code' = [code EXCEPT ![c].state = "used"]
           /\ nvs' = claim_code(req[r].camera, f, answered)
    /\ Answer(r)
    /\ UNCHANGED <<now, sweep, saidAt>>

\* The INSERT violates a unique constraint: the transaction rolls back.
ClaimConflict(r) ==
    /\ req[r].op = "claim"
    /\ ~FaceIsFree(code[req[r].code].face)
    /\ Answer(r)
    /\ UNCHANGED <<now, row, code, nvs, sweep, saidAt>>

-----------------------------------------------------------------------------
(***************************************************************************)
(* What a paired camera and its owner do.                                   *)
(***************************************************************************)
\* POST /ingest/events: the signature is verified against the row ...
EventAuth(r, k) ==
    /\ req[r] = Idle
    /\ Authentic(k)
    /\ req' = [req EXCEPT ![r] = [op |-> "event", face |-> signed_headers(k)]]
    /\ UNCHANGED <<now, row, code, nvs, sweep, saidAt>>

\* ... and RecordDeviceEvent.execute writes by id what the row may no longer be.
EventCommit(r) ==
    /\ req[r].op = "event"
    /\ row' = [row EXCEPT ![req[r].face] = HeardFrom(@)]
    /\ Answer(r)
    /\ UNCHANGED <<now, code, nvs, sweep, saidAt>>

\* PATCH .../devices/{id}: UpdateDeviceSettings.execute loads the entity ...
SettingsRead(r, f, w) ==
    /\ req[r] = Idle
    /\ Known(f)
    /\ req' = [req EXCEPT ![r] =
                 [op |-> "settings", face |-> f, loaded |-> row[f], weight |-> w]]
    /\ UNCHANGED <<now, row, code, nvs, sweep, saidAt>>

\* ... and saves all of it.
SettingsSave(r) ==
    /\ req[r].op = "settings"
    /\ LET f == req[r].face
           wanted == [req[r].loaded EXCEPT !.weight = req[r].weight]
       IN  \E seen \in Rereads(req[r].loaded, row[f]) :
              row' = [row EXCEPT ![f] = SavedOver(@, seen, wanted)]
    /\ Answer(r)
    /\ UNCHANGED <<now, code, nvs, sweep, saidAt>>

\* UnpairDevice.execute, behind POST .../unpair.
UnpairDevice(f) ==
    /\ Known(f)
    /\ row' = [row EXCEPT ![f] = Revoked(@)]
    /\ UNCHANGED <<now, code, nvs, req, sweep, saidAt>>

-----------------------------------------------------------------------------
(***************************************************************************)
(* devices.sweep_offline, every 30 minutes.                                 *)
(***************************************************************************)
SilentFor(device, window, at) == device.seenAt # Never /\ device.seenAt < at - window

\* Mutant: the comparison with the cutoff is the wrong way round.
IsStale_SeenSince(device, at) ==
    /\ device.status \in {"online", "paired", "offline"}
    /\ device.seenAt # Never /\ device.seenAt >= at - OfflineAfter

\* SqlAlchemyDeviceRepository.list_stale
IsStale(device, at) ==
    /\ device.status \in {"online", "paired", "offline"}
    /\ SilentFor(device, OfflineAfter, at)

SweepRead ==
    /\ sweep = NoSweep
    /\ sweep' = [op |-> "sweep", at |-> now,
                 loaded |-> [f \in Faces |->
                    IF Known(f) /\ IsStale(row[f], now) THEN row[f] ELSE NoRow]]
    /\ UNCHANGED <<now, row, code, nvs, req, saidAt>>

\* The rows the sweep saves; one already offline is skipped.
Marked == {f \in Faces : sweep.loaded[f] # NoRow /\ sweep.loaded[f].status # "offline"}

\* One UPDATE after the other; those of `late` are re-read after others wrote.
AfterMarking(late) ==
    [f \in Faces |->
        IF f \in Marked
        THEN SavedOver(row[f], IF f \in late THEN row[f] ELSE sweep.loaded[f],
                       [sweep.loaded[f] EXCEPT !.status = "offline"])
        ELSE row[f]]

\* list_for_project reads the rows again, less the revoked ones.
Counted(rows) == {f \in Faces : rows[f] # NoRow /\ rows[f].status # "revoked"}

\* Every camera was heard from once, and none since the alert cutoff.
SiteIsDark(rows, at) ==
    /\ Counted(rows) # {}
    /\ \A f \in Counted(rows) : SilentFor(rows[f], AlertAfter, at)

\* SqlAlchemyRemarkRepository.recent_of_type
SaidRecently(at) == saidAt # Never /\ saidAt >= at - DedupeWindow

\* Mutant: a camera already marked offline no longer counts for the alert.
SweepCommit_OfflineUncounted ==
    /\ sweep # NoSweep
    /\ \E late \in SUBSET Faces : row' = AfterMarking(late)
    /\ LET rest == [f \in Faces |->
                      IF row'[f].status = "offline" THEN NoRow ELSE row'[f]]
       IN  saidAt' = IF SiteIsDark(rest, sweep.at) /\ ~SaidRecently(sweep.at)
                     THEN now ELSE saidAt
    /\ sweep' = NoSweep
    /\ UNCHANGED <<now, code, nvs, req>>

\* The saves, the reading of the rows of the site, the look for a remark and
\* the commit are statements of one transaction.  As one step they lose no
\* outcome: a marked row is locked until the commit, what others write to the
\* other rows between two of the statements they might as well have written
\* before the saves, and a remark before the rows were read.
SweepCommit ==
    /\ sweep # NoSweep
    /\ \E late \in SUBSET Faces : row' = AfterMarking(late)
    /\ saidAt' = IF SiteIsDark(row', sweep.at) /\ ~SaidRecently(sweep.at)
                 THEN now ELSE saidAt
    /\ sweep' = NoSweep
    /\ UNCHANGED <<now, code, nvs, req>>

\* remarks.emit_system writes a remark of the same type when captures keep
\* being refused; each of the two silences the other for DedupeWindow.
RejectionRemark ==
    /\ ~SaidRecently(now)
    /\ saidAt' = now
    /\ UNCHANGED <<now, row, code, nvs, req, sweep>>

\* A recompute that saw a regression or reached the ceiling, and a member whose
\* note has that type, write without a look at the others.
SystemRemark ==
    /\ saidAt' = now
    /\ UNCHANGED <<now, row, code, nvs, req, sweep>>

-----------------------------------------------------------------------------
\* Requests and the sweep last seconds, a tick hours: a tick finds them done
\* or moves on with them in flight.
Tick ==
    /\ now < MaxTime
    /\ now' = now + 1
    /\ UNCHANGED <<row, code, nvs, req, sweep, saidAt>>

FleetStep(r) ==
    \/ \E answered \in BOOLEAN : ClaimCommit(r, answered)
    \/ ClaimConflict(r)
    \/ EventCommit(r)
    \/ SettingsSave(r)

FleetNext ==
    \/ \E c \in Codes, f \in Faces, replaceExisting \in BOOLEAN :
            IssuePairingToken(c, f, replaceExisting)
    \/ \E r \in Requests :
        \/ \E k \in Cameras, c \in Codes : ClaimRead(r, k, c)
        \/ \E k \in Cameras : EventAuth(r, k)
        \/ \E f \in Faces, w \in Weights : SettingsRead(r, f, w)
        \/ FleetStep(r)
    \/ \E f \in Faces : UnpairDevice(f)
    \/ SweepRead
    \/ SweepCommit
    \/ RejectionRemark
    \/ SystemRemark
    \/ Tick

FleetSpec == FleetInit /\ [][FleetNext]_fleetVars

(***************************************************************************)
(* A request that was let in runs to its end, and celery beat keeps         *)
(* starting a sweep that runs to its end.  Owners, cameras and the clock     *)
(* owe nothing.                                                             *)
(***************************************************************************)
FleetFairSpec ==
    /\ FleetSpec
    /\ \A r \in Requests : WF_fleetVars(FleetStep(r))
    /\ WF_fleetVars(SweepRead)
    /\ WF_fleetVars(SweepCommit)

-----------------------------------------------------------------------------
(***************************************************************************)
(* What the fleet promises.                                                 *)
(***************************************************************************)
\* A code is claimed by a click and a scan at once, and answers get lost, yet
\* two cameras never hold the identity of one face (devices.py:225-255).
OneCameraPerFace ==
    \A k, l \in Cameras : nvs[k] # NoFace /\ nvs[k] = nvs[l] => k = l

\* An unpaired camera is cut off for good: neither a save of a row read before
\* the unpairing, nor a late heartbeat, nor a sweep lets it be heard again
\* (device.py:130-187, deps.py:412-416), whatever they do to its status, unless
\* it is paired anew and gets another identity.
StaysCutOff ==
    \A k \in Cameras :
        nvs[k] # NoFace /\ ~row[nvs[k]].secret /\ nvs'[k] = nvs[k] => ~Authentic(k)'

UnpairedIsCutOff == [][StaysCutOff]_fleetVars

\* An unpaired camera stays unpaired on its record.  A save of a row that was
\* read before the unpairing takes the revocation back, so this is what the
\* code does not do.
UnpairSticks ==
    [][\A f \in Faces : Known(f) /\ row[f].revoked
            => row'[f].revoked /\ row'[f].status = "revoked"]_fleetVars

\* Unpairing frees the slot for a replacement camera (device.py:62): a claim is
\* refused only for a face that face_taken reports.  The constraint behind the
\* INSERT counts revoked rows, so this is what the code does not do.
UnpairingFreesTheFace ==
    [][\A r \in Requests :
         ClaimConflict(r) => FaceTaken(code[req[r].code].face)]_fleetVars

\* Silence is noticed (maintenance.py:228-273): a camera that fell silent is
\* marked offline, unless it is heard from or unpaired first; and the owner of
\* a site whose cameras have all gone quiet is told, unless a camera reports
\* first or a system remark was written lately.  A row unpaired under the
\* sweep's feet does not keep the alert from being raised.
SilenceIsNoticed ==
    /\ \A f \in Faces :
        LET silent == Known(f) /\ SilentFor(row[f], OfflineAfter, now)
        IN  silent ~> (~silent \/ row[f].status \in {"offline", "revoked"})
    /\ SiteIsDark(row, now) ~> (~SiteIsDark(row, now) \/ SaidRecently(now))

=============================================================================
