-------------------------- MODULE DeviceFleetProofs --------------------------
(***************************************************************************)
(* For every number of faces, cameras, codes and requests and every bound  *)
(* of the clock: the inductive invariant FleetIInv of DeviceFleet and what *)
(* it implies.                                                             *)
(*                                                                         *)
(* No step removes a row, and once a row is there no step gives it a       *)
(* secret it has lost (KnownStays, SecretsOnlyGo).  So a claim, which      *)
(* inserts, takes a face no camera has; and a camera whose row has lost    *)
(* its secret can come back only as the camera of another face.            *)
(*                                                                         *)
(* The same holds with the uploads of CaptureIngest among the requests;    *)
(* and whatever uploads raced, died or were repeated, in whatever zones    *)
(* they were stamped, every row names bytes that are there, its own among  *)
(* captures stamped in UTC (FiledUnderItsOwnName), and the rows are a      *)
(* PhotoArchive: each content is filed once, under a number that follows   *)
(* one of the day it asked about.                                          *)
(***************************************************************************)
EXTENDS CaptureIngest, FiniteSetTheorems, WellFoundedInduction, TLAPS

USE FleetAssumption, IngestAssumption

-----------------------------------------------------------------------------
(* The invariant *)

\* The requests of the fleet, with uploads among them or not.
FleetTyped == FleetStateOK /\ req \in [Requests -> FleetRequests \cup Uploads]

\* What a request in flight was let in for is still there.
InFlight ==
    \A r \in Requests :
        /\ req[r].op = "claim" => code[req[r].code].state # "unissued"
        /\ req[r].op \in {"event", "settings", "upload"} => Known(req[r].face)

\* The sweep holds rows that are still there.
SweepKnown ==
    sweep # NoSweep => \A f \in Faces : sweep.loaded[f] # NoRow => Known(f)

\* A camera has an identity only of a row.
Provisioned == \A k \in Cameras : nvs[k] # NoFace => Known(nvs[k])

FleetIInv ==
    FleetTyped /\ InFlight /\ SweepKnown /\ Provisioned /\ OneCameraPerFace

-----------------------------------------------------------------------------
(* Rows *)

LEMMA NoRowIsNone == NoRow \notin Rows /\ NoRow.status = "none"
  BY DEF NoRow, Rows, Statuses

LEMMA KnownTyped ==
  ASSUME FleetTyped, NEW f \in Faces, Known(f)
  PROVE  row[f] \in Rows
  BY DEF FleetTyped, FleetStateOK, Known

LEMMA SavedOverTyped ==
  ASSUME NEW current \in Rows, NEW seen \in Rows, NEW wanted \in Rows
  PROVE  /\ SavedOver(current, seen, wanted) \in Rows
         /\ SavedOver(current, seen, wanted).secret = current.secret
  BY DEF SavedOver, Rows

LEMMA RequestShapes ==
  ASSUME FleetTyped, NEW r \in Requests
  PROVE  /\ req[r].op = "claim" => req[r] \in Claims
         /\ req[r].op = "event" => req[r] \in Events
         /\ req[r].op = "settings" => req[r] \in Saves
         /\ req[r].op = "upload" => req[r] \in Uploads
  BY DEF FleetTyped, FleetRequests, Claims, Events, Saves, Uploads, UploadsAt, Idle

LEMMA TokenShape ==
  ASSUME FleetTyped, NEW c \in Codes, code[c].state # "unissued"
  PROVE  /\ code[c] \in [state : {"open", "used"}, face : Faces, expiresAt : Nat]
         /\ code[c].face \in Faces
  BY DEF FleetTyped, FleetStateOK, Tokens

LEMMA SweepShape ==
  ASSUME FleetTyped, sweep # NoSweep
  PROVE  /\ sweep \in Sweeps
         /\ sweep.at \in Times
         /\ sweep.loaded \in [Faces -> Rows \cup {NoRow}]
  BY DEF FleetTyped, FleetStateOK, Sweeps

-----------------------------------------------------------------------------
(* What a step does to the rows *)

\* A row stays a row, and gets no secret.
Kept(f) == row'[f] \in Rows /\ (row'[f].secret => row[f].secret)

RowsKept ==
    /\ row' \in [Faces -> Rows \cup {NoRow}]
    /\ \A f \in Faces : Known(f) => Kept(f)

LEMMA UntouchedRows ==
  ASSUME FleetTyped, UNCHANGED row
  PROVE  RowsKept
  BY KnownTyped DEF RowsKept, Kept, FleetTyped, FleetStateOK

LEMMA ClaimKeepsRows ==
  ASSUME FleetIInv, NEW r \in Requests, NEW answered \in BOOLEAN,
         ClaimCommit(r, answered)
  PROVE  RowsKept
  <1> DEFINE f == code[req[r].code].face
             new == [status |-> "paired", revoked |-> FALSE, secret |-> TRUE,
                     seenAt |-> Never, weight |-> DefaultWeight]
  <1> FleetTyped
    BY DEF FleetIInv
  <1>1. ~Known(f) /\ row' = [row EXCEPT ![f] = new]
    BY DEF ClaimCommit, FaceIsFree
  <1>2. new \in Rows
    BY DEF Rows, Statuses, Moments
  <1>3. row' \in [Faces -> Rows \cup {NoRow}]
    BY <1>1, <1>2 DEF FleetTyped, FleetStateOK
  <1>4. ASSUME NEW g \in Faces, Known(g) PROVE Kept(g)
    <2>1. g # f
      BY <1>1, <1>4
    <2>2. row'[g] = row[g]
      BY <1>1, <2>1 DEF FleetTyped, FleetStateOK
    <2> QED
      BY <1>4, <2>2, KnownTyped DEF Kept
  <1> QED
    BY <1>3, <1>4 DEF RowsKept

LEMMA OneRowKept ==
  ASSUME FleetTyped, NEW f \in Faces, NEW new \in Rows,
         new.secret => row[f].secret, row' = [row EXCEPT ![f] = new]
  PROVE  RowsKept
  <1>1. row' \in [Faces -> Rows \cup {NoRow}]
    BY DEF FleetTyped, FleetStateOK
  <1>2. ASSUME NEW g \in Faces, Known(g) PROVE Kept(g)
    <2>1. CASE g = f
      BY <2>1 DEF Kept, FleetTyped, FleetStateOK
    <2>2. CASE g # f
      BY <1>2, <2>2, KnownTyped DEF Kept, FleetTyped, FleetStateOK
    <2> QED BY <2>1, <2>2
  <1> QED BY <1>1, <1>2 DEF RowsKept

LEMMA EventKeepsRows ==
  ASSUME FleetIInv, NEW r \in Requests, EventCommit(r)
  PROVE  RowsKept
  <1> FleetTyped
    BY DEF FleetIInv
  <1> DEFINE f == req[r].face
  <1>1. f \in Faces /\ Known(f)
    BY RequestShapes DEF EventCommit, FleetIInv, InFlight, Events
  <1>2. row[f] \in Rows
    BY <1>1, KnownTyped
  <1>3. HeardFrom(row[f]) \in Rows /\ HeardFrom(row[f]).secret = row[f].secret
    BY <1>2 DEF HeardFrom, Rows, Statuses, Moments, FleetTyped, FleetStateOK
  <1>4. row' = [row EXCEPT ![f] = HeardFrom(row[f])]
    BY DEF EventCommit
  <1> QED
    BY <1>1, <1>3, <1>4, OneRowKept

LEMMA SaveKeepsRows ==
  ASSUME FleetIInv, NEW r \in Requests, SettingsSave(r)
  PROVE  RowsKept
  <1> FleetTyped
    BY DEF FleetIInv
  <1> DEFINE f == req[r].face
             wanted == [req[r].loaded EXCEPT !.weight = req[r].weight]
  <1>1. f \in Faces /\ Known(f) /\ req[r].loaded \in Rows /\ req[r].weight \in Weights
    BY RequestShapes DEF SettingsSave, FleetIInv, InFlight, Saves
  <1>2. row[f] \in Rows
    BY <1>1, KnownTyped
  <1>3. wanted \in Rows
    BY <1>1 DEF Rows
  <1>4. PICK seen \in Rereads(req[r].loaded, row[f]) :
               row' = [row EXCEPT ![f] = SavedOver(row[f], seen, wanted)]
    BY DEF SettingsSave
  <1>5. seen \in Rows
    BY <1>1, <1>2, <1>4 DEF Rereads
  <1> HIDE DEF wanted
  <1> DEFINE new == SavedOver(row[f], seen, wanted)
  <1>6. new \in Rows /\ new.secret = row[f].secret
    BY <1>2, <1>3, <1>5, SavedOverTyped
  <1>7. row' = [row EXCEPT ![f] = new]
    BY <1>4
  <1> HIDE DEF new
  <1> QED
    BY <1>1, <1>6, <1>7, OneRowKept

LEMMA UnpairKeepsRows ==
  ASSUME FleetIInv, NEW f \in Faces, UnpairDevice(f)
  PROVE  RowsKept
  <1> FleetTyped
    BY DEF FleetIInv
  <1>1. row[f] \in Rows
    BY KnownTyped DEF UnpairDevice
  <1>2. Revoked(row[f]) \in Rows /\ Revoked(row[f]).secret = FALSE
    BY <1>1 DEF Revoked, Rows, Statuses
  <1>3. row' = [row EXCEPT ![f] = Revoked(row[f])]
    BY DEF UnpairDevice
  <1> QED
    BY <1>2, <1>3, OneRowKept

LEMMA SweepKeepsRows ==
  ASSUME FleetIInv, SweepCommit
  PROVE  RowsKept
  <1> FleetTyped
    BY DEF FleetIInv
  <1>1. PICK late \in SUBSET Faces : row' = AfterMarking(late)
    BY DEF SweepCommit
  <1>2. sweep # NoSweep
    BY DEF SweepCommit
  <1>3. ASSUME NEW f \in Faces, f \in Marked
        PROVE  row'[f] \in Rows /\ row'[f].secret = row[f].secret
    <2> DEFINE wanted == [sweep.loaded[f] EXCEPT !.status = "offline"]
               seen == IF f \in late THEN row[f] ELSE sweep.loaded[f]
    <2>1. sweep.loaded[f] \in Rows
      BY <1>2, <1>3, SweepShape DEF Marked
    <2>2. row[f] \in Rows
      BY <1>2, <1>3, KnownTyped DEF Marked, FleetIInv, SweepKnown
    <2>3. wanted \in Rows /\ seen \in Rows
      BY <2>1, <2>2 DEF Rows, Statuses
    <2>4. row'[f] = SavedOver(row[f], seen, wanted)
      BY <1>1, <1>3 DEF AfterMarking
    <2> HIDE DEF wanted, seen
    <2> QED
      BY <2>2, <2>3, <2>4, SavedOverTyped
  <1>4. ASSUME NEW f \in Faces, f \notin Marked
        PROVE  row'[f] = row[f]
    BY <1>1, <1>4 DEF AfterMarking
  <1>5. row' \in [Faces -> Rows \cup {NoRow}]
    <2>1. row' = [f \in Faces |-> row'[f]]
      BY <1>1 DEF AfterMarking
    <2>2. \A f \in Faces : row'[f] \in Rows \cup {NoRow}
      BY <1>3, <1>4 DEF FleetTyped, FleetStateOK
    <2> QED BY <2>1, <2>2
  <1>6. ASSUME NEW f \in Faces, Known(f) PROVE Kept(f)
    BY <1>3, <1>4, <1>6, KnownTyped DEF Kept
  <1> QED BY <1>5, <1>6 DEF RowsKept

LEMMA StepKeepsRows ==
  ASSUME FleetIInv, [FleetNext]_fleetVars
  PROVE  RowsKept
  <1> FleetTyped
    BY DEF FleetIInv
  <1>1. CASE UNCHANGED row
    BY <1>1, UntouchedRows
  <1>2. CASE row' # row
    <2>1. \/ \E r \in Requests, answered \in BOOLEAN : ClaimCommit(r, answered)
          \/ \E r \in Requests : EventCommit(r)
          \/ \E r \in Requests : SettingsSave(r)
          \/ \E f \in Faces : UnpairDevice(f)
          \/ SweepCommit
      BY <1>2 DEF FleetNext, FleetStep, IssuePairingToken, ClaimRead, ClaimConflict,
                  EventAuth, SettingsRead, SweepRead, RejectionRemark, SystemRemark,
                  Tick, fleetVars
    <2> QED
      BY <2>1, ClaimKeepsRows, EventKeepsRows, SaveKeepsRows, UnpairKeepsRows,
         SweepKeepsRows
  <1> QED BY <1>1, <1>2

LEMMA KnownStays ==
  ASSUME RowsKept, NEW f \in Faces, Known(f)
  PROVE  row'[f] # NoRow
  BY NoRowIsNone DEF RowsKept, Kept, Known

-----------------------------------------------------------------------------
(* FleetIInv is inductive *)

LEMMA FleetInitIInv == FleetInit => FleetIInv
  BY DEF FleetInit, FleetIInv, FleetTyped, FleetStateOK, InFlight, SweepKnown,
         Provisioned, OneCameraPerFace, Times, Moments, Tokens, FleetTyped,
         FleetRequests, Idle

\* All of the types but the rows, which RowsKept types.
LEMMA TypeStep ==
  ASSUME FleetIInv, [FleetNext]_fleetVars, RowsKept
  PROVE  FleetTyped'
  <1> FleetTyped
    BY DEF FleetIInv
  <1> USE DEF FleetTyped, FleetStateOK
  <1>1. now' \in Times
    <2>1. ASSUME Tick PROVE now' \in Times
      BY <2>1 DEF Tick, Times
    <2>2. CASE UNCHANGED now
      BY <2>2
    <2> QED
    BY <2>1, <2>2 DEF FleetNext, FleetStep, IssuePairingToken, ClaimRead, ClaimCommit,
           ClaimConflict, EventAuth, EventCommit, SettingsRead, SettingsSave,
           UnpairDevice, SweepRead, SweepCommit, RejectionRemark, SystemRemark,
           fleetVars
  <1>2. row' \in [Faces -> Rows \cup {NoRow}]
    BY DEF RowsKept
  <1>3. code' \in [Codes -> Tokens]
    <2>1. ASSUME NEW c \in Codes, NEW f \in Faces, NEW b \in BOOLEAN,
                 IssuePairingToken(c, f, b)
          PROVE  code' \in [Codes -> Tokens]
      <3>1. now + CodeLifetime \in Nat
        BY DEF Times
      <3> QED
        BY <2>1, <3>1 DEF IssuePairingToken, Tokens
    <2>2. ASSUME NEW r \in Requests, NEW b \in BOOLEAN, ClaimCommit(r, b)
          PROVE  code' \in [Codes -> Tokens]
      <3> DEFINE c == req[r].code
      <3>1. c \in Codes /\ code[c].state # "unissued"
        BY <2>2, RequestShapes DEF ClaimCommit, FleetIInv, InFlight, Claims
      <3>2. [code[c] EXCEPT !.state = "used"] \in Tokens
        BY <3>1, TokenShape DEF Tokens
      <3>3. code' = [code EXCEPT ![c] = [code[c] EXCEPT !.state = "used"]]
        BY <2>2 DEF ClaimCommit
      <3> QED
        BY <3>1, <3>2, <3>3
    <2>3. CASE UNCHANGED code
      BY <2>3
    <2>4. \/ \E c \in Codes, f \in Faces, b \in BOOLEAN : IssuePairingToken(c, f, b)
          \/ \E r \in Requests, b \in BOOLEAN : ClaimCommit(r, b)
          \/ UNCHANGED code
      BY DEF FleetNext, FleetStep, ClaimRead, ClaimConflict, EventAuth, EventCommit,
             SettingsRead, SettingsSave, UnpairDevice, SweepRead, SweepCommit,
             RejectionRemark, SystemRemark, Tick, fleetVars
    <2> QED BY <2>1, <2>2, <2>3, <2>4
  <1>4. nvs' \in [Cameras -> Faces \cup {NoFace}]
    <2>1. ASSUME NEW r \in Requests, NEW b \in BOOLEAN, ClaimCommit(r, b)
          PROVE  nvs' \in [Cameras -> Faces \cup {NoFace}]
      <3>1. req[r].camera \in Cameras /\ code[req[r].code].face \in Faces
        BY <2>1, RequestShapes, TokenShape
        DEF ClaimCommit, FleetIInv, InFlight, Claims
      <3> QED
        BY <2>1, <3>1 DEF ClaimCommit, claim_code
    <2>2. CASE UNCHANGED nvs
      BY <2>2
    <2> QED
      BY <2>1, <2>2
      DEF FleetNext, FleetStep, IssuePairingToken, ClaimRead, ClaimConflict,
          EventAuth, EventCommit, SettingsRead, SettingsSave, UnpairDevice,
          SweepRead, SweepCommit, RejectionRemark, SystemRemark, Tick, fleetVars
  <1>5. req' \in [Requests -> FleetRequests \cup Uploads]
    <2>1. ASSUME NEW r \in Requests, NEW k \in Cameras, NEW c \in Codes,
                 ClaimRead(r, k, c)
          PROVE  req' \in [Requests -> FleetRequests \cup Uploads]
      BY <2>1 DEF ClaimRead, FleetRequests, Claims
    <2>2. ASSUME NEW r \in Requests, NEW k \in Cameras, EventAuth(r, k)
          PROVE  req' \in [Requests -> FleetRequests \cup Uploads]
      <3>1. signed_headers(k) \in Faces
        BY <2>2 DEF EventAuth, Authentic, signed_headers
      <3> QED
        BY <2>2, <3>1 DEF EventAuth, FleetRequests, Events
    <2>3. ASSUME NEW r \in Requests, NEW f \in Faces, NEW w \in Weights,
                 SettingsRead(r, f, w)
          PROVE  req' \in [Requests -> FleetRequests \cup Uploads]
      <3>1. row[f] \in Rows
        BY <2>3, KnownTyped DEF SettingsRead
      <3> QED
        BY <2>3, <3>1 DEF SettingsRead, FleetRequests, Saves
    <2>4. ASSUME NEW r \in Requests, Answer(r)
          PROVE  req' \in [Requests -> FleetRequests \cup Uploads]
      BY <2>4 DEF Answer, FleetRequests
    <2>5. CASE UNCHANGED req
      BY <2>5
    <2> QED
      BY <2>1, <2>2, <2>3, <2>4, <2>5
      DEF FleetNext, FleetStep, IssuePairingToken, ClaimCommit, ClaimConflict,
          EventCommit, SettingsSave, UnpairDevice, SweepRead, SweepCommit,
          RejectionRemark, SystemRemark, Tick, fleetVars
  <1>6. sweep' \in Sweeps \cup {NoSweep}
    <2>1. ASSUME SweepRead PROVE sweep' \in Sweeps \cup {NoSweep}
      BY <2>1, KnownTyped DEF SweepRead, Sweeps
    <2>2. CASE sweep' = NoSweep \/ UNCHANGED sweep
      BY <2>2
    <2> QED
      BY <2>1, <2>2
      DEF FleetNext, FleetStep, IssuePairingToken, ClaimRead, ClaimCommit,
          ClaimConflict, EventAuth, EventCommit, SettingsRead, SettingsSave,
          UnpairDevice, SweepCommit, RejectionRemark, SystemRemark, Tick, fleetVars
  <1>7. saidAt' \in Moments
    BY DEF FleetNext, FleetStep, IssuePairingToken, ClaimRead, ClaimCommit,
           ClaimConflict, EventAuth, EventCommit, SettingsRead, SettingsSave,
           UnpairDevice, SweepRead, SweepCommit, RejectionRemark, SystemRemark,
           Tick, fleetVars, Moments
  <1> QED
    BY <1>1, <1>2, <1>3, <1>4, <1>5, <1>6, <1>7

\* A code that was issued stays issued.
LEMMA IssuedStays ==
  ASSUME FleetIInv, [FleetNext]_fleetVars, NEW c \in Codes,
         code[c].state # "unissued"
  PROVE  code'[c].state # "unissued"
  <1> FleetTyped
    BY DEF FleetIInv
  <1>1. ASSUME NEW d \in Codes, NEW f \in Faces, NEW b \in BOOLEAN,
               IssuePairingToken(d, f, b)
        PROVE  code'[c].state # "unissued"
    BY <1>1 DEF IssuePairingToken, FleetTyped, FleetStateOK
  <1>2. ASSUME NEW r \in Requests, NEW b \in BOOLEAN, ClaimCommit(r, b)
        PROVE  code'[c].state # "unissued"
    <2>1. code' = [code EXCEPT ![req[r].code] = [code[req[r].code] EXCEPT !.state = "used"]]
      BY <1>2 DEF ClaimCommit
    <2> QED
      BY <2>1, TokenShape DEF FleetTyped, FleetStateOK
  <1>3. CASE UNCHANGED code
    BY <1>3
  <1> QED
    BY <1>1, <1>2, <1>3
    DEF FleetNext, FleetStep, ClaimRead, ClaimConflict, EventAuth, EventCommit,
        SettingsRead, SettingsSave, UnpairDevice, SweepRead, SweepCommit,
        RejectionRemark, SystemRemark, Tick, fleetVars

LEMMA InFlightStep ==
  ASSUME FleetIInv, [FleetNext]_fleetVars, RowsKept
  PROVE  InFlight'
  <1> FleetTyped
    BY DEF FleetIInv
  <1> SUFFICES ASSUME NEW q \in Requests
               PROVE  /\ req'[q].op = "claim" => code'[req'[q].code].state # "unissued"
                      /\ req'[q].op \in {"event", "settings", "upload"} => row'[req'[q].face] # NoRow
    BY DEF InFlight, Known
  <1>1. CASE req'[q] = req[q]
    <2>1. ASSUME req[q].op = "claim" PROVE code'[req[q].code].state # "unissued"
      BY <2>1, IssuedStays, RequestShapes DEF FleetIInv, InFlight, Claims
    <2>2. ASSUME req[q].op \in {"event", "settings", "upload"}
          PROVE  row'[req[q].face] # NoRow
      <3>1. req[q].face \in Faces /\ Known(req[q].face)
        BY <2>2, RequestShapes DEF FleetIInv, InFlight, Events, Saves, Uploads, UploadsAt
      <3> QED BY <3>1, KnownStays
    <2> QED BY <1>1, <2>1, <2>2 DEF Known
  <1>2. CASE req'[q] = Idle
    BY <1>2 DEF Idle
  <1>3. ASSUME NEW k \in Cameras, NEW c \in Codes, ClaimRead(q, k, c)
        PROVE  /\ req'[q].op = "claim" => code'[req'[q].code].state # "unissued"
               /\ req'[q].op \in {"event", "settings", "upload"} => row'[req'[q].face] # NoRow
    BY <1>3 DEF ClaimRead, FleetTyped
  <1>4. ASSUME NEW k \in Cameras, EventAuth(q, k)
        PROVE  /\ req'[q].op = "claim" => code'[req'[q].code].state # "unissued"
               /\ req'[q].op \in {"event", "settings", "upload"} => row'[req'[q].face] # NoRow
    <2>1. signed_headers(k) \in Faces /\ Known(signed_headers(k))
      BY <1>4 DEF EventAuth, Authentic, signed_headers, FleetIInv, Provisioned,
                  FleetTyped, FleetStateOK
    <2>2. req'[q] = [op |-> "event", face |-> signed_headers(k)]
      BY <1>4 DEF EventAuth, FleetTyped
    <2> QED BY <2>1, <2>2, KnownStays DEF Known
  <1>5. ASSUME NEW f \in Faces, NEW w \in Weights, SettingsRead(q, f, w)
        PROVE  /\ req'[q].op = "claim" => code'[req'[q].code].state # "unissued"
               /\ req'[q].op \in {"event", "settings", "upload"} => row'[req'[q].face] # NoRow
    <2>1. Known(f) /\ req'[q].op = "settings" /\ req'[q].face = f
      BY <1>5 DEF SettingsRead, FleetTyped
    <2> QED BY <2>1, KnownStays DEF Known
  <1>6. \/ req'[q] = req[q]
        \/ req'[q] = Idle
        \/ \E k \in Cameras, c \in Codes : ClaimRead(q, k, c)
        \/ \E k \in Cameras : EventAuth(q, k)
        \/ \E f \in Faces, w \in Weights : SettingsRead(q, f, w)
    <2>1. CASE UNCHANGED req
      BY <2>1
    <2>2. ASSUME NEW r \in Requests, r # q, \E new : req' = [req EXCEPT ![r] = new]
          PROVE  req'[q] = req[q]
      BY <2>2 DEF FleetTyped
    <2>3. ASSUME NEW r \in Requests, FleetStep(r)
          PROVE  req'[q] = req[q] \/ req'[q] = Idle
      BY <2>3 DEF FleetStep, ClaimCommit, ClaimConflict, EventCommit, SettingsSave,
                  Answer, FleetTyped
    <2>4. ASSUME NEW r \in Requests, NEW k \in Cameras, NEW c \in Codes,
                 ClaimRead(r, k, c), r # q
          PROVE  req'[q] = req[q]
      BY <2>4 DEF ClaimRead, FleetTyped
    <2>5. ASSUME NEW r \in Requests, NEW k \in Cameras, EventAuth(r, k), r # q
          PROVE  req'[q] = req[q]
      BY <2>5 DEF EventAuth, FleetTyped
    <2>6. ASSUME NEW r \in Requests, NEW f \in Faces, NEW w \in Weights,
                 SettingsRead(r, f, w), r # q
          PROVE  req'[q] = req[q]
      BY <2>6 DEF SettingsRead, FleetTyped
    <2> QED
      BY <2>1, <2>3, <2>4, <2>5, <2>6
      DEF FleetNext, IssuePairingToken, UnpairDevice, SweepRead, SweepCommit,
          RejectionRemark, SystemRemark, Tick, fleetVars
  <1> QED BY <1>1, <1>2, <1>3, <1>4, <1>5, <1>6

LEMMA SweepKnownStep ==
  ASSUME FleetIInv, [FleetNext]_fleetVars, RowsKept
  PROVE  SweepKnown'
  <1>1. CASE UNCHANGED sweep
    BY <1>1, KnownStays DEF FleetIInv, SweepKnown, Known
  <1>2. CASE sweep' = NoSweep
    BY <1>2 DEF SweepKnown
  <1>3. ASSUME SweepRead PROVE SweepKnown'
    <2>1. \A f \in Faces : sweep'.loaded[f] # NoRow => Known(f)
      BY <1>3 DEF SweepRead
    <2> QED BY <2>1, KnownStays DEF SweepKnown, Known
  <1> QED
    BY <1>1, <1>2, <1>3
    DEF FleetNext, FleetStep, IssuePairingToken, ClaimRead, ClaimCommit,
        ClaimConflict, EventAuth, EventCommit, SettingsRead, SettingsSave,
        UnpairDevice, SweepCommit, RejectionRemark, SystemRemark, Tick, fleetVars

LEMMA IdentityStep ==
  ASSUME FleetIInv, [FleetNext]_fleetVars, RowsKept
  PROVE  Provisioned' /\ OneCameraPerFace'
  <1> FleetTyped
    BY DEF FleetIInv
  <1>1. CASE UNCHANGED nvs
    <2>1. ASSUME NEW k \in Cameras, nvs[k] # NoFace PROVE row'[nvs[k]] # NoRow
      BY <2>1, KnownStays DEF FleetIInv, Provisioned, FleetTyped, FleetStateOK
    <2> QED BY <1>1, <2>1 DEF FleetIInv, Provisioned, OneCameraPerFace, Known
  <1>2. ASSUME NEW r \in Requests, NEW answered \in BOOLEAN, ClaimCommit(r, answered),
               ~UNCHANGED nvs
        PROVE  Provisioned' /\ OneCameraPerFace'
    <2> DEFINE f == code[req[r].code].face
               k == req[r].camera
    <2>1. k \in Cameras /\ f \in Faces
      BY <1>2, RequestShapes, TokenShape DEF ClaimCommit, FleetIInv, InFlight, Claims
    <2>2. nvs' = [nvs EXCEPT ![k] = f]
      BY <1>2 DEF ClaimCommit, claim_code
    <2>3. ~Known(f) /\ row'[f] # NoRow
      BY <1>2, <2>1 DEF ClaimCommit, FaceIsFree, Known, NoRow, FleetTyped, FleetStateOK
    <2>4. \A l \in Cameras : nvs[l] # f
      BY <2>1, <2>3 DEF FleetIInv, Provisioned
    <2>5. ASSUME NEW l \in Cameras, nvs'[l] # NoFace PROVE row'[nvs'[l]] # NoRow
      <3>1. CASE l = k
        <4>1. nvs'[l] = f
          BY <3>1, <2>1, <2>2 DEF FleetTyped, FleetStateOK
        <4> QED BY <4>1, <2>3 DEF Known
      <3>2. CASE l # k
        <4>1. nvs'[l] = nvs[l] /\ nvs[l] \in Faces /\ Known(nvs[l])
          BY <3>2, <2>2, <2>5 DEF FleetTyped, FleetStateOK, FleetIInv, Provisioned
        <4> QED BY <4>1, KnownStays DEF Known
      <3> QED BY <3>1, <3>2
    <2>6. OneCameraPerFace'
      BY <2>1, <2>2, <2>4 DEF FleetIInv, OneCameraPerFace, FleetTyped, FleetStateOK
    <2> QED BY <2>5, <2>6 DEF Provisioned, Known
  <1> QED
    BY <1>1, <1>2
    DEF FleetNext, FleetStep, IssuePairingToken, ClaimRead, ClaimConflict,
        EventAuth, EventCommit, SettingsRead, SettingsSave, UnpairDevice,
        SweepRead, SweepCommit, RejectionRemark, SystemRemark, Tick, fleetVars

LEMMA FleetStepIInv == FleetIInv /\ [FleetNext]_fleetVars => FleetIInv'
  <1> SUFFICES ASSUME FleetIInv, [FleetNext]_fleetVars PROVE FleetIInv'
    OBVIOUS
  <1>1. RowsKept
    BY StepKeepsRows
  <1> QED
    BY <1>1, TypeStep, InFlightStep, SweepKnownStep, IdentityStep DEF FleetIInv


\* A step of the fleet makes no upload and changes none.
LEMMA UploadsStay ==
  ASSUME FleetTyped, [FleetNext]_fleetVars, NEW q \in Requests
  PROVE  req'[q] = req[q] \/ req'[q].op # "upload"
  <1> USE DEF FleetTyped
  <1>1. ASSUME NEW r \in Requests, NEW new, req' = [req EXCEPT ![r] = new],
               new.op # "upload"
        PROVE  req'[q] = req[q] \/ req'[q].op # "upload"
    BY <1>1
  <1>2. \/ \E r \in Requests : Answer(r)
        \/ \E r \in Requests, k \in Cameras, c \in Codes : ClaimRead(r, k, c)
        \/ \E r \in Requests, k \in Cameras : EventAuth(r, k)
        \/ \E r \in Requests, f \in Faces, w \in Weights : SettingsRead(r, f, w)
        \/ UNCHANGED req
    BY DEF FleetNext, FleetStep, IssuePairingToken, ClaimCommit, ClaimConflict,
        EventCommit, SettingsSave, UnpairDevice, SweepRead, SweepCommit,
        RejectionRemark, SystemRemark, Tick, fleetVars
  <1> QED
    BY <1>1, <1>2 DEF Answer, Idle, ClaimRead, EventAuth, SettingsRead

\* Without uploads, the requests are those of the fleet alone.
LEMMA FleetAlone ==
  ASSUME FleetTypeOK, FleetTyped', [FleetNext]_fleetVars
  PROVE  FleetTypeOK'
  <1>1. FleetTyped
    BY DEF FleetTyped, FleetTypeOK
  <1>2. ASSUME NEW q \in Requests PROVE req'[q] \in FleetRequests
    <2>1. CASE req'[q] = req[q]
      BY <2>1 DEF FleetTypeOK
    <2>2. CASE req'[q].op # "upload"
      BY <2>2 DEF FleetTyped, Uploads, UploadsAt
    <2> QED BY <1>1, <2>1, <2>2, UploadsStay
  <1> QED BY <1>2 DEF FleetTyped, FleetTypeOK

-----------------------------------------------------------------------------
(* What follows *)

(* The inductive invariant: rows, codes, identities and what requests and    *)
(* the sweep hold are well formed, and what was let in for a row finds it.   *)
THEOREM FleetInvariant == FleetSpec => []FleetIInv
  BY FleetInitIInv, FleetStepIInv, PTL DEF FleetSpec

(* Type correctness of the fleet on its own.                                 *)
THEOREM FleetTypeCorrect == FleetSpec => []FleetTypeOK
  <1>1. FleetInit => FleetTypeOK
    BY DEF FleetInit, FleetTypeOK, FleetStateOK, Times, Moments, Tokens, FleetRequests
  <1>2. FleetIInv' => FleetTyped'
    BY DEF FleetIInv
  <1>3. FleetTypeOK /\ FleetIInv' /\ [FleetNext]_fleetVars => FleetTypeOK'
    BY <1>2, FleetAlone
  <1> QED BY <1>1, <1>3, FleetInvariant, PTL DEF FleetSpec

(* However many clicks and scans claim a code, and whichever answers are     *)
(* lost, two cameras never hold the identity of one face                     *)
(* (devices.py:225-255).                                                     *)
THEOREM CameraOfAFaceIsOne == FleetSpec => []OneCameraPerFace
  <1>1. FleetIInv => OneCameraPerFace
    BY DEF FleetIInv
  <1> QED BY <1>1, FleetInvariant, PTL

LEMMA CutOff ==
  ASSUME FleetIInv, RowsKept
  PROVE  StaysCutOff
  <1> SUFFICES ASSUME NEW k \in Cameras, nvs[k] # NoFace, ~row[nvs[k]].secret,
                      nvs'[k] = nvs[k]
               PROVE  ~Authentic(k)'
    BY DEF StaysCutOff
  <1>1. nvs[k] \in Faces /\ Known(nvs[k])
    BY DEF FleetIInv, Provisioned, FleetTyped, FleetStateOK
  <1>2. ~row'[nvs[k]].secret
    BY <1>1 DEF RowsKept, Kept
  <1> QED BY <1>2 DEF Authentic, signed_headers

LEMMA CutOffStep == FleetIInv /\ [FleetNext]_fleetVars => [StaysCutOff]_fleetVars
  BY CutOff, StepKeepsRows

(* A camera that was unpaired is not heard again as the camera of its face,  *)
(* whatever a stale save, a late heartbeat or a sweep then writes into its   *)
(* row (device.py:130-187, deps.py:412-416).                                 *)
THEOREM UnpairedStaysCutOff == FleetSpec => UnpairedIsCutOff
  BY FleetInvariant, CutOffStep, PTL DEF FleetSpec, UnpairedIsCutOff


-----------------------------------------------------------------------------
(* Uploads: the largest number of a day *)

LEMMA Smallest ==
  ASSUME NEW S \in SUBSET Nat, S # {}
  PROVE  \E x \in S : \A y \in S : x <= y
  <1> DEFINE R == OpToRel(<, Nat)
  <1>1. \A x, y \in Nat : <<y, x>> \in R <=> y < x
    BY DEF OpToRel
  <1>2. IsWellFoundedOn(R, Nat)
    BY NatLessThanWellFounded
  <1> HIDE DEF R
  <1>3. S \subseteq Nat
    OBVIOUS
  <1>4. \E x \in S : \A y \in S : ~(<<y, x>> \in R)
    BY <1>2, <1>3, WFMin, Zenon
  <1>5. PICK x \in S : \A y \in S : ~(<<y, x>> \in R)
    BY <1>4
  <1>6. ASSUME NEW y \in S PROVE x <= y
    <2>1. x \in Nat /\ y \in Nat /\ ~(y < x)
      BY <1>1, <1>3, <1>5
    <2> QED BY <2>1
  <1> QED BY <1>5, <1>6

LEMMA Largest ==
  ASSUME NEW n \in Nat, NEW S \in SUBSET (0 .. n), S # {}
  PROVE  \E x \in S : \A y \in S : y <= x
  <1> DEFINE below == {n - x : x \in S}
  <1>1. below \in SUBSET Nat /\ below # {}
    <2>1. \A x \in S : n - x \in Nat
      OBVIOUS
    <2> QED BY <2>1
  <1>2. PICK b \in below : \A c \in below : b <= c
    BY <1>1, Smallest
  <1>3. PICK x \in S : b = n - x
    BY <1>2
  <1>4. ASSUME NEW y \in S PROVE y <= x
    <2>1. b <= n - y
      BY <1>2
    <2> QED BY <1>3, <2>1
  <1> QED BY <1>4

LEMMA NextIsNew ==
  ASSUME TypeOK, NEW day
  PROVE  /\ NextSequence(day) \in 1 .. (MaxDailySequence + 1)
         /\ \A n \in Taken(day) : n < NextSequence(day)
         /\ NextSequence(day) - 1 \in Taken(day) \cup {0}
         /\ Taken(day) \subseteq 1 .. MaxDailySequence
  <1> DEFINE taken == Taken(day)
             Next1(n) == n - 1 \in taken \cup {0} /\ \A m \in taken : m < n
  <1>1. taken \subseteq 1 .. MaxDailySequence
    BY DEF Taken, TypeOK, Images, Stored
  <1>2. PICK x \in taken \cup {0} : \A y \in taken \cup {0} : y <= x
    <2>1. taken \cup {0} \in SUBSET (0 .. MaxDailySequence) /\ taken \cup {0} # {}
      BY <1>1
    <2> HIDE DEF taken
    <2> QED BY <2>1, Largest
  <1> HIDE DEF taken
  <1>3. x + 1 \in 1 .. (MaxDailySequence + 1) /\ Next1(x + 1)
    BY <1>1, <1>2
  <1>4. NextSequence(day) = CHOOSE n \in 1 .. (MaxDailySequence + 1) : Next1(n)
    BY DEF NextSequence, taken
  <1>5. NextSequence(day) \in 1 .. (MaxDailySequence + 1) /\ Next1(NextSequence(day))
    BY <1>3, <1>4
  <1> QED BY <1>1, <1>5 DEF taken

-----------------------------------------------------------------------------
(* Uploads: the invariant *)

\* The lock of its day is its own.
HoldersAlone ==
    \A r \in Requests : Holding(r) =>
        /\ req[r].stamp.zoneDay \in locks
        /\ \A q \in Requests :
              Holding(q) /\ req[q].stamp.zoneDay = req[r].stamp.zoneDay => q = r

\* A number that follows one of the day asked about, and is larger than those of
\* the captures that asked about their own.
Follows(stamp, seq) ==
    /\ seq - 1 \in Taken(stamp.zoneDay) \cup {0}
    /\ \A d \in Captures :
          /\ Stored(d) /\ InUtc(image[d].stamp)
          /\ image[d].stamp.utcDay = stamp.zoneDay
          => image[d].seq < seq

NumbersHeld ==
    \A r \in Requests : Holding(r) => Follows(req[r].stamp, req[r].seq)

\* There are bytes under a key, its own among those stamped in UTC.
Bytes(stamp, seq, face, content) ==
    \E b \in blob : /\ b.key = KeyOf(stamp, seq, face)
                    /\ InUtc(b.stamp) /\ InUtc(stamp) => b.content = content

BytesHeld ==
    \A r \in Requests :
        At(r, "stored") => Bytes(req[r].stamp, req[r].seq, req[r].face, req[r].content)

\* What is held and what is stored are in order.
NamesInOrder ==
    HoldersAlone /\ NumbersHeld /\ BytesHeld /\ FiledUnderItsOwnName /\ NumberedInTurn

IngestIInv == FleetIInv /\ TypeOK /\ NamesInOrder

LEMMA IngestInit == Init => IngestIInv
  <1> SUFFICES ASSUME Init PROVE IngestIInv
    OBVIOUS
  <1>1. FleetInit /\ FleetIInv
    BY FleetInitIInv DEF Init
  <1>2. TypeOK
    BY <1>1 DEF Init, TypeOK, FleetIInv, FleetTyped, Instants
  <1>3. \A r \in Requests : ~Holding(r) /\ ~At(r, "stored")
    BY <1>1 DEF FleetInit, Holding, At, Idle
  <1>4. \A c \in Captures : ~Stored(c)
    BY DEF Init, Stored
  <1> QED
    BY <1>1, <1>2, <1>3, <1>4
    DEF IngestIInv, NamesInOrder, HoldersAlone, NumbersHeld, BytesHeld,
        FiledUnderItsOwnName, NumberedInTurn

LEMMA UploadShape ==
  ASSUME FleetTyped, NEW r \in Requests, req[r].op = "upload"
  PROVE  /\ req[r] \in Uploads
         /\ req[r].camera \in Cameras /\ req[r].face \in Faces
         /\ req[r].content \in Captures /\ req[r].stamp \in Stamps
         /\ req[r].last \in Instants /\ req[r].seq \in 0 .. MaxDailySequence
         /\ Holding(r) => req[r].seq \in 1 .. MaxDailySequence
  <1>1. req[r] \in Uploads
    BY RequestShapes
  <1>2. CASE req[r] \in UploadsAt({"loaded", "checked"}, {0})
    BY <1>1, <1>2 DEF UploadsAt, Holding, At
  <1>3. CASE req[r] \in UploadsAt({"numbered", "stored"}, 1 .. MaxDailySequence)
    BY <1>1, <1>3 DEF UploadsAt
  <1> QED BY <1>1, <1>2, <1>3 DEF Uploads

LEMMA StampShape ==
  ASSUME NEW s \in Stamps
  PROVE  s.moment \in Nat /\ s.utcDay \in Nat /\ s.zoneDay \in Nat
  OBVIOUS

LEMMA ImageShape ==
  ASSUME TypeOK, NEW c \in Captures, Stored(c)
  PROVE  /\ image[c] \in Images
         /\ image[c].stamp \in Stamps
         /\ image[c].seq \in 1 .. MaxDailySequence
         /\ image[c].face \in Faces
  BY DEF TypeOK, Stored, Images

-----------------------------------------------------------------------------
(* Uploads: the fleet under them *)

\* A request that ends, or is an upload for a row that is there.
LEMMA UploadKeepsFleet ==
  ASSUME FleetIInv, RowsKept, UNCHANGED <<now, code, nvs, sweep, saidAt>>,
         NEW r \in Requests, NEW new \in Uploads \cup {Idle},
         new # Idle => Known(new.face),
         req' = [req EXCEPT ![r] = new]
  PROVE  FleetIInv'
  <1> FleetTyped
    BY DEF FleetIInv
  <1>1. FleetTyped'
    <2>1. req' \in [Requests -> FleetRequests \cup Uploads]
      BY DEF FleetTyped, FleetRequests
    <2> QED BY <2>1 DEF FleetTyped, FleetStateOK, RowsKept
  <1>2. InFlight'
    <2> SUFFICES ASSUME NEW q \in Requests
                 PROVE  /\ req'[q].op = "claim" => code'[req'[q].code].state # "unissued"
                        /\ req'[q].op \in {"event", "settings", "upload"}
                              => row'[req'[q].face] # NoRow
      BY DEF InFlight, Known
    <2>1. CASE q # r
      <3>1. req'[q] = req[q]
        BY <2>1 DEF FleetTyped
      <3>2. ASSUME req[q].op \in {"event", "settings", "upload"}
            PROVE  row'[req[q].face] # NoRow
        <4>1. req[q].face \in Faces /\ Known(req[q].face)
          BY <3>2, RequestShapes DEF FleetIInv, InFlight, Events, Saves, Uploads, UploadsAt
        <4> QED BY <4>1, KnownStays
      <3> QED BY <3>1, <3>2 DEF FleetIInv, InFlight
    <2>2. CASE q = r
      <3>1. req'[q] = new
        BY <2>2 DEF FleetTyped
      <3>2. CASE new = Idle
        BY <3>1, <3>2 DEF Idle
      <3>3. CASE new # Idle
        <4>1. new.op = "upload" /\ new.face \in Faces /\ Known(new.face)
          BY <3>3 DEF Uploads, UploadsAt
        <4> QED BY <3>1, <4>1, KnownStays
      <3> QED BY <3>2, <3>3
    <2> QED BY <2>1, <2>2
  <1>3. SweepKnown'
    BY KnownStays DEF FleetIInv, SweepKnown, Known
  <1>4. ASSUME NEW k \in Cameras, nvs[k] # NoFace PROVE row'[nvs[k]] # NoRow
    BY <1>4, KnownStays DEF FleetIInv, Provisioned, FleetTyped, FleetStateOK
  <1>5. Provisioned' /\ OneCameraPerFace'
    BY <1>4 DEF FleetIInv, Provisioned, OneCameraPerFace, Known
  <1> QED BY <1>1, <1>2, <1>3, <1>5 DEF FleetIInv

\* The heartbeat an upload carries.
LEMMA HeartbeatKeepsRows ==
  ASSUME FleetIInv, NEW r \in Requests, req[r].op = "upload",
         row' = [row EXCEPT ![req[r].face] = HeardFrom(@)]
  PROVE  RowsKept
  <1> FleetTyped
    BY DEF FleetIInv
  <1> DEFINE f == req[r].face
  <1>1. f \in Faces /\ Known(f)
    BY UploadShape DEF FleetIInv, InFlight
  <1>2. row[f] \in Rows
    BY <1>1, KnownTyped
  <1>3. HeardFrom(row[f]) \in Rows /\ HeardFrom(row[f]).secret = row[f].secret
    BY <1>2 DEF HeardFrom, Rows, Statuses, Moments, FleetTyped, FleetStateOK
  <1> QED
    BY <1>1, <1>3, OneRowKept

LEMMA AttemptIsTyped ==
  ASSUME FleetIInv, TypeOK, NEW k \in Cameras, NEW c \in Captures, NEW stamp \in Stamps,
         Authentic(k)
  PROVE  LET new == [uploadCapture(k, c, stamp) EXCEPT !.last = lastAt]
         IN  new \in Uploads /\ new.at = "loaded" /\ Known(new.face)
  <1>1. nvs[k] \in Faces /\ Known(nvs[k])
    BY DEF Authentic, signed_headers, FleetIInv, Provisioned, FleetTyped, FleetStateOK
  <1>2. [uploadCapture(k, c, stamp) EXCEPT !.last = lastAt]
          = [op |-> "upload", camera |-> k, face |-> nvs[k], content |-> c,
             stamp |-> stamp, last |-> lastAt, at |-> "loaded", seq |-> 0]
    BY DEF uploadCapture, signed_headers
  <1> QED BY <1>1, <1>2 DEF Uploads, UploadsAt, TypeOK

\* An upload that goes on to its next phase.
LEMMA PhaseIsTyped ==
  ASSUME FleetIInv, TypeOK, NEW r \in Requests
  PROVE  /\ UploadCheck(r) => [req[r] EXCEPT !.at = "checked"] \in Uploads
         /\ UploadNumber(r) => [req[r] EXCEPT !.at = "numbered",
                                             !.seq = NextSequence(req[r].stamp.zoneDay)] \in Uploads
         /\ UploadPut(r) => [req[r] EXCEPT !.at = "stored"] \in Uploads
  <1> FleetTyped
    BY DEF FleetIInv
  <1>1. ASSUME At(r, "loaded") \/ At(r, "checked")
        PROVE  req[r] \in UploadsAt({"loaded", "checked"}, {0})
    BY <1>1, UploadShape DEF At, Uploads, UploadsAt
  <1>2. ASSUME At(r, "numbered")
        PROVE  req[r] \in UploadsAt({"numbered", "stored"}, 1 .. MaxDailySequence)
    BY <1>2, UploadShape DEF At, Uploads, UploadsAt
  <1>3. ASSUME UploadCheck(r) PROVE [req[r] EXCEPT !.at = "checked"] \in Uploads
    BY <1>1, <1>3 DEF UploadCheck, Uploads, UploadsAt
  <1>4. ASSUME UploadNumber(r)
        PROVE  [req[r] EXCEPT !.at = "numbered",
                              !.seq = NextSequence(req[r].stamp.zoneDay)] \in Uploads
    <2> DEFINE seq == NextSequence(req[r].stamp.zoneDay)
    <2>1. seq \in 1 .. MaxDailySequence
      BY <1>4, NextIsNew DEF UploadNumber
    <2> HIDE DEF seq
    <2>2. req[r] \in UploadsAt({"loaded", "checked"}, {0})
      BY <1>1, <1>4 DEF UploadNumber
    <2>3. [req[r] EXCEPT !.at = "numbered", !.seq = seq]
             \in UploadsAt({"numbered", "stored"}, 1 .. MaxDailySequence)
      BY <2>1, <2>2 DEF UploadsAt
    <2> QED BY <2>3 DEF Uploads, seq
  <1>5. ASSUME UploadPut(r) PROVE [req[r] EXCEPT !.at = "stored"] \in Uploads
    BY <1>2, <1>5 DEF UploadPut, Uploads, UploadsAt
  <1> QED BY <1>3, <1>4, <1>5

LEMMA IngestKeepsFleet ==
  ASSUME FleetIInv, TypeOK, IngestNext
  PROVE  FleetIInv'
  <1> FleetTyped
    BY DEF FleetIInv
  <1>1. ASSUME NEW k \in Cameras, NEW c \in Captures, TakePhoto(k, c) PROVE FleetIInv'
    BY <1>1, FleetStepIInv DEF TakePhoto
  <1>2. ASSUME NEW k \in Cameras, NEW c \in Captures, NEW stamp \in Stamps,
               NEW r \in Requests, UploadAuth(r, k, c, stamp)
        PROVE  FleetIInv'
    <2> DEFINE new == [uploadCapture(k, c, stamp) EXCEPT !.last = lastAt]
    <2>1. new \in Uploads /\ Known(new.face)
      BY <1>2, AttemptIsTyped DEF UploadAuth
    <2>2. req' = [req EXCEPT ![r] = new]
      BY <1>2 DEF UploadAuth
    <2> HIDE DEF new
    <2> QED
      BY <1>2, <2>1, <2>2, UntouchedRows, UploadKeepsFleet DEF UploadAuth
  <1>3. ASSUME NEW r \in Requests, NEW b \in BOOLEAN,
               UploadDuplicate(r, b) \/ UploadCommit(r, b)
        PROVE  FleetIInv'
    BY <1>3, HeartbeatKeepsRows, UploadKeepsFleet
    DEF UploadDuplicate, UploadCommit, Answer, Acknowledge, At
  <1>4. ASSUME NEW r \in Requests, UNCHANGED <<now, row, code, nvs, sweep, saidAt>>,
               req[r].op = "upload", NEW new \in Uploads, new.face = req[r].face,
               req' = [req EXCEPT ![r] = new]
        PROVE  FleetIInv'
    <2>1. Known(req[r].face)
      BY <1>4 DEF FleetIInv, InFlight
    <2> QED BY <1>4, <2>1, UntouchedRows, UploadKeepsFleet
  <1>5. ASSUME NEW r \in Requests, UploadCheck(r) PROVE FleetIInv'
    <2> DEFINE new == [req[r] EXCEPT !.at = "checked"]
    <2>1. new \in Uploads /\ new.face = req[r].face
      BY <1>5, PhaseIsTyped, UploadShape DEF UploadCheck, At, Uploads, UploadsAt
    <2>2. req' = [req EXCEPT ![r] = new]
      BY <1>5 DEF UploadCheck
    <2> HIDE DEF new
    <2> QED BY <1>4, <1>5, <2>1, <2>2 DEF UploadCheck, At
  <1>6. ASSUME NEW r \in Requests, UploadNumber(r) PROVE FleetIInv'
    <2> DEFINE new == [req[r] EXCEPT !.at = "numbered",
                                    !.seq = NextSequence(req[r].stamp.zoneDay)]
    <2>1. new \in Uploads /\ new.face = req[r].face
      BY <1>6, PhaseIsTyped, UploadShape DEF UploadNumber, At, Uploads, UploadsAt
    <2>2. req' = [req EXCEPT ![r] = new]
      BY <1>6 DEF UploadNumber
    <2> HIDE DEF new
    <2> QED BY <1>4, <1>6, <2>1, <2>2 DEF UploadNumber, At
  <1>7. ASSUME NEW r \in Requests, UploadPut(r) PROVE FleetIInv'
    <2> DEFINE new == [req[r] EXCEPT !.at = "stored"]
    <2>1. new \in Uploads /\ new.face = req[r].face
      BY <1>7, PhaseIsTyped, UploadShape DEF UploadPut, At, Uploads, UploadsAt
    <2>2. req' = [req EXCEPT ![r] = new]
      BY <1>7 DEF UploadPut
    <2> HIDE DEF new
    <2> QED BY <1>4, <1>7, <2>1, <2>2 DEF UploadPut, At
  <1>8. ASSUME NEW r \in Requests, UploadRefused(r) \/ UploadConflict(r) \/ UploadFails(r)
        PROVE  FleetIInv'
    BY <1>8, UntouchedRows, UploadKeepsFleet
    DEF UploadRefused, UploadConflict, UploadFails, Answer
  <1> QED
    BY <1>1, <1>2, <1>3, <1>5, <1>6, <1>7, <1>8 DEF IngestNext, Attempt, UploadStep

-----------------------------------------------------------------------------
(* Uploads: types *)

LEMMA AcknowledgeKeeps ==
  ASSUME TypeOK, NEW r \in Requests, req[r].op = "upload", NEW b \in BOOLEAN,
         Acknowledge(r, b)
  PROVE  held' \in [Cameras -> SUBSET Captures] /\ faults' \in 0 .. MaxFaults
  <1>1. held' \in [Cameras -> SUBSET Captures]
    BY DEF Acknowledge, TypeOK
  <1>2. faults' \in 0 .. MaxFaults
    BY DEF Acknowledge, TypeOK
  <1> QED BY <1>1, <1>2

LEMMA IngestTypes ==
  ASSUME FleetIInv, TypeOK, IngestNext, FleetIInv'
  PROVE  TypeOK'
  <1>0. FleetTyped /\ FleetTyped'
    BY DEF FleetIInv
  <1> SUFFICES /\ held' \in [Cameras -> SUBSET Captures]
               /\ image' \in [Captures -> Images \cup {NoImage}]
               /\ blob' \subseteq Blobs
               /\ locks' \subseteq {s.zoneDay : s \in Stamps}
               /\ lastAt' \in Instants
               /\ faults' \in 0 .. MaxFaults
    BY <1>0 DEF TypeOK, FleetTyped
  <1>1. ASSUME NEW k \in Cameras, NEW c \in Captures, TakePhoto(k, c)
        PROVE  held' \in [Cameras -> SUBSET Captures] /\ UNCHANGED <<image, blob, locks, lastAt, faults>>
    BY <1>1 DEF TakePhoto, TypeOK
  <1>2. ASSUME NEW k \in Cameras, NEW c \in Captures, NEW stamp \in Stamps,
               NEW r \in Requests, UploadAuth(r, k, c, stamp)
        PROVE  UNCHANGED <<held, image, blob, locks, lastAt, faults>>
    BY <1>2 DEF UploadAuth, ingestVars
  <1>8. ASSUME NEW r \in Requests, UploadCheck(r)
        PROVE  UNCHANGED <<held, image, blob, locks, lastAt, faults>>
    BY <1>8 DEF UploadCheck, ingestVars
  <1>3. ASSUME NEW r \in Requests, NEW b \in BOOLEAN, UploadDuplicate(r, b)
        PROVE  /\ held' \in [Cameras -> SUBSET Captures] /\ faults' \in 0 .. MaxFaults
               /\ UNCHANGED <<image, blob, locks, lastAt>>
    BY <1>3, AcknowledgeKeeps DEF UploadDuplicate, At
  <1>4. ASSUME NEW r \in Requests, NEW b \in BOOLEAN, UploadCommit(r, b)
        PROVE  /\ held' \in [Cameras -> SUBSET Captures] /\ faults' \in 0 .. MaxFaults
               /\ image' \in [Captures -> Images \cup {NoImage}]
               /\ lastAt' \in Instants
               /\ locks' \subseteq locks /\ UNCHANGED blob
    <2>1. /\ req[r].stamp \in Stamps /\ req[r].face \in Faces /\ req[r].content \in Captures
          /\ req[r].seq \in 1 .. MaxDailySequence
      BY <1>0, <1>4, UploadShape DEF UploadCommit, At, Holding
    <2>2. [stamp |-> req[r].stamp, seq |-> req[r].seq, face |-> req[r].face] \in Images
      BY <2>1 DEF Images
    <2>3. image' \in [Captures -> Images \cup {NoImage}]
      BY <1>4, <2>2 DEF UploadCommit, TypeOK
    <2>4. lastAt' \in Instants
      BY <1>4, <2>1 DEF UploadCommit, Touched, TypeOK, Instants
    <2>5. held' \in [Cameras -> SUBSET Captures] /\ faults' \in 0 .. MaxFaults
      BY <1>4, AcknowledgeKeeps DEF UploadCommit, At
    <2> QED BY <1>4, <2>3, <2>4, <2>5 DEF UploadCommit, Released
  <1>5. ASSUME NEW r \in Requests, UploadNumber(r)
        PROVE  /\ locks' \subseteq {s.zoneDay : s \in Stamps}
               /\ UNCHANGED <<held, image, blob, lastAt, faults>>
    <2>1. req[r].stamp \in Stamps
      BY <1>0, <1>5, UploadShape DEF UploadNumber, At
    <2> QED BY <1>5, <2>1 DEF UploadNumber, TypeOK
  <1>6. ASSUME NEW r \in Requests, UploadPut(r)
        PROVE  blob' \subseteq Blobs /\ UNCHANGED <<held, image, locks, lastAt, faults>>
    <2> DEFINE key == KeyOf(req[r].stamp, req[r].seq, req[r].face)
               mine == [key |-> key, content |-> req[r].content, stamp |-> req[r].stamp]
    <2>1. /\ req[r].stamp \in Stamps /\ req[r].face \in Faces /\ req[r].content \in Captures
          /\ req[r].seq \in 1 .. MaxDailySequence
      BY <1>0, <1>6, UploadShape DEF UploadPut, At, Holding
    <2>2. key \in Keys
      BY <2>1 DEF KeyOf, Keys
    <2>3. blob' = {b \in blob : b.key # key} \cup {mine}
      BY <1>6 DEF UploadPut, Put
    <2> HIDE DEF key
    <2>4. mine \in Blobs
      BY <2>1, <2>2 DEF Blobs
    <2> HIDE DEF mine
    <2> QED BY <1>6, <2>3, <2>4 DEF UploadPut, TypeOK
  <1>7. ASSUME NEW r \in Requests, UploadRefused(r) \/ UploadConflict(r) \/ UploadFails(r)
        PROVE  /\ UNCHANGED <<held, image, blob, lastAt>>
               /\ locks' \subseteq locks /\ faults' \in 0 .. MaxFaults
    BY <1>7 DEF UploadRefused, UploadConflict, UploadFails, Released, ingestVars, TypeOK
  <1> QED
    BY <1>1, <1>2, <1>3, <1>4, <1>5, <1>6, <1>7, <1>8 DEF IngestNext, Attempt, UploadStep, TypeOK

-----------------------------------------------------------------------------
(* Uploads: who holds a lock, and what stays its own *)

\* Nobody comes to hold anything, no lock of a holder goes, and the rows and
\* the bytes are the same.
LEMMA FewerHolders ==
  ASSUME IngestIInv, UNCHANGED <<image, blob>>,
         \A q \in Requests : Holding(q)' => req'[q] = req[q] /\ req[q].stamp.zoneDay \in locks'
  PROVE  NamesInOrder'
  <1>1. \A q \in Requests : Holding(q)' => Holding(q) /\ req'[q] = req[q]
    BY DEF Holding, At
  <1>2. HoldersAlone'
    BY <1>1 DEF IngestIInv, NamesInOrder, HoldersAlone
  <1>4. NumbersHeld'
    BY <1>1 DEF IngestIInv, NamesInOrder, NumbersHeld, Follows, Taken, Stored
  <1>5. BytesHeld'
    <2>1. \A q \in Requests : At(q, "stored")' => At(q, "stored") /\ req'[q] = req[q]
      BY <1>1 DEF Holding, At
    <2> QED BY <2>1 DEF IngestIInv, NamesInOrder, BytesHeld, Bytes
  <1>6. FiledUnderItsOwnName'
    BY DEF IngestIInv, NamesInOrder, FiledUnderItsOwnName, Stored
  <1>7. NumberedInTurn'
    BY DEF IngestIInv, NamesInOrder, NumberedInTurn, Taken, Stored
  <1> QED BY <1>2, <1>4, <1>5, <1>6, <1>7 DEF NamesInOrder

\* A request ends and takes its lock with it.
LEMMA OthersHold ==
  ASSUME IngestIInv, NEW r \in Requests, req' = [req EXCEPT ![r] = Idle],
         locks' = locks \/ (Holding(r) /\ locks' = locks \ {req[r].stamp.zoneDay}),
         NEW q \in Requests, Holding(q)'
  PROVE  /\ q # r /\ Holding(q) /\ req'[q] = req[q]
         /\ req[q].stamp.zoneDay \in locks'
         /\ Holding(r) => req[q].stamp.zoneDay # req[r].stamp.zoneDay
  <1> FleetTyped
    BY DEF IngestIInv, FleetIInv
  <1>1. q # r /\ req'[q] = req[q]
    BY DEF Holding, At, Idle, FleetTyped
  <1>2. Holding(q)
    BY <1>1 DEF Holding, At
  <1>3. Holding(r) => req[q].stamp.zoneDay # req[r].stamp.zoneDay
    BY <1>1, <1>2 DEF IngestIInv, NamesInOrder, HoldersAlone
  <1> QED BY <1>1, <1>2, <1>3 DEF IngestIInv, NamesInOrder, HoldersAlone

-----------------------------------------------------------------------------
(* Uploads: the steps *)

LEMMA NumberKeepsNames ==
  ASSUME IngestIInv, NEW r \in Requests, UploadNumber(r)
  PROVE  NamesInOrder'
  <1> FleetTyped /\ TypeOK
    BY DEF IngestIInv, FleetIInv
  <1> DEFINE stamp == req[r].stamp
             day == stamp.zoneDay
             seq == NextSequence(day)
             new == [req[r] EXCEPT !.at = "numbered", !.seq = seq]
  <1>1. req[r] \in Uploads /\ stamp \in Stamps /\ ~Holding(r)
    BY UploadShape DEF UploadNumber, Holding, At
  <1>2. /\ day \notin locks /\ locks' = locks \cup {day}
        /\ req' = [req EXCEPT ![r] = new]
        /\ UNCHANGED <<image, blob>>
    BY DEF UploadNumber, LockIsFree
  <1>3. Follows(stamp, seq)
    <2>1. \A n \in Taken(day) : n < seq
      BY NextIsNew
    <2>2. seq - 1 \in Taken(day) \cup {0}
      BY NextIsNew
    <2>3. \A d \in Captures : Stored(d) /\ image[d].stamp.utcDay = day => image[d].seq \in Taken(day)
      BY DEF Taken
    <2> HIDE DEF seq
    <2> QED BY <2>1, <2>2, <2>3 DEF Follows
  <1>4. new.stamp = stamp /\ new.seq = seq /\ new.at = "numbered" /\ new.op = "upload"
    BY <1>1 DEF Uploads, UploadsAt
  <1> HIDE DEF seq, new
  <1>5. req'[r] = new
    BY <1>2 DEF FleetTyped
  <1>6. ASSUME NEW q \in Requests, Holding(q)', q # r
        PROVE  Holding(q) /\ req'[q] = req[q] /\ req[q].stamp.zoneDay # day
    <2>1. Holding(q) /\ req'[q] = req[q]
      BY <1>2, <1>6 DEF FleetTyped, Holding, At
    <2> QED BY <1>2, <2>1 DEF IngestIInv, NamesInOrder, HoldersAlone
  <1>7. HoldersAlone'
    <2> SUFFICES ASSUME NEW q \in Requests, Holding(q)'
                 PROVE  /\ req'[q].stamp.zoneDay \in locks'
                        /\ \A p \in Requests :
                             Holding(p)' /\ req'[p].stamp.zoneDay = req'[q].stamp.zoneDay => p = q
      BY DEF HoldersAlone
    <2>1. CASE q = r
      BY <1>2, <1>4, <1>5, <1>6, <2>1
    <2>2. CASE q # r
      BY <1>2, <1>4, <1>5, <1>6, <2>2 DEF IngestIInv, NamesInOrder, HoldersAlone
    <2> QED BY <2>1, <2>2
  <1>8. NumbersHeld'
    <2>2. ASSUME NEW q \in Requests, Holding(q)'
          PROVE  Follows(req'[q].stamp, req'[q].seq)
      <3>1. CASE q = r
        BY <1>3, <1>4, <1>5, <3>1
      <3>2. CASE q # r
        BY <1>6, <2>2, <3>2 DEF IngestIInv, NamesInOrder, NumbersHeld
      <3> QED BY <3>1, <3>2
    <2> QED BY <1>2, <2>2 DEF NumbersHeld, Follows, Taken, Stored
  <1>9. BytesHeld'
    <2>1. ASSUME NEW q \in Requests, At(q, "stored")'
          PROVE  q # r /\ At(q, "stored") /\ req'[q] = req[q]
      BY <1>4, <1>5, <1>6, <2>1 DEF At, Holding
    <2> QED BY <1>2, <2>1 DEF IngestIInv, NamesInOrder, BytesHeld, Bytes
  <1>10. FiledUnderItsOwnName'
    BY <1>2 DEF IngestIInv, NamesInOrder, FiledUnderItsOwnName, Stored
  <1>11. NumberedInTurn'
    BY <1>2 DEF IngestIInv, NamesInOrder, NumberedInTurn, Taken, Stored
  <1> QED BY <1>7, <1>8, <1>9, <1>10, <1>11 DEF NamesInOrder

LEMMA PutKeepsNames ==
  ASSUME IngestIInv, NEW r \in Requests, UploadPut(r)
  PROVE  NamesInOrder'
  <1> FleetTyped /\ TypeOK
    BY DEF IngestIInv, FleetIInv
  <1> DEFINE stamp == req[r].stamp
             seq == req[r].seq
             key == KeyOf(stamp, seq, req[r].face)
             mine == [key |-> key, content |-> req[r].content, stamp |-> stamp]
             new == [req[r] EXCEPT !.at = "stored"]
  <1>1. /\ req[r] \in Uploads /\ stamp \in Stamps /\ Holding(r)
        /\ seq \in 1 .. MaxDailySequence
    BY UploadShape DEF UploadPut, Holding, At
  <1>2. /\ blob' = {b \in blob : b.key # key} \cup {mine}
        /\ req' = [req EXCEPT ![r] = new]
        /\ UNCHANGED <<image, locks>>
    BY DEF UploadPut, Put
  <1>3. /\ new.stamp = stamp /\ new.seq = seq /\ new.face = req[r].face
        /\ new.content = req[r].content /\ new.at = "stored" /\ new.op = "upload"
    BY <1>1 DEF Uploads, UploadsAt
  <1>4. req'[r] = new /\ \A q \in Requests : q # r => req'[q] = req[q]
    BY <1>2 DEF FleetTyped
  <1>5. mine.key = key /\ mine.content = req[r].content /\ mine.stamp = stamp
    OBVIOUS
  <1> HIDE DEF new, mine
  <1>6. \A q \in Requests :
          /\ Holding(q)' => Holding(q)
          /\ req'[q].stamp = req[q].stamp /\ req'[q].seq = req[q].seq
    BY <1>1, <1>3, <1>4 DEF Holding, At
  <1>7. HoldersAlone'
    BY <1>2, <1>6 DEF IngestIInv, NamesInOrder, HoldersAlone
  <1>8. NumbersHeld'
    <2>1. ASSUME NEW q \in Requests, Holding(q)'
          PROVE  Follows(req'[q].stamp, req'[q].seq)
      BY <1>6, <2>1 DEF IngestIInv, NamesInOrder, NumbersHeld
    <2> QED BY <1>2, <2>1 DEF NumbersHeld, Follows, Taken, Stored
  \* Whose key is taken over was of another zone, or had the same bytes.
  <1>9. ASSUME NEW s \in Stamps, NEW n, NEW g, NEW c, Bytes(s, n, g, c),
               KeyOf(s, n, g) = key /\ InUtc(s) /\ InUtc(stamp) => c = req[r].content
        PROVE  \E b \in blob' : /\ b.key = KeyOf(s, n, g)
                                /\ InUtc(b.stamp) /\ InUtc(s) => b.content = c
    <2>1. PICK b \in blob : /\ b.key = KeyOf(s, n, g)
                            /\ InUtc(b.stamp) /\ InUtc(s) => b.content = c
      BY <1>9 DEF Bytes
    <2>2. CASE KeyOf(s, n, g) # key
      <3>1. b \in blob'
        BY <1>2, <2>1, <2>2
      <3> QED BY <2>1, <3>1
    <2>3. CASE KeyOf(s, n, g) = key
      <3>1. mine \in blob'
        BY <1>2
      <3>2. mine.key = KeyOf(s, n, g) /\ (InUtc(mine.stamp) /\ InUtc(s) => mine.content = c)
        BY <1>5, <1>9, <2>3
      <3> QED BY <3>1, <3>2
    <2> QED BY <2>2, <2>3
  <1>10. ASSUME NEW s \in Stamps, NEW n, NEW g, KeyOf(s, n, g) = key
         PROVE  s.utcDay = stamp.utcDay /\ n = seq
    <2>1. s.moment = stamp.moment /\ n = seq
      BY <1>10 DEF KeyOf
    <2> QED BY <1>1, <2>1
  <1>11. BytesHeld'
    <2> SUFFICES ASSUME NEW q \in Requests, At(q, "stored")'
                 PROVE  Bytes(req[q].stamp, req[q].seq, req[q].face, req[q].content)'
      BY DEF BytesHeld
    <2>1. CASE q = r
      <3>1. mine \in blob'
        BY <1>2
      <3>2. /\ req'[q].stamp = stamp /\ req'[q].seq = seq
            /\ req'[q].face = req[r].face /\ req'[q].content = req[r].content
        BY <1>3, <1>4, <2>1
      <3> QED BY <1>5, <3>1, <3>2 DEF Bytes
    <2>2. CASE q # r
      <3>1. req'[q] = req[q] /\ At(q, "stored") /\ Holding(q)
        BY <1>4, <2>2 DEF At, Holding
      <3>2. req[q].stamp \in Stamps
        BY <3>1, UploadShape DEF At
      <3>3. Bytes(req[q].stamp, req[q].seq, req[q].face, req[q].content)
        BY <3>1 DEF IngestIInv, NamesInOrder, BytesHeld
      <3>4. ~(/\ KeyOf(req[q].stamp, req[q].seq, req[q].face) = key
              /\ InUtc(req[q].stamp) /\ InUtc(stamp))
        <4>1. req[q].stamp.zoneDay # stamp.zoneDay
          BY <1>1, <2>2, <3>1 DEF IngestIInv, NamesInOrder, HoldersAlone
        <4> QED BY <1>10, <3>2, <4>1 DEF InUtc
      <3>5. \E b \in blob' :
               /\ b.key = KeyOf(req[q].stamp, req[q].seq, req[q].face)
               /\ InUtc(b.stamp) /\ InUtc(req[q].stamp) => b.content = req[q].content
        BY <1>9, <3>2, <3>3, <3>4
      <3> QED BY <3>1, <3>5 DEF Bytes
    <2> QED BY <2>1, <2>2
  <1>12. FiledUnderItsOwnName'
    <2>1. ASSUME NEW c \in Captures, Stored(c)
          PROVE  \E b \in blob' :
                    /\ b.key = KeyOf(image[c].stamp, image[c].seq, image[c].face)
                    /\ InUtc(b.stamp) /\ InUtc(image[c].stamp) => b.content = c
      <3>1. image[c].stamp \in Stamps /\ image[c].seq \in Nat
        BY <2>1, ImageShape
      <3>2. Bytes(image[c].stamp, image[c].seq, image[c].face, c)
        BY <2>1 DEF IngestIInv, NamesInOrder, FiledUnderItsOwnName, Bytes
      <3>3. ~(/\ KeyOf(image[c].stamp, image[c].seq, image[c].face) = key
              /\ InUtc(image[c].stamp) /\ InUtc(stamp))
        <4> SUFFICES ASSUME KeyOf(image[c].stamp, image[c].seq, image[c].face) = key,
                            InUtc(image[c].stamp), InUtc(stamp)
                     PROVE  FALSE
          OBVIOUS
        <4>1. image[c].stamp.utcDay = stamp.zoneDay /\ image[c].seq = seq
          BY <1>10, <3>1 DEF InUtc
        <4>2. Follows(stamp, seq)
          BY <1>1 DEF IngestIInv, NamesInOrder, NumbersHeld
        <4>3. image[c].seq < seq
          BY <2>1, <4>1, <4>2 DEF Follows
        <4> QED BY <1>1, <3>1, <4>1, <4>3
      <3> QED BY <1>9, <3>1, <3>2, <3>3
    <2> QED BY <1>2, <2>1 DEF IngestIInv, NamesInOrder, FiledUnderItsOwnName, Stored
  <1>13. NumberedInTurn'
    BY <1>2 DEF IngestIInv, NamesInOrder, NumberedInTurn, Taken, Stored
  <1> QED BY <1>7, <1>8, <1>11, <1>12, <1>13 DEF NamesInOrder

LEMMA CommitKeepsNames ==
  ASSUME IngestIInv, NEW r \in Requests, NEW b \in BOOLEAN, UploadCommit(r, b)
  PROVE  NamesInOrder'
  <1> FleetTyped /\ TypeOK
    BY DEF IngestIInv, FleetIInv
  <1> DEFINE c == req[r].content
             new == [stamp |-> req[r].stamp, seq |-> req[r].seq, face |-> req[r].face]
  <1>1. /\ Holding(r) /\ At(r, "stored") /\ c \in Captures /\ ~Stored(c)
        /\ req[r].stamp \in Stamps /\ req[r].seq \in 1 .. MaxDailySequence
    BY UploadShape DEF UploadCommit, Holding, At
  <1>2. /\ image' = [image EXCEPT ![c] = new]
        /\ req' = [req EXCEPT ![r] = Idle]
        /\ locks' = locks \ {req[r].stamp.zoneDay}
        /\ UNCHANGED blob
    BY <1>1 DEF UploadCommit, Answer, Released
  <1>3. image'[c] = new /\ \A d \in Captures : d # c => image'[d] = image[d]
    BY <1>1, <1>2 DEF TypeOK
  <1>4. /\ new.stamp = req[r].stamp /\ new.seq = req[r].seq /\ new.face = req[r].face
    OBVIOUS
  <1> HIDE DEF new
  <1>5. ASSUME NEW q \in Requests, Holding(q)'
        PROVE  /\ q # r /\ Holding(q) /\ req'[q] = req[q]
               /\ req[q].stamp.zoneDay \in locks'
               /\ req[q].stamp.zoneDay # req[r].stamp.zoneDay
    BY <1>1, <1>2, <1>5, OthersHold
  <1>6. HoldersAlone'
    BY <1>5 DEF HoldersAlone, NamesInOrder, IngestIInv
  <1>7. /\ Bytes(req[r].stamp, req[r].seq, req[r].face, c)
        /\ Follows(req[r].stamp, req[r].seq)
    BY <1>1 DEF IngestIInv, NamesInOrder, NumbersHeld, BytesHeld
  <1>8. \A d \in Captures : Stored(d) => image'[d] = image[d]
    BY <1>1, <1>3
  \* A number in use stays in use.
  <1>9. ASSUME NEW day, NEW n \in Taken(day)
        PROVE  \E d \in Captures : /\ image'[d] # NoImage
                                   /\ image'[d].stamp.utcDay = day /\ image'[d].seq = n
    BY <1>8 DEF Taken, Stored
  <1>10. NumbersHeld'
    <2> SUFFICES ASSUME NEW q \in Requests, Holding(q)'
                 PROVE  Follows(req[q].stamp, req[q].seq)'
      BY DEF NumbersHeld
    <2>1. req'[q] = req[q] /\ Holding(q) /\ req[q].stamp.zoneDay # req[r].stamp.zoneDay
      BY <1>5
    <2>2. Follows(req[q].stamp, req[q].seq)
      BY <2>1 DEF IngestIInv, NamesInOrder, NumbersHeld
    <2>3. ASSUME NEW d \in Captures, image'[d] # NoImage, InUtc(image'[d].stamp),
                 image'[d].stamp.utcDay = req[q].stamp.zoneDay
          PROVE  image'[d].seq < req[q].seq
      <3>1. d # c
        BY <1>3, <1>4, <2>1, <2>3 DEF InUtc
      <3> QED BY <1>3, <2>2, <2>3, <3>1 DEF Follows, Stored
    <2>4. \/ req[q].seq - 1 = 0
          \/ \E d \in Captures : /\ image'[d] # NoImage
                                 /\ image'[d].stamp.utcDay = req[q].stamp.zoneDay
                                 /\ image'[d].seq = req[q].seq - 1
      BY <1>9, <2>2 DEF Follows
    <2> QED BY <2>1, <2>3, <2>4 DEF Follows, Taken, Stored
  <1>11. BytesHeld'
    <2>1. ASSUME NEW q \in Requests, At(q, "stored")'
          PROVE  At(q, "stored") /\ req'[q] = req[q]
      BY <1>5, <2>1 DEF At, Holding
    <2> QED BY <1>2, <2>1 DEF IngestIInv, NamesInOrder, BytesHeld, Bytes
  <1>12. FiledUnderItsOwnName'
    <2>1. ASSUME NEW d \in Captures, image'[d] # NoImage
          PROVE  Bytes(image'[d].stamp, image'[d].seq, image'[d].face, d)
      <3>1. CASE d = c
        BY <1>3, <1>4, <1>7, <3>1
      <3>2. CASE d # c
        BY <1>3, <2>1, <3>2
        DEF IngestIInv, NamesInOrder, FiledUnderItsOwnName, Stored, Bytes
      <3> QED BY <3>1, <3>2
    <2>2. ASSUME NEW d \in Captures, Stored(d), InUtc(image[d].stamp), InUtc(req[r].stamp),
                 image[d].stamp.utcDay = req[r].stamp.utcDay
          PROVE  image[d].seq # req[r].seq
      <3>1. image[d].seq < req[r].seq
        BY <1>7, <2>2 DEF Follows, InUtc
      <3>2. image[d].seq \in Nat
        BY <2>2, ImageShape
      <3> QED BY <1>1, <3>1, <3>2
    <2>3. ASSUME NEW d \in Captures, NEW e \in Captures,
                 image'[d] # NoImage, image'[e] # NoImage,
                 InUtc(image'[d].stamp), InUtc(image'[e].stamp),
                 image'[d].stamp.utcDay = image'[e].stamp.utcDay,
                 image'[d].seq = image'[e].seq
          PROVE  d = e
      <3>1. CASE d # c /\ e # c
        BY <1>3, <2>3, <3>1 DEF IngestIInv, NamesInOrder, FiledUnderItsOwnName, Stored
      <3>2. CASE d = c /\ e # c
        BY <1>3, <1>4, <2>2, <2>3, <3>2 DEF Stored
      <3>3. CASE d # c /\ e = c
        BY <1>3, <1>4, <2>2, <2>3, <3>3 DEF Stored
      <3> QED BY <3>1, <3>2, <3>3
    <2> QED BY <1>2, <2>1, <2>3 DEF FiledUnderItsOwnName, Stored, Bytes
  <1>13. NumberedInTurn'
    <2>1. ASSUME NEW d \in Captures, image'[d] # NoImage
          PROVE  \/ image'[d].seq - 1 = 0
                 \/ \E e \in Captures : /\ image'[e] # NoImage
                                        /\ image'[e].stamp.utcDay = image'[d].stamp.zoneDay
                                        /\ image'[e].seq = image'[d].seq - 1
      <3>1. CASE d = c
        BY <1>3, <1>4, <1>7, <1>9, <3>1 DEF Follows
      <3>2. CASE d # c
        BY <1>3, <1>9, <2>1, <3>2 DEF IngestIInv, NamesInOrder, NumberedInTurn, Stored
      <3> QED BY <3>1, <3>2
    <2> QED BY <2>1 DEF NumberedInTurn, Taken, Stored
  <1> QED BY <1>6, <1>10, <1>11, <1>12, <1>13 DEF NamesInOrder

LEMMA IngestStep ==
  ASSUME IngestIInv, IngestNext
  PROVE  IngestIInv'
  <1> FleetTyped /\ TypeOK
    BY DEF IngestIInv, FleetIInv
  <1>1. FleetIInv'
    BY IngestKeepsFleet DEF IngestIInv
  <1>2. TypeOK'
    BY <1>1, IngestTypes DEF IngestIInv
  <1>3. ASSUME NEW k \in Cameras, NEW c \in Captures, TakePhoto(k, c) PROVE NamesInOrder'
    BY <1>3, FewerHolders
    DEF TakePhoto, fleetVars, Holding, At, HoldersAlone, NamesInOrder, IngestIInv
  \* A request that comes to hold no lock.
  <1>4. ASSUME NEW r \in Requests, req'[r].at \in {"loaded", "checked"},
               \A q \in Requests : q # r => req'[q] = req[q],
               UNCHANGED <<image, blob, locks>>
        PROVE  NamesInOrder'
    <2>1. \A q \in Requests : Holding(q)' => req'[q] = req[q]
      BY <1>4 DEF Holding, At
    <2>2. \A q \in Requests : Holding(q)' => req[q].stamp.zoneDay \in locks'
      BY <1>4, <2>1 DEF Holding, At, HoldersAlone, NamesInOrder, IngestIInv
    <2> QED BY <1>4, <2>1, <2>2, FewerHolders
  <1>5. ASSUME NEW k \in Cameras, NEW c \in Captures, NEW stamp \in Stamps,
               NEW r \in Requests, UploadAuth(r, k, c, stamp)
        PROVE  NamesInOrder'
    <2> DEFINE new == [uploadCapture(k, c, stamp) EXCEPT !.last = lastAt]
    <2>1. new.at = "loaded" /\ req' = [req EXCEPT ![r] = new]
      BY <1>5, AttemptIsTyped DEF UploadAuth, IngestIInv
    <2> HIDE DEF new
    <2>2. UNCHANGED <<image, blob, locks>>
      BY <1>5 DEF UploadAuth, ingestVars
    <2>3. req'[r].at = "loaded" /\ \A q \in Requests : q # r => req'[q] = req[q]
      BY <2>1 DEF FleetTyped
    <2> QED BY <1>4, <2>2, <2>3
  <1>6. ASSUME NEW r \in Requests, UploadCheck(r) PROVE NamesInOrder'
    <2> DEFINE new == [req[r] EXCEPT !.at = "checked"]
    <2>1. new.at = "checked" /\ req' = [req EXCEPT ![r] = new]
      BY <1>6, UploadShape DEF UploadCheck, At, Uploads, UploadsAt
    <2> HIDE DEF new
    <2>2. UNCHANGED <<image, blob, locks>>
      BY <1>6 DEF UploadCheck, ingestVars
    <2>3. req'[r].at = "checked" /\ \A q \in Requests : q # r => req'[q] = req[q]
      BY <2>1 DEF FleetTyped
    <2> QED BY <1>4, <2>2, <2>3
  <1>7. ASSUME NEW r \in Requests, UNCHANGED <<image, blob>>, req' = [req EXCEPT ![r] = Idle],
               locks' = locks \/ (Holding(r) /\ locks' = locks \ {req[r].stamp.zoneDay})
        PROVE  NamesInOrder'
    BY <1>7, OthersHold, FewerHolders
  <1>8. ASSUME NEW r \in Requests, NEW b \in BOOLEAN, UploadDuplicate(r, b) PROVE NamesInOrder'
    BY <1>7, <1>8 DEF UploadDuplicate, Answer
  <1>9. ASSUME NEW r \in Requests, UploadRefused(r) \/ UploadConflict(r) \/ UploadFails(r)
        PROVE  NamesInOrder'
    BY <1>7, <1>9 DEF UploadRefused, UploadConflict, UploadFails, Answer, Released, ingestVars
  <1> QED
    BY <1>1, <1>2, <1>3, <1>5, <1>6, <1>8, <1>9, NumberKeepsNames, PutKeepsNames, CommitKeepsNames
    DEF IngestIInv, IngestNext, Attempt, UploadStep

\* A step of the fleet touches no upload.
LEMMA FleetKeepsNames ==
  ASSUME IngestIInv, [FleetNext]_fleetVars, UNCHANGED ingestVars
  PROVE  IngestIInv'
  <1> FleetTyped /\ TypeOK
    BY DEF IngestIInv, FleetIInv
  <1>1. FleetIInv'
    BY FleetStepIInv DEF IngestIInv
  <1>2. TypeOK'
    BY <1>1 DEF TypeOK, FleetIInv, FleetTyped, ingestVars
  <1>3. \A q \in Requests : Holding(q)' => req'[q] = req[q]
    BY UploadsStay DEF Holding, At
  <1>4. \A q \in Requests : Holding(q)' => req[q].stamp.zoneDay \in locks'
    BY <1>3 DEF ingestVars, Holding, At, HoldersAlone, NamesInOrder, IngestIInv
  <1> QED
    BY <1>1, <1>2, <1>3, <1>4, FewerHolders DEF IngestIInv, ingestVars

LEMMA NextStep ==
  ASSUME IngestIInv, [Next]_vars
  PROVE  IngestIInv'
  <1>1. CASE UNCHANGED vars
    BY <1>1, FleetKeepsNames DEF vars, fleetVars, ingestVars
  <1> QED BY <1>1, IngestStep, FleetKeepsNames DEF Next

(* Uploads on top of the fleet: both keep their types.                       *)
THEOREM UploadsKeepTypes == Spec => [](FleetIInv /\ TypeOK)
  <1>1. Init => FleetIInv /\ TypeOK
    BY IngestInit DEF IngestIInv
  <1>2. ASSUME FleetIInv, TypeOK, [FleetNext]_fleetVars, UNCHANGED ingestVars
        PROVE  FleetIInv' /\ TypeOK'
    <2>1. FleetIInv'
      BY <1>2, FleetStepIInv
    <2> QED BY <1>2, <2>1 DEF TypeOK, FleetIInv, FleetTyped, ingestVars
  <1>3. ASSUME FleetIInv, TypeOK, IngestNext PROVE FleetIInv' /\ TypeOK'
    BY <1>3, IngestKeepsFleet, IngestTypes
  <1>4. FleetIInv /\ TypeOK /\ [Next]_vars => FleetIInv' /\ TypeOK'
    BY <1>2, <1>3 DEF Next, vars, fleetVars, ingestVars
  <1> QED BY <1>1, <1>4, PTL DEF Spec

LEMMA UploadsKeepRows ==
  ASSUME FleetIInv, IngestNext
  PROVE  RowsKept
  <1> FleetTyped
    BY DEF FleetIInv
  <1>1. ASSUME NEW r \in Requests, NEW b \in BOOLEAN,
               UploadDuplicate(r, b) \/ UploadCommit(r, b)
        PROVE  RowsKept
    BY <1>1, HeartbeatKeepsRows DEF UploadDuplicate, UploadCommit, At
  <1>2. \/ \E r \in Requests, b \in BOOLEAN : UploadDuplicate(r, b) \/ UploadCommit(r, b)
        \/ UNCHANGED row
    BY DEF IngestNext, TakePhoto, Attempt, UploadAuth, UploadStep, UploadCheck, UploadNumber,
           UploadPut, UploadRefused, UploadConflict, UploadFails, fleetVars
  <1> QED BY <1>1, <1>2, UntouchedRows

(* With uploads under way a camera that was unpaired is not heard again: an   *)
(* upload let in before carries a heartbeat, and no secret (ingest.py:182-188). *)
THEOREM UploadsKeepCutOff == Spec => UnpairedIsCutOff
  <1>1. FleetIInv /\ TypeOK /\ [Next]_vars => [StaysCutOff]_fleetVars
    BY CutOff, CutOffStep, UploadsKeepRows DEF Next, vars, fleetVars
  <1> QED BY <1>1, UploadsKeepTypes, PTL DEF Spec, UnpairedIsCutOff

(* Uploads on top of the fleet: the invariant of the two together, whatever  *)
(* zones the cameras stamp in.                                               *)
THEOREM IngestInvariant == Spec => []IngestIInv
  <1>1. IngestIInv /\ [Next]_vars => IngestIInv'
    BY NextStep
  <1> QED BY <1>1, IngestInit, PTL DEF Spec

(* Whatever uploads raced, died, were repeated or lost their answer, every   *)
(* row names bytes that are there; among captures stamped in UTC they are    *)
(* its own, and no two of a day share a number (ingest.py:185-228,           *)
(* image.py:175-197).                                                        *)
THEOREM EveryRowHasItsBytes == Spec => []FiledUnderItsOwnName
  <1>1. IngestIInv => FiledUnderItsOwnName
    BY DEF IngestIInv, NamesInOrder
  <1> QED BY <1>1, IngestInvariant, PTL

\* A set of numbers, each of them 1 or the next of another, has no gaps.
LEMMA NoGaps ==
  ASSUME NEW T \in SUBSET Nat, 0 \notin T, \A n \in T : n - 1 \in T \cup {0}, NEW m \in T
  PROVE  1 .. m \subseteq T
  <1> SUFFICES ASSUME NEW n \in 1 .. m, n \notin T PROVE FALSE
    OBVIOUS
  <1> DEFINE S == {x \in T : x > n}
  <1>1. S \in SUBSET Nat /\ m \in S
    <2>1. m \in Nat /\ n \in Nat
      OBVIOUS
    <2>2. n < m
      BY <2>1
    <2> QED BY <2>2
  <1>2. PICK x \in S : \A y \in S : x <= y
    <2>1. S # {}
      BY <1>1
    <2> HIDE DEF S
    <2> QED BY <1>1, <2>1, Smallest
  <1>3. x - 1 \in T /\ x - 1 > n
    BY <1>2
  <1>4. x - 1 \in S
    BY <1>3
  <1> QED BY <1>1, <1>2, <1>4

(* Neither retries and duplicates nor uploads that died use a number up, in  *)
(* whatever zones the cameras stamp; so a day whose captures were stamped in *)
(* UTC has no gap in its numbers, for any number of cameras, uploads in      *)
(* flight and failures (Module-05-Device-Pairing-and-Ingestion.md:57-58).    *)
THEOREM NumbersHaveNoGaps == Spec => [](NumberedInTurn /\ NumberedWithoutGaps)
  <1>1. ASSUME TypeOK, NumberedInTurn PROVE NumberedWithoutGaps
    <2> SUFFICES ASSUME NEW c \in Captures, Stored(c), Pure(image[c].stamp.utcDay)
                 PROVE  1 .. image[c].seq \subseteq Taken(image[c].stamp.utcDay)
      BY DEF NumberedWithoutGaps
    <2> DEFINE day == image[c].stamp.utcDay
    <2>1. Taken(day) \subseteq 1 .. MaxDailySequence
      BY <1>1, NextIsNew
    <2>2. Taken(day) \in SUBSET Nat /\ 0 \notin Taken(day)
      BY <2>1
    <2>3. ASSUME NEW n \in Taken(day) PROVE n - 1 \in Taken(day) \cup {0}
      <3>1. PICK d \in Captures : Stored(d) /\ image[d].stamp.utcDay = day /\ image[d].seq = n
        BY DEF Taken
      <3>2. image[d].stamp.zoneDay = day
        BY <3>1 DEF Pure, InUtc
      <3> QED BY <1>1, <3>1, <3>2 DEF NumberedInTurn
    <2>4. image[c].seq \in Taken(day)
      BY DEF Taken
    <2> HIDE DEF day
    <2>5. 1 .. image[c].seq \subseteq Taken(day)
      BY <2>2, <2>3, <2>4, NoGaps
    <2> QED BY <2>5 DEF day
  <1>2. IngestIInv => NumberedInTurn /\ NumberedWithoutGaps
    BY <1>1 DEF IngestIInv, NamesInOrder
  <1> QED BY <1>2, IngestInvariant, PTL

-----------------------------------------------------------------------------
(* Uploads: what the camera may rely on                                      *)

\* No step of the fleet ends an upload.
LEMMA UploadsGoOn ==
  ASSUME FleetTyped, [FleetNext]_fleetVars, NEW q \in Requests, req[q].op = "upload"
  PROVE  req'[q] = req[q]
  <1> USE DEF FleetTyped
  <1>1. ASSUME NEW r \in Requests, NEW new, req' = [req EXCEPT ![r] = new],
               req[r].op # "upload"
        PROVE  req'[q] = req[q]
    BY <1>1
  <1>2. \/ \E r \in Requests, new \in {Idle} : req' = [req EXCEPT ![r] = new] /\ req[r].op # "upload"
        \/ \E r \in Requests, k \in Cameras, c \in Codes : ClaimRead(r, k, c)
        \/ \E r \in Requests, k \in Cameras : EventAuth(r, k)
        \/ \E r \in Requests, f \in Faces, w \in Weights : SettingsRead(r, f, w)
        \/ UNCHANGED req
    BY DEF FleetNext, FleetStep, IssuePairingToken, ClaimCommit, ClaimConflict,
        EventCommit, SettingsSave, UnpairDevice, SweepRead, SweepCommit,
        RejectionRemark, SystemRemark, Tick, fleetVars, Answer
  <1> QED
    BY <1>1, <1>2 DEF Idle, ClaimRead, EventAuth, SettingsRead

\* A holder that goes on keeps the lock of its day held.
LEMMA HolderStays ==
  ASSUME LocksHaveHolders, NEW gone,
         \A day \in locks' : day \in locks /\ day # gone,
         \A q \in Requests : Holding(q) /\ req[q].stamp.zoneDay # gone => req'[q] = req[q]
  PROVE  LocksHaveHolders'
  <1> SUFFICES ASSUME NEW day \in locks'
               PROVE  \E q \in Requests : Holding(q)' /\ req'[q].stamp.zoneDay = day
    BY DEF LocksHaveHolders
  <1>1. PICK q \in Requests : Holding(q) /\ req[q].stamp.zoneDay = day
    BY DEF LocksHaveHolders
  <1> QED BY <1>1 DEF Holding, At

LEMMA LocksStep ==
  ASSUME FleetTyped, TypeOK, LocksHaveHolders, [Next]_vars
  PROVE  LocksHaveHolders'
  <1> USE DEF FleetTyped
  \* Nobody who holds a lock ends.
  <1>1. ASSUME UNCHANGED locks,
               \A q \in Requests : Holding(q) => Holding(q)' /\ req'[q].stamp = req[q].stamp
        PROVE  LocksHaveHolders'
    BY <1>1 DEF LocksHaveHolders
  <1>2. ASSUME [FleetNext]_fleetVars, UNCHANGED ingestVars PROVE LocksHaveHolders'
    BY <1>1, <1>2, UploadsGoOn DEF Holding, At, ingestVars
  <1>3. ASSUME NEW k \in Cameras, NEW c \in Captures, TakePhoto(k, c) PROVE LocksHaveHolders'
    BY <1>1, <1>3 DEF TakePhoto, fleetVars, Holding, At
  <1>4. ASSUME NEW k \in Cameras, NEW c \in Captures, NEW stamp \in Stamps,
               NEW r \in Requests, UploadAuth(r, k, c, stamp)
        PROVE  LocksHaveHolders'
    BY <1>1, <1>4 DEF UploadAuth, ingestVars, Holding, At, Idle
  <1>5. ASSUME NEW r \in Requests, ~Holding(r), NEW new, req' = [req EXCEPT ![r] = new],
               UNCHANGED locks
        PROVE  LocksHaveHolders'
    <2>1. \A q \in Requests : Holding(q) => req'[q] = req[q]
      BY <1>5
    <2> QED BY <1>1, <1>5, <2>1 DEF Holding, At
  <1>6. ASSUME NEW r \in Requests, Holding(r), req' = [req EXCEPT ![r] = Idle],
               locks' = locks \ {req[r].stamp.zoneDay}
        PROVE  LocksHaveHolders'
    <2> DEFINE gone == req[r].stamp.zoneDay
    <2>1. \A day \in locks' : day \in locks /\ day # gone
      BY <1>6
    <2>2. \A q \in Requests : Holding(q) /\ req[q].stamp.zoneDay # gone => req'[q] = req[q]
      BY <1>6
    <2> HIDE DEF gone
    <2> QED BY <2>1, <2>2, HolderStays
  <1>7. ASSUME NEW r \in Requests, NEW b \in BOOLEAN, UploadDuplicate(r, b) PROVE LocksHaveHolders'
    <2>1. ~Holding(r) /\ req' = [req EXCEPT ![r] = Idle] /\ UNCHANGED locks
      BY <1>7 DEF UploadDuplicate, Answer, Holding, At
    <2> QED BY <1>5, <2>1
  <1>8. ASSUME NEW r \in Requests, NEW b \in BOOLEAN, UploadCommit(r, b) PROVE LocksHaveHolders'
    <2>1. Holding(r) /\ req' = [req EXCEPT ![r] = Idle] /\ locks' = locks \ {req[r].stamp.zoneDay}
      BY <1>8 DEF UploadCommit, Answer, Released, Holding
    <2> QED BY <1>6, <2>1
  <1>9. ASSUME NEW r \in Requests, UploadRefused(r) PROVE LocksHaveHolders'
    <2>1. ~Holding(r) /\ req' = [req EXCEPT ![r] = Idle] /\ UNCHANGED locks
      BY <1>9 DEF UploadRefused, Answer, Holding, At, ingestVars
    <2> QED BY <1>5, <2>1
  <1>10. ASSUME NEW r \in Requests, UploadConflict(r) PROVE LocksHaveHolders'
    <2>1. Holding(r) /\ req' = [req EXCEPT ![r] = Idle] /\ locks' = locks \ {req[r].stamp.zoneDay}
      BY <1>10 DEF UploadConflict, Answer, Released, Holding
    <2> QED BY <1>6, <2>1
  <1>11. ASSUME NEW r \in Requests, UploadFails(r) PROVE LocksHaveHolders'
    BY <1>5, <1>6, <1>11 DEF UploadFails, Answer, Released
  <1>12. ASSUME NEW r \in Requests, UploadCheck(r) PROVE LocksHaveHolders'
    <2>1. ~Holding(r) /\ req' = [req EXCEPT ![r] = [req[r] EXCEPT !.at = "checked"]]
          /\ UNCHANGED locks
      BY <1>12 DEF UploadCheck, Holding, At, ingestVars
    <2> QED BY <1>5, <2>1
  <1>13. ASSUME NEW r \in Requests, UploadPut(r) PROVE LocksHaveHolders'
    <2>1. /\ UNCHANGED locks /\ Holding(r) /\ req[r] \in Uploads
          /\ req' = [req EXCEPT ![r] = [req[r] EXCEPT !.at = "stored"]]
      BY <1>13, UploadShape DEF UploadPut, Holding, At
    <2>2. req'[r].op = "upload" /\ req'[r].at = "stored" /\ req'[r].stamp = req[r].stamp
      BY <2>1 DEF Uploads, UploadsAt, Holding, At
    <2>3. \A q \in Requests : q # r => req'[q] = req[q]
      BY <2>1
    <2>4. ASSUME NEW q \in Requests, Holding(q)
          PROVE  Holding(q)' /\ req'[q].stamp = req[q].stamp
      BY <2>2, <2>3, <2>4 DEF Holding, At
    <2> QED BY <1>1, <2>1, <2>4
  <1>14. ASSUME NEW r \in Requests, UploadNumber(r) PROVE LocksHaveHolders'
    <2> DEFINE stamp == req[r].stamp
               seq == NextSequence(stamp.zoneDay)
    <2>1. /\ req[r] \in Uploads
          /\ locks' = locks \cup {stamp.zoneDay}
          /\ req' = [req EXCEPT ![r] = [req[r] EXCEPT !.at = "numbered", !.seq = seq]]
          /\ ~Holding(r)
      BY <1>14, UploadShape DEF UploadNumber, Holding, At
    <2> HIDE DEF seq
    <2>2. req'[r].op = "upload" /\ req'[r].at = "numbered" /\ req'[r].stamp = stamp
      BY <2>1, <1>14 DEF Uploads, UploadsAt, UploadNumber, At
    <2>3. \A q \in Requests : Holding(q) => req'[q] = req[q]
      BY <2>1
    <2>4. ASSUME NEW day \in locks
          PROVE  \E q \in Requests : Holding(q)' /\ req'[q].stamp.zoneDay = day
      <3>1. PICK q \in Requests : Holding(q) /\ req[q].stamp.zoneDay = day
        BY DEF LocksHaveHolders
      <3> QED BY <2>3, <3>1 DEF Holding, At
    <2>5. Holding(r)'
      BY <2>2 DEF Holding, At
    <2> QED BY <2>1, <2>2, <2>4, <2>5 DEF LocksHaveHolders
  <1>15. CASE UNCHANGED vars
    BY <1>2, <1>15 DEF vars, fleetVars, ingestVars
  <1> QED
    BY <1>2, <1>3, <1>4, <1>7, <1>8, <1>9, <1>10, <1>11, <1>12, <1>13, <1>14, <1>15
    DEF Next, IngestNext, Attempt, UploadStep

(* An upload never waits for a lock that nobody is going to let go of: who   *)
(* dies, conflicts or is refused takes its lock along, in whatever zone the   *)
(* cameras stamp (image.py:175-186).                                          *)
THEOREM NoLockIsLeftBehind == Spec => []LocksHaveHolders
  <1>1. Init => LocksHaveHolders
    BY DEF Init, LocksHaveHolders
  <1>2. FleetIInv /\ TypeOK /\ LocksHaveHolders /\ [Next]_vars => LocksHaveHolders'
    BY LocksStep DEF FleetIInv
  <1> QED BY <1>1, <1>2, UploadsKeepTypes, PTL DEF Spec

(* A camera lets go of a photograph only once it is stored, and nothing that *)
(* is stored is replaced or lost again, in whatever zone the cameras stamp    *)
(* (ingest.py:182-188, 210-228).                                              *)
THEOREM NothingLetGoIsLost == Spec => LetGoIsStored
  <1> DEFINE Step == /\ \A k \in Cameras, c \in Captures :
                           c \in held[k] /\ c \notin held'[k] => image'[c] # NoImage
                     /\ \A c \in Captures : Stored(c) => image'[c] = image[c]
  <1>1. ASSUME FleetIInv, TypeOK, [Next]_vars PROVE [Step]_vars
    <2> FleetTyped
      BY <1>1 DEF FleetIInv
    <2>1. ASSUME UNCHANGED <<held, image>> PROVE Step
      BY <2>1 DEF Stored
    <2>2. ASSUME NEW k \in Cameras, NEW c \in Captures, TakePhoto(k, c) PROVE Step
      BY <1>1, <2>2 DEF TakePhoto, TypeOK
    <2>3. ASSUME NEW r \in Requests, NEW b \in BOOLEAN, UploadDuplicate(r, b) PROVE Step
      <3>1. Stored(req[r].content) /\ UNCHANGED image /\ Acknowledge(r, b)
        BY <2>3 DEF UploadDuplicate
      <3>2. \A k \in Cameras, c \in Captures :
               c \in held[k] /\ c \notin held'[k] => c = req[r].content
        BY <1>1, <3>1 DEF Acknowledge, TypeOK
      <3> QED BY <3>1, <3>2 DEF Stored
    <2>4. ASSUME NEW r \in Requests, NEW b \in BOOLEAN, UploadCommit(r, b) PROVE Step
      <3> DEFINE new == [stamp |-> req[r].stamp, seq |-> req[r].seq, face |-> req[r].face]
      <3>1. /\ ~Stored(req[r].content) /\ Acknowledge(r, b)
            /\ image' = [image EXCEPT ![req[r].content] = new]
            /\ req[r].content \in Captures /\ req[r].seq \in Nat /\ req[r].seq > 0
        BY <2>4, UploadShape DEF UploadCommit, At, Holding
      <3>2. \A k \in Cameras, c \in Captures :
               c \in held[k] /\ c \notin held'[k] => c = req[r].content
        BY <1>1, <3>1 DEF Acknowledge, TypeOK
      <3>3. new # NoImage
        BY <3>1 DEF NoImage
      <3> HIDE DEF new
      <3>4. image'[req[r].content] # NoImage
            /\ \A c \in Captures : c # req[r].content => image'[c] = image[c]
        BY <1>1, <3>1, <3>3 DEF TypeOK
      <3> QED BY <3>1, <3>2, <3>4
    <2>5. ASSUME IngestNext PROVE Step
      <3>1. ASSUME NEW k \in Cameras, NEW c \in Captures, NEW stamp \in Stamps,
                   NEW r \in Requests, UploadAuth(r, k, c, stamp)
            PROVE  UNCHANGED <<held, image>>
        BY <3>1 DEF UploadAuth, ingestVars
      <3>2. ASSUME NEW r \in Requests,
                   UploadCheck(r) \/ UploadNumber(r) \/ UploadRefused(r)
                     \/ UploadPut(r) \/ UploadConflict(r) \/ UploadFails(r)
            PROVE  UNCHANGED <<held, image>>
        BY <3>2 DEF UploadCheck, UploadNumber, UploadPut, UploadRefused, UploadConflict, UploadFails, ingestVars
      <3> HIDE DEF Step
      <3> QED BY <2>1, <2>2, <2>3, <2>4, <2>5, <3>1, <3>2 DEF IngestNext, Attempt, UploadStep
    <2>6. IngestNext \/ UNCHANGED <<held, image>>
      BY <1>1 DEF Next, vars, ingestVars
    <2> HIDE DEF Step
    <2> QED BY <2>1, <2>5, <2>6
  <1>2. FleetIInv /\ TypeOK /\ [Next]_vars => [Step]_vars
    BY <1>1
  <1> QED BY <1>2, UploadsKeepTypes, PTL DEF Spec, LetGoIsStored

-----------------------------------------------------------------------------
(* Refinement of PhotoArchive *)

\* The mapping, for the captures of a state and of the next one.
Filed == [c \in Captures |-> IF Stored(c) THEN [day |-> image[c].stamp.utcDay,
                                                asked |-> image[c].stamp.zoneDay,
                                                seq |-> image[c].seq]
                                          ELSE [seq |-> 0]]

LEMMA FiledShape ==
  ASSUME TypeOK, NEW c \in Captures
  PROVE  /\ Stored(c) => /\ Filed[c].day = image[c].stamp.utcDay
                         /\ Filed[c].asked = image[c].stamp.zoneDay
                         /\ Filed[c].seq = image[c].seq
                         /\ Filed[c] # [seq |-> 0]
         /\ ~Stored(c) => Filed[c] = [seq |-> 0]
  <1>1. CASE Stored(c)
    <2>1. Filed[c] = [day |-> image[c].stamp.utcDay, asked |-> image[c].stamp.zoneDay,
                      seq |-> image[c].seq]
      BY <1>1 DEF Filed
    <2>2. image[c].seq \in Nat /\ image[c].seq > 0
      BY <1>1, ImageShape
    <2> QED BY <1>1, <2>1, <2>2
  <1>2. CASE ~Stored(c)
    BY <1>2 DEF Filed
  <1> QED BY <1>1, <1>2

LEMMA FiledOnDay ==
  ASSUME TypeOK, NEW day
  PROVE  Archive!FiledOn(day) = {c \in Captures : Stored(c) /\ image[c].stamp.utcDay = day}
  <1>1. Archive!FiledOn(day) = {c \in Captures : Filed[c] # [seq |-> 0] /\ Filed[c].day = day}
    BY DEF Archive!FiledOn, Archive!NotFiled, Filed
  <1> HIDE DEF Filed
  <1> QED BY <1>1, FiledShape

\* The commit of an upload files its content.
LEMMA CommitFiles ==
  ASSUME IngestIInv, NEW r \in Requests, NEW b \in BOOLEAN, UploadCommit(r, b)
  PROVE  Archive!Next
  <1> FleetTyped /\ TypeOK
    BY DEF IngestIInv, FleetIInv
  <1>0. /\ Holding(r) /\ req[r].content \in Captures /\ ~Stored(req[r].content)
        /\ req[r].stamp \in Stamps /\ req[r].stamp.utcDay \in Nat
        /\ req[r].stamp.zoneDay \in Nat /\ req[r].seq \in 1 .. MaxDailySequence
    BY UploadShape DEF UploadCommit, Holding, At
  <1> PICK c \in Captures, day \in Nat, asked \in Nat, seq \in 1 .. MaxDailySequence :
         /\ c = req[r].content /\ seq = req[r].seq
         /\ day = req[r].stamp.utcDay /\ asked = req[r].stamp.zoneDay
    BY <1>0
  <1> DEFINE new == [stamp |-> req[r].stamp, seq |-> seq, face |-> req[r].face]
             entry == [day |-> day, asked |-> asked, seq |-> seq]
  <1>1. Holding(r) /\ ~Stored(c) /\ req[r].stamp \in Stamps
    BY <1>0
  <1>2. Filed[c] = [seq |-> 0]
    BY <1>1 DEF Filed
  <1>3. Follows(req[r].stamp, seq)
    BY <1>1 DEF IngestIInv, NamesInOrder, NumbersHeld
  <1>4. seq = 1 \/ \E d \in Archive!FiledOn(asked) : Filed[d].seq = seq - 1
    <2>1. CASE seq - 1 = 0
      BY <1>1, <2>1
    <2>2. CASE seq - 1 \in Taken(asked)
      <3>1. PICK d \in Captures : Stored(d) /\ image[d].stamp.utcDay = asked /\ image[d].seq = seq - 1
        BY <2>2 DEF Taken
      <3>2. d \in Archive!FiledOn(asked)
        BY <3>1, FiledOnDay
      <3>3. Filed[d].seq = seq - 1
        BY <3>1, FiledShape
      <3> QED BY <3>2, <3>3
    <2> QED BY <1>3, <2>1, <2>2 DEF Follows
  <1>5. ASSUME NEW d \in Archive!FiledOn(asked), Filed[d].asked = asked
        PROVE  Filed[d].seq < seq
    <2>1. d \in Captures /\ Stored(d) /\ image[d].stamp.utcDay = asked
      BY FiledOnDay
    <2>2. image[d].stamp.zoneDay = asked /\ Filed[d].seq = image[d].seq
      BY <1>5, <2>1, FiledShape
    <2> QED BY <1>3, <2>1, <2>2 DEF Follows, InUtc
  <1>6. Filed' = [Filed EXCEPT ![c] = entry]
    <2>1. image' = [image EXCEPT ![c] = new]
      BY DEF UploadCommit
    <2>2. new # NoImage /\ new.stamp = req[r].stamp /\ new.seq = seq
      BY <1>1 DEF NoImage
    <2> HIDE DEF new
    <2>3. image'[c] = new /\ \A d \in Captures : d # c => image'[d] = image[d]
      BY <1>1, <2>1 DEF TypeOK
    <2>4. ASSUME NEW d \in Captures PROVE Filed'[d] = [Filed EXCEPT ![c] = entry][d]
      <3>1. CASE d = c
        BY <1>1, <2>2, <2>3, <3>1 DEF Filed, Stored
      <3>2. CASE d # c
        BY <2>3, <3>2 DEF Filed, Stored
      <3> QED BY <3>1, <3>2
    <2>5. Filed' = [d \in Captures |-> Filed'[d]]
      BY DEF Filed
    <2>6. [Filed EXCEPT ![c] = entry] = [d \in Captures |-> [Filed EXCEPT ![c] = entry][d]]
      BY DEF Filed
    <2> QED BY <2>4, <2>5, <2>6
  <1>7. Archive!File(c, day, asked, seq)
    BY <1>2, <1>4, <1>5, <1>6 DEF Archive!File, Archive!NotFiled, Filed
  <1> QED BY <1>7 DEF Archive!Next

LEMMA ArchiveStep ==
  ASSUME IngestIInv, [Next]_vars
  PROVE  Archive!Next \/ UNCHANGED Filed
  <1>1. ASSUME UNCHANGED image PROVE UNCHANGED Filed
    BY <1>1 DEF Filed, Stored
  <1>2. UNCHANGED image \/ \E r \in Requests, b \in BOOLEAN : UploadCommit(r, b)
    <2>1. ASSUME IngestNext
          PROVE  UNCHANGED image \/ \E r \in Requests, b \in BOOLEAN : UploadCommit(r, b)
      BY <2>1 DEF IngestNext, TakePhoto, Attempt, UploadAuth, UploadStep, UploadDuplicate,
                  UploadCheck, UploadNumber, UploadRefused, UploadPut, UploadConflict,
                  UploadFails, ingestVars
    <2> QED BY <2>1 DEF Next, vars, ingestVars
  <1> QED BY <1>1, <1>2, CommitFiles

(* Whatever uploads race, die, are repeated or lose their answer, and in     *)
(* whatever zones they are stamped, the folder of a site is a PhotoArchive:   *)
(* each content is filed once, under a number that follows one of the day it  *)
(* asked about, and stays filed; every other step changes no row.            *)
THEOREM FilesLikeTheArchive == Spec => ArchiveSpec
  <1>1. Init => Archive!Init
    BY DEF Init, Stored, Archive!Init, Archive!NotFiled
  <1>2. IngestIInv /\ [Next]_vars => [Archive!Next]_Filed
    BY ArchiveStep
  <1> QED
    BY <1>1, <1>2, IngestInvariant, PTL DEF Spec, ArchiveSpec, Archive!Spec, Filed

=============================================================================
