--------------------------- MODULE CaptureIngest ---------------------------
(***************************************************************************)
(* Uploads of the paired cameras of DeviceFleet: the idempotency check, the *)
(* daily sequence number under an advisory lock, the stored original, the   *)
(* row, and the project's last-capture marker.  Each of the first three is  *)
(* a statement or a call of its own, and others commit between them.        *)
(*                                                                          *)
(* A capture is its content (the sha256).  Each attempt to deliver it is    *)
(* stamped afresh: the clients of the repository send the time of the       *)
(* attempt.  A stamp names the instant, the UTC day it falls in, and the    *)
(* day its own zone writes: the lock is that of the day the stamp writes,   *)
(* and its number is one more than those of the UTC day of that date, while *)
(* the file is named after the instant.  The two days are one for the       *)
(* clients of the repository, and need not be for what the server accepts.  *)
(*                                                                          *)
(* External parts: the camera that keeps a capture until an upload of it is *)
(* answered, and the network.                                               *)
(***************************************************************************)
EXTENDS DeviceFleet

CONSTANTS
    Captures,           \* contents of photographs
    Stamps,             \* [moment, utcDay, zoneDay] records
    MaxDailySequence,   \* Image.build_filename refuses a larger number
    MaxFaults           \* uploads that die half-way, and answers that get lost

ASSUME IngestAssumption ==
    /\ Stamps \subseteq [moment : Nat, utcDay : Nat, zoneDay : Nat]
    /\ \A s, t \in Stamps : s.moment = t.moment => s.utcDay = t.utcDay
    /\ MaxDailySequence \in Nat \ {0}
    /\ MaxFaults \in Nat

VARIABLES
    held,       \* held[k]: the captures camera k still keeps
    image,      \* image[c]: the images row with content c, or NoImage
    blob,       \* the object store: the content and the stamp under each key
    locks,      \* zone days whose advisory lock a transaction holds
    lastAt,     \* projects.last_capture_at
    faults      \* how many deliveries went wrong

ingestVars == <<held, image, blob, locks, lastAt, faults>>
vars == <<now, row, code, nvs, req, sweep, saidAt,
          held, image, blob, locks, lastAt, faults>>

Keys == [moment : {s.moment : s \in Stamps}, seq : 1 .. MaxDailySequence, face : Faces]
Images == [stamp : Stamps, seq : 1 .. MaxDailySequence, face : Faces]
NoImage == [seq |-> 0]
Instants == {s.moment : s \in Stamps} \cup {Never}

\* How far an upload has come: the project is loaded, the content was not
\* found; the number is allocated, the bytes are stored.
UploadsAt(phases, numbers) ==
    [op : {"upload"}, camera : Cameras, face : Faces, content : Captures,
     stamp : Stamps, last : Instants, at : phases, seq : numbers]

Uploads ==
    UploadsAt({"loaded", "checked"}, {0})
    \cup UploadsAt({"numbered", "stored"}, 1 .. MaxDailySequence)

Blobs == [key : Keys, content : Captures, stamp : Stamps]

TypeOK ==
    /\ FleetStateOK
    /\ req \in [Requests -> FleetRequests \cup Uploads]
    /\ held \in [Cameras -> SUBSET Captures]
    /\ image \in [Captures -> Images \cup {NoImage}]
    /\ blob \subseteq Blobs
    /\ locks \subseteq {s.zoneDay : s \in Stamps}
    /\ lastAt \in Instants
    /\ faults \in 0 .. MaxFaults

Init ==
    /\ FleetInit
    /\ held = [k \in Cameras |-> {}]
    /\ image = [c \in Captures |-> NoImage]
    /\ blob = {}
    /\ locks = {}
    /\ lastAt = Never
    /\ faults = 0

\* The clients of the repository stamp in UTC (simulate_device.py:223,
\* mobile_pair.html:345): the two days of a stamp are one.
InUtc(stamp) == stamp.zoneDay = stamp.utcDay

-----------------------------------------------------------------------------
Stored(c) == image[c] # NoImage

\* build_original_key: the instant, the number and the face of a capture.
KeyOf(stamp, seq, face) == [moment |-> stamp.moment, seq |-> seq, face |-> face]

\* ObjectStorage.put replaces what the key held; `captured_at` goes along in
\* the metadata.
Put(key, content, stamp) ==
    blob' = {b \in blob : b.key # key}
            \cup {[key |-> key, content |-> content, stamp |-> stamp]}

\* The numbers of the rows captured on a UTC day.
Taken(day) ==
    {image[c].seq : c \in {d \in Captures : Stored(d) /\ image[d].stamp.utcDay = day}}

\* SqlAlchemyImageRepository.next_sequence_number, after the lock: one more
\* than the largest of them.
NextSequence(day) ==
    CHOOSE n \in 1 .. (MaxDailySequence + 1) :
        /\ n - 1 \in Taken(day) \cup {0}
        /\ \A m \in Taken(day) : m < n

\* A provisioned camera takes a photograph and keeps it (external).
TakePhoto(k, c) ==
    /\ nvs[k] # NoFace
    /\ \A l \in Cameras : c \notin held[l]
    /\ ~Stored(c)
    /\ held' = [held EXCEPT ![k] = @ \cup {c}]
    /\ UNCHANGED <<fleetVars, image, blob, locks, lastAt, faults>>

\* uploadCapture of the phone page, upload_capture of the simulator: what goes
\* out, signed anew with every attempt; the project is not loaded, and no number
\* is allocated.
uploadCapture(k, c, stamp) ==
    [op |-> "upload", camera |-> k, face |-> signed_headers(k), content |-> c,
     stamp |-> stamp, last |-> Never, at |-> "loaded", seq |-> 0]

\* An upload that has come so far.
At(r, phase) == req[r].op = "upload" /\ req[r].at = phase

\* Its transaction holds the lock of the day its stamp writes.
Holding(r) == At(r, "numbered") \/ At(r, "stored")

\* The transaction ends, and the lock with it.
Released(r) == IF Holding(r) THEN locks \ {req[r].stamp.zoneDay} ELSE locks

\* POST /ingest/images: the camera is authenticated, the form parsed, and the
\* use case loads the project.
UploadAuth(r, k, c, stamp) ==
    /\ req[r] = Idle
    /\ c \in held[k]
    /\ Authentic(k)
    /\ req' = [req EXCEPT ![r] = [uploadCapture(k, c, stamp) EXCEPT !.last = lastAt]]
    /\ UNCHANGED <<now, row, code, nvs, sweep, saidAt, ingestVars>>

\* The answer of a finished upload reaches the camera, or does not.
Acknowledge(r, answered) ==
    /\ answered \/ faults < MaxFaults
    /\ faults' = IF answered THEN faults ELSE faults + 1
    /\ held' = IF answered THEN [held EXCEPT ![req[r].camera] = @ \ {req[r].content}]
                           ELSE held

\* IngestImage.execute, when get_by_hash finds the content: only the liveness
\* of the camera is written.
UploadDuplicate(r, answered) ==
    /\ At(r, "loaded")
    /\ Stored(req[r].content)
    /\ row' = [row EXCEPT ![req[r].face] = HeardFrom(@)]
    /\ Acknowledge(r, answered)
    /\ Answer(r)
    /\ UNCHANGED <<now, code, nvs, sweep, saidAt, image, blob, locks, lastAt>>

\* get_by_hash finds nothing; another delivery of the content may commit from
\* now on.
UploadCheck(r) ==
    /\ At(r, "loaded")
    /\ ~Stored(req[r].content)
    /\ req' = [req EXCEPT ![r].at = "checked"]
    /\ UNCHANGED <<now, row, code, nvs, sweep, saidAt, ingestVars>>

\* Mutant: numbers are handed out without the lock.
LockIsFree_Never(day) == TRUE

\* pg_advisory_xact_lock on the day the stamp's own zone writes.
LockIsFree(day) == day \notin locks

\* next_sequence_number: waits for the lock, then reads the rows.
UploadNumber(r) ==
    /\ At(r, "checked")
    /\ LET day == req[r].stamp.zoneDay
           seq == NextSequence(day)
       IN  /\ LockIsFree(day)
           /\ seq <= MaxDailySequence
           /\ locks' = locks \cup {day}
           /\ req' = [req EXCEPT ![r].at = "numbered", ![r].seq = seq]
    /\ UNCHANGED <<now, row, code, nvs, sweep, saidAt, held, image, blob, lastAt, faults>>

\* build_filename raises once the three digits of the day are used up.
UploadRefused(r) ==
    /\ At(r, "checked")
    /\ LockIsFree(req[r].stamp.zoneDay)
    /\ NextSequence(req[r].stamp.zoneDay) > MaxDailySequence
    /\ Answer(r)
    /\ UNCHANGED <<now, row, code, nvs, sweep, saidAt, ingestVars>>

\* The original is stored under its key, before there is a row.
UploadPut(r) ==
    /\ At(r, "numbered")
    /\ Put(KeyOf(req[r].stamp, req[r].seq, req[r].face), req[r].content, req[r].stamp)
    /\ req' = [req EXCEPT ![r].at = "stored"]
    /\ UNCHANGED <<now, row, code, nvs, sweep, saidAt, held, image, locks, lastAt, faults>>

\* _touch_project compares with the marker the project was loaded with.
Touched(r) ==
    IF req[r].stamp.moment > req[r].last THEN req[r].stamp.moment ELSE lastAt

\* The row, the liveness of the camera and the marker are written, the worker's
\* task is queued, and the request commits.
UploadCommit(r, answered) ==
    /\ At(r, "stored")
    /\ ~Stored(req[r].content)
    /\ image' = [image EXCEPT ![req[r].content] =
                    [stamp |-> req[r].stamp, seq |-> req[r].seq, face |-> req[r].face]]
    /\ row' = [row EXCEPT ![req[r].face] = HeardFrom(@)]
    /\ lastAt' = Touched(r)
    /\ locks' = Released(r)
    /\ Acknowledge(r, answered)
    /\ Answer(r)
    /\ UNCHANGED <<now, code, nvs, sweep, saidAt, blob>>

\* Another delivery of the content committed first and uq_images_project_sha256
\* refuses this one; the blob it stored stays behind.
UploadConflict(r) ==
    /\ At(r, "stored")
    /\ Stored(req[r].content)
    /\ locks' = Released(r)
    /\ Answer(r)
    /\ UNCHANGED <<now, row, code, nvs, sweep, saidAt, held, image, blob, lastAt, faults>>

\* Mutant: the lock belongs to the session and outlives the transaction.
UploadFails_KeepsLock(r) ==
    /\ req[r].op = "upload"
    /\ faults < MaxFaults
    /\ faults' = faults + 1
    /\ Answer(r)
    /\ UNCHANGED <<now, row, code, nvs, sweep, saidAt, held, image, blob, locks, lastAt>>

\* The process dies, or the store, the broker or the commit fails: everything
\* but the blob is undone.
UploadFails(r) ==
    /\ req[r].op = "upload"
    /\ faults < MaxFaults
    /\ faults' = faults + 1
    /\ locks' = Released(r)
    /\ Answer(r)
    /\ UNCHANGED <<now, row, code, nvs, sweep, saidAt, held, image, blob, lastAt>>

UploadStep(r) ==
    \/ \E answered \in BOOLEAN : UploadDuplicate(r, answered)
    \/ UploadCheck(r)
    \/ UploadNumber(r)
    \/ UploadRefused(r)
    \/ UploadPut(r)
    \/ \E answered \in BOOLEAN : UploadCommit(r, answered)
    \/ UploadConflict(r)

\* A camera sends what it keeps, again and again.
Attempt(k, c, stamp) == \E r \in Requests : UploadAuth(r, k, c, stamp)

IngestNext ==
    \/ \E k \in Cameras, c \in Captures :
        \/ TakePhoto(k, c)
        \/ \E stamp \in Stamps : Attempt(k, c, stamp)
    \/ \E r \in Requests : UploadStep(r) \/ UploadFails(r)

Next == \/ FleetNext /\ UNCHANGED ingestVars
        \/ IngestNext

Spec == Init /\ [][Next]_vars

(***************************************************************************)
(* A request that was let in runs to its end, and a camera keeps trying the  *)
(* captures it holds, with stamps in UTC as the clients write them.  Stamps  *)
(* of other zones, owners, claims, events, the sweep and the clock are under *)
(* no obligation.                                                           *)
(***************************************************************************)
\* Request r goes on, whatever it is.
RequestStep(r) == UploadStep(r) \/ (FleetStep(r) /\ UNCHANGED ingestVars)

\* Camera k tries photograph c again, stamped in UTC.
Retry(k, c) == \E stamp \in Stamps : InUtc(stamp) /\ Attempt(k, c, stamp)

FairSpec ==
    /\ Spec
    /\ \A r \in Requests : WF_vars(RequestStep(r))
    /\ \A k \in Cameras, c \in Captures : SF_vars(Retry(k, c))

-----------------------------------------------------------------------------
(***************************************************************************)
(* What ingest promises.                                                    *)
(***************************************************************************)
\* No row names bytes that are not there; and among captures stamped in UTC
\* the bytes are its own and no two of a day share a number, whatever uploads
\* raced, died or were repeated.  A stamp of another zone asks for the numbers
\* of another UTC day than its own, and can take the key of another capture of
\* the same second (ingest.py:185-228, image.py:175-197).
FiledUnderItsOwnName ==
    /\ \A c \in Captures : Stored(c) =>
          \E b \in blob :
             /\ b.key = KeyOf(image[c].stamp, image[c].seq, image[c].face)
             /\ InUtc(b.stamp) /\ InUtc(image[c].stamp) => b.content = c
    /\ \A c, d \in Captures :
          /\ Stored(c) /\ Stored(d)
          /\ InUtc(image[c].stamp) /\ InUtc(image[d].stamp)
          /\ image[c].stamp.utcDay = image[d].stamp.utcDay
          /\ image[c].seq = image[d].seq
          => c = d

\* A photograph a camera keeps is stored in the end and the camera told so,
\* unless the camera was unpaired: no race, lost answer or orphaned blob leaves
\* a capture that every retry fails on (ingest.py:182-188).
KeptUntilStored ==
    \A c \in Captures :
        LET keepers == {k \in Cameras : c \in held[k]}
        IN  keepers # {} ~> \/ Stored(c) /\ keepers = {}
                            \/ \E k \in keepers : ~Authentic(k)

\* A number is the first, or follows one of the UTC day that its stamp's zone
\* writes: a duplicate, a retry and an upload that died half-way use none up,
\* in whatever zones the cameras stamp (ingest.py:182-193, image.py:175-197).
NumberedInTurn ==
    \A c \in Captures : Stored(c) =>
        image[c].seq - 1 \in Taken(image[c].stamp.zoneDay) \cup {0}

\* No capture of the UTC day was stamped in a zone where it is another day.
Pure(day) ==
    \A c \in Captures :
        Stored(c) /\ image[c].stamp.utcDay = day => InUtc(image[c].stamp)

\* "A flaky link cannot punch gaps in the day's numbering"
\* (Module-05-Device-Pairing-and-Ingestion.md:57-58): the numbers of a UTC day
\* are 1, 2, 3 and so on, on every day whose captures were stamped in UTC.
NumberedWithoutGaps ==
    \A c \in Captures : Stored(c) /\ Pure(image[c].stamp.utcDay) =>
        1 .. image[c].seq \subseteq Taken(image[c].stamp.utcDay)

\* What a camera lets go of is stored, and what is stored stays as it is: the
\* answer comes after the commit (ingest.py:182-228).
LetGoIsStored ==
    [][/\ \A k \in Cameras, c \in Captures :
             c \in held[k] /\ c \notin held'[k] => image'[c] # NoImage
       /\ \A c \in Captures : Stored(c) => image'[c] = image[c]]_vars

\* The advisory lock of a day (repositories/image.py:175-197) is held by an upload
\* that is under way: none is left behind for the others to wait for.
LocksHaveHolders ==
    \A day \in locks :
        \E r \in Requests : Holding(r) /\ req[r].stamp.zoneDay = day

\* The rows are what PhotoArchive says, each filed once and for good.
Archive == INSTANCE PhotoArchive WITH
    filed <- [c \in Captures |-> IF Stored(c) THEN [day |-> image[c].stamp.utcDay,
                                                    asked |-> image[c].stamp.zoneDay,
                                                    seq |-> image[c].seq]
                                              ELSE [seq |-> 0]]
ArchiveSpec == Archive!Spec

=============================================================================
