-------------------------------- MODULE Backup --------------------------------
(***************************************************************************)
(* scripts/backup.py and scripts/restore.py, beside a program that stores   *)
(* files and removes them.                                                  *)
(*                                                                          *)
(* A file is a row and an object under the row's key; the bytes are stored  *)
(* before the row is committed, and removed before the row's deletion is.   *)
(* A backup is two copies that nothing makes at one moment: a dump of the   *)
(* database, which is a snapshot, and then a copy of the bucket, object by  *)
(* object.                                                                  *)
(***************************************************************************)
EXTENDS Naturals

CONSTANTS
    Files,          \* storage keys
    MaxDisasters    \* times the stack loses its volumes

ASSUME BackupAssumption == MaxDisasters \in Nat

VARIABLES
    listed,     \* the files with a committed row
    stored,     \* the keys with an object in the bucket
    writing,    \* files whose request has stored bytes and not committed
    removed,    \* files whose bytes a request has deleted (history)
    dump,       \* the rows of postgres.sql
    mirror,     \* the objects of the backup's minio directory
    pending,    \* objects mc mirror has yet to copy
    copying,    \* what is running: a backup or a restore, and how far it is
    disasters

backupVars == <<listed, stored, writing, removed, dump, mirror, pending, copying, disasters>>

Steps == {"idle", "dumped", "whole", "dropped", "loaded", "half", "restored"}

BackupTypeOK ==
    /\ listed \subseteq Files
    /\ stored \subseteq Files
    /\ writing \subseteq Files
    /\ removed \subseteq Files
    /\ dump \subseteq Files
    /\ mirror \subseteq Files
    /\ pending \subseteq Files
    /\ copying \in Steps
    /\ disasters \in 0 .. MaxDisasters

BackupInit ==
    /\ listed = {}
    /\ stored = {}
    /\ writing = {}
    /\ removed = {}
    /\ dump = {}
    /\ mirror = {}
    /\ pending = {}
    /\ copying = "idle"
    /\ disasters = 0

-----------------------------------------------------------------------------
\* While the schema is dropped no request reads or writes a row, and a stack
\* that is restored half way is not opened to any.
HasSchema == copying \notin {"dropped", "half"}

\* IngestImage, UploadReferenceAsset, the report worker: bytes, then row
Store(f) ==
    /\ HasSchema
    /\ f \notin listed \cup writing \cup removed
    /\ stored' = stored \cup {f}
    /\ writing' = writing \cup {f}
    /\ UNCHANGED <<listed, removed, dump, mirror, pending, copying, disasters>>

Commit(f) ==
    /\ HasSchema
    /\ f \in writing
    /\ writing' = writing \ {f}
    /\ listed' = listed \cup {f}
    /\ UNCHANGED <<stored, removed, dump, mirror, pending, copying, disasters>>

\* The request dies, and its bytes stay behind.
Abort(f) ==
    /\ f \in writing
    /\ writing' = writing \ {f}
    /\ UNCHANGED <<listed, stored, removed, dump, mirror, pending, copying, disasters>>

\* DeleteReferenceAsset, the report cleanup: the bytes while the row is there
Unstore(f) ==
    /\ HasSchema
    /\ f \in listed
    /\ stored' = stored \ {f}
    /\ removed' = removed \cup {f}
    /\ UNCHANGED <<listed, writing, dump, mirror, pending, copying, disasters>>

Unlist(f) ==
    /\ HasSchema
    /\ f \in listed \cap removed
    /\ listed' = listed \ {f}
    /\ UNCHANGED <<stored, writing, removed, dump, mirror, pending, copying, disasters>>

-----------------------------------------------------------------------------
\* Each backup has a directory of its own; the last one is kept here.
\* mc mirror copies what the bucket holds when it starts.
Dump ==
    /\ copying \in {"idle", "whole", "restored"}
    /\ dump' = listed
    /\ mirror' = {}
    /\ pending' = {}
    /\ copying' = "dumped"
    /\ UNCHANGED <<listed, stored, writing, removed, disasters>>

MirrorStarts ==
    /\ copying = "dumped"
    /\ mirror = {} /\ pending = {}
    /\ stored # {}
    /\ pending' = stored
    /\ UNCHANGED <<listed, stored, writing, removed, dump, mirror, copying, disasters>>

\* An object that is gone when its turn comes is not copied.
MirrorCopies(f) ==
    /\ copying = "dumped"
    /\ f \in pending
    /\ pending' = pending \ {f}
    /\ mirror' = IF f \in stored THEN mirror \cup {f} ELSE mirror
    /\ UNCHANGED <<listed, stored, writing, removed, dump, copying, disasters>>

\* Mutant: the database is dumped when the bucket is copied.
BackupEnds_DumpsLast ==
    /\ copying = "dumped"
    /\ pending = {}
    /\ mirror # {} \/ stored = {}
    /\ dump' = listed
    /\ copying' = "whole"
    /\ UNCHANGED <<listed, stored, writing, removed, mirror, pending, disasters>>

BackupEnds ==
    /\ copying = "dumped"
    /\ pending = {}
    /\ mirror # {} \/ stored = {}
    /\ copying' = "whole"
    /\ UNCHANGED <<listed, stored, writing, removed, dump, mirror, pending, disasters>>

\* The volumes are lost; a backup under way is too.
Disaster ==
    /\ disasters < MaxDisasters
    /\ disasters' = disasters + 1
    /\ listed' = {}
    /\ stored' = {}
    /\ writing' = {}
    /\ copying' = IF copying = "dumped" THEN "idle" ELSE copying
    /\ UNCHANGED <<removed, dump, mirror, pending>>

-----------------------------------------------------------------------------
\* restore.py drops the schema under whatever runs, ...
DropSchema ==
    /\ copying \in {"whole", "half", "restored"}
    /\ listed' = {}
    /\ writing' = {}
    /\ copying' = "dropped"
    /\ UNCHANGED <<stored, removed, dump, mirror, pending, disasters>>

\* ... loads the dump, ...
LoadDump ==
    /\ copying = "dropped"
    /\ listed' = dump
    /\ copying' = "loaded"
    /\ UNCHANGED <<stored, writing, removed, dump, mirror, pending, disasters>>

\* ... and adds the objects of the directory to those of the bucket.
MirrorBack ==
    /\ copying = "loaded"
    /\ stored' = stored \cup mirror
    /\ copying' = "restored"
    /\ UNCHANGED <<listed, writing, removed, dump, mirror, pending, disasters>>

\* A restore that ends half way is run again; nobody backs such a stack up.
RestoreFails ==
    /\ copying \in {"dropped", "loaded"}
    /\ copying' = "half"
    /\ UNCHANGED <<listed, stored, writing, removed, dump, mirror, pending, disasters>>

BackupNext ==
    \/ \E f \in Files : Store(f) \/ Commit(f) \/ Abort(f) \/ Unstore(f) \/ Unlist(f)
    \/ Dump \/ MirrorStarts \/ (\E f \in Files : MirrorCopies(f)) \/ BackupEnds
    \/ Disaster
    \/ DropSchema \/ LoadDump \/ MirrorBack \/ RestoreFails

BackupSpec == BackupInit /\ [][BackupNext]_backupVars

-----------------------------------------------------------------------------
\* What a finished restore lists has its bytes, unless a request had deleted
\* them: the dump is older than the copy of the bucket, and a row is younger
\* than its bytes ("an untested backup is not a backup", backup.py:3).
RestoredHasBytes == copying = "restored" => listed \subseteq stored \cup removed
=============================================================================
