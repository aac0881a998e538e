------------------------------- MODULE SeedData -------------------------------
(***************************************************************************)
(* The demonstration data: scripts/seed_db.py wipes what it once inserted   *)
(* and inserts it again, in two transactions, into a database that people   *)
(* work with in between.                                                    *)
(*                                                                          *)
(* A row is a constant: its table, and the rows its foreign keys name.      *)
(* What a deletion does is not: it follows the foreign keys as the schema   *)
(* declares them.                                                           *)
(***************************************************************************)
EXTENDS Integers, FiniteSets, Schema

CONSTANTS
    Alice, Bruno, Stub, Flagship, Partner, \* the ids of the script's rows
    Camera, Frame, Vote, Day, Note,
    Others,     \* the rows people's requests and the workers may insert
    Theirs,     \* those of them that hang on nothing seeded
    SameKey(_, _) \* whether two rows have one unique name, code or key

Row(table, refs) == [table |-> table, refs |-> refs]

-----------------------------------------------------------------------------
(***************************************************************************)
(* What seed() inserts, one row or two for each kind it makes.              *)
(***************************************************************************)
SeedUsers == [u \in {Alice, Bruno} |-> Row("users", << >>)]

SeedModels == [x \in {Stub} |-> Row("ai_models", << >>)]

SeedProjects == [x \in {Flagship} |-> Row("projects", [owner_id |-> Alice])]

SeedMembers ==
    [x \in {Partner} |->
        Row("project_members",
            [project_id |-> Flagship, user_id |-> Bruno, invited_by |-> Alice])]

SeedDevices == [x \in {Camera} |-> Row("devices", [project_id |-> Flagship])]

SeedImages ==
    [x \in {Frame} |-> Row("images", [project_id |-> Flagship, device_id |-> Camera])]

SeedPredictions ==
    [x \in {Vote} |-> Row("predictions", [image_id |-> Frame, model_id |-> Stub])]

SeedSnapshots ==
    [x \in {Day} |-> Row("project_progress_snapshots", [project_id |-> Flagship])]

SeedRemarks ==
    [x \in {Note} |-> Row("remarks", [project_id |-> Flagship, author_id |-> Alice])]

SeedRows ==
    SeedUsers @@ SeedModels @@ SeedProjects @@ SeedMembers @@ SeedDevices @@ SeedImages
    @@ SeedPredictions @@ SeedSnapshots @@ SeedRemarks

Seeded ==
    UNION {DOMAIN SeedUsers, DOMAIN SeedModels, DOMAIN SeedProjects, DOMAIN SeedMembers,
           DOMAIN SeedDevices, DOMAIN SeedImages, DOMAIN SeedPredictions,
           DOMAIN SeedSnapshots, DOMAIN SeedRemarks}
RowOf == SeedRows @@ Others
Rows == Seeded \cup DOMAIN Others

\* The columns a row hangs by on what it belongs to; who owned, approved,
\* uploaded, asked for, invited or did something is in others.
Hangers == {"project_id", "image_id", "device_id", "user_id", "created_by"}

ASSUME SeedAssumption ==
    /\ Seeded \cap DOMAIN Others = {}
    /\ Theirs \subseteq DOMAIN Others
    /\ \A r \in Rows : RowOf[r].table \in DOMAIN Metadata
    /\ \A r \in Theirs : \A column \in Hangers \cap DOMAIN RowOf[r].refs :
          RowOf[r].refs[column] \in Theirs

VARIABLES
    rows,       \* the rows of the database
    cleared,    \* <<row, column>>: references a deletion set to NULL
    script      \* what the script has done: "idle" or "wiped"

seedVars == <<rows, cleared, script>>

SeedTypeOK ==
    /\ rows \subseteq Rows
    /\ \A c \in cleared : c[1] \in rows
    /\ script \in {"idle", "wiped"}

SeedInit == rows = {} /\ cleared = {} /\ script = "idle"

-----------------------------------------------------------------------------
\* The foreign keys of row r that name a row of gone
References(r, gone, nulls) ==
    {f \in Metadata[RowOf[r].table].refs :
        /\ f.column \in DOMAIN RowOf[r].refs
        /\ RowOf[r].refs[f.column] \in gone
        /\ <<r, f.column>> \notin nulls}

\* A table with a unique key takes one row per value.
Clash(r, s) == /\ RowOf[r].table = RowOf[s].table
               /\ Metadata[RowOf[r].table].keys # {}
               /\ SameKey(r, s)

\* What goes with the rows of gone, a foreign key at a time; no chain of the
\* schema is longer than project, device, event.
WithThem(d, gone) ==
    LET more(taken) ==
            taken \cup {r \in d.rows \ taken :
                           \E f \in References(r, taken, d.cleared) : f.on = "CASCADE"}
    IN  more(more(more(gone)))

\* DELETE: refused when a row that stays restricts it
Delete(d, targets) ==
    LET gone == WithThem(d, targets \cap d.rows)
        rest == d.rows \ gone
        hits(rule) ==
            UNION {{<<r, f.column>> :
                       f \in {g \in References(r, gone, d.cleared) : g.on = rule}} : r \in rest}
    IN  [rows |-> rest,
         cleared |-> {c \in d.cleared : c[1] \in rest} \cup hits("SET_NULL"),
         ok |-> d.ok /\ hits("RESTRICT") = {}]

\* wipe: the seeded projects, then the seeded users, then the stub model
Wiped(d) ==
    Delete(Delete(Delete(d, DOMAIN SeedProjects), DOMAIN SeedUsers), DOMAIN SeedModels)

Now == [rows |-> rows, cleared |-> cleared, ok |-> TRUE]

-----------------------------------------------------------------------------
\* main: the wipe is a transaction of its own; one that is refused leaves
\* everything and ends the script.
Wipe(only) ==
    /\ script = "idle"
    /\ Wiped(Now).ok
    /\ rows' = Wiped(Now).rows
    /\ cleared' = Wiped(Now).cleared
    /\ script' = IF only THEN "idle" ELSE "wiped"

Seed ==
    /\ script = "wiped"
    /\ \A s \in Seeded, r \in rows : ~ Clash(r, s)
    /\ rows' = rows \cup Seeded
    /\ script' = "idle"
    /\ UNCHANGED cleared

\* A name or code of the seed was taken meanwhile, or the process ends.
SeedFails ==
    /\ script = "wiped"
    /\ script' = "idle"
    /\ UNCHANGED <<rows, cleared>>

\* The application inserts rows, never deletes a project or a user.
Insert(r) ==
    /\ r \notin rows \cup Seeded
    /\ \A column \in DOMAIN RowOf[r].refs : RowOf[r].refs[column] \in rows
    /\ \A s \in rows : ~ Clash(r, s)
    /\ rows' = rows \cup {r}
    /\ UNCHANGED <<cleared, script>>

SeedNext ==
    \/ \E only \in BOOLEAN : Wipe(only)
    \/ Seed
    \/ SeedFails
    \/ \E r \in Rows : Insert(r)

SeedSpec == SeedInit /\ [][SeedNext]_seedVars

-----------------------------------------------------------------------------
\* A wipe may be refused, but it never takes what others made: an account, a
\* project, a photograph and its prediction, a file, a report or an audit
\* entry of theirs stays when a seeded user who owned, uploaded, approved or
\* did it goes ("RESTRICT from users", models.py:12-13).
WipeSparesOthers == [][rows \cap Theirs \subseteq rows']_seedVars

\* "Idempotent: re-running wipes the seeded rows and recreates them"
\* (seed_db.py:13-14).  Not so once a seeded user owns a project of another
\* code, or the stub model has judged somebody's photograph: the foreign keys
\* that spare those rows refuse the wipe.
SeedIsRepeatable == script = "idle" => Wiped(Now).ok
=============================================================================
