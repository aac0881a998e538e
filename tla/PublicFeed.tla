------------------------------ MODULE PublicFeed ------------------------------
(***************************************************************************)
(* The homepage feed: a visitor walks the public projects page by page with *)
(* a cursor while projects are created, published, withdrawn, photographed  *)
(* and change status.                                                       *)
(*                                                                          *)
(* A project's id is a number that compares as the UUID does; a stamp is an *)
(* instant, and several projects may share one.  The search term is left    *)
(* out: like the two filters it is fixed for a walk, and it only makes a    *)
(* project listed or not.                                                   *)
(***************************************************************************)
EXTENDS Integers, Sequences, FiniteSets

CONSTANTS
    Ids,        \* the projects there may be
    Limit,      \* cards on a page
    MaxStamp,   \* instants
    MaxChanges  \* changes to the projects after the first page

ASSUME FeedAssumption ==
    /\ Ids \subseteq Nat /\ IsFiniteSet(Ids)
    /\ Limit \in Nat \ {0}
    /\ MaxStamp \in Nat
    /\ MaxChanges \in Nat

VARIABLES
    project,    \* project[i]: the row of project i
    filter,     \* the status asked for
    cursor,     \* the one the next request carries
    pages,      \* the pages shown, in order
    changes,    \* changes made during the walk
    unlisted,   \* projects that were not listed at some point of the walk (history)
    shifted     \* projects whose sort key changed during the walk (history)

feedVars == <<project, filter, cursor, pages, changes, unlisted, shifted>>

-----------------------------------------------------------------------------
Stamps == 0..MaxStamp
Never == -1

\* No row: a project that is not created yet.
NoProject == [public |-> FALSE, status |-> "none", created |-> Never, captured |-> Never]

ProjectRows ==
    [public : BOOLEAN, status : {"active", "inactive", "archived"},
     created : Stamps, captured : Stamps \cup {Never}]

\* _public_filter and the filters of the request.  Archiving sets the status
\* and the time together.
_public_filter(row, status) ==
    /\ row.public
    /\ row.status \notin {"none", "archived"}
    /\ status # "any" => row.status = status

\* coalesce(last_capture_at, created_at)
sort_key(row) == IF row.captured # Never THEN row.captured ELSE row.created

ListedIn(rows) == {i \in Ids : _public_filter(rows[i], filter)}

\* The order of the feed: latest activity first, the id breaks a tie.
Before(i, j) ==
    \/ sort_key(project[i]) > sort_key(project[j])
    \/ sort_key(project[i]) = sort_key(project[j]) /\ i > j

-----------------------------------------------------------------------------
Start == [at |-> "start"]
Ended == [at |-> "end"]

\* The cursor carries what the last row would be sorted by, and its id.
_encode_cursor(i) ==
    [at |-> "after", id |-> i,
     moment |-> IF project[i].captured # Never THEN project[i].captured
                ELSE project[i].created]

\* Mutant: a tie with the cursor is beyond it.
After_SkipsTies(c, i) == c = Start \/ sort_key(project[i]) < c.moment

After(c, i) ==
    \/ c = Start
    \/ sort_key(project[i]) < c.moment
    \/ sort_key(project[i]) = c.moment /\ i < c.id

\* The first rows of the order, at most n of them.
FirstRows(n, rows) ==
    [k \in 1..IF Cardinality(rows) < n THEN Cardinality(rows) ELSE n |->
        CHOOSE i \in rows : Cardinality({j \in rows : Before(j, i)}) = k - 1]

list_public_feed ==
    LET matching == {i \in ListedIn(project) : After(cursor, i)}
        fetched == FirstRows(Limit + 1, matching)
        more == Len(fetched) > Limit
        shown == IF more THEN SubSeq(fetched, 1, Limit) ELSE fetched
    IN  [items |-> shown,
         next |-> IF more THEN _encode_cursor(shown[Limit]) ELSE Ended]

-----------------------------------------------------------------------------
FeedInit ==
    /\ project \in [Ids -> ProjectRows \cup {NoProject}]
    /\ filter \in {"any", "active"}
    /\ cursor = Start
    /\ pages = << >>
    /\ changes = 0
    /\ unlisted = {}
    /\ shifted = {}

\* public_feed, in one statement.
public_feed ==
    /\ cursor # Ended
    /\ pages' = Append(pages, list_public_feed.items)
    /\ cursor' = list_public_feed.next
    /\ unlisted' = IF cursor = Start THEN Ids \ ListedIn(project) ELSE unlisted
    /\ UNCHANGED <<project, filter, changes, shifted>>

\* A cursor that does not decode reads from the beginning: the walk begins anew.
StartsOver ==
    /\ pages # << >>
    /\ cursor' = Start
    /\ pages' = << >>
    /\ changes' = 0
    /\ unlisted' = {}
    /\ shifted' = {}
    /\ UNCHANGED <<project, filter>>

-----------------------------------------------------------------------------
(***************************************************************************)
(* What happens to the projects during a walk.                              *)
(***************************************************************************)
Becomes(i, row) ==
    /\ pages # << >> /\ cursor # Ended
    /\ changes < MaxChanges
    /\ row # project[i]
    /\ project' = [project EXCEPT ![i] = row]
    /\ changes' = changes + 1
    /\ unlisted' = IF _public_filter(row, filter) THEN unlisted ELSE unlisted \cup {i}
    /\ shifted' = IF sort_key(row) # sort_key(project[i]) THEN shifted \cup {i} ELSE shifted
    /\ UNCHANGED <<filter, cursor, pages>>

Exists(i) == project[i] # NoProject

\* The row is stamped with the present, the latest instant.
CreateProject(i) ==
    /\ ~Exists(i)
    /\ \E public \in BOOLEAN :
          Becomes(i, [public |-> public, status |-> "active",
                      created |-> MaxStamp, captured |-> Never])

\* IngestImage, which takes photographs of an archived project too: the activity
\* moves forward; the first photograph may be older than the project.
Capture(i) ==
    /\ Exists(i)
    /\ \E stamp \in Stamps :
          /\ stamp > project[i].captured
          /\ Becomes(i, [project[i] EXCEPT !.captured = stamp])

SetVisibility(i) ==
    Exists(i) /\ Becomes(i, [project[i] EXCEPT !.public = ~@])

ArchiveProject(i) ==
    /\ Exists(i)
    /\ project[i].status # "archived"
    /\ Becomes(i, [project[i] EXCEPT !.status = "archived"])

\* refresh_statuses and the folder's own refresh.
refresh_status(i) ==
    /\ Exists(i)
    /\ project[i].status # "archived"
    /\ \E status \in {"active", "inactive"} :
          Becomes(i, [project[i] EXCEPT !.status = status])

FeedNext ==
    \/ public_feed
    \/ StartsOver
    \/ \E i \in Ids : CreateProject(i) \/ Capture(i) \/ SetVisibility(i)
                         \/ ArchiveProject(i) \/ refresh_status(i)

FeedSpec == FeedInit /\ [][FeedNext]_feedVars

-----------------------------------------------------------------------------
Shows(i) == Cardinality({k \in DOMAIN pages : \E n \in DOMAIN pages[k] : pages[k][n] = i})

\* A walk neither skips nor repeats a project that was there throughout
\* (public.py:77-78): whatever is published, withdrawn or photographed
\* meanwhile, a project listed from the first page to the last and not itself
\* moved is on one page of the walk, also when it shares its stamp with the
\* project the cursor stands on.
StillIsSeen ==
    cursor = Ended => \A i \in Ids \ (unlisted \cup shifted) : Shows(i) = 1

\* The same of a project photographed during the walk.  The code does not
\* ensure it: the photograph takes a project the visitor has not reached to
\* the head of a feed that is read downwards.
PhotographedIsSeen == cursor = Ended => \A i \in Ids \ unlisted : Shows(i) = 1
=============================================================================
