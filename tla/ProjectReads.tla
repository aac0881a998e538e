----------------------------- MODULE ProjectReads -----------------------------
(***************************************************************************)
(* What a caller is answered who reads: the endpoints that show a project,  *)
(* its parts and its lists, and what a socket may follow.  An answer is a   *)
(* function of the committed database; what a read writes on the side, the  *)
(* status it refreshes, is in ProjectProgress.                              *)
(*                                                                         *)
(* A database is a record of tables, a table a set of rows.  An image row   *)
(* stands for itself and its current prediction, an asset row for itself    *)
(* and whether its bytes are stored; `at` stands for the columns that a     *)
(* list is sorted by.                                                       *)
(***************************************************************************)
EXTENDS Naturals, FiniteSets, Access

CONSTANTS
    Nobody,         \* the caller without an account
    Unscored,       \* the verdict on an image that has no prediction
    RecentLimit,    \* RECENT_IMAGE_LIMIT
    TimelineLimit   \* TIMELINE_LIMIT

Ok(body) == [code |-> 200, body |-> body]
Unauthenticated == [code |-> 401]
Forbidden == [code |-> 403]
NotFound(what) == [code |-> 404, what |-> what]
Conflict == [code |-> 409]

-----------------------------------------------------------------------------
(* Queries *)

Knows(table, id) == \E r \in table : r.id = id
Get(table, id) == CHOOSE r \in table : r.id = id
Of(table, p) == {r \in table : r.project = p}
Ids(rows) == {r.id : r \in rows}

\* The n that come first when the latest is first.
Newest(rows, n) == {r \in rows : Cardinality({s \in rows : s.at > r.at}) < n}

get_membership(db, p, u) ==
    LET found == {m \in db.members : m.project = p /\ m.user = u}
    IN  IF u = Nobody \/ found = {} THEN NoRow
        ELSE LET m == CHOOSE m \in found : TRUE IN [role |-> m.role, status |-> m.status]

\* What every public read is restricted to: `archived` by date or by status.
IsPublished(project) == project.public /\ ~project.archived
Published(db) == {p \in db.projects : IsPublished(p)}

Handles(db, p, u) ==
    \/ p.owner = u
    \/ \E m \in db.members : m.project = p.id /\ m.user = u /\ m.status = "accepted"

list_for_user(db, u) == {p \in db.projects : Handles(db, p, u)}
list_public_for_user(db, u) == {p \in Published(db) : Handles(db, p, u)}

-----------------------------------------------------------------------------
(* The caller and what they may see *)

get_optional_user(db, token) ==
    IF token.verifies /\ Knows(db.accounts, token.subject) /\ Get(db.accounts, token.subject).active
    THEN token.subject ELSE Nobody

get_current_user(u, answer) == IF u = Nobody THEN Unauthenticated ELSE answer

CanView(db, p, u) ==
    Knows(db.projects, p) /\ can_view_project(get_membership(db, p, u), Get(db.projects, p).public)

Rights(db, p, u) == Held(get_membership(db, p, u), Get(db.projects, p).public)

get_access_context(db, p, u, answer) == IF CanView(db, p, u) THEN answer ELSE NotFound("project")

\* A row that is named beside the project it is looked for in.
OfProject(table, p, id) == Knows(table, id) /\ Get(table, id).project = p

-----------------------------------------------------------------------------
(* The folder of a project, and its page in public *)

\* `shown` is "public" where the code passes public_only, and "all" elsewhere.
GetProjectFolder(db, p, shown) ==
    [project |-> Get(db.projects, p),
     owner |-> Get(db.accounts, Get(db.projects, p).owner),
     members |-> Of(db.members, p),
     devices |-> Of(db.devices, p),
     recent_images |-> Newest(Of(db.images, p), RecentLimit),
     remarks |-> {r \in Of(db.remarks, p) : shown = "public" => r.public},
     assets |-> {a \in Of(db.assets, p) : shown = "public" => a.public},
     timeline |-> Newest(Of(db.snapshots, p), TimelineLimit)]

present_folder(folder, rights) ==
    [project |-> folder.project, members |-> folder.members, devices |-> folder.devices,
     recent_images |-> folder.recent_images, remarks |-> folder.remarks,
     assets |-> folder.assets, timeline |-> folder.timeline, permissions |-> rights]

\* The handler is named, but for their full name, whatever their profile.
is_public(account) == account.public /\ account.active
present_public_project(folder) ==
    [progress |-> folder.project.progress,
     handler |-> folder.owner.id,
     handler_is_public |-> is_public(folder.owner),
     recent_images |-> folder.recent_images, remarks |-> folder.remarks,
     timeline |-> folder.timeline]

get_project_folder(db, p, u) ==
    get_access_context(db, p, u,
        Ok(present_folder(GetProjectFolder(db, p, "all"), Rights(db, p, u))))

get_public_by_code(db, p, answer) ==
    IF Knows(Published(db), p) THEN answer ELSE NotFound("project")

public_project(db, p) ==
    get_public_by_code(db, p, Ok(present_public_project(GetProjectFolder(db, p, "public"))))
public_timeline(db, p) == get_public_by_code(db, p, Ok(Of(db.snapshots, p)))

-----------------------------------------------------------------------------
(* The parts of a project *)

list_members(db, p, u) == get_access_context(db, p, u, Ok(Of(db.members, p)))
list_devices(db, p, u) == get_access_context(db, p, u, Ok(Of(db.devices, p)))
list_assets(db, p, u) == get_access_context(db, p, u, Ok(Of(db.assets, p)))
list_remarks(db, p, u) == get_access_context(db, p, u, Ok(Of(db.remarks, p)))
list_reports(db, p, u, limit) == get_access_context(db, p, u, Ok(Newest(Of(db.reports, p), limit)))

download_asset(db, p, u, a) ==
    get_access_context(db, p, u,
        IF ~OfProject(db.assets, p, a) THEN NotFound("asset")
        ELSE IF Get(db.assets, a).stored THEN Ok(Get(db.assets, a)) ELSE NotFound("file"))

GetReport(db, p, r) ==
    IF OfProject(db.reports, p, r) THEN Ok(Get(db.reports, r)) ELSE NotFound("report")
get_report(db, p, u, r) == get_access_context(db, p, u, GetReport(db, p, r))

\* A report is ready together with its document.
DownloadReport(db, p, r) ==
    IF ~OfProject(db.reports, p, r) THEN NotFound("report")
    ELSE IF Get(db.reports, r).status = "ready" THEN Ok(Get(db.reports, r)) ELSE Conflict
download_report(db, p, u, r) ==
    get_access_context(db, p, u, get_current_user(u,
        IF "report:generate" \in Rights(db, p, u)
        THEN DownloadReport(db, p, r) ELSE Forbidden))

\* The latest snapshot; the value of the project only where there is none.
latest(series) == CHOOSE s \in series : \A x \in series : x.at <= s.at
GetProjectProgress(db, p) ==
    LET series == Of(db.snapshots, p)
    IN  IF series = {} THEN [displayed |-> Get(db.projects, p).progress, has_data |-> FALSE]
        ELSE [displayed |-> latest(series).displayed, has_data |-> TRUE]
get_progress(db, p, u) == get_access_context(db, p, u, Ok(GetProjectProgress(db, p)))

get_timeline(db, p, u, since, until) ==
    get_access_context(db, p, u, Ok({s \in Of(db.snapshots, p) : since <= s.at /\ s.at <= until}))

get_image_detail(db, p, u, i) == get_access_context(db, p, u,
    IF OfProject(db.images, p, i) THEN Ok(Get(db.images, i)) ELSE NotFound("image"))

get_image_prediction(db, p, u, i) ==
    get_access_context(db, p, u,
        IF ~OfProject(db.images, p, i) THEN NotFound("image")
        ELSE IF Get(db.images, i).verdict = Unscored THEN NotFound("prediction")
        ELSE Ok(Get(db.images, i).verdict))

\* The page after a capture, or the first page.
GetProjectHistory(db, p, cursor, limit) == Newest({i \in Of(db.images, p) : i.at < cursor}, limit)
get_project_history(db, p, u, cursor, limit) ==
    get_access_context(db, p, u, Ok(GetProjectHistory(db, p, cursor, limit)))

-----------------------------------------------------------------------------
(* Lists of projects and of people; `matches` is what a search word fits *)

my_projects(db, u) == get_current_user(u, Ok(list_for_user(db, u)))
my_invitations(db, u) ==
    get_current_user(u, Ok({m \in db.members : m.user = u /\ m.status = "pending"}))

SearchUsers(db, matches) == {a \in db.accounts : is_public(a) /\ a.id \in matches}
search(db, matches) ==
    Ok([projects |-> {p \in Published(db) : p.id \in matches}, users |-> SearchUsers(db, matches)])

Private(account) == [username |-> account.id, is_private |-> TRUE, projects |-> {}]
GetPublicProfile(db, name, u) ==
    LET account == Get(db.accounts, name)
    IN  IF u = name \/ is_public(account)
        THEN [username |-> name, is_private |-> FALSE, projects |-> list_public_for_user(db, name)]
        ELSE Private(account)
public_profile(db, name, u) ==
    IF Knows(db.accounts, name) THEN Ok(GetPublicProfile(db, name, u)) ELSE NotFound("user")

-----------------------------------------------------------------------------
(* The socket: what it is told it may follow when it connects, and which of  *)
(* what it asks for later it gets.  `cached` is what it was told, of the      *)
(* database as it was then (ws.py:81); of what is in it nothing is read again *)
(* (ws.py:208).                                                               *)
Subscribable(db, u) == Ids(list_for_user(db, u))
_authorize(db, requested, cached, u) ==
    (requested \cap cached) \cup {p \in requested \ cached : CanView(db, p, u)}

-----------------------------------------------------------------------------
\* All that u reads in one state, of project q, of the row and the account x
\* names, and of no project in particular; with a socket that was told nothing
\* in another state.
Reads(db, q, u, x) ==
    [folder |-> get_project_folder(db, q, u),
     page |-> public_project(db, q), chart |-> public_timeline(db, q),
     members |-> list_members(db, q, u), devices |-> list_devices(db, q, u),
     assets |-> list_assets(db, q, u), asset |-> download_asset(db, q, u, x.row),
     remarks |-> list_remarks(db, q, u), reports |-> list_reports(db, q, u, x.limit),
     report |-> get_report(db, q, u, x.row), download |-> download_report(db, q, u, x.row),
     progress |-> get_progress(db, q, u), timeline |-> get_timeline(db, q, u, x.since, x.until),
     image |-> get_image_detail(db, q, u, x.row), verdict |-> get_image_prediction(db, q, u, x.row),
     history |-> get_project_history(db, q, u, x.cursor, x.limit),
     mine |-> my_projects(db, u), invitations |-> my_invitations(db, u),
     found |-> search(db, x.matches), profile |-> public_profile(db, x.name, u),
     subscribable |-> Subscribable(db, u), granted |-> _authorize(db, {q}, {}, u)]

\* u may not see p, and was not asked to join it.
IsHidden(db, p, u) ==
    /\ ~CanView(db, p, u)
    /\ get_membership(db, p, u).status # "pending"

\* The databases differ at most in project p and what hangs on it.
Besides(table, p) == table \ Of(table, p)
AlikeBesides(d, e, p) ==
    /\ d.accounts = e.accounts
    /\ {r \in d.projects : r.id # p} = {r \in e.projects : r.id # p}
    /\ Besides(d.members, p) = Besides(e.members, p)
    /\ Besides(d.images, p) = Besides(e.images, p)
    /\ Besides(d.devices, p) = Besides(e.devices, p)
    /\ Besides(d.remarks, p) = Besides(e.remarks, p)
    /\ Besides(d.assets, p) = Besides(e.assets, p)
    /\ Besides(d.reports, p) = Besides(e.reports, p)
    /\ Besides(d.snapshots, p) = Besides(e.snapshots, p)

-----------------------------------------------------------------------------
(* What the constraints of the database and its writers keep: keys, and the  *)
(* accepted row of an owner, which is made with the project and is neither   *)
(* changed nor removed.                                                      *)
IsKeyed(table) == \A r, s \in table : r.id = s.id => r = s

IsDatabase(db) ==
    /\ IsKeyed(db.accounts) /\ IsKeyed(db.projects) /\ IsKeyed(db.images)
    /\ IsKeyed(db.assets) /\ IsKeyed(db.reports)
    /\ \A m, n \in db.members : m.project = n.project /\ m.user = n.user => m = n
    /\ \A m \in db.members : m.role \in Roles /\ Knows(db.accounts, m.user)
    /\ \A p \in db.projects : p.public \in BOOLEAN /\ Knows(db.accounts, p.owner)
    /\ \A p \in db.projects :
         \E m \in db.members : m.project = p.id /\ m.user = p.owner /\ m.status = "accepted"
    /\ ~Knows(db.accounts, Nobody)
=============================================================================
