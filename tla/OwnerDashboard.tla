---------------------------- MODULE OwnerDashboard ----------------------------
(***************************************************************************)
(* The owner's pages over one project: what a page offers from the folder   *)
(* it has cached, what the API answers, and how the cache catches up with   *)
(* what the user did.                                                       *)
(*                                                                          *)
(* The project is abstracted to the caller's membership and one version per *)
(* part of it that a page lists.  A query is TanStack's: it keeps its data  *)
(* when its page is left, an invalidation restarts the fetch under way of a *)
(* query on the page and only marks one that is not, and an answer of any   *)
(* age takes the mark away.                                                 *)
(*                                                                          *)
(* External parts: the query library, the browser and the network.          *)
(***************************************************************************)
EXTENDS Integers, FiniteSets, Access

CONSTANTS
    Presses,            \* what the user will do, one press each
    Given,              \* the roles managers give in a run
    MaxMoves,           \* pages the user opens after the first
    MaxDisturbances     \* changes that others make, and requests that get lost

ASSUME DashboardAssumption ==
    /\ Given \subseteq Roles \ {"owner"}
    /\ MaxMoves \in Nat
    /\ MaxDisturbances \in Nat

VARIABLES
    myRow,      \* the caller's row of project_members
    public,     \* visibility = PUBLIC
    version,    \* version[p]: how often part p of the project changed
    page,       \* the page that is open
    moves,      \* pages opened after it
    dialog,     \* the dialog open on it
    query,      \* query[q]: what the cache holds of query q
    press,      \* press[c]: a button pressed and the mutation it started
    promised,   \* what a success let the user expect of a query (history)
    disturbed   \* changes others made and requests lost

dashboardVars ==
    <<myRow, public, version, page, moves, dialog, query, press, promised, disturbed>>

-----------------------------------------------------------------------------
Parts == {"approval", "remarks", "assets", "devices", "members", "projects",
          "invitations"}

\* approval_state, as the version of its part.
NotReady == 0
AwaitingInspection == 1
Approved == 2

\* The query hooks: what the answer of each lists.
Queries == {"folder", "mine", "invitations"}
Lists == [folder |-> Parts \ {"projects", "invitations"}, mine |-> {"projects"},
          invitations |-> {"invitations"}]

\* The routes: which query each page mounts.
Pages == {"me", "create", "manage", "devices", "members", "invitations", "another"}
Mounts(p) ==
    CASE p \in {"manage", "devices", "members"} -> {"folder"}
      [] p = "me"                               -> {"mine"}
      [] p = "invitations"                      -> {"invitations"}
      [] OTHER                                  -> {}
Mounted(q) == q \in Mounts(page)

NoDialog == [is |-> "none"]

NoData(q) == [can |-> {}, self |-> NoRow, listed |-> [p \in Lists[q] |-> -1]]

\* A fetch is asked for; the guard reads the caller's rights; the lists are
\* read after that; the answer is under way.
NotFetching == [at |-> "idle"]
Asked == [at |-> "asked"]

DashboardInit ==
    /\ myRow \in MemberRows
    /\ public \in BOOLEAN
    /\ version = [p \in Parts |-> 0]
    /\ page \in Pages \ {"another"}
    /\ moves = 0
    /\ dialog = NoDialog
    /\ query = [q \in Queries |-> [data |-> NoData(q), invalid |-> FALSE, error |-> FALSE,
                                   fetch |-> IF Mounted(q) THEN Asked ELSE NotFetching]]
    /\ press = [c \in Presses |-> [at |-> "new"]]
    /\ promised = {}
    /\ disturbed = 0

-----------------------------------------------------------------------------
(***************************************************************************)
(* What a page offers.                                                      *)
(***************************************************************************)
\* What is not addressed to the project.
OfAccount == {"create_project", "accept", "decline"}

Can(folder, permission) == permission \in folder.can

\* The dialogs of the workspace open from a button and stay open whatever
\* folder is cached after that.
Dialogs == [pairing |-> "issue_pairing_token", reporting |-> "request_report",
            approving |-> "approve_project"]

PairingModal(folder) == Can(folder, "device:manage")
ReportModal(folder) == Can(folder, "report:generate")

\* Mutant: the button is left out of the permissions block.
ApproveDialog_Anybody(folder) == folder.listed["approval"] = AwaitingInspection

ApproveDialog(folder) ==
    folder.listed["approval"] = AwaitingInspection /\ Can(folder, "project:approve")

Opens(folder, d) ==
    CASE d = "pairing"   -> PairingModal(folder)
      [] d = "reporting" -> ReportModal(folder)
      [] d = "approving" -> ApproveDialog(folder)

AssetPanel(folder, op) == op = "upload_asset" /\ Can(folder, "asset:upload")

ManageProjectPage(folder, op) ==
    \/ op = "create_remark" /\ Can(folder, "remark:write")
    \/ AssetPanel(folder, op)

DevicesPage(folder, op) ==
    op \in {"update_device", "unpair_device"} /\ Can(folder, "device:manage")

\* A role and a removal are offered of every row but the owner's, the caller's
\* own among them.
MembersPage(folder, op) ==
    /\ Can(folder, "member:manage")
    /\ \/ op \in {"invite_member", "change_member_role", "remove_member"}
       \/ /\ op \in {"change_own_role", "remove_own_row"}
          /\ folder.self # NoRow
          /\ folder.self.role # "owner"

InvitationsPage(invitations, op) ==
    op \in {"accept", "decline"} /\ invitations.self.status = "pending"

CreateProjectPage(op) == op = "create_project"

\* A page whose query failed shows the error and nothing else.
Ready(q) == query[q].data # NoData(q) /\ ~query[q].error

Offers(op) ==
    \/ page = "create" /\ CreateProjectPage(op)
    \/ page = "invitations" /\ Ready("invitations")
          /\ InvitationsPage(query["invitations"].data, op)
    \/ /\ Mounted("folder") /\ Ready("folder")
       /\ LET folder == query["folder"].data
          IN  \/ page = "manage" /\ dialog = NoDialog /\ ManageProjectPage(folder, op)
              \/ page = "manage" /\ dialog # NoDialog /\ op = Dialogs[dialog.is]
              \/ page = "devices" /\ DevicesPage(folder, op)
              \/ page = "members" /\ MembersPage(folder, op)

\* The rights an offer was made from.
ShownTo(op) ==
    IF op \in OfAccount THEN {}
    ELSE IF dialog # NoDialog THEN dialog.can ELSE query["folder"].data.can

-----------------------------------------------------------------------------
(***************************************************************************)
(* What a press sends, and which queries its hook invalidates on success.   *)
(***************************************************************************)
Mutation ==
    [create_project |-> create_project, approve_project |-> approve_project,
     create_remark |-> create_remark, upload_asset |-> upload_asset,
     invite_member |-> invite_member, change_member_role |-> change_member_role,
     remove_member |-> remove_member, change_own_role |-> change_member_role,
     remove_own_row |-> remove_member, accept |-> respond_to_invitation,
     decline |-> respond_to_invitation, issue_pairing_token |-> issue_pairing_token,
     update_device |-> update_device, unpair_device |-> unpair_device,
     request_report |-> request_report]

Operations == DOMAIN Mutation

Invalidates(op) ==
    CASE op = "create_project"        -> {"mine"}
      [] op \in {"accept", "decline"} -> {"mine", "invitations"}
      [] op = "issue_pairing_token"   -> {}
      [] OTHER                        -> {"folder"}

-----------------------------------------------------------------------------
(***************************************************************************)
(* The query cache.                                                         *)
(***************************************************************************)
Fetching(q) == query[q].fetch # NotFetching

\* query.fetch without cancelRefetch: one under way is joined.
Refetched(queries) ==
    [q \in Queries |-> IF q \in queries /\ ~Fetching(q)
                       THEN [query[q] EXCEPT !.fetch = Asked] ELSE query[q]]

\* invalidateQueries: on the page the fetch under way is cancelled for a new
\* one, unless it is the first; off the page the query is only marked.
\* Mutant: the fetch under way is joined.
Invalidated_Joins(queries) ==
    [q \in Queries |->
        IF q \notin queries THEN query[q]
        ELSE IF Mounted(q) /\ ~Fetching(q)
        THEN [query[q] EXCEPT !.invalid = TRUE, !.fetch = Asked]
        ELSE [query[q] EXCEPT !.invalid = TRUE]]

Invalidated(queries) ==
    [q \in Queries |->
        IF q \notin queries THEN query[q]
        ELSE IF Mounted(q) /\ ~(Fetching(q) /\ query[q].data = NoData(q))
        THEN [query[q] EXCEPT !.invalid = TRUE, !.fetch = Asked]
        ELSE [query[q] EXCEPT !.invalid = TRUE]]

\* A page is opened: a query it mounts is fetched if it has no data, is marked
\* or is older than staleTime.
Navigate(p) ==
    /\ p # page
    /\ moves < MaxMoves
    /\ moves' = moves + 1
    /\ page' = p
    /\ dialog' = NoDialog
    /\ \E stale \in SUBSET Mounts(p) :
          /\ \A q \in Mounts(p) :
                query[q].data = NoData(q) \/ query[q].invalid => q \in stale
          /\ query' = Refetched(stale)
    /\ UNCHANGED <<myRow, public, version, press, promised, disturbed>>

\* refetchInterval of the folder.
Poll ==
    /\ Mounted("folder")
    /\ ~Fetching("folder")
    /\ query' = Refetched({"folder"})
    /\ UNCHANGED <<myRow, public, version, page, moves, dialog, press, promised, disturbed>>

\* An event that adds to a list (useRealtime is mounted by the workspace
\* alone).  The patches of numbers are in RealtimePush.
EventArrives ==
    /\ page = "manage"
    /\ query' = Invalidated({"folder"})
    /\ UNCHANGED <<myRow, public, version, page, moves, dialog, press, promised, disturbed>>

\* A patch of the folder counts as an answer of it.  After a fetch that was
\* lost it passes for the answer of that fetch: nothing is promised of the
\* folder then, until the next poll.
StillPromised ==
    {x \in promised : x.query = "folder" => Fetching("folder") \/ ~query["folder"].error}

FolderPatched(listed) ==
    LET folder == query["folder"]
    IN  /\ page = "manage" /\ folder.data # NoData("folder")
        /\ query' = [query EXCEPT !["folder"] =
                        [folder EXCEPT !.data = [folder.data EXCEPT !.listed = listed],
                                       !.invalid = FALSE, !.error = FALSE]]
        /\ UNCHANGED <<myRow, public, version, page, moves, dialog, press, disturbed>>

\* progress.updated and project.status.changed: no list is touched.
NumbersPatched ==
    /\ FolderPatched(query["folder"].data.listed)
    /\ promised' = StillPromised

\* project.approval.required may arrive after the inspection it asks for, and
\* then hides it until the next poll: nothing is promised of the approval then.
ApprovalAnnounced ==
    /\ version["approval"] >= AwaitingInspection
    /\ FolderPatched([query["folder"].data.listed EXCEPT !["approval"] = AwaitingInspection])
    /\ promised' = {x \in StillPromised : x.part # "approval"}

-----------------------------------------------------------------------------
(***************************************************************************)
(* What a fetch reads.                                                      *)
(***************************************************************************)
FetchIs(q, fetch) == query' = [query EXCEPT ![q].fetch = fetch]
Listed(q) == [p \in Lists[q] |-> version[p]]

\* get_access_context: the caller's rights are read before anything else.
GuardReads ==
    /\ query["folder"].fetch = Asked
    /\ FetchIs("folder", IF can_view_project(myRow, public)
                         THEN [at |-> "guarded", can |-> Held(myRow, public)]
                         ELSE [at |-> "refused"])
    /\ UNCHANGED <<myRow, public, version, page, moves, dialog, press, promised, disturbed>>

\* GetProjectFolder and present_folder: the lists, in statements of their own,
\* and the rights the guard read.
FolderReads ==
    /\ query["folder"].fetch.at = "guarded"
    /\ FetchIs("folder", [at |-> "answered",
                          data |-> [can |-> query["folder"].fetch.can,
                                    self |-> myRow, listed |-> Listed("folder")]])
    /\ UNCHANGED <<myRow, public, version, page, moves, dialog, press, promised, disturbed>>

\* list_for_user and list_pending_for_user.
ListReads(q) ==
    /\ q # "folder"
    /\ query[q].fetch = Asked
    /\ FetchIs(q, [at |-> "answered",
                   data |-> [can |-> {},
                             self |-> IF q = "invitations" /\ myRow.status = "pending"
                                      THEN myRow ELSE NoRow,
                             listed |-> Listed(q)]])
    /\ UNCHANGED <<myRow, public, version, page, moves, dialog, press, promised, disturbed>>

\* The answer is cached, whenever the fetch was sent.
Cached(q) ==
    /\ query[q].fetch.at = "answered"
    /\ query' = [query EXCEPT ![q] = [data |-> query[q].fetch.data, invalid |-> FALSE,
                                      error |-> FALSE, fetch |-> NotFetching]]
    /\ UNCHANGED <<myRow, public, version, page, moves, dialog, press, promised, disturbed>>

\* A failed attempt is made again while the page is open, or given up.
AttemptFails(q) ==
    \/ Mounted(q) /\ FetchIs(q, Asked)
    \/ query' = [query EXCEPT ![q].error = TRUE, ![q].fetch = NotFetching]

FetchRefused(q) ==
    /\ query[q].fetch.at = "refused"
    /\ AttemptFails(q)
    /\ UNCHANGED <<myRow, public, version, page, moves, dialog, press, promised, disturbed>>

FetchLost(q) ==
    /\ Fetching(q)
    /\ disturbed < MaxDisturbances
    /\ disturbed' = disturbed + 1
    /\ AttemptFails(q)
    /\ UNCHANGED <<myRow, public, version, page, moves, dialog, press, promised>>

-----------------------------------------------------------------------------
(***************************************************************************)
(* A press, its request, and its answer.                                    *)
(***************************************************************************)
OpenDialog(d) ==
    /\ page = "manage" /\ Ready("folder") /\ dialog = NoDialog
    /\ Opens(query["folder"].data, d)
    /\ dialog' = [is |-> d, can |-> query["folder"].data.can]
    /\ UNCHANGED <<myRow, public, version, page, moves, query, press, promised,
                   disturbed>>

CloseDialog ==
    /\ dialog # NoDialog
    /\ dialog' = NoDialog
    /\ UNCHANGED <<myRow, public, version, page, moves, query, press, promised,
                   disturbed>>

Press(c, op) ==
    /\ press[c].at = "new"
    /\ Offers(op)
    /\ press' = [press EXCEPT ![c] =
                    [at |-> "sent", op |-> op, page |-> page,
                     shown |-> ShownTo(op)]]
    /\ UNCHANGED <<myRow, public, version, page, moves, dialog, query, promised, disturbed>>

Changed(parts) == [p \in Parts |-> IF p \in parts THEN version[p] + 1 ELSE version[p]]

\* The handler's own refusals.
Verdict(op) ==
    CASE op \in {"accept", "decline"} /\ myRow.status # "pending"                -> "conflict"
      [] op = "approve_project" /\ version["approval"] # AwaitingInspection      -> "conflict"
      [] op = "remove_own_row"                                                   -> "own row"
      [] OTHER                                                                   -> "done"

\* RespondToInvitation, and a manager's change of the own row.
MyRowAfter(op) ==
    CASE op = "accept"            -> {[myRow EXCEPT !.status = "accepted"]}
      [] op = "decline"           -> {NoRow}
      [] op = "change_own_role"   -> {[myRow EXCEPT !.role = r] : r \in Given}
      [] OTHER                    -> {myRow}

\* The guard and the handler, in one transaction.  Rights that change between
\* the two are left out: the press would go through on rights just lost, and
\* RefusedIsOutOfDate speaks of the guard's answer.  So are the conflicts of an
\* invitation to somebody invited already, which change nothing.
Serve(c) ==
    /\ press[c].at = "sent"
    /\ LET op == press[c].op
           admitted == IF op \in OfAccount THEN "let in"
                       ELSE Admitted(Mutation[op], myRow, public)
           verdict == IF admitted = "let in" THEN Verdict(op) ELSE admitted
           changes == Mutation[op].changes
       IN  /\ IF verdict = "done"
              THEN version' = Changed(changes) /\ myRow' \in MyRowAfter(op)
              ELSE UNCHANGED <<version, myRow>>
           /\ press' = [press EXCEPT ![c] =
                           [at |-> "served", op |-> op, page |-> press[c].page,
                            shown |-> press[c].shown, verdict |-> verdict,
                            held |-> Held(myRow, public),
                            made |-> [p \in changes |-> version'[p]]]]
    /\ UNCHANGED <<public, page, moves, dialog, query, promised, disturbed>>

\* A mutation is not sent again.
PressLost(c) ==
    /\ press[c].at \in {"sent", "served"}
    /\ disturbed < MaxDisturbances
    /\ disturbed' = disturbed + 1
    /\ press' = [press EXCEPT ![c] = [at |-> "over"]]
    /\ UNCHANGED <<myRow, public, version, page, moves, dialog, query, promised>>

\* onSuccess of the hook, wherever the user is by now, then that of the page.
Answered(c) ==
    /\ press[c].at = "served"
    /\ LET done == press[c].verdict = "done"
           op == press[c].op
       IN  /\ query' = IF done THEN Invalidated(Invalidates(op)) ELSE query
           /\ promised' =
                promised \cup
                {[query |-> q, part |-> p, version |-> press[c].made[p],
                  here |-> Mounted(q) /\ q \in Mounts(press[c].page)] :
                    q \in IF done THEN Queries ELSE {}, p \in DOMAIN press[c].made}
           /\ page' = IF done /\ op = "create_project" /\ page = "create"
                      THEN "another" ELSE page
           /\ dialog' = IF done /\ dialog # NoDialog /\ Dialogs[dialog.is] = op
                        THEN NoDialog ELSE dialog
    /\ press' = [press EXCEPT ![c] = [at |-> "over"]]
    /\ UNCHANGED <<myRow, public, version, moves, disturbed>>

-----------------------------------------------------------------------------
(***************************************************************************)
(* What others do meanwhile to the caller's rights and to the approval.     *)
(* What else they change only raises a version.                             *)
(***************************************************************************)
Elsewhere(parts) ==
    /\ disturbed < MaxDisturbances
    /\ disturbed' = disturbed + 1
    /\ version' = Changed(parts)
    /\ UNCHANGED <<page, moves, dialog, query, press, promised>>

\* The model reaches its ceiling; somebody else inspects.
ApprovalMoves ==
    /\ version["approval"] < Approved
    /\ Elsewhere({"approval", "projects"})
    /\ UNCHANGED <<myRow, public>>

set_visibility ==
    /\ public' = ~public
    /\ Elsewhere({"projects"})
    /\ UNCHANGED myRow

\* InviteMember, ChangeMemberRole and RemoveMember of the caller's row.
RowMoves ==
    /\ myRow.role # "owner"
    /\ myRow' \in (IF myRow = NoRow
                   THEN [role : Given, status : {"pending"}]
                   ELSE [role : Given, status : {myRow.status}] \cup {NoRow})
    /\ myRow' # myRow
    /\ Elsewhere({"members", "projects", "invitations"})
    /\ UNCHANGED public

-----------------------------------------------------------------------------
DashboardNext ==
    \/ \E p \in Pages : Navigate(p)
    \/ Poll \/ EventArrives \/ NumbersPatched \/ ApprovalAnnounced
    \/ CloseDialog \/ \E d \in DOMAIN Dialogs : OpenDialog(d)
    \/ GuardReads \/ FolderReads
    \/ \E q \in Queries : ListReads(q) \/ Cached(q) \/ FetchRefused(q) \/ FetchLost(q)
    \/ \E c \in Presses : \/ \E op \in Operations : Press(c, op)
                          \/ Serve(c) \/ PressLost(c) \/ Answered(c)
    \/ ApprovalMoves \/ set_visibility \/ RowMoves

DashboardSpec == DashboardInit /\ [][DashboardNext]_dashboardVars

-----------------------------------------------------------------------------
(***************************************************************************)
(* What the pages promise.                                                  *)
(***************************************************************************)
\* Every button is rendered from the permissions block (owner.ts:4-8): a press
\* is refused for want of a permission only if the caller's rights changed
\* after the folder it was offered from was read.  The block, the button and
\* the endpoint name one permission, whatever the role, the status of the
\* membership and the visibility.
RefusedIsOutOfDate ==
    \A c \in Presses :
        press[c].at = "served" /\ press[c].verdict \in {"forbidden", "not found"} =>
            press[c].shown # press[c].held

\* "offering them is a lie" (owner-pages.tsx:4-6): nothing a page offers from
\* rights the caller still has comes back 403.  The roster offers a manager the
\* removal of the own row, which RemoveMember refuses (members.py:269-273).
OfferedIsAllowed ==
    \A c \in Presses :
        press[c].at = "served" /\ press[c].verdict \in {"forbidden", "not found", "own row"} =>
            press[c].shown # press[c].held

Stands(promise) ==
    LET q == promise.query
    IN  /\ promise.part \in Lists[q]
        /\ Mounted(q) /\ Ready(q) /\ ~Fetching(q)

Kept(promise) == query[promise.query].data.listed[promise.part] >= promise.version

\* When a success was answered and nothing is being fetched, the page it was
\* done on shows it: a fetch that read before it neither hides it nor passes
\* for the one that follows it (owner.ts:187-330).
OwnActionShows == \A x \in promised : Stands(x) /\ x.here => Kept(x)

\* The same of every page opened later.  The code does not ensure it: a list
\* still being fetched when its page was left is only marked, and the answer
\* takes the mark away; an approval does not mark the list of projects.
OwnActionShowsEverywhere == \A x \in promised : Stands(x) => Kept(x)

\* The permissions block is consistent with the data beside it
\* (projects.py:77-81).  The code does not ensure it: the guard and the lists
\* are statements of their own at READ COMMITTED.
BlockMatchesRoster ==
    Ready("folder") =>
        LET data == query["folder"].data
        IN  resolve_permissions(data.self) = data.can \ {"project:view"}
            \/ resolve_permissions(data.self) = data.can
=============================================================================
