------------------------------ MODULE ProjectTeam ------------------------------
(***************************************************************************)
(* The collaborators of one project and the reference assets they attach.   *)
(*                                                                          *)
(* A request is let in on what the caller's membership allowed then         *)
(* (AccessContext), loads the row it is about, and writes when it commits;  *)
(* other requests commit in between.  A membership row is named by the id   *)
(* it got when it was inserted, and a user has at most one                  *)
(* (uq_project_members_project_user).                                       *)
(*                                                                          *)
(* An asset is a row and a blob in the object store, which no transaction   *)
(* covers.                                                                  *)
(***************************************************************************)
EXTENDS Integers, FiniteSets

CONSTANTS
    Users,          \* accounts
    Creator,        \* the account that created the project
    Assets,         \* ids of files to attach
    Requests,       \* HTTP requests in flight at one time
    MaxInvitations, \* membership rows that may be inserted after the owner's
    MaxFaults       \* stores that refuse, commits that fail

ASSUME TeamAssumption ==
    /\ Creator \in Users
    /\ MaxInvitations \in Nat
    /\ MaxFaults \in Nat

VARIABLES
    member,     \* member[u]: the project_members row of user u, or NoMember
    lastId,     \* the last id given to a membership row
    agreed,     \* agreed[u]: ids of the invitations user u accepted (history)
    asset,      \* the assets that have a committed row
    blob,       \* the assets whose bytes are in the store
    undone,     \* assets whose deletion was rolled back (history)
    req,        \* req[r]: what request r loaded, while it is in flight
    faults

vars == <<member, lastId, agreed, asset, blob, undone, req, faults>>

-----------------------------------------------------------------------------
\* Two roles stand for the six that can be given: one may manage members and
\* upload, the other may only look.
GivenRoles == {"manager", "viewer"}
TeamRoles == GivenRoles \cup {"owner"}
RowIds == 0 .. MaxInvitations

Members == [id : RowIds, role : TeamRoles, status : {"pending", "accepted"}]
NoMember == [status |-> "none"]

Idle == [op |-> "idle"]
Inflight ==
    [op : {"invite"}, user : Users, role : GivenRoles]
    \cup [op : {"save"}, user : Users, loaded : Members, entity : Members]
    \cup [op : {"delete"}, user : Users, loaded : Members]
    \cup [op : {"upload", "unlink", "unlinked"}, asset : Assets]

TypeOK ==
    /\ member \in [Users -> Members \cup {NoMember}]
    /\ lastId \in RowIds
    /\ agreed \in [Users -> SUBSET RowIds]
    /\ asset \subseteq Assets
    /\ blob \subseteq Assets
    /\ undone \subseteq Assets
    /\ req \in [Requests -> Inflight \cup {Idle}]
    /\ faults \in 0 .. MaxFaults

\* CreateProject inserts the owner's membership with the project.
Init ==
    /\ member = [u \in Users |->
                    IF u = Creator THEN [id |-> 0, role |-> "owner", status |-> "accepted"]
                                   ELSE NoMember]
    /\ lastId = 0
    /\ agreed = [u \in Users |-> IF u = Creator THEN {0} ELSE {}]
    /\ asset = {}
    /\ blob = {}
    /\ undone = {}
    /\ req = [r \in Requests |-> Idle]
    /\ faults = 0

-----------------------------------------------------------------------------
Has(u) == member[u] # NoMember
\* Mutant: a membership is found by its user, not by its id.
Holds_OfUser(u, id) == Has(u)

Holds(u, id) == Has(u) /\ member[u].id = id

\* resolve_permissions: an invitation confers nothing until it is accepted.
MayManage(u) == member[u].status = "accepted" /\ member[u].role \in {"owner", "manager"}

\* count_by_role(OWNER)
Owners == {u \in Users : member[u].status = "accepted" /\ member[u].role = "owner"}

\* ChangeMemberRole and RemoveMember refuse to touch the last owner.
LastOwnerIsSpared(u) == member[u].role = "owner" => Cardinality(Owners) > 1

Starts(r, request) == req[r] = Idle /\ req' = [req EXCEPT ![r] = request]
Answer(r) == req' = [req EXCEPT ![r] = Idle]
Fault == faults < MaxFaults /\ faults' = faults + 1

-----------------------------------------------------------------------------
(***************************************************************************)
(* What a request reads.                                                    *)
(***************************************************************************)
\* InviteMember: nobody who is a member or invited already.
Invite(r, actor, u, role) ==
    /\ MayManage(actor)
    /\ ~Has(u)
    /\ lastId + Cardinality({q \in Requests : req[q].op = "invite"}) < MaxInvitations
    /\ Starts(r, [op |-> "invite", user |-> u, role |-> role])
    /\ UNCHANGED <<member, lastId, agreed, asset, blob, undone, faults>>

\* RespondToInvitation: the invitee alone, and once.
Respond(r, u, accept) ==
    /\ member[u].status = "pending"
    /\ Starts(r, IF accept
                 THEN [op |-> "save", user |-> u, loaded |-> member[u],
                       entity |-> [member[u] EXCEPT !.status = "accepted"]]
                 ELSE [op |-> "delete", user |-> u, loaded |-> member[u]])
    /\ UNCHANGED <<member, lastId, agreed, asset, blob, undone, faults>>

\* ChangeMemberRole, of a member or of somebody still invited.
ChangeRole(r, actor, u, role) ==
    /\ MayManage(actor)
    /\ Has(u)
    /\ LastOwnerIsSpared(u)
    /\ Starts(r, [op |-> "save", user |-> u, loaded |-> member[u],
                  entity |-> [member[u] EXCEPT !.role = role]])
    /\ UNCHANGED <<member, lastId, agreed, asset, blob, undone, faults>>

\* RemoveMember
RemoveMember(r, actor, u) ==
    /\ MayManage(actor)
    /\ Has(u)
    /\ u # actor
    /\ LastOwnerIsSpared(u)
    /\ Starts(r, [op |-> "delete", user |-> u, loaded |-> member[u]])
    /\ UNCHANGED <<member, lastId, agreed, asset, blob, undone, faults>>

-----------------------------------------------------------------------------
(***************************************************************************)
(* What it writes.                                                          *)
(***************************************************************************)
\* The INSERT and the invitation's notification commit; a second invitation of
\* the same user violates the unique constraint.
InviteCommits(r) ==
    /\ req[r].op = "invite"
    /\ IF Has(req[r].user)
       THEN UNCHANGED <<member, lastId>>
       ELSE /\ lastId' = lastId + 1
            /\ member' = [member EXCEPT ![req[r].user] =
                            [id |-> lastId + 1, role |-> req[r].role, status |-> "pending"]]
    /\ Answer(r)
    /\ UNCHANGED <<agreed, asset, blob, undone, faults>>

\* SqlAlchemyProjectMemberRepository.update: the row of that id is read again,
\* before or after what others commit, and role and status are assigned.
SavedOver(current, seen, entity) ==
    [column \in DOMAIN current |->
        IF entity[column] # seen[column] THEN entity[column] ELSE current[column]]

SaveCommits(r) ==
    /\ req[r].op = "save"
    /\ LET u == req[r].user
           entity == req[r].entity
       IN  IF Holds(u, entity.id)
           THEN \E seen \in {req[r].loaded, member[u]} :
                    /\ member' = [member EXCEPT ![u] = SavedOver(@, seen, entity)]
                    /\ agreed' = IF req[r].loaded.status # entity.status
                                 THEN [agreed EXCEPT ![u] = @ \cup {entity.id}]
                                 ELSE agreed
           ELSE \* LookupError, or an UPDATE that matched no row.
                UNCHANGED <<member, agreed>>
    /\ Answer(r)
    /\ UNCHANGED <<lastId, asset, blob, undone, faults>>

\* SqlAlchemyProjectMemberRepository.delete, by id.
DeleteCommits(r) ==
    /\ req[r].op = "delete"
    /\ member' = IF Holds(req[r].user, req[r].loaded.id)
                 THEN [member EXCEPT ![req[r].user] = NoMember] ELSE member
    /\ Answer(r)
    /\ UNCHANGED <<lastId, agreed, asset, blob, undone, faults>>

-----------------------------------------------------------------------------
(***************************************************************************)
(* Reference assets.                                                        *)
(***************************************************************************)
\* UploadReferenceAsset: the bytes are stored under a new id ...
Upload(r, actor, a) ==
    /\ MayManage(actor)
    /\ a \notin blob \cup asset
    /\ \A q \in Requests : req[q] # Idle /\ req[q].op = "upload" => req[q].asset # a
    /\ Starts(r, [op |-> "upload", asset |-> a])
    /\ blob' = blob \cup {a}
    /\ UNCHANGED <<member, lastId, agreed, asset, undone, faults>>

\* ... and the row is inserted and committed.
UploadCommits(r) ==
    /\ req[r].op = "upload"
    /\ asset' = asset \cup {req[r].asset}
    /\ Answer(r)
    /\ UNCHANGED <<member, lastId, agreed, blob, undone, faults>>

\* Mutant: the bytes go first, the row when the request commits.
Unlink_BytesFirst(r, actor, a) ==
    /\ MayManage(actor)
    /\ a \in asset
    /\ Starts(r, [op |-> "unlink", asset |-> a])
    /\ blob' = blob \ {a}
    /\ UNCHANGED <<member, lastId, agreed, asset, undone, faults>>

\* DeleteAsset finds the row.
Unlink(r, actor, a) ==
    /\ MayManage(actor)
    /\ a \in asset
    /\ Starts(r, [op |-> "unlink", asset |-> a])
    /\ UNCHANGED <<member, lastId, agreed, asset, blob, undone, faults>>

Unlinking(a) == \E q \in Requests : req[q].op = "unlinked" /\ req[q].asset = a

\* Its deletion is flushed, which another one waits for, and the bytes go; if
\* another one was first, there is nothing to delete.
UnlinkFlushes(r) ==
    /\ req[r].op = "unlink"
    /\ ~Unlinking(req[r].asset)
    /\ IF req[r].asset \in asset
       THEN /\ req' = [req EXCEPT ![r].op = "unlinked"]
            /\ blob' = blob \ {req[r].asset}
       ELSE Answer(r) /\ UNCHANGED blob
    /\ UNCHANGED <<member, lastId, agreed, asset, undone, faults>>

UnlinkCommits(r) ==
    /\ req[r].op = "unlinked"
    /\ asset' = asset \ {req[r].asset}
    /\ Answer(r)
    /\ UNCHANGED <<member, lastId, agreed, blob, undone, faults>>

\* A store that refuses, a process that dies or a commit that fails: the rows
\* are as they were, the bytes are not.
RequestFails(r) ==
    /\ req[r] # Idle
    /\ Fault
    /\ undone' = IF req[r].op = "unlinked" THEN undone \cup {req[r].asset} ELSE undone
    /\ Answer(r)
    /\ UNCHANGED <<member, lastId, agreed, asset, blob>>

-----------------------------------------------------------------------------
Commits(r) ==
    \/ InviteCommits(r) \/ SaveCommits(r) \/ DeleteCommits(r)
    \/ UploadCommits(r) \/ UnlinkFlushes(r) \/ UnlinkCommits(r)

Next ==
    \E r \in Requests :
        \/ \E actor, u \in Users :
            \/ \E role \in GivenRoles : Invite(r, actor, u, role) \/ ChangeRole(r, actor, u, role)
            \/ RemoveMember(r, actor, u)
        \/ \E u \in Users, accept \in BOOLEAN : Respond(r, u, accept)
        \/ \E actor \in Users, a \in Assets : Upload(r, actor, a) \/ Unlink(r, actor, a)
        \/ Commits(r)
        \/ RequestFails(r)

Spec == Init /\ [][Next]_vars

-----------------------------------------------------------------------------
(***************************************************************************)
(* What the team and its files promise.                                     *)
(***************************************************************************)
\* The project is administrable whatever managers do to each other's rows at
\* the same time: its creator stays its one owner (members.py:224-281).
OwnerRemains == Owners = {Creator}

\* Nobody is on the team who did not accept this very invitation: a save of
\* another row of the same user, or of a row since deleted, makes no member
\* (member.py:106-126, members.py:196-205).
NobodyJoinsUnasked ==
    \A u \in Users : member[u].status = "accepted" => member[u].id \in agreed[u]

\* A file on the list can be opened, unless its deletion was rolled back after
\* the bytes were gone (content.py:155-162): neither a race of two deletions
\* nor an upload that dies half-way takes the bytes of a listed file.
ListedHasBytes == \A a \in asset : a \in blob \cup undone \/ Unlinking(a)

\* DeleteAsset deletes the row first so that no row points at bytes that no
\* longer exist (content.py:146-149).  The row is only flushed when the bytes
\* go, so this is what the code does not ensure.
AssetHasBytes == \A a \in asset : a \in blob \/ Unlinking(a)

=============================================================================
