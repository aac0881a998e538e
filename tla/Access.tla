-------------------------------- MODULE Access --------------------------------
(***************************************************************************)
(* Who may do what with a project: the permission matrix of the roles, what *)
(* a membership confers, and for every endpoint that changes a project the  *)
(* permission it demands and the parts of the project it changes.           *)
(***************************************************************************)
Permissions ==
    {"project:view", "project:edit", "project:delete", "project:visibility",
     "project:approve", "member:manage", "device:manage", "asset:upload",
     "image:upload", "remark:write", "report:generate", "progress:recompute"}

-----------------------------------------------------------------------------
(***************************************************************************)
(* The matrix: each role adds to the one below it.                          *)
(***************************************************************************)
Viewer == {"project:view"}
Employee == Viewer \cup {"report:generate"}
Collaborator == Employee \cup {"asset:upload", "image:upload", "remark:write"}
Editor == Collaborator \cup {"project:edit"}
Engineer == Editor \cup {"device:manage"}
Manager == Engineer \cup {"member:manage", "project:approve", "progress:recompute"}
Owner == Manager \cup {"project:visibility", "project:delete"}

RolePermissions ==
    [viewer |-> Viewer, employee |-> Employee, collaborator |-> Collaborator,
     editor |-> Editor, engineer |-> Engineer, manager |-> Manager, owner |-> Owner]

Roles == DOMAIN RolePermissions

\* A row of project_members, or none.
NoRow == [role |-> "none", status |-> "none"]
MemberRows == [role : Roles, status : {"pending", "accepted"}] \cup {NoRow}

resolve_permissions(row) ==
    IF row.status = "accepted" THEN RolePermissions[row.role] ELSE {}

\* AccessContext.build: everybody may look at a public project.
Held(row, public) ==
    resolve_permissions(row) \cup IF public THEN {"project:view"} ELSE {}

can_view_project(row, public) == public \/ "project:view" \in resolve_permissions(row)

-----------------------------------------------------------------------------
(***************************************************************************)
(* The endpoints: what they demand, and what a success changes.  Part names *)
(* are those of the lists a page shows.                                     *)
(***************************************************************************)
create_project == [needs |-> {}, changes |-> {"projects"}]
approve_project ==
    [needs |-> {"project:approve"}, changes |-> {"approval", "projects"}]
create_remark == [needs |-> {"remark:write"}, changes |-> {"remarks"}]
upload_asset == [needs |-> {"asset:upload"}, changes |-> {"assets"}]
invite_member == [needs |-> {"member:manage"}, changes |-> {"members"}]
change_member_role == [needs |-> {"member:manage"}, changes |-> {"members"}]
remove_member == [needs |-> {"member:manage"}, changes |-> {"members"}]
respond_to_invitation ==
    [needs |-> {}, changes |-> {"members", "projects", "invitations"}]
issue_pairing_token == [needs |-> {"device:manage"}, changes |-> {}]
update_device == [needs |-> {"device:manage"}, changes |-> {"devices"}]
unpair_device == [needs |-> {"device:manage"}, changes |-> {"devices"}]
request_report == [needs |-> {"report:generate"}, changes |-> {}]

\* What a request against a project is answered before its handler runs:
\* get_access_context, then require_permission.
Admitted(endpoint, row, public) ==
    CASE ~can_view_project(row, public)               -> "not found"
      [] endpoint.needs \subseteq Held(row, public)   -> "let in"
      [] OTHER                                        -> "forbidden"
=============================================================================
