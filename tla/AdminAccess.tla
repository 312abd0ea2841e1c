----------------------------- MODULE AdminAccess -----------------------------
(***************************************************************************)
(* The administrators of the platform, their roles and their invites       *)
(* (src/platform-admin/admin-users, admin-roles, admin-invites,            *)
(* admin-rbac, and the actors of audit-log).                               *)
(*                                                                         *)
(* Of the permissions only ADMIN_USERS_MANAGE is kept, since it is the one *)
(* that administration needs.  A handler is a step with its permission     *)
(* check and its reads, then a step for each write or transaction.  Time   *)
(* is left out: a cooldown may be over or not, an invite may be in time.   *)
(* Rows are never reused: a deleted one has status DELETED.                *)
(***************************************************************************)
EXTENDS Naturals

CONSTANTS Admins,      \* ids of AdminUser rows
          Root,        \* the one that the bootstrap script creates
          Roles,       \* ids of AdminRole rows
          SuperAdmin,  \* the seeded role of Root
          Seeded,      \* the roles the bootstrap script creates
          Invites,     \* ids of AdminInvite rows, in creation order
          Requests,    \* handlers that can be in flight at once
          None

ASSUME RootAssumption == Root \in Admins
ASSUME SeededAssumption == SuperAdmin \in Seeded /\ Seeded \subseteq Roles
ASSUME InvitesAssumption == Invites \subseteq Nat \ {0}
ASSUME NoneAssumption == None \notin Admins \cup Roles

VARIABLES admin,   \* the AdminUser rows
          role,    \* the AdminRole rows, by whether they grant ADMIN_USERS_MANAGE
          invite,  \* the AdminInvite rows
          actors,  \* the administrators AdminAuditLog names
          req      \* the handlers in flight

vars == <<admin, role, invite, actors, req>>

Existing == {"INVITED", "ACTIVE", "REVOKED"}
AdminRow == [status : Existing \cup {"NONE", "DELETED"}, role : Roles \cup {None}, password : BOOLEAN]
NoAdminRow == [status |-> "NONE", role |-> None, password |-> FALSE]
InviteRow == [status : {"NONE", "OPEN", "CONSUMED", "INVALIDATED", "DELETED"},
              admin : Admins \cup {None}]
NoInviteRow == [status |-> "NONE", admin |-> None]

\* What a handler carries: its caller, the administrator, role or invite it
\* works on, what it is to write (the status, the role's new grant), and
\* whether it issues an invite for a new administrator.
Pcs == {"idle", "update", "delete", "permissions", "createRole", "deleteRole",
        "invite", "issue", "invalidate", "create", "audit", "accept"}
Request == [pc : Pcs, by : Admins \cup {None}, a : Admins \cup {None}, ro : Roles \cup {None},
            i : Invites \cup {0}, to : {"KEEP", "ACTIVE", "REVOKED"}, grant : BOOLEAN, new : BOOLEAN]
Idle == [pc |-> "idle", by |-> None, a |-> None, ro |-> None, i |-> 0, to |-> "KEEP",
         grant |-> FALSE, new |-> FALSE]

\* The types of the rows and of what handlers carry.
TypeOK ==
  /\ admin \in [Admins -> AdminRow]
  /\ role \in [Roles -> {"NONE", "GRANTING", "PLAIN", "DELETED"}]
  /\ invite \in [Invites -> InviteRow]
  /\ actors \subseteq Admins
  /\ req \in [Requests -> Request]

------------------------------------------------------------------------------
(* Helpers                                                                 *)

Finish(r) == req' = [req EXCEPT ![r] = Idle]
Exists(a) == admin[a].status \in Existing
Live(ro) == role[ro] \in {"GRANTING", "PLAIN"}
Grade(grant) == IF grant THEN "GRANTING" ELSE "PLAIN"

\* An ACTIVE administrator whose role grants ADMIN_USERS_MANAGE.
Holds(a) == admin[a].status = "ACTIVE" /\ role[admin[a].role] = "GRANTING"
Holders == {a \in Admins : Holds(a)}

\* Who passes the guards of an administrator's mutation: a session needs a
\* password, and no password is ever taken back.
CanManage(a) == Holds(a) /\ admin[a].password

\* The audit row of a transaction: its foreign key needs the actor.
Audit(by) == Exists(by) /\ actors' = actors \cup {by}

\* AdminLockoutGuard: who would hold the permission after the edit.
HoldersAfterPermissions(ro, grant) ==
  {a \in Admins : /\ admin[a].status = "ACTIVE"
                  /\ IF admin[a].role = ro THEN grant ELSE role[admin[a].role] = "GRANTING"}
HoldersAfterUpdate(a, status, ro) ==
  {b \in Admins : IF b = a THEN status = "ACTIVE" /\ role[ro] = "GRANTING" ELSE Holds(b)}
HoldersAfterDelete(a) == Holders \ {a}

\* What updateAdminUser makes of a field it was not given.
NewStatus(old, to) == IF to = "KEEP" THEN old ELSE to
NewRole(old, ro) == IF ro = None THEN old ELSE ro

\* When the three handlers ask the guard, and what it answers; the variant
\* asks about revocations only.
UpdateAllowedUnlessRevoked(a, status, ro) ==
  Holds(a) /\ status = "REVOKED" => HoldersAfterUpdate(a, status, ro) # {}
UpdateAllowed(a, status, ro) ==
  Holds(a) /\ ~ (status = "ACTIVE" /\ role[ro] = "GRANTING") => HoldersAfterUpdate(a, status, ro) # {}
PermissionsAllowed(ro, grant) ==
  role[ro] = "GRANTING" /\ ~ grant => HoldersAfterPermissions(ro, grant) # {}
DeleteAllowed(a) == Holds(a) => HoldersAfterDelete(a) # {}

\* The next row to insert.
IsNextInvite(i) == /\ invite[i].status = "NONE"
                   /\ \A j \in Invites : j < i => invite[j].status # "NONE"

OpenInvites(a) == {i \in Invites : invite[i].status = "OPEN" /\ invite[i].admin = a}

Init == /\ admin = [a \in Admins |-> IF a = Root
                      THEN [status |-> "ACTIVE", role |-> SuperAdmin, password |-> TRUE]
                      ELSE NoAdminRow]
        /\ role = [ro \in Roles |-> IF ro = SuperAdmin THEN "GRANTING"
                                    ELSE IF ro \in Seeded THEN "PLAIN" ELSE "NONE"]
        /\ invite = [i \in Invites |-> NoInviteRow]
        /\ actors = {}
        /\ req = [r \in Requests |-> Idle]

------------------------------------------------------------------------------
(* Administrators                                                          *)

\* updateAdminUser keeps only the fields that differ from the row it read; a
\* change of the display name alone is an update of nothing here.
ReadForUpdate(r, by, a, ro, to) ==
  /\ req[r].pc = "idle"
  /\ CanManage(by)
  /\ Exists(a)
  /\ ~ (a = by /\ to = "REVOKED")
  /\ ro # None => Live(ro) /\ ro # admin[a].role
  /\ to # admin[a].status
  /\ UpdateAllowed(a, NewStatus(admin[a].status, to), NewRole(admin[a].role, ro))
  /\ req' = [req EXCEPT ![r] = [Idle EXCEPT !.pc = "update", !.by = by, !.a = a, !.ro = ro, !.to = to]]
  /\ UNCHANGED <<admin, role, invite, actors>>

UpdateForAdmin(r) ==
  LET a == req[r].a  ro == req[r].ro  to == req[r].to IN
  /\ req[r].pc = "update"
  /\ Exists(a)
  /\ ro # None => Live(ro)
  /\ admin' = [admin EXCEPT ![a].status = NewStatus(@, to), ![a].role = NewRole(@, ro)]
  /\ Audit(req[r].by)
  /\ Finish(r)
  /\ UNCHANGED <<role, invite>>

ReadForDelete(r, by, a) ==
  /\ req[r].pc = "idle"
  /\ CanManage(by)
  /\ Exists(a)
  /\ a # by
  /\ a \notin actors
  /\ DeleteAllowed(a)
  /\ req' = [req EXCEPT ![r] = [Idle EXCEPT !.pc = "delete", !.by = by, !.a = a]]
  /\ UNCHANGED <<admin, role, invite, actors>>

\* Whether the foreign key of AdminAuditLog lets the row go, whatever count the
\* handler read; the variant trusts the count.
DeletableAsRead(a) == Exists(a)
Deletable(a) == Exists(a) /\ a \notin actors

\* The invites go with the row.
DeleteAdminUser(r) ==
  LET a == req[r].a IN
  /\ req[r].pc = "delete"
  /\ Deletable(a)
  /\ admin' = [admin EXCEPT ![a].status = "DELETED"]
  /\ invite' = [i \in Invites |-> IF invite[i].admin = a
                                  THEN [invite[i] EXCEPT !.status = "DELETED"] ELSE invite[i]]
  /\ Audit(req[r].by)
  /\ Finish(r)
  /\ UNCHANGED role

------------------------------------------------------------------------------
(* Roles                                                                   *)

ReadForPermissions(r, by, ro, grant) ==
  /\ req[r].pc = "idle"
  /\ CanManage(by)
  /\ Live(ro)
  /\ PermissionsAllowed(ro, grant)
  /\ req' = [req EXCEPT ![r] = [Idle EXCEPT !.pc = "permissions", !.by = by, !.ro = ro, !.grant = grant]]
  /\ UNCHANGED <<admin, role, invite, actors>>

UpdatePermissions(r) ==
  /\ req[r].pc = "permissions"
  /\ Live(req[r].ro)
  /\ role' = [role EXCEPT ![req[r].ro] = Grade(req[r].grant)]
  /\ Audit(req[r].by)
  /\ Finish(r)
  /\ UNCHANGED <<admin, invite>>

ReadForCreateRole(r, by, ro, grant) ==
  /\ req[r].pc = "idle"
  /\ CanManage(by)
  /\ role[ro] = "NONE"
  /\ req' = [req EXCEPT ![r] = [Idle EXCEPT !.pc = "createRole", !.by = by, !.ro = ro, !.grant = grant]]
  /\ UNCHANGED <<admin, role, invite, actors>>

CreateRole(r) ==
  /\ req[r].pc = "createRole"
  /\ role[req[r].ro] = "NONE"
  /\ role' = [role EXCEPT ![req[r].ro] = Grade(req[r].grant)]
  /\ Audit(req[r].by)
  /\ Finish(r)
  /\ UNCHANGED <<admin, invite>>

Members(ro) == {a \in Admins : Exists(a) /\ admin[a].role = ro}

ReadForDeleteRole(r, by, ro) ==
  /\ req[r].pc = "idle"
  /\ CanManage(by)
  /\ Live(ro)
  /\ ro \notin Seeded
  /\ Members(ro) = {}
  /\ req' = [req EXCEPT ![r] = [Idle EXCEPT !.pc = "deleteRole", !.by = by, !.ro = ro]]
  /\ UNCHANGED <<admin, role, invite, actors>>

\* The foreign key of AdminUser keeps a role that got a member meanwhile.
DeleteRole(r) ==
  /\ req[r].pc = "deleteRole"
  /\ Live(req[r].ro)
  /\ Members(req[r].ro) = {}
  /\ role' = [role EXCEPT ![req[r].ro] = "DELETED"]
  /\ Audit(req[r].by)
  /\ Finish(r)
  /\ UNCHANGED <<admin, invite>>

------------------------------------------------------------------------------
(* Invites                                                                 *)

ReadForInvite(r, by, a, ro) ==
  /\ req[r].pc = "idle"
  /\ CanManage(by)
  /\ admin[a].status = "NONE"
  /\ Live(ro)
  /\ req' = [req EXCEPT ![r] = [Idle EXCEPT !.pc = "invite", !.by = by, !.a = a, !.ro = ro, !.new = TRUE]]
  /\ UNCHANGED <<admin, role, invite, actors>>

\* The row is inserted in a statement of its own.
CreateInvited(r) ==
  LET a == req[r].a IN
  /\ req[r].pc = "invite"
  /\ admin[a].status = "NONE"
  /\ Live(req[r].ro)
  /\ admin' = [admin EXCEPT ![a] = [status |-> "INVITED", role |-> req[r].ro, password |-> FALSE]]
  /\ req' = [req EXCEPT ![r].pc = "issue"]
  /\ UNCHANGED <<role, invite, actors>>

ReadForResend(r, by, a) ==
  /\ req[r].pc = "idle"
  /\ CanManage(by)
  /\ admin[a].status = "INVITED"
  /\ req' = [req EXCEPT ![r] = [Idle EXCEPT !.pc = "issue", !.by = by, !.a = a]]
  /\ UNCHANGED <<admin, role, invite, actors>>

\* issueForAdminUser looks for the latest open invite and stops within its
\* cooldown: a new administrator is audited all the same, a resend is not.
FindActive(r, i) ==
  /\ req[r].pc = "issue"
  /\ i \in OpenInvites(req[r].a)
  /\ \A j \in OpenInvites(req[r].a) : j <= i
  /\ req' = [req EXCEPT ![r] = [@ EXCEPT !.pc = "invalidate", !.i = i]]
  /\ UNCHANGED <<admin, role, invite, actors>>

FindNoneActive(r) ==
  /\ req[r].pc = "issue"
  /\ OpenInvites(req[r].a) = {}
  /\ req' = [req EXCEPT ![r].pc = "create"]
  /\ UNCHANGED <<admin, role, invite, actors>>

WithinCooldown(r) ==
  /\ req[r].pc = "issue"
  /\ OpenInvites(req[r].a) # {}
  /\ req' = [req EXCEPT ![r] = IF req[r].new THEN [@ EXCEPT !.pc = "audit"] ELSE Idle]
  /\ UNCHANGED <<admin, role, invite, actors>>

\* The update asks for the id only: an invite consumed meanwhile stays so.
Invalidate(r) ==
  LET i == req[r].i IN
  /\ req[r].pc = "invalidate"
  /\ invite[i].status # "DELETED"
  /\ invite' = [invite EXCEPT ![i].status = IF @ = "OPEN" THEN "INVALIDATED" ELSE @]
  /\ req' = [req EXCEPT ![r].pc = "create"]
  /\ UNCHANGED <<admin, role, actors>>

CreateInvite(r, i) ==
  /\ req[r].pc = "create"
  /\ Exists(req[r].a)
  /\ IsNextInvite(i)
  /\ invite' = [invite EXCEPT ![i] = [status |-> "OPEN", admin |-> req[r].a]]
  /\ req' = [req EXCEPT ![r].pc = "audit"]
  /\ UNCHANGED <<admin, role, actors>>

AuditInvite(r) ==
  /\ req[r].pc = "audit"
  /\ Audit(req[r].by)
  /\ Finish(r)
  /\ UNCHANGED <<admin, role, invite>>

\* acceptAdminInvite hashes the password between the check and the
\* transaction, which writes both rows by id.
ReadForAccept(r, i) ==
  /\ req[r].pc = "idle"
  /\ invite[i].status = "OPEN"
  /\ req' = [req EXCEPT ![r] = [Idle EXCEPT !.pc = "accept", !.a = invite[i].admin, !.i = i]]
  /\ UNCHANGED <<admin, role, invite, actors>>

AcceptInvite(r) ==
  LET a == req[r].a  i == req[r].i IN
  /\ req[r].pc = "accept"
  /\ Exists(a)
  /\ admin' = [admin EXCEPT ![a].status = "ACTIVE", ![a].password = TRUE]
  /\ invite' = [invite EXCEPT ![i].status = "CONSUMED"]
  /\ Finish(r)
  /\ UNCHANGED <<role, actors>>

------------------------------------------------------------------------------
\* The handler's transaction failed and rolled back, or its process died.
GiveUp(r) ==
  /\ req[r].pc # "idle"
  /\ Finish(r)
  /\ UNCHANGED <<admin, role, invite, actors>>

Begin(r) ==
  \/ \E by \in Admins :
       \/ \E a \in Admins : \/ ReadForDelete(r, by, a)
                            \/ ReadForResend(r, by, a)
                            \/ \E ro \in Roles : ReadForInvite(r, by, a, ro)
                            \/ \E ro \in Roles \cup {None}, to \in {"KEEP", "ACTIVE", "REVOKED"} :
                                 ReadForUpdate(r, by, a, ro, to)
       \/ \E ro \in Roles : \/ ReadForDeleteRole(r, by, ro)
                            \/ \E grant \in BOOLEAN : \/ ReadForPermissions(r, by, ro, grant)
                                                      \/ ReadForCreateRole(r, by, ro, grant)
  \/ \E i \in Invites : ReadForAccept(r, i)

Continue(r) ==
  \/ UpdateForAdmin(r) \/ DeleteAdminUser(r)
  \/ UpdatePermissions(r) \/ CreateRole(r) \/ DeleteRole(r)
  \/ CreateInvited(r) \/ FindNoneActive(r) \/ WithinCooldown(r) \/ Invalidate(r) \/ AuditInvite(r)
  \/ \E i \in Invites : FindActive(r, i) \/ CreateInvite(r, i)
  \/ AcceptInvite(r)
  \/ GiveUp(r)

Next == \E r \in Requests : Begin(r) \/ Continue(r)

Spec == Init /\ [][Next]_vars

------------------------------------------------------------------------------
(* Properties                                                              *)

\* Handlers between the check and the write of an edit that the lockout guard
\* judges.  The guard's comment accepts that two of them at once can defeat it.
Edits == {"update", "permissions", "delete"}
OneEditAtATime == \A r, s \in Requests : req[r].pc \in Edits /\ req[s].pc \in Edits => r = s

\* Edits made one at a time, on top of any invites, acceptances and changes of
\* the set of roles that run meanwhile, never leave the platform without an
\* ACTIVE administrator who holds ADMIN_USERS_MANAGE (AdminLockoutGuardService).
ManagersRemain == Holders # {}

\* What a row refers to is there: the role of every administrator, and the
\* author of every audit row, when roles and administrators are deleted while
\* others are assigned to them or act (the Restrict foreign keys under the
\* handlers' own checks).
ReferencesResolve ==
  /\ \A a \in Admins : Exists(a) => Live(admin[a].role)
  /\ \A a \in actors : Exists(a)
=============================================================================
