------------------------- MODULE AdministrationProofs -------------------------
(***************************************************************************)
(* Theorems about administrators, roles and invites, about the settings,   *)
(* the mail that depends on them and the pages that show them, and about   *)
(* the catalog of categories, for every set of administrators, roles,      *)
(* invites and handlers, of keys, forms, saves in flight, texts, mails and *)
(* pages, and of categories, ranks, requests and moves in flight.          *)
(***************************************************************************)
EXTENDS AdminAccess, Catalog, EmailDelivery, SettingsPage, FiniteSetTheorems, TLAPS

-----------------------------------------------------------------------------
(* Administrators, roles and invites                                       *)

\* What a handler may rely on when it writes: the ids it needs are there, and
\* nobody deletes itself.
GoodRequest ==
  {q \in Request :
     /\ q.pc \notin {"idle", "accept"} => q.by \in Admins
     /\ q.pc \notin {"idle", "permissions", "createRole", "deleteRole", "audit"} => q.a \in Admins
     /\ q.pc \in {"permissions", "createRole", "deleteRole", "invite"} => q.ro \in Roles
     /\ q.pc \in {"invalidate", "accept"} => q.i \in Invites
     /\ q.pc = "delete" => q.a # q.by}

\* An administrator has a role, and an open invite its administrator.
RowsOK == /\ \A a \in Admins : Exists(a) => admin[a].role \in Roles
          /\ \A i \in Invites : invite[i].status = "OPEN" => invite[i].admin \in Admins

Typing == TypeOK /\ RowsOK /\ req \in [Requests -> GoodRequest]

-----------------------------------------------------------------------------
(* What handlers carry                                                     *)

\* A handler that waits relies on nothing.
LEMMA IdleIsGood == Idle \in GoodRequest
  BY DEF Idle, Request, GoodRequest, Pcs

\* A handler that ends relies on nothing any more.
LEMMA FinishIsGood ==
  ASSUME Typing, NEW r \in Requests, Finish(r)
  PROVE  req' \in [Requests -> GoodRequest]
  BY IdleIsGood DEF Typing, Finish

\* A handler moves on and keeps what it carries.
LEMMA MoveIsGood ==
  ASSUME Typing, NEW r \in Requests, NEW pc \in Pcs,
         req' = [req EXCEPT ![r].pc = pc],
         pc \in {"issue", "create", "audit"},
         req[r].pc \in {"invite", "issue", "invalidate", "create"}
  PROVE  req' \in [Requests -> GoodRequest]
<1>1. req[r] \in GoodRequest
  BY DEF Typing
<1>2. [req[r] EXCEPT !.pc = pc] \in GoodRequest
  BY <1>1 DEF GoodRequest, Request
<1> QED
  BY <1>2 DEF Typing

\* Rows that do not change stay good.
LEMMA SameRows ==
  ASSUME Typing, UNCHANGED <<admin, role, invite, actors>>, req' \in [Requests -> GoodRequest]
  PROVE  Typing'
<1>1. req' \in [Requests -> Request]
  BY DEF GoodRequest
<1> QED
  BY <1>1 DEF Typing, TypeOK, RowsOK, Exists

\* The first step of a handler only fills its record.
LEMMA BeginTyping ==
  ASSUME Typing, NEW r \in Requests, Begin(r)
  PROVE  Typing' /\ UNCHANGED <<admin, role, invite, actors>>
<1>1. ASSUME NEW new \in GoodRequest, req' = [req EXCEPT ![r] = new],
             UNCHANGED <<admin, role, invite, actors>>
      PROVE  Typing' /\ UNCHANGED <<admin, role, invite, actors>>
  <2>1. req' \in [Requests -> GoodRequest]
    BY <1>1 DEF Typing
  <2> QED
    BY <1>1, <2>1, SameRows
<1>2. ASSUME NEW by \in Admins, NEW a \in Admins, ReadForDelete(r, by, a)
      PROVE  Typing' /\ UNCHANGED <<admin, role, invite, actors>>
  <2> DEFINE new == [Idle EXCEPT !.pc = "delete", !.by = by, !.a = a]
  <2>1. new \in GoodRequest
    BY <1>2 DEF GoodRequest, Request, Idle, Pcs, ReadForDelete
  <2> HIDE DEF new
  <2> QED
    BY <1>1, <1>2, <2>1 DEF ReadForDelete, new
<1>3. ASSUME NEW by \in Admins, NEW a \in Admins, ReadForResend(r, by, a)
      PROVE  Typing' /\ UNCHANGED <<admin, role, invite, actors>>
  <2> DEFINE new == [Idle EXCEPT !.pc = "issue", !.by = by, !.a = a]
  <2>1. new \in GoodRequest
    BY DEF GoodRequest, Request, Idle, Pcs
  <2> HIDE DEF new
  <2> QED
    BY <1>1, <1>3, <2>1 DEF ReadForResend, new
<1>4. ASSUME NEW by \in Admins, NEW a \in Admins, NEW ro \in Roles, ReadForInvite(r, by, a, ro)
      PROVE  Typing' /\ UNCHANGED <<admin, role, invite, actors>>
  <2> DEFINE new == [Idle EXCEPT !.pc = "invite", !.by = by, !.a = a, !.ro = ro, !.new = TRUE]
  <2>1. new \in GoodRequest
    BY DEF GoodRequest, Request, Idle, Pcs
  <2> HIDE DEF new
  <2> QED
    BY <1>1, <1>4, <2>1 DEF ReadForInvite, new
<1>5. ASSUME NEW by \in Admins, NEW a \in Admins, NEW ro \in Roles \cup {None},
             NEW to \in {"KEEP", "ACTIVE", "REVOKED"}, ReadForUpdate(r, by, a, ro, to)
      PROVE  Typing' /\ UNCHANGED <<admin, role, invite, actors>>
  <2> DEFINE new == [Idle EXCEPT !.pc = "update", !.by = by, !.a = a, !.ro = ro, !.to = to]
  <2>1. new \in GoodRequest
    BY DEF GoodRequest, Request, Idle, Pcs
  <2> HIDE DEF new
  <2> QED
    BY <1>1, <1>5, <2>1 DEF ReadForUpdate, new
<1>6. ASSUME NEW by \in Admins, NEW ro \in Roles, ReadForDeleteRole(r, by, ro)
      PROVE  Typing' /\ UNCHANGED <<admin, role, invite, actors>>
  <2> DEFINE new == [Idle EXCEPT !.pc = "deleteRole", !.by = by, !.ro = ro]
  <2>1. new \in GoodRequest
    BY DEF GoodRequest, Request, Idle, Pcs
  <2> HIDE DEF new
  <2> QED
    BY <1>1, <1>6, <2>1 DEF ReadForDeleteRole, new
<1>7. ASSUME NEW by \in Admins, NEW ro \in Roles, NEW grant \in BOOLEAN, NEW pc \in {"permissions", "createRole"},
             req' = [req EXCEPT ![r] = [Idle EXCEPT !.pc = pc, !.by = by, !.ro = ro, !.grant = grant]],
             UNCHANGED <<admin, role, invite, actors>>
      PROVE  Typing'
  <2> DEFINE new == [Idle EXCEPT !.pc = pc, !.by = by, !.ro = ro, !.grant = grant]
  <2>1. new \in GoodRequest
    BY DEF GoodRequest, Request, Idle, Pcs
  <2> HIDE DEF new
  <2> QED
    BY <1>1, <1>7, <2>1 DEF new
<1>8. ASSUME NEW i \in Invites, ReadForAccept(r, i)
      PROVE  Typing' /\ UNCHANGED <<admin, role, invite, actors>>
  <2> DEFINE new == [Idle EXCEPT !.pc = "accept", !.a = invite[i].admin, !.i = i]
  <2>1. invite[i].admin \in Admins
    BY <1>8 DEF ReadForAccept, Typing, RowsOK
  <2>2. new \in GoodRequest
    BY <2>1 DEF GoodRequest, Request, Idle, Pcs
  <2> HIDE DEF new
  <2> QED
    BY <1>1, <1>8, <2>2 DEF ReadForAccept, new
<1>9. ASSUME NEW by \in Admins, NEW ro \in Roles, NEW grant \in BOOLEAN,
             ReadForPermissions(r, by, ro, grant) \/ ReadForCreateRole(r, by, ro, grant)
      PROVE  Typing' /\ UNCHANGED <<admin, role, invite, actors>>
  BY <1>7, <1>9 DEF ReadForPermissions, ReadForCreateRole
<1> QED
  BY <1>2, <1>3, <1>4, <1>5, <1>6, <1>8, <1>9 DEF Begin

-----------------------------------------------------------------------------
(* The steps that write                                                    *)

\* What the next step of a handler needs of the record it carries.
LEMMA Carried ==
  ASSUME Typing, NEW r \in Requests
  PROVE  /\ req[r] \in Request
         /\ req[r].pc \notin {"idle", "accept"} => req[r].by \in Admins
         /\ req[r].pc \notin {"idle", "permissions", "createRole", "deleteRole", "audit"} =>
              req[r].a \in Admins
         /\ req[r].pc \in {"permissions", "createRole", "deleteRole", "invite"} => req[r].ro \in Roles
         /\ req[r].pc \in {"invalidate", "accept"} => req[r].i \in Invites
         /\ req[r].pc = "delete" => req[r].a # req[r].by
  BY DEF Typing, GoodRequest

\* An update writes a status and a role that exist.
LEMMA UpdateTyping ==
  ASSUME Typing, NEW r \in Requests, UpdateForAdmin(r)
  PROVE  /\ Typing'
         /\ \A b \in Admins : /\ Exists(b)' <=> Exists(b)
                              /\ b # req[r].a => admin'[b] = admin[b]
         /\ req[r].a \in Admins
         /\ admin'[req[r].a].status = NewStatus(admin[req[r].a].status, req[r].to)
         /\ admin'[req[r].a].role = NewRole(admin[req[r].a].role, req[r].ro)
<1> DEFINE a == req[r].a
<1>1. a \in Admins /\ req[r].by \in Admins /\ req[r] \in Request
  BY Carried DEF UpdateForAdmin
<1>2. admin[a] \in AdminRow /\ admin[a].status \in Existing /\ admin[a].role \in Roles
  BY <1>1 DEF Typing, TypeOK, RowsOK, UpdateForAdmin, Exists
<1>3. NewStatus(admin[a].status, req[r].to) \in Existing
  BY <1>1, <1>2 DEF NewStatus, Request, Existing
<1>4. NewRole(admin[a].role, req[r].ro) \in Roles
  BY <1>1, <1>2 DEF NewRole, Request
<1> DEFINE new == [admin[a] EXCEPT !.status = NewStatus(@, req[r].to), !.role = NewRole(@, req[r].ro)]
<1>5. /\ new \in AdminRow
      /\ new.status = NewStatus(admin[a].status, req[r].to)
      /\ new.role = NewRole(admin[a].role, req[r].ro)
  BY <1>2, <1>3, <1>4 DEF AdminRow
<1>6. admin' = [admin EXCEPT ![a] = new]
  BY DEF UpdateForAdmin
<1> HIDE DEF new, a
<1>7. /\ admin' \in [Admins -> AdminRow]
      /\ admin'[a] = new
      /\ \A b \in Admins : b # a => admin'[b] = admin[b]
  BY <1>1, <1>5, <1>6 DEF Typing, TypeOK
<1>8. \A b \in Admins : Exists(b)' <=> Exists(b)
  <2> SUFFICES ASSUME NEW b \in Admins PROVE Exists(b)' <=> Exists(b)
    OBVIOUS
  <2>1. CASE b = a
    BY <2>1, <1>2, <1>3, <1>5, <1>7 DEF Exists
  <2>2. CASE b # a
    BY <2>2, <1>7 DEF Exists
  <2> QED
    BY <2>1, <2>2
<1>9. \A b \in Admins : Exists(b)' => admin'[b].role \in Roles
  BY <1>4, <1>5, <1>7, <1>8 DEF Typing, RowsOK
<1>10. req' \in [Requests -> GoodRequest]
  BY FinishIsGood DEF UpdateForAdmin
<1>11. req' \in [Requests -> Request]
  BY <1>10 DEF GoodRequest
<1>12. Typing'
  BY <1>1, <1>7, <1>9, <1>10, <1>11 DEF Typing, TypeOK, RowsOK, UpdateForAdmin, Audit, Exists
<1> QED
  BY <1>1, <1>5, <1>7, <1>8, <1>12 DEF a

\* Every step keeps the types.
LEMMA StepTyping ==
  ASSUME Typing, [Next]_vars
  PROVE  Typing'
<1>1. CASE UNCHANGED vars
  BY <1>1, SameRows DEF vars, Typing
<1>2. ASSUME NEW r \in Requests, Begin(r) PROVE Typing'
  BY <1>2, BeginTyping
<1>3. ASSUME NEW r \in Requests, UpdateForAdmin(r) PROVE Typing'
  BY <1>3, UpdateTyping
<1>4. ASSUME NEW r \in Requests, DeleteAdminUser(r) PROVE Typing'
  <2> DEFINE a == req[r].a
  <2>1. a \in Admins /\ req[r].by \in Admins
    BY <1>4, Carried DEF DeleteAdminUser
  <2>2. /\ admin' \in [Admins -> AdminRow]
        /\ \A b \in Admins : admin'[b].role = admin[b].role /\ (Exists(b)' => Exists(b))
    <3>1. [admin[a] EXCEPT !.status = "DELETED"] \in AdminRow
      BY <2>1 DEF Typing, TypeOK, AdminRow
    <3>2. admin' = [admin EXCEPT ![a] = [admin[a] EXCEPT !.status = "DELETED"]]
      BY <1>4 DEF DeleteAdminUser
    <3> QED
      BY <2>1, <3>1, <3>2 DEF Typing, TypeOK, AdminRow, Exists, Existing
  <2>3. /\ invite' \in [Invites -> InviteRow]
        /\ \A i \in Invites : invite'[i].status = "OPEN" => invite'[i].admin \in Admins
    <3>1. \A i \in Invites : /\ invite[i] \in InviteRow
                             /\ [invite[i] EXCEPT !.status = "DELETED"] \in InviteRow
      BY DEF Typing, TypeOK, InviteRow
    <3>2. invite' = [i \in Invites |-> IF invite[i].admin = a
                       THEN [invite[i] EXCEPT !.status = "DELETED"] ELSE invite[i]]
      BY <1>4 DEF DeleteAdminUser
    <3> HIDE DEF a
    <3>3. \A i \in Invites : [invite[i] EXCEPT !.status = "DELETED"].status = "DELETED"
      BY <3>1 DEF InviteRow
    <3> QED
      BY <3>1, <3>2, <3>3 DEF Typing, RowsOK
  <2>4. req' \in [Requests -> GoodRequest] /\ req' \in [Requests -> Request]
    BY <1>4, FinishIsGood DEF DeleteAdminUser, GoodRequest
  <2> QED
    BY <1>4, <2>1, <2>2, <2>3, <2>4 DEF Typing, TypeOK, RowsOK, DeleteAdminUser, Audit
<1>5. ASSUME NEW r \in Requests, UpdatePermissions(r) \/ CreateRole(r) \/ DeleteRole(r)
      PROVE  Typing'
  <2>1. req[r].by \in Admins /\ req[r].ro \in Roles
    BY <1>5, Carried DEF UpdatePermissions, CreateRole, DeleteRole
  <2>2. role' \in [Roles -> {"NONE", "GRANTING", "PLAIN", "DELETED"}]
    BY <1>5, <2>1 DEF Typing, TypeOK, UpdatePermissions, CreateRole, DeleteRole, Grade
  <2>3. req' \in [Requests -> GoodRequest] /\ req' \in [Requests -> Request]
    BY <1>5, FinishIsGood DEF UpdatePermissions, CreateRole, DeleteRole, GoodRequest
  <2> QED
    BY <1>5, <2>1, <2>2, <2>3
    DEF Typing, TypeOK, RowsOK, Exists, UpdatePermissions, CreateRole, DeleteRole, Audit
<1>6. ASSUME NEW r \in Requests, CreateInvited(r) PROVE Typing'
  <2> DEFINE a == req[r].a
             new == [status |-> "INVITED", role |-> req[r].ro, password |-> FALSE]
  <2>1. a \in Admins /\ req[r].ro \in Roles
    BY <1>6, Carried DEF CreateInvited
  <2>2. new \in AdminRow
    BY <2>1 DEF AdminRow, Existing
  <2>3. admin' \in [Admins -> AdminRow] /\ \A b \in Admins : admin'[b] = IF b = a THEN new ELSE admin[b]
    BY <1>6, <2>1, <2>2 DEF CreateInvited, Typing, TypeOK
  <2>4. req' \in [Requests -> GoodRequest] /\ req' \in [Requests -> Request]
    <3>1. req' \in [Requests -> GoodRequest]
      BY <1>6, MoveIsGood DEF CreateInvited, Pcs
    <3> QED
      BY <3>1 DEF GoodRequest
  <2>5. TypeOK'
    BY <1>6, <2>3, <2>4 DEF Typing, TypeOK, CreateInvited
  <2>6. RowsOK'
    BY <1>6, <2>1, <2>3 DEF Typing, RowsOK, Exists, CreateInvited
  <2> QED
    BY <2>4, <2>5, <2>6 DEF Typing
<1>7. ASSUME NEW r \in Requests, NEW i \in Invites, FindActive(r, i) PROVE Typing'
  <2>1. [req[r] EXCEPT !.pc = "invalidate", !.i = i] \in GoodRequest
    BY <1>7 DEF FindActive, Typing, GoodRequest, Request, Pcs
  <2>2. req' \in [Requests -> GoodRequest]
    BY <1>7, <2>1 DEF FindActive, Typing
  <2> QED
    BY <1>7, <2>2, SameRows DEF FindActive
<1>8. ASSUME NEW r \in Requests, FindNoneActive(r) PROVE Typing'
  BY <1>8, MoveIsGood, SameRows DEF FindNoneActive, Pcs
<1>9. ASSUME NEW r \in Requests, WithinCooldown(r) PROVE Typing'
  <2>1. [req[r] EXCEPT !.pc = "audit"] \in GoodRequest
    BY <1>9 DEF WithinCooldown, Typing, GoodRequest, Request, Pcs
  <2>2. req' \in [Requests -> GoodRequest]
    BY <1>9, <2>1, IdleIsGood DEF WithinCooldown, Typing
  <2> QED
    BY <1>9, <2>2, SameRows DEF WithinCooldown
<1>10. ASSUME NEW r \in Requests, Invalidate(r) PROVE Typing'
  <2> DEFINE i == req[r].i
             new == [invite[i] EXCEPT !.status = IF @ = "OPEN" THEN "INVALIDATED" ELSE @]
  <2>1. i \in Invites
    BY <1>10, Carried DEF Invalidate
  <2>2. new \in InviteRow /\ new.status # "OPEN"
    BY <2>1 DEF Typing, TypeOK, InviteRow
  <2>3. invite' = [invite EXCEPT ![i] = new]
    BY <1>10 DEF Invalidate
  <2> HIDE DEF new, i
  <2>4. /\ invite' \in [Invites -> InviteRow]
        /\ \A j \in Invites : invite'[j].status = "OPEN" => invite'[j].admin \in Admins
    BY <2>1, <2>2, <2>3 DEF Typing, TypeOK, RowsOK
  <2>5. req' \in [Requests -> GoodRequest] /\ req' \in [Requests -> Request]
    <3>1. req' \in [Requests -> GoodRequest]
      BY <1>10, MoveIsGood DEF Invalidate, Pcs
    <3> QED
      BY <3>1 DEF GoodRequest
  <2> QED
    BY <1>10, <2>4, <2>5 DEF Typing, TypeOK, RowsOK, Exists, Invalidate
<1>11. ASSUME NEW r \in Requests, NEW i \in Invites, CreateInvite(r, i) PROVE Typing'
  <2>1. req[r].a \in Admins
    BY <1>11, Carried DEF CreateInvite
  <2>2. [status |-> "OPEN", admin |-> req[r].a] \in InviteRow
    BY <2>1 DEF InviteRow
  <2>3. /\ invite' \in [Invites -> InviteRow]
        /\ \A j \in Invites : invite'[j].status = "OPEN" => invite'[j].admin \in Admins
    BY <1>11, <2>1, <2>2 DEF CreateInvite, Typing, TypeOK, RowsOK
  <2>4. req' \in [Requests -> GoodRequest] /\ req' \in [Requests -> Request]
    <3>1. req' \in [Requests -> GoodRequest]
      BY <1>11, MoveIsGood DEF CreateInvite, Pcs
    <3> QED
      BY <3>1 DEF GoodRequest
  <2> QED
    BY <1>11, <2>3, <2>4 DEF Typing, TypeOK, RowsOK, Exists, CreateInvite
<1>12. ASSUME NEW r \in Requests, AuditInvite(r) PROVE Typing'
  <2>1. req[r].by \in Admins
    BY <1>12, Carried DEF AuditInvite
  <2>2. req' \in [Requests -> GoodRequest] /\ req' \in [Requests -> Request]
    BY <1>12, FinishIsGood DEF AuditInvite, GoodRequest
  <2> QED
    BY <1>12, <2>1, <2>2 DEF Typing, TypeOK, RowsOK, Exists, AuditInvite, Audit
<1>13. ASSUME NEW r \in Requests, AcceptInvite(r) PROVE Typing'
  <2> DEFINE a == req[r].a  i == req[r].i
             newA == [admin[a] EXCEPT !.status = "ACTIVE", !.password = TRUE]
             newI == [invite[i] EXCEPT !.status = "CONSUMED"]
  <2>1. a \in Admins /\ i \in Invites
    BY <1>13, Carried DEF AcceptInvite
  <2>2. newA \in AdminRow /\ newA.role = admin[a].role
    BY <2>1, ZenonT(60) DEF Typing, TypeOK, AdminRow, Existing
  <2>3. newI \in InviteRow /\ newI.status = "CONSUMED"
    BY <2>1 DEF Typing, TypeOK, InviteRow
  <2>4. Exists(a)
    BY <1>13 DEF AcceptInvite
  <2>5. admin' = [admin EXCEPT ![a] = newA] /\ invite' = [invite EXCEPT ![i] = newI]
    BY <1>13 DEF AcceptInvite
  <2> HIDE DEF newA, newI, a, i
  <2>6. /\ admin' \in [Admins -> AdminRow]
        /\ \A b \in Admins : admin'[b] = IF b = a THEN newA ELSE admin[b]
    BY <2>1, <2>2, <2>5 DEF Typing, TypeOK
  <2>7. /\ invite' \in [Invites -> InviteRow]
        /\ \A j \in Invites : invite'[j].status = "OPEN" => invite'[j].admin \in Admins
    BY <2>1, <2>3, <2>5 DEF Typing, TypeOK, RowsOK
  <2>8. \A b \in Admins : Exists(b)' => admin'[b].role \in Roles
    BY <2>1, <2>2, <2>4, <2>6 DEF Typing, RowsOK, Exists
  <2>9. req' \in [Requests -> GoodRequest] /\ req' \in [Requests -> Request]
    BY <1>13, FinishIsGood DEF AcceptInvite, GoodRequest
  <2> QED
    BY <1>13, <2>6, <2>7, <2>8, <2>9 DEF Typing, TypeOK, RowsOK, AcceptInvite
<1>14. ASSUME NEW r \in Requests, GiveUp(r) PROVE Typing'
  BY <1>14, FinishIsGood, SameRows DEF GiveUp
<1> QED
  BY <1>1, <1>2, <1>3, <1>4, <1>5, <1>6, <1>7, <1>8, <1>9, <1>10, <1>11, <1>12, <1>13, <1>14
  DEF Next, Continue

\* The administrator of the bootstrap is well typed.
LEMMA InitTyping ==
  ASSUME Init
  PROVE  Typing
<1>1. admin \in [Admins -> AdminRow] /\ \A a \in Admins : Exists(a) => admin[a].role \in Roles
  BY SeededAssumption DEF Init, AdminRow, Existing, NoAdminRow, Exists
<1>2. invite \in [Invites -> InviteRow] /\ \A i \in Invites : invite[i].status # "OPEN"
  BY DEF Init, InviteRow, NoInviteRow
<1>3. req \in [Requests -> GoodRequest] /\ req \in [Requests -> Request]
  BY IdleIsGood DEF Init, GoodRequest
<1> QED
  BY <1>1, <1>2, <1>3 DEF Init, Typing, TypeOK, RowsOK

\* Administrators, roles, invites and the handlers at work on them keep their types,
\* and a handler writes with the ids it has looked up.
THEOREM TypingHolds == Spec => []Typing
  BY InitTyping, StepTyping, PTL DEF Spec

\* TypeOK: whatever handlers run at once, rows and requests keep their types.
THEOREM TypeCorrect == Spec => []TypeOK
<1>1. Typing => TypeOK
  BY DEF Typing
<1> QED
  BY <1>1, TypingHolds, PTL

-----------------------------------------------------------------------------
(* Rows refer to rows that exist                                           *)

\* At first references resolve.
LEMMA InitReferences ==
  ASSUME Init
  PROVE  ReferencesResolve
  BY SeededAssumption, RootAssumption DEF Init, ReferencesResolve, Exists, Existing, NoAdminRow, Live

\* Every step keeps the references; the foreign keys do it where a handler's
\* own check is older than its write.
LEMMA StepReferences ==
  ASSUME Typing, Typing', ReferencesResolve, [Next]_vars
  PROVE  ReferencesResolve'
<1>1. ASSUME UNCHANGED <<admin, role, actors>> PROVE ReferencesResolve'
  BY <1>1 DEF ReferencesResolve, Exists, Live
<1>2. CASE UNCHANGED vars
  BY <1>1, <1>2 DEF vars
<1>3. ASSUME NEW r \in Requests, Begin(r) PROVE ReferencesResolve'
  BY <1>1, <1>3, BeginTyping
<1>4. ASSUME NEW r \in Requests, UpdateForAdmin(r) PROVE ReferencesResolve'
  <2>1. \A b \in Admins : Exists(b)' => Live(admin'[b].role)
    <3> SUFFICES ASSUME NEW b \in Admins, Exists(b)' PROVE Live(admin'[b].role)
      OBVIOUS
    <3>1. Live(admin[b].role)
      BY <1>4, UpdateTyping DEF ReferencesResolve
    <3>2. CASE b = req[r].a
      BY <1>4, <3>1, <3>2, UpdateTyping DEF UpdateForAdmin, NewRole
    <3>3. CASE b # req[r].a
      BY <1>4, <3>1, <3>3, UpdateTyping
    <3> QED
      BY <3>2, <3>3
  <2>2. \A b \in actors' : Exists(b)
    BY <1>4 DEF UpdateForAdmin, Audit, ReferencesResolve
  <2>3. actors' \subseteq Admins /\ role' = role
    BY <1>4 DEF UpdateForAdmin, Typing, TypeOK
  <2>4. \A b \in actors' : Exists(b)'
    BY <1>4, <2>2, <2>3, UpdateTyping
  <2> QED
    BY <2>1, <2>3, <2>4 DEF ReferencesResolve, Live
<1>5. ASSUME NEW r \in Requests, DeleteAdminUser(r) PROVE ReferencesResolve'
  <2> DEFINE a == req[r].a
  <2>1. a \in Admins /\ a # req[r].by /\ a \notin actors
    BY <1>5, Carried DEF DeleteAdminUser, Deletable
  <2>2. \A b \in Admins : b # a => admin'[b] = admin[b]
    BY <1>5 DEF DeleteAdminUser, Typing, TypeOK
  <2>3. admin'[a].status = "DELETED"
    BY <1>5, <2>1 DEF DeleteAdminUser, Typing, TypeOK, AdminRow
  <2>4. \A b \in actors' : b # a /\ Exists(b) /\ b \in Admins
    BY <1>5, <2>1 DEF DeleteAdminUser, Audit, ReferencesResolve, Typing, TypeOK
  <2> HIDE DEF a
  <2>5. \A b \in Admins : Exists(b)' => Exists(b) /\ admin'[b] = admin[b]
    BY <2>2, <2>3 DEF Exists, Existing
  <2>6. \A b \in actors' : Exists(b)'
    BY <2>2, <2>4 DEF Exists
  <2>7. role' = role
    BY <1>5 DEF DeleteAdminUser
  <2> QED
    BY <2>5, <2>6, <2>7 DEF ReferencesResolve, Live
<1>6. ASSUME NEW r \in Requests, UpdatePermissions(r) \/ CreateRole(r) \/ DeleteRole(r)
      PROVE  ReferencesResolve'
  <2>1. req[r].ro \in Roles
    BY <1>6, Carried DEF UpdatePermissions, CreateRole, DeleteRole
  <2>2. admin' = admin /\ \A b \in actors' : Exists(b)
    BY <1>6 DEF UpdatePermissions, CreateRole, DeleteRole, Audit, ReferencesResolve
  <2>3. \A b \in Admins : Exists(b) => Live(admin[b].role)'
    <3> SUFFICES ASSUME NEW b \in Admins, Exists(b) PROVE Live(admin[b].role)'
      OBVIOUS
    <3>1. admin[b].role \in Roles /\ Live(admin[b].role)
      BY DEF Typing, RowsOK, ReferencesResolve
    <3>2. CASE admin[b].role = req[r].ro
      BY <1>6, <2>1, <2>2, <3>1, <3>2
      DEF UpdatePermissions, CreateRole, DeleteRole, Members, Live, Grade, Typing, TypeOK
    <3>3. CASE admin[b].role # req[r].ro
      <4>1. role'[admin[b].role] = role[admin[b].role]
        BY <1>6, <3>1, <3>3 DEF UpdatePermissions, CreateRole, DeleteRole, Typing, TypeOK
      <4> QED
        BY <2>2, <3>1, <4>1 DEF Live
    <3> QED
      BY <3>2, <3>3
  <2> QED
    BY <2>2, <2>3 DEF ReferencesResolve, Exists
<1>7. ASSUME NEW r \in Requests, CreateInvited(r) PROVE ReferencesResolve'
  <2> DEFINE a == req[r].a
             new == [status |-> "INVITED", role |-> req[r].ro, password |-> FALSE]
  <2>1. a \in Admins
    BY <1>7, Carried DEF CreateInvited
  <2>2. \A b \in Admins : admin'[b] = IF b = a THEN new ELSE admin[b]
    BY <1>7, <2>1 DEF CreateInvited, Typing, TypeOK
  <2>3. Live(req[r].ro) /\ UNCHANGED <<role, actors>> /\ ~ Exists(a)
    BY <1>7 DEF CreateInvited, Exists, Existing
  <2>4. new.role = req[r].ro /\ new.status = "INVITED"
    OBVIOUS
  <2> HIDE DEF new, a
  <2>5. \A b \in actors : Exists(b)'
    BY <2>2, <2>3 DEF ReferencesResolve, Exists, Typing, TypeOK
  <2>6. \A b \in Admins : Exists(b)' => Live(admin'[b].role)
    BY <2>2, <2>3, <2>4 DEF ReferencesResolve, Exists
  <2> QED
    BY <2>3, <2>5, <2>6 DEF ReferencesResolve, Live
<1>8. ASSUME NEW r \in Requests,
             \/ FindNoneActive(r) \/ WithinCooldown(r) \/ Invalidate(r) \/ GiveUp(r)
             \/ \E i \in Invites : FindActive(r, i) \/ CreateInvite(r, i)
      PROVE  ReferencesResolve'
  BY <1>1, <1>8 DEF FindNoneActive, WithinCooldown, Invalidate, GiveUp, FindActive, CreateInvite
<1>9. ASSUME NEW r \in Requests, AuditInvite(r) PROVE ReferencesResolve'
  BY <1>9 DEF AuditInvite, Audit, ReferencesResolve, Exists, Live
<1>10. ASSUME NEW r \in Requests, AcceptInvite(r) PROVE ReferencesResolve'
  <2> DEFINE a == req[r].a
  <2>1. a \in Admins /\ Exists(a)
    BY <1>10, Carried DEF AcceptInvite
  <2>2. \A b \in Admins : admin'[b].role = admin[b].role /\ (Exists(b)' <=> Exists(b))
    BY <1>10, <2>1 DEF AcceptInvite, Typing, TypeOK, AdminRow, Exists, Existing
  <2>3. UNCHANGED <<role, actors>> /\ actors \subseteq Admins
    BY <1>10 DEF AcceptInvite, Typing, TypeOK
  <2> QED
    BY <2>2, <2>3 DEF ReferencesResolve, Live
<1> QED
  BY <1>2, <1>3, <1>4, <1>5, <1>6, <1>7, <1>8, <1>9, <1>10 DEF Next, Continue

\* ReferencesResolve: deletions that race with assignments and with work leave
\* no administrator without its role and no audit row without its author.
THEOREM ReferencesResolveHolds == Spec => []ReferencesResolve
  BY InitReferences, StepReferences, TypingHolds, PTL DEF Spec

-----------------------------------------------------------------------------
(* Edits made one at a time leave somebody to manage                       *)

\* The edit a handler is about to make leaves a holder of the permission,
\* unless the role it assigns is deleted first and the edit cannot be made.
EditKeepsHolders(r) ==
  LET q == req[r] IN
  /\ q.pc = "update" =>
       /\ Exists(q.a)
       /\ q.ro # None => role[q.ro] # "NONE"
       /\ (q.ro # None => Live(q.ro)) =>
            HoldersAfterUpdate(q.a, NewStatus(admin[q.a].status, q.to), NewRole(admin[q.a].role, q.ro)) # {}
  /\ q.pc = "permissions" => HoldersAfterPermissions(q.ro, q.grant) # {}
  /\ q.pc = "delete" => HoldersAfterDelete(q.a) # {}

Managed == ManagersRemain /\ \A r \in Requests : EditKeepsHolders(r)

\* A step that is no edit: it takes no administrator out of service, and no
\* role from anybody.
NothingTaken ==
  /\ \A a \in Admins : Exists(a) =>
       /\ Exists(a)'
       /\ admin'[a].role = admin[a].role
       /\ admin'[a].status \in {admin[a].status, "ACTIVE"}
       /\ role[admin[a].role] = "GRANTING" => role'[admin[a].role] = "GRANTING"
  /\ \A ro \in Roles : role[ro] # "NONE" =>
       /\ role'[ro] # "NONE"
       /\ Live(ro)' => role'[ro] = role[ro]

\* What the three handlers ask of the guard is enough: an edit it is not asked
\* about takes nobody away.
LEMMA GuardIsEnough ==
  ASSUME ManagersRemain
  PROVE  /\ \A a \in Admins : \A s, ro : UpdateAllowed(a, s, ro) => HoldersAfterUpdate(a, s, ro) # {}
         /\ \A ro, grant : PermissionsAllowed(ro, grant) => HoldersAfterPermissions(ro, grant) # {}
         /\ \A a \in Admins : DeleteAllowed(a) => HoldersAfterDelete(a) # {}
<1>1. PICK h \in Admins : Holds(h)
  BY DEF ManagersRemain, Holders
<1>2. ASSUME NEW a \in Admins, NEW s, NEW ro, UpdateAllowed(a, s, ro)
      PROVE  HoldersAfterUpdate(a, s, ro) # {}
  <2>1. CASE h = a /\ ~ (s = "ACTIVE" /\ role[ro] = "GRANTING")
    BY <1>1, <1>2, <2>1 DEF UpdateAllowed
  <2>2. CASE h = a /\ s = "ACTIVE" /\ role[ro] = "GRANTING"
    BY <2>2 DEF HoldersAfterUpdate
  <2>3. CASE h # a
    BY <1>1, <2>3 DEF HoldersAfterUpdate
  <2> QED
    BY <2>1, <2>2, <2>3
<1>3. ASSUME NEW ro, NEW grant, PermissionsAllowed(ro, grant)
      PROVE  HoldersAfterPermissions(ro, grant) # {}
  <2>1. CASE role[ro] = "GRANTING" /\ ~ grant
    BY <1>3, <2>1 DEF PermissionsAllowed
  <2>2. CASE grant \/ role[ro] # "GRANTING"
    <3>1. h \in HoldersAfterPermissions(ro, grant)
      BY <1>1, <2>2 DEF HoldersAfterPermissions, Holds
    <3> QED
      BY <3>1
  <2> QED
    BY <2>1, <2>2
<1>4. ASSUME NEW a \in Admins, DeleteAllowed(a) PROVE HoldersAfterDelete(a) # {}
  BY <1>1, <1>4 DEF DeleteAllowed, HoldersAfterDelete, Holders
<1> QED
  BY <1>2, <1>3, <1>4

\* Somebody still holds the permission after a step that takes nothing, and
\* the edits in flight keep their promise.
LEMMA HoldersStay ==
  ASSUME Typing, NothingTaken, NEW h \in Admins, Holds(h)
  PROVE  Holds(h)'
  BY DEF NothingTaken, Holds, Exists, Existing

\* A step that takes no holder away leaves the promise of another edit as it was.
LEMMA EditsStay ==
  ASSUME Typing, NothingTaken, NEW e \in Requests, EditKeepsHolders(e), req'[e] = req[e]
  PROVE  EditKeepsHolders(e)'
<1> DEFINE q == req[e]
<1>1. q \in Request /\ req'[e] = q
  BY DEF Typing, TypeOK
<1>2. CASE q.pc = "update"
  <2> DEFINE a == q.a
             s == NewStatus(admin[a].status, q.to)
             ro == NewRole(admin[a].role, q.ro)
             After == HoldersAfterUpdate(a, s, ro)
  <2>1. a \in Admins /\ Exists(a) /\ Exists(a)' /\ admin[a].role \in Roles
    BY <1>2, Carried DEF EditKeepsHolders, NothingTaken, Typing, RowsOK
  <2>2. q.ro # None => q.ro \in Roles /\ role[q.ro] # "NONE" /\ role'[q.ro] # "NONE"
    BY <1>1, <1>2 DEF EditKeepsHolders, NothingTaken, Request
  <2>3. ASSUME q.ro # None => Live(q.ro)'
        PROVE  After' # {}
    <3>1. q.ro # None => role'[q.ro] = role[q.ro] /\ Live(q.ro)
      BY <1>1, <2>2, <2>3 DEF NothingTaken, Live
    <3>2. PICK h \in After : TRUE
      BY <1>2, <3>1 DEF EditKeepsHolders
    <3>3. CASE h = a
      <4>1. s = "ACTIVE" /\ role[ro] = "GRANTING"
        BY <3>2, <3>3 DEF HoldersAfterUpdate
      <4>2. s' = "ACTIVE"
        BY <1>1, <2>1, <4>1 DEF NewStatus, NothingTaken
      <4>3. ro' = ro /\ role'[ro] = "GRANTING"
        BY <1>1, <2>1, <2>2, <3>1, <4>1 DEF NewRole, NothingTaken
      <4>4. a \in After'
        BY <1>1, <2>1, <4>2, <4>3 DEF HoldersAfterUpdate
      <4> QED
        BY <4>4
    <3>4. CASE h # a
      <4>1. h \in Admins /\ Holds(h)
        BY <3>2, <3>4 DEF HoldersAfterUpdate
      <4>2. Holds(h)'
        BY <4>1, HoldersStay
      <4>3. h \in After'
        BY <1>1, <3>4, <4>1, <4>2 DEF HoldersAfterUpdate
      <4> QED
        BY <4>3
    <3> QED
      BY <3>3, <3>4
  <2> QED
    BY <1>1, <1>2, <2>1, <2>2, <2>3 DEF EditKeepsHolders
<1>3. CASE q.pc = "permissions"
  <2>1. PICK h \in HoldersAfterPermissions(q.ro, q.grant) : TRUE
    BY <1>3 DEF EditKeepsHolders
  <2>2. h \in Admins /\ admin[h].status = "ACTIVE" /\ Exists(h)
    BY <2>1 DEF HoldersAfterPermissions, Exists, Existing
  <2>3. h \in HoldersAfterPermissions(q.ro, q.grant)'
    BY <2>1, <2>2, <1>1 DEF HoldersAfterPermissions, NothingTaken
  <2> QED
    BY <1>1, <1>3, <2>3 DEF EditKeepsHolders
<1>4. CASE q.pc = "delete"
  <2>1. PICK h \in HoldersAfterDelete(q.a) : TRUE
    BY <1>4 DEF EditKeepsHolders
  <2>2. h \in Admins /\ Holds(h)' /\ h # q.a
    BY <2>1, HoldersStay DEF HoldersAfterDelete, Holders
  <2> QED
    BY <1>1, <1>4, <2>2 DEF EditKeepsHolders, HoldersAfterDelete, Holders
<1> QED
  BY <1>1, <1>2, <1>3, <1>4 DEF EditKeepsHolders

\* A step of another kind that writes takes nothing, and its handler is not
\* about to edit afterwards.
LEMMA OtherStepsTakeNothing ==
  ASSUME Typing, NEW r \in Requests,
         \/ CreateRole(r) \/ DeleteRole(r) \/ CreateInvited(r) \/ AcceptInvite(r)
         \/ FindNoneActive(r) \/ WithinCooldown(r) \/ Invalidate(r) \/ AuditInvite(r) \/ GiveUp(r)
         \/ \E i \in Invites : FindActive(r, i) \/ CreateInvite(r, i)
  PROVE  /\ NothingTaken
         /\ req'[r].pc \notin Edits
         /\ \A s \in Requests : s # r => req'[s] = req[s]
<1>1. /\ req \in [Requests -> Request] /\ req[r] \in Request
      /\ admin \in [Admins -> AdminRow]
      /\ role \in [Roles -> {"NONE", "GRANTING", "PLAIN", "DELETED"}]
      /\ \A a \in Admins : Exists(a) => admin[a].role \in Roles
  BY DEF Typing, TypeOK, RowsOK
<1>2. ASSUME UNCHANGED <<admin, role>> PROVE NothingTaken
  BY <1>2 DEF NothingTaken, Exists
<1>3. CASE CreateRole(r) \/ DeleteRole(r)
  <2>1. req[r].ro \in Roles /\ admin' = admin
    BY <1>3, Carried DEF CreateRole, DeleteRole
  <2>2. \A a \in Admins : Exists(a) /\ role[admin[a].role] = "GRANTING" =>
                            role'[admin[a].role] = "GRANTING"
    BY <1>1, <1>3, <2>1 DEF CreateRole, DeleteRole, Members
  <2>3. \A ro \in Roles : role[ro] # "NONE" => role'[ro] # "NONE" /\ (Live(ro)' => role'[ro] = role[ro])
    BY <1>1, <1>3, <2>1 DEF CreateRole, DeleteRole, Live
  <2>4. NothingTaken
    BY <2>1, <2>2, <2>3 DEF NothingTaken, Exists
  <2>5. Finish(r)
    BY <1>3 DEF CreateRole, DeleteRole
  <2> QED
    BY <1>1, <2>4, <2>5 DEF Finish, Idle, Edits
<1>4. CASE CreateInvited(r)
  <2>1. req[r].a \in Admins /\ ~ Exists(req[r].a)
    BY <1>4, Carried DEF CreateInvited, Exists, Existing
  <2>2. role' = role /\ \A a \in Admins : Exists(a) => admin'[a] = admin[a]
    BY <1>1, <1>4, <2>1 DEF CreateInvited
  <2>3. NothingTaken
    BY <2>2 DEF NothingTaken, Exists
  <2> QED
    BY <1>1, <1>4, <2>3 DEF CreateInvited, Request, Edits
<1>5. CASE AcceptInvite(r)
  <2>1. req[r].a \in Admins
    BY <1>5, Carried DEF AcceptInvite
  <2>2. role' = role
    BY <1>5 DEF AcceptInvite
  <2>3. \A a \in Admins : /\ admin'[a].role = admin[a].role
                           /\ admin'[a].status = IF a = req[r].a THEN "ACTIVE" ELSE admin[a].status
    BY <1>1, <1>5, <2>1 DEF AcceptInvite, AdminRow
  <2>4. NothingTaken
    BY <2>2, <2>3 DEF NothingTaken, Exists, Existing
  <2>5. Finish(r)
    BY <1>5 DEF AcceptInvite
  <2> QED
    BY <1>1, <2>4, <2>5 DEF Finish, Idle, Edits
<1>6. CASE FindNoneActive(r) \/ Invalidate(r) \/ \E i \in Invites : CreateInvite(r, i)
  BY <1>1, <1>2, <1>6 DEF FindNoneActive, Invalidate, CreateInvite, Request, Edits
<1>7. CASE WithinCooldown(r)
  BY <1>1, <1>2, <1>7 DEF WithinCooldown, Request, Idle, Edits
<1>8. CASE \E i \in Invites : FindActive(r, i)
  BY <1>1, <1>2, <1>8, ZenonT(60) DEF FindActive, Request, Edits
<1>9. CASE AuditInvite(r) \/ GiveUp(r)
  BY <1>1, <1>2, <1>9 DEF AuditInvite, GiveUp, Finish, Idle, Edits
<1> QED
  BY <1>3, <1>4, <1>5, <1>6, <1>7, <1>8, <1>9

\* A check is made on the rows of its own step.
LEMMA BeginManaged ==
  ASSUME Typing, Typing', Managed, NEW r \in Requests, Begin(r)
  PROVE  Managed'
<1>1. UNCHANGED <<admin, role, invite, actors>>
  BY BeginTyping
<1>2. ManagersRemain /\ ManagersRemain'
  BY <1>1 DEF Managed, ManagersRemain, Holders, Holds
<1>3. ASSUME NEW by \in Admins, NEW a \in Admins, NEW ro \in Roles \cup {None},
             NEW to \in {"KEEP", "ACTIVE", "REVOKED"}, ReadForUpdate(r, by, a, ro, to)
      PROVE  EditKeepsHolders(r)' /\ \A s \in Requests : s # r => req'[s] = req[s]
  <2>1. /\ req'[r].pc = "update" /\ req'[r].a = a /\ req'[r].ro = ro /\ req'[r].to = to
        /\ \A s \in Requests : s # r => req'[s] = req[s]
    BY <1>3 DEF ReadForUpdate, Typing, TypeOK, Idle
  <2>2. HoldersAfterUpdate(a, NewStatus(admin[a].status, to), NewRole(admin[a].role, ro)) # {}
    BY <1>2, <1>3, GuardIsEnough DEF ReadForUpdate
  <2>3. Exists(a) /\ (ro # None => role[ro] # "NONE")
    BY <1>3 DEF ReadForUpdate, Live
  <2> QED
    BY <1>1, <2>1, <2>2, <2>3 DEF EditKeepsHolders, HoldersAfterUpdate, Holds, Exists
<1>4. ASSUME NEW by \in Admins, NEW a \in Admins, ReadForDelete(r, by, a)
      PROVE  EditKeepsHolders(r)' /\ \A s \in Requests : s # r => req'[s] = req[s]
  <2>1. /\ req'[r].pc = "delete" /\ req'[r].a = a
        /\ \A s \in Requests : s # r => req'[s] = req[s]
    BY <1>4 DEF ReadForDelete, Typing, TypeOK, Idle
  <2>2. HoldersAfterDelete(a) # {}
    BY <1>2, <1>4, GuardIsEnough DEF ReadForDelete
  <2> QED
    BY <1>1, <2>1, <2>2 DEF EditKeepsHolders, HoldersAfterDelete, Holders, Holds
<1>5. ASSUME NEW by \in Admins, NEW ro \in Roles, NEW grant \in BOOLEAN,
             ReadForPermissions(r, by, ro, grant)
      PROVE  EditKeepsHolders(r)' /\ \A s \in Requests : s # r => req'[s] = req[s]
  <2>1. /\ req'[r].pc = "permissions" /\ req'[r].ro = ro /\ req'[r].grant = grant
        /\ \A s \in Requests : s # r => req'[s] = req[s]
    BY <1>5 DEF ReadForPermissions, Typing, TypeOK, Idle
  <2>2. HoldersAfterPermissions(ro, grant) # {}
    BY <1>2, <1>5, GuardIsEnough DEF ReadForPermissions
  <2> QED
    BY <1>1, <2>1, <2>2 DEF EditKeepsHolders, HoldersAfterPermissions
<1>6. ASSUME NEW by \in Admins, NEW a \in Admins, NEW ro \in Roles,
             \/ ReadForResend(r, by, a) \/ ReadForInvite(r, by, a, ro)
             \/ ReadForDeleteRole(r, by, ro)
             \/ \E grant \in BOOLEAN : ReadForCreateRole(r, by, ro, grant)
      PROVE  EditKeepsHolders(r)' /\ \A s \in Requests : s # r => req'[s] = req[s]
  <2>1. req \in [Requests -> Request]
    BY DEF Typing, TypeOK
  <2>2. CASE ReadForResend(r, by, a)
    BY <2>1, <2>2 DEF ReadForResend, Idle, EditKeepsHolders
  <2>3. CASE ReadForInvite(r, by, a, ro)
    BY <2>1, <2>3 DEF ReadForInvite, Idle, EditKeepsHolders
  <2>4. CASE ReadForDeleteRole(r, by, ro)
    BY <2>1, <2>4 DEF ReadForDeleteRole, Idle, EditKeepsHolders
  <2>5. CASE \E grant \in BOOLEAN : ReadForCreateRole(r, by, ro, grant)
    BY <2>1, <2>5 DEF ReadForCreateRole, Idle, EditKeepsHolders
  <2> QED
    BY <1>6, <2>2, <2>3, <2>4, <2>5
<1>7. ASSUME NEW i \in Invites, ReadForAccept(r, i)
      PROVE  EditKeepsHolders(r)' /\ \A s \in Requests : s # r => req'[s] = req[s]
  BY <1>7 DEF ReadForAccept, EditKeepsHolders, Typing, TypeOK, Idle
<1>8. EditKeepsHolders(r)' /\ \A s \in Requests : s # r => req'[s] = req[s]
  BY <1>3, <1>4, <1>5, <1>6, <1>7, RootAssumption, SeededAssumption DEF Begin
<1>9. NothingTaken
  BY <1>1 DEF NothingTaken, Exists
<1>10. \A s \in Requests : s # r => EditKeepsHolders(s)'
  BY <1>8, <1>9, EditsStay DEF Managed
<1> QED
  BY <1>2, <1>8, <1>10 DEF Managed

\* While at most one handler is about to edit, every step keeps a holder.
LEMMA StepManaged ==
  ASSUME OneEditAtATime, Typing, Typing', Managed, [Next]_vars
  PROVE  Managed'
<1>1. CASE UNCHANGED vars
  BY <1>1 DEF vars, Managed, ManagersRemain, Holders, Holds, EditKeepsHolders, HoldersAfterUpdate,
              HoldersAfterPermissions, HoldersAfterDelete, Exists, Live
<1>2. ASSUME NEW r \in Requests, Begin(r) PROVE Managed'
  BY <1>2, BeginManaged
<1>3. ASSUME NEW r \in Requests, req[r].pc \in Edits, Finish(r)
      PROVE  \A s \in Requests : EditKeepsHolders(s)'
  <2> SUFFICES ASSUME NEW s \in Requests PROVE req'[s].pc \notin Edits
    BY DEF EditKeepsHolders, Edits
  <2>1. req'[r].pc = "idle"
    BY <1>3 DEF Finish, Typing, TypeOK, Idle
  <2>2. CASE s = r
    BY <2>1, <2>2 DEF Edits
  <2>3. CASE s # r
    BY <1>3, <2>3 DEF OneEditAtATime, Finish, Typing, TypeOK
  <2> QED
    BY <2>2, <2>3
<1>4. ASSUME NEW r \in Requests, UpdateForAdmin(r) PROVE Managed'
  <2>1. HoldersAfterUpdate(req[r].a, NewStatus(admin[req[r].a].status, req[r].to),
                           NewRole(admin[req[r].a].role, req[r].ro)) # {}
    BY <1>4 DEF Managed, EditKeepsHolders, UpdateForAdmin
  <2>2. role' = role /\ Finish(r) /\ req[r].pc \in Edits
    BY <1>4 DEF UpdateForAdmin, Edits
  <2>3. Holders' # {}
    BY <1>4, <2>1, <2>2, UpdateTyping DEF HoldersAfterUpdate, Holders, Holds
  <2> QED
    BY <1>3, <2>2, <2>3 DEF Managed, ManagersRemain
<1>5. ASSUME NEW r \in Requests, DeleteAdminUser(r) PROVE Managed'
  <2>1. HoldersAfterDelete(req[r].a) # {}
    BY <1>5 DEF Managed, EditKeepsHolders, DeleteAdminUser
  <2>2. role' = role /\ \A b \in Admins : b # req[r].a => admin'[b] = admin[b]
    BY <1>5 DEF DeleteAdminUser, Typing, TypeOK
  <2>3. Holders' # {}
    BY <2>1, <2>2 DEF HoldersAfterDelete, Holders, Holds
  <2>4. Finish(r) /\ req[r].pc \in Edits
    BY <1>5 DEF DeleteAdminUser, Edits
  <2> QED
    BY <1>3, <2>3, <2>4 DEF Managed, ManagersRemain
<1>6. ASSUME NEW r \in Requests, UpdatePermissions(r) PROVE Managed'
  <2>1. PICK h \in HoldersAfterPermissions(req[r].ro, req[r].grant) : TRUE
    BY <1>6 DEF Managed, EditKeepsHolders, UpdatePermissions
  <2>2. /\ h \in Admins /\ admin[h].status = "ACTIVE" /\ admin[h].role \in Roles
        /\ IF admin[h].role = req[r].ro THEN req[r].grant ELSE role[admin[h].role] = "GRANTING"
    BY <2>1 DEF HoldersAfterPermissions, Typing, RowsOK, Exists, Existing
  <2>3. role' = [role EXCEPT ![req[r].ro] = IF req[r].grant THEN "GRANTING" ELSE "PLAIN"] /\ admin' = admin
    BY <1>6 DEF UpdatePermissions, Grade
  <2>4. role'[admin[h].role] = "GRANTING"
    BY <2>2, <2>3 DEF Typing, TypeOK
  <2>5. Holders' # {}
    BY <2>2, <2>3, <2>4 DEF Holders, Holds
  <2>6. Finish(r) /\ req[r].pc \in Edits
    BY <1>6 DEF UpdatePermissions, Edits
  <2> QED
    BY <1>3, <2>5, <2>6 DEF Managed, ManagersRemain
<1>7. ASSUME NEW r \in Requests, NothingTaken, req'[r].pc \notin Edits,
             \A s \in Requests : s # r => req'[s] = req[s]
      PROVE  Managed'
  <2>1. EditKeepsHolders(r)'
    BY <1>7 DEF EditKeepsHolders, Edits
  <2>2. \A s \in Requests : s # r => EditKeepsHolders(s)'
    BY <1>7, EditsStay DEF Managed
  <2>3. ManagersRemain'
    BY <1>7, HoldersStay DEF Managed, ManagersRemain, Holders
  <2> QED
    BY <2>1, <2>2, <2>3 DEF Managed
<1> QED
  BY <1>1, <1>2, <1>4, <1>5, <1>6, <1>7, OtherStepsTakeNothing DEF Next, Continue

\* At first somebody manages administrators, and no edit is in flight.
LEMMA InitManaged ==
  ASSUME Init
  PROVE  Managed
<1>1. Holds(Root)
  BY SeededAssumption, RootAssumption DEF Init, Holds
<1>2. \A r \in Requests : EditKeepsHolders(r)
  BY DEF Init, EditKeepsHolders, Idle
<1> QED
  BY <1>1, <1>2, RootAssumption DEF Managed, ManagersRemain, Holders

\* ManagersRemain: as long as edits are made one at a time, whatever invites,
\* acceptances and roles come and go meanwhile, somebody ACTIVE always holds
\* ADMIN_USERS_MANAGE.
THEOREM ManagersRemainHolds == Spec /\ []OneEditAtATime => []ManagersRemain
<1>1. Init => Managed
  BY InitManaged
<1>2. OneEditAtATime /\ Typing /\ Typing' /\ Managed /\ [Next]_vars => Managed'
  BY StepManaged
<1>3. Managed => ManagersRemain
  BY DEF Managed
<1> QED
  BY <1>1, <1>2, <1>3, TypingHolds, PTL DEF Spec

-----------------------------------------------------------------------------
(* Saves that overtake each other                                          *)

Save == [pc : {"write"}, k : Keys, form : Form, kept : Secrets \cup {Null}, overtaken : BOOLEAN]

\* What a save in flight carries: a form that passed the checks, and the credential
\* it will keep, which is still the one in the row unless the save was overtaken.
SaveOK(r) ==
  save[r] # NoSave =>
    LET s == save[r] IN
    /\ s.k \notin StorageKeys
    /\ s.form \in Input[s.k]
    /\ ~ (s.form.encrypted /\ s.form.public)
    /\ s.form.text = Blank =>
         /\ s.form.encrypted /\ s.kept # Null
         /\ ~ s.overtaken => setting[s.k].encrypted /\ setting[s.k].secret = s.kept

\* One row: a credential, as it was typed in or put back by an overtaken save, or a
\* plain value.
RowOK(k) ==
  HasRow(k) =>
    IF setting[k].encrypted
    THEN /\ ~ setting[k].public /\ setting[k].value = Null /\ setting[k].secret # Null
         /\ setting[k].secret = entered[k] \/ k \in reverted
    ELSE setting[k].value \in Values /\ setting[k].secret = Null

\* CredentialsAreWhole is not inductive: what a save writes was read before.
SettingsInv ==
  /\ setting \in [Keys -> Row]
  /\ entered \in [Keys -> Secrets \cup {Null}]
  /\ reverted \subseteq Keys
  /\ save \in [Saves -> {NoSave} \cup Save]
  /\ \A k \in Keys : RowOK(k)
  /\ \A r \in Saves : SaveOK(r)

\* A save in flight, field by field.
LEMMA SaveFields ==
  ASSUME SettingsInv, NEW r \in Saves, save[r].pc = "write"
  PROVE  /\ save[r] \in Save /\ save[r].k \in Keys /\ save[r].form \in Input[save[r].k]
         /\ save[r].form \in Form
         /\ save[r].form.text \in (IF save[r].form.encrypted THEN Secrets ELSE Values) \cup {Blank}
         /\ save[r].k \notin StorageKeys /\ ~ (save[r].form.encrypted /\ save[r].form.public)
         /\ Kept(r) => save[r].form.encrypted /\ save[r].kept # Null
         /\ Kept(r) /\ ~ save[r].overtaken =>
              setting[save[r].k].encrypted /\ setting[save[r].k].secret = save[r].kept
<1>1. save[r] # NoSave /\ save[r] \in Save
  BY DEF SettingsInv, NoSave
<1>2. SaveOK(r) /\ save[r].k \in Keys
  BY <1>1 DEF SettingsInv, Save
<1> QED
  BY <1>1, <1>2, SettingsAssumption DEF SaveOK, Kept

\* What a save writes is a whole row.
LEMMA WrittenWhole ==
  ASSUME SettingsInv, NEW r \in Saves, save[r].pc = "write"
  PROVE  /\ Written(r) \in Row /\ Written(r).encrypted = save[r].form.encrypted
         /\ Written(r).encrypted => ~ Written(r).public /\ Written(r).value = Null
                                    /\ Written(r).secret # Null
         /\ ~ Written(r).encrypted => Written(r).value \in Values /\ Written(r).secret = Null
         /\ Written(r).secret = IF Kept(r) THEN save[r].kept
                                ELSE IF save[r].form.encrypted THEN save[r].form.text ELSE Null
<1>1. /\ save[r].form.encrypted \in BOOLEAN /\ save[r].form.public \in BOOLEAN
      /\ save[r].kept \in Secrets \cup {Null}
  BY SaveFields DEF Save, Form
<1>2. ~ Kept(r) => save[r].form.text \in (IF save[r].form.encrypted THEN Secrets ELSE Values)
  BY SaveFields DEF Kept
<1>3. Null \notin Secrets
  BY SettingsAssumption
<1> QED
  BY <1>1, <1>2, <1>3, SaveFields DEF Written, Row

\* A save that leaves the rows it depends on alone stays in order.
LEMMA SaveUndisturbed ==
  ASSUME SettingsInv, NEW q \in Saves, save'[q] = save[q],
         save[q] # NoSave => setting'[save[q].k] = setting[save[q].k]
  PROVE  SaveOK(q)'
  BY DEF SettingsInv, SaveOK

\* Committing a save.
LEMMA CommitStep ==
  ASSUME SettingsInv, NEW r \in Saves, CommitSave(r)
  PROVE  SettingsInv'
<1>1. PICK k \in Keys : k = save[r].k
  BY SaveFields DEF CommitSave
<1>2. save[r].pc = "write" /\ setting' = [setting EXCEPT ![k] = Written(r)]
  BY <1>1 DEF CommitSave
<1>3. setting' \in [Keys -> Row]
  BY <1>2, WrittenWhole DEF SettingsInv
<1>4. entered' \in [Keys -> Secrets \cup {Null}]
  <2>1. save[r].form.encrypted /\ ~ Kept(r) => save[r].form.text \in Secrets
    BY <1>2, SaveFields DEF Kept
  <2> QED
    BY <1>1, <2>1 DEF CommitSave, SettingsInv
<1>5. reverted' \subseteq Keys
  BY <1>1 DEF CommitSave, SettingsInv
<1>6. ASSUME NEW q \in Saves
      PROVE  save'[q] = IF q = r THEN NoSave
                        ELSE IF save[q].k = k THEN [save[q] EXCEPT !.overtaken = TRUE]
                        ELSE save[q]
  BY <1>1 DEF CommitSave, Overtake
<1>7. Null \notin Keys
  BY SettingsAssumption
<1>8. ASSUME NEW q \in Saves
      PROVE  save'[q] \in {NoSave} \cup Save /\ SaveOK(q)'
  <2>1. CASE q = r
    BY <1>6, <2>1 DEF SaveOK
  <2>2. CASE q # r /\ save[q].k = k
    <3>1. save[q] \in Save /\ save[q] # NoSave
      BY <1>7, <2>2 DEF SettingsInv, NoSave
    <3>2. save'[q] = [save[q] EXCEPT !.overtaken = TRUE]
      BY <1>6, <2>2
    <3>3. /\ save'[q] \in Save /\ save'[q].overtaken
          /\ save'[q].k = save[q].k /\ save'[q].form = save[q].form
          /\ save'[q].kept = save[q].kept
      BY <3>1, <3>2 DEF Save
    <3>4. SaveOK(q)
      BY DEF SettingsInv
    <3> QED
      BY <3>1, <3>3, <3>4 DEF SaveOK
  <2>3. CASE q # r /\ save[q].k # k
    <3>1. save'[q] = save[q] /\ save[q] \in {NoSave} \cup Save
      BY <1>6, <2>3 DEF SettingsInv
    <3>2. save[q] # NoSave => setting'[save[q].k] = setting[save[q].k]
      BY <1>2, <2>3, <3>1 DEF SettingsInv, Save
    <3> QED
      BY <3>1, <3>2, SaveUndisturbed
  <2> QED
    BY <2>1, <2>2, <2>3
<1>9. save' \in [Saves -> {NoSave} \cup Save]
  BY <1>8 DEF CommitSave, Overtake
<1>10. ASSUME NEW j \in Keys PROVE RowOK(j)'
  <2>1. CASE j # k
    <3>1. setting'[j] = setting[j] /\ entered'[j] = entered[j]
      BY <1>1, <1>2, <2>1 DEF CommitSave, SettingsInv
    <3>2. j \in reverted => j \in reverted'
      BY <1>1, <2>1 DEF CommitSave
    <3> QED
      BY <3>1, <3>2 DEF SettingsInv, RowOK, HasRow
  <2>2. CASE j = k
    <3>1. setting'[k] = Written(r)
      BY <1>2 DEF SettingsInv
    <3>2. ASSUME Written(r).encrypted
          PROVE  Written(r).secret = entered'[k] \/ k \in reverted'
      <4>1. CASE ~ Kept(r)
        BY <1>1, <1>2, <3>2, <4>1, WrittenWhole DEF CommitSave, SettingsInv
      <4>2. CASE Kept(r) /\ save[r].overtaken
        BY <1>1, <4>2 DEF CommitSave
      <4>3. CASE Kept(r) /\ ~ save[r].overtaken
        <5>1. setting[k].encrypted /\ setting[k].secret = save[r].kept /\ save[r].kept # Null
          BY <1>1, <1>2, <4>3, SaveFields
        <5>2. entered'[k] = entered[k] /\ reverted' = reverted
          BY <1>1, <4>3 DEF CommitSave, SettingsInv
        <5>3. setting[k].secret = entered[k] \/ k \in reverted
          BY <5>1 DEF SettingsInv, RowOK, HasRow, NoRow
        <5> QED
          BY <1>2, <4>3, <5>1, <5>2, <5>3, WrittenWhole
      <4> QED
        BY <4>1, <4>2, <4>3
    <3> QED
      BY <1>2, <2>2, <3>1, <3>2, WrittenWhole DEF RowOK
  <2> QED
    BY <2>1, <2>2
<1> QED
  BY <1>3, <1>4, <1>5, <1>8, <1>9, <1>10 DEF SettingsInv

\* Reading a row to save it later, and giving up.
LEMMA BeginSaveStep ==
  ASSUME SettingsInv, NEW r \in Saves, NEW k \in Keys,
         NEW form \in Input[k], BeginSave(r, k, form) \/ GiveUpSave(r)
  PROVE  SettingsInv'
<1>1. setting' = setting /\ entered' = entered /\ reverted' = reverted
  BY DEF BeginSave, GiveUpSave
<1>2. \A q \in Saves \ {r} : save'[q] = save[q]
  BY DEF BeginSave, GiveUpSave, SettingsInv
<1>3. save' \in [Saves -> {NoSave} \cup Save] /\ SaveOK(r)'
  <2>1. CASE GiveUpSave(r)
    BY <2>1 DEF GiveUpSave, SettingsInv, SaveOK
  <2>2. CASE BeginSave(r, k, form)
    <3>1. PICK kept : kept = IF KeepsCredential(setting[k], form) THEN setting[k].secret ELSE Null
      OBVIOUS
    <3>2. PICK s : s = [pc |-> "write", k |-> k, form |-> form, overtaken |-> FALSE, kept |-> kept]
      OBVIOUS
    <3>3. save' = [save EXCEPT ![r] = s]
      BY <2>2, <3>1, <3>2 DEF BeginSave
    <3>4. setting[k] \in Row /\ RowOK(k) /\ form \in Form
      BY SettingsAssumption DEF SettingsInv
    <3>5. s \in Save
      BY <3>1, <3>2, <3>4 DEF Row, Save
    <3>6. KeepsCredential(setting[k], form) => setting[k].secret # Null
      BY <3>4 DEF KeepsCredential, RowOK, HasRow, NoRow
    <3>7. save'[r] = s
      BY <3>3 DEF SettingsInv
    <3>8. s.k = k /\ s.form = form /\ s.kept = kept
      BY <3>2
    <3>9. form.text = Blank => KeepsCredential(setting[k], form)
      BY <2>2 DEF BeginSave
    <3>10. k \notin StorageKeys /\ ~ (form.encrypted /\ form.public)
      BY <2>2 DEF BeginSave
    <3>11. SaveOK(r)'
      BY <1>1, <3>1, <3>6, <3>7, <3>8, <3>9, <3>10 DEF SaveOK, KeepsCredential
    <3> QED
      BY <3>3, <3>5, <3>11 DEF SettingsInv
  <2> QED
    BY <2>1, <2>2
<1>4. \A k1 \in Keys : RowOK(k1)'
  BY <1>1 DEF SettingsInv, RowOK, HasRow
<1>5. \A q \in Saves \ {r} : SaveOK(q)'
  BY <1>1, <1>2, SaveUndisturbed
<1> QED
  BY <1>1, <1>3, <1>4, <1>5 DEF SettingsInv

\* The storage settings and the seed write plain rows that no save has read.
LEMMA PlainStep ==
  ASSUME SettingsInv,
         \/ \E values \in [StorageKeys -> Values] : UpdateStorageSettings(values)
         \/ \E k \in Keys : \E form \in Input[k] : SeedSetting(k, form)
  PROVE  SettingsInv'
<1>1. entered' = entered /\ reverted' = reverted /\ save' = save
  BY DEF UpdateStorageSettings, SeedSetting
<1>2. \A v \in Values, b \in BOOLEAN :
        /\ [NoRow EXCEPT !.public = b, !.value = v] \in Row
        /\ [NoRow EXCEPT !.value = v] \in Row
  BY DEF NoRow, Row
<1>3. \A k \in Keys :
        setting'[k] = setting[k] \/
        /\ k \in StorageKeys \/ ~ HasRow(k)
        /\ ~ setting'[k].encrypted /\ setting'[k].value \in Values /\ setting'[k].secret = Null
  <2>1. CASE \E values \in [StorageKeys -> Values] : UpdateStorageSettings(values)
    BY <2>1 DEF UpdateStorageSettings, NoRow
  <2>2. ASSUME NEW k \in Keys, NEW form \in Input[k], SeedSetting(k, form)
        PROVE  <1>3
    <3>1. form.text \in Values
      BY <2>2, SettingsAssumption DEF SeedSetting
    <3> QED
      BY <2>2, <3>1 DEF SeedSetting, NoRow, SettingsInv
  <2> QED
    BY <2>1, <2>2
<1>4. setting' \in [Keys -> Row]
  <2>1. ASSUME NEW values \in [StorageKeys -> Values], UpdateStorageSettings(values)
        PROVE  setting' \in [Keys -> Row]
    <3>1. \A k \in StorageKeys : [NoRow EXCEPT !.value = values[k]] \in Row
      BY <1>2
    <3>2. \A k \in Keys : (IF k \in StorageKeys THEN [NoRow EXCEPT !.value = values[k]]
                                               ELSE setting[k]) \in Row
      BY <3>1 DEF SettingsInv
    <3> QED
      BY <2>1, <3>2, Zenon DEF UpdateStorageSettings
  <2>2. ASSUME NEW k \in Keys, NEW form \in Input[k], SeedSetting(k, form)
        PROVE  setting' \in [Keys -> Row]
    <3>1. form.text \in Values /\ form.public \in BOOLEAN
      BY <2>2, SettingsAssumption DEF SeedSetting, Form
    <3> QED
      BY <1>2, <2>2, <3>1 DEF SeedSetting, SettingsInv
  <2> QED
    BY <2>1, <2>2
<1>5. \A k \in Keys : RowOK(k)'
  BY <1>1, <1>3 DEF SettingsInv, RowOK, HasRow
<1>6. ASSUME NEW q \in Saves PROVE SaveOK(q)'
  <2>1. CASE save[q] = NoSave
    BY <1>1, <2>1 DEF SaveOK
  <2>2. CASE save[q] # NoSave
    <3>1. PICK k \in Keys : k = save[q].k
      BY <2>2 DEF SettingsInv, Save
    <3>2. k \notin StorageKeys /\ SaveOK(q)
      BY <2>2, <3>1 DEF SettingsInv, SaveOK
    <3>3. HasRow(k) => setting'[k] = setting[k]
      BY <1>3, <3>2
    <3>4. setting[k].encrypted => HasRow(k)
      BY DEF HasRow, NoRow
    <3> QED
      BY <1>1, <2>2, <3>1, <3>2, <3>3, <3>4 DEF SaveOK
  <2> QED
    BY <2>1, <2>2
<1> QED
  BY <1>1, <1>4, <1>5, <1>6 DEF SettingsInv

\* There is no row, and no save in flight.
LEMMA SettingsInvInit == SettingsInit => SettingsInv
  BY DEF SettingsInit, SettingsInv, NoRow, Row, RowOK, HasRow, SaveOK

\* Each save, group of values and seed keeps the invariant of the settings.
LEMMA SettingsStep ==
  SettingsInv /\ [SettingsNext]_settingVars => SettingsInv'
<1> SUFFICES ASSUME SettingsInv, [SettingsNext]_settingVars
             PROVE  SettingsInv'
  OBVIOUS
<1>1. CASE UNCHANGED settingVars
  BY <1>1 DEF settingVars, SettingsInv, RowOK, HasRow, SaveOK
<1>2. ASSUME NEW r \in Saves, GiveUpSave(r) PROVE SettingsInv'
  BY <1>2, SaveUndisturbed DEF GiveUpSave, SettingsInv, RowOK, HasRow, SaveOK
<1>3. ASSUME NEW r \in Saves, NEW k \in Keys, NEW form \in Input[k], BeginSave(r, k, form)
      PROVE  SettingsInv'
  BY <1>3, BeginSaveStep
<1>4. ASSUME NEW r \in Saves, CommitSave(r) PROVE SettingsInv'
  BY <1>4, CommitStep
<1> QED
  BY <1>1, <1>2, <1>3, <1>4, PlainStep DEF SettingsNext

\* A credential is never half of one, never public and never lost, and it is the
\* one typed in last unless saves that kept what they had read were overtaken.
THEOREM CredentialsAreWholeHolds == SettingsSpec => []CredentialsAreWhole
<1>1. SettingsInv => CredentialsAreWhole
  BY DEF SettingsInv, RowOK, CredentialsAreWhole
<1>2. SettingsInv /\ [SettingsNext]_settingVars => SettingsInv'
  BY SettingsStep
<1> QED
  BY <1>1, <1>2, SettingsInvInit, PTL DEF SettingsSpec

-----------------------------------------------------------------------------
(* Mail that depends on the settings                                       *)

Job == [pc : MailPcs, template : Versions \cup {Null}, layout : Versions \cup {Null},
        via : {"none", "smtp", "resend"},
        failure : {"none", "disabled", "misconfigured", "provider"},
        tries : 0..Attempts, stalled : BOOLEAN, touched : BOOLEAN]

\* The deployment's mail can leave as the settings are.
CanLeave == IF Value(Provider) = Mailpit THEN ~ production ELSE Value(Enabled) = Yes /\ Configured

\* What a delivery has read is so while no setting is saved: the answers its request got
\* are those its worker gets.
Remembers(work) ==
  /\ work.failure \in {"none", "provider"}
  /\ work.via # "none" => work.via = IF Value(Provider) = Mailpit THEN "smtp" ELSE "resend"
  /\ work.pc \in {"enabled", "credentials", "settings", "resend"} => Value(Provider) # Mailpit
  /\ work.pc = "credentials" => Value(Enabled) = Yes
  /\ work.pc = "smtp" => Value(Provider) = Mailpit
  /\ work.pc \in {"template", "layout", "enqueue", "queued", "smtp", "settings", "resend",
                 "accepted"} => CanLeave

JobOK(work) ==
  /\ work \in Job
  /\ work.pc = "idle" => work = NoMail
  /\ work.pc # "failed" => work.tries < Attempts
  /\ work.pc \in {"layout", "enqueue", "queued", "smtp", "settings", "resend", "accepted", "sent",
                 "failed"} => work.template # Null
  /\ work.pc \in {"enqueue", "queued", "smtp", "settings", "resend", "accepted", "sent",
                 "failed"} => work.layout # Null
  /\ production => work.pc # "smtp" /\ work.via # "smtp"
  /\ ~ work.touched => Remembers(work)

TextsOK == /\ production \in BOOLEAN
           /\ template \in Versions \cup {Null} /\ layout \in Versions \cup {Null}

EmailInv == /\ SettingsInv /\ TextsOK
            /\ mail \in [Mails -> Job]
            /\ \A m \in Mails : JobOK(mail[m])

\* A step of mail m alone ends in work in order.
JobStep(m) == \E work : JobOK(work) /\ mail' = [mail EXCEPT ![m] = work]

\* No mail remembers nothing.
LEMMA NoMailOK == JobOK(NoMail)
  BY EmailAssumption DEF NoMail, JobOK, Job, MailPcs, Remembers

\* A request that ends without a mail.
LEMMA AnswerStep ==
  ASSUME NEW m \in Mails, Answer(m)
  PROVE  JobStep(m)
  BY NoMailOK DEF Answer, JobStep

\* A request asks whether mail can leave, renders and queues.
LEMMA AcceptStep ==
  ASSUME EmailInv, NEW m \in Mails, Accept(m)
  PROVE  JobStep(m)
<1>1. PICK work : work = mail[m]
  OBVIOUS
<1>2. work \in Job /\ JobOK(work)
  BY <1>1 DEF EmailInv
<1>3. ASSUME NEW pc \in MailPcs, Goto(m, pc), JobOK([work EXCEPT !.pc = pc]) PROVE JobStep(m)
  BY <1>1, <1>3 DEF Goto, JobStep, EmailInv
<1>4. CASE ReadProvider(m)
  <2>1. work = NoMail
    BY <1>1, <1>2, <1>4 DEF ReadProvider, JobOK
  <2>2. PICK pc \in {"template", "enabled"} :
          Goto(m, pc) /\ pc = IF Value(Provider) = Mailpit THEN "template" ELSE "enabled"
    BY <1>4 DEF ReadProvider
  <2>3. Value(Provider) = Mailpit => ~ production
    BY <1>4 DEF ReadProvider
  <2>4. JobOK([work EXCEPT !.pc = pc])
    BY <1>2, <2>1, <2>2, <2>3 DEF JobOK, NoMail, Job, MailPcs, Remembers, CanLeave
  <2> QED
    BY <1>3, <2>2, <2>4 DEF MailPcs
<1>5. CASE ReadEnabled(m)
  <2>1. CASE Value(Enabled) # Yes
    BY <1>5, <2>1, AnswerStep DEF ReadEnabled
  <2>2. CASE Value(Enabled) = Yes
    <3>1. work.pc = "enabled" /\ Goto(m, "credentials")
      BY <1>1, <1>5, <2>2 DEF ReadEnabled
    <3>2. JobOK([work EXCEPT !.pc = "credentials"])
      BY <1>2, <2>2, <3>1 DEF JobOK, Job, MailPcs, Remembers
    <3> QED
      BY <1>3, <3>1, <3>2 DEF MailPcs
  <2> QED
    BY <2>1, <2>2
<1>6. CASE ReadCredentials(m)
  <2>1. CASE ~ Configured
    BY <1>6, <2>1, AnswerStep DEF ReadCredentials
  <2>2. CASE Configured
    <3>1. work.pc = "credentials" /\ Goto(m, "template")
      BY <1>1, <1>6, <2>2 DEF ReadCredentials
    <3>2. JobOK([work EXCEPT !.pc = "template"])
      BY <1>2, <2>2, <3>1 DEF JobOK, Job, MailPcs, Remembers, CanLeave
    <3> QED
      BY <1>3, <3>1, <3>2 DEF MailPcs
  <2> QED
    BY <2>1, <2>2
<1>7. CASE ReadTemplate(m)
  <2>1. CASE template = Null
    BY <1>7, <2>1, AnswerStep DEF ReadTemplate
  <2>2. CASE template # Null
    <3>1. PICK new : new = [work EXCEPT !.pc = "layout", !.template = template]
      OBVIOUS
    <3>2. work.pc = "template" /\ mail' = [mail EXCEPT ![m] = new]
      BY <1>1, <1>7, <2>2, <3>1 DEF ReadTemplate, EmailInv
    <3>3. JobOK(new)
      BY <1>2, <2>2, <3>1, <3>2 DEF JobOK, Job, MailPcs, Remembers, EmailInv, TextsOK
    <3> QED
      BY <3>2, <3>3 DEF JobStep
  <2> QED
    BY <2>1, <2>2
<1>8. CASE ReadLayout(m)
  <2>1. CASE layout = Null
    BY <1>8, <2>1, AnswerStep DEF ReadLayout
  <2>2. CASE layout # Null
    <3>1. PICK new : new = [work EXCEPT !.pc = "enqueue", !.layout = layout]
      OBVIOUS
    <3>2. work.pc = "layout" /\ mail' = [mail EXCEPT ![m] = new]
      BY <1>1, <1>8, <2>2, <3>1 DEF ReadLayout, EmailInv
    <3>3. JobOK(new)
      BY <1>2, <2>2, <3>1, <3>2 DEF JobOK, Job, MailPcs, Remembers, EmailInv, TextsOK
    <3> QED
      BY <3>2, <3>3 DEF JobStep
  <2> QED
    BY <2>1, <2>2
<1>9. CASE Enqueue(m)
  <2>1. work.pc = "enqueue" /\ Goto(m, "queued")
    BY <1>1, <1>9 DEF Enqueue
  <2>2. JobOK([work EXCEPT !.pc = "queued"])
    BY <1>2, <2>1 DEF JobOK, Job, MailPcs, Remembers
  <2> QED
    BY <1>3, <2>1, <2>2 DEF MailPcs
<1>10. CASE GiveUpMail(m)
  BY <1>10, AnswerStep DEF GiveUpMail
<1> QED
  BY <1>4, <1>5, <1>6, <1>7, <1>8, <1>9, <1>10 DEF Accept

\* The worker asks the same settings again and delivers, or fails and tries again.
LEMMA MailWorkStep ==
  ASSUME EmailInv, NEW m \in Mails, Work(m)
  PROVE  JobStep(m)
<1>1. PICK work : work = mail[m]
  OBVIOUS
<1>2. work \in Job /\ JobOK(work)
  BY <1>1 DEF EmailInv
<1>3. ASSUME NEW pc \in MailPcs, Goto(m, pc), JobOK([work EXCEPT !.pc = pc]) PROVE JobStep(m)
  BY <1>1, <1>3 DEF Goto, JobStep, EmailInv
<1>4. ASSUME NEW failure \in {"disabled", "misconfigured", "provider"}, AttemptFails(m, failure),
             work.pc \in {"queued", "smtp", "settings", "resend"},
             ~ work.touched => failure = "provider"
      PROVE  JobStep(m)
  <2>1. PICK tries \in 0..Attempts : tries = work.tries + 1
    BY <1>2, <1>4, EmailAssumption DEF JobOK, Job
  <2>2. PICK pc \in {"queued", "failed"} : pc = IF tries < Attempts THEN "queued" ELSE "failed"
    OBVIOUS
  <2>3. PICK new : new = [work EXCEPT !.pc = pc, !.tries = tries, !.failure = failure]
    OBVIOUS
  <2>4. mail' = [mail EXCEPT ![m] = new]
    BY <1>1, <1>4, <2>1, <2>2, <2>3 DEF AttemptFails, EmailInv
  <2>5. new \in Job
    BY <1>2, <2>3 DEF Job, MailPcs
  <2>6. /\ new.pc = pc /\ new.tries = tries /\ new.failure = failure /\ new.via = work.via
        /\ new.touched = work.touched /\ new.template = work.template /\ new.layout = work.layout
    BY <1>2, <2>3 DEF Job
  <2>7. JobOK(new)
    BY <1>2, <1>4, <2>2, <2>5, <2>6 DEF JobOK, Remembers
  <2> QED
    BY <2>4, <2>7 DEF JobStep
<1>5. CASE Route(m)
  <2>1. work.pc = "queued"
    BY <1>1, <1>5 DEF Route
  <2>2. CASE Value(Provider) = Mailpit /\ production
    <3>1. AttemptFails(m, "misconfigured") /\ work.touched
      BY <1>2, <1>5, <2>1, <2>2 DEF Route, JobOK, Remembers, CanLeave, Job
    <3> QED
      BY <1>4, <2>1, <3>1
  <2>3. CASE ~ (Value(Provider) = Mailpit /\ production)
    <3>1. PICK pc \in {"smtp", "settings"} :
            Goto(m, pc) /\ pc = IF Value(Provider) = Mailpit THEN "smtp" ELSE "settings"
      BY <1>5, <2>3 DEF Route
    <3>2. JobOK([work EXCEPT !.pc = pc])
      BY <1>2, <2>1, <2>3, <3>1 DEF JobOK, Job, MailPcs, Remembers
    <3> QED
      BY <1>3, <3>1, <3>2 DEF MailPcs
  <2> QED
    BY <2>2, <2>3
<1>6. CASE ReadResendSettings(m)
  <2>1. work.pc = "settings"
    BY <1>1, <1>6 DEF ReadResendSettings
  <2>2. CASE Value(Enabled) # Yes \/ ~ Configured
    <3>1. work.touched
      BY <1>2, <2>1, <2>2 DEF JobOK, Remembers, CanLeave, Job
    <3>2. AttemptFails(m, "disabled") \/ AttemptFails(m, "misconfigured")
      BY <1>6, <2>2 DEF ReadResendSettings
    <3> QED
      BY <1>4, <2>1, <3>1, <3>2
  <2>3. CASE Value(Enabled) = Yes /\ Configured
    <3>1. Goto(m, "resend")
      BY <1>6, <2>3 DEF ReadResendSettings
    <3>2. JobOK([work EXCEPT !.pc = "resend"])
      BY <1>2, <2>1 DEF JobOK, Job, MailPcs, Remembers
    <3> QED
      BY <1>3, <3>1, <3>2 DEF MailPcs
  <2> QED
    BY <2>2, <2>3
<1>7. CASE Deliver(m)
  <2>1. work.pc \in {"smtp", "resend"}
    BY <1>1, <1>7 DEF Deliver
  <2>2. CASE AttemptFails(m, "provider")
    BY <1>4, <2>1, <2>2
  <2>3. CASE ~ AttemptFails(m, "provider")
    <3>1. PICK new : new = [work EXCEPT !.pc = "accepted", !.via = work.pc]
      OBVIOUS
    <3>2. mail' = [mail EXCEPT ![m] = new]
      BY <1>1, <1>7, <2>3, <3>1 DEF Deliver, EmailInv
    <3>3. JobOK(new)
      BY <1>2, <2>1, <3>1 DEF JobOK, Job, MailPcs, Remembers
    <3> QED
      BY <3>2, <3>3 DEF JobStep
  <2> QED
    BY <2>2, <2>3
<1>8. CASE Complete(m)
  <2>1. work.pc = "accepted" /\ Goto(m, "sent")
    BY <1>1, <1>8 DEF Complete
  <2>2. JobOK([work EXCEPT !.pc = "sent"])
    BY <1>2, <2>1 DEF JobOK, Job, MailPcs, Remembers
  <2> QED
    BY <1>3, <2>1, <2>2 DEF MailPcs
<1>9. CASE MailWorkerDies(m)
  <2>1. PICK pc \in {"failed", "queued"} : pc = IF work.stalled THEN "failed" ELSE "queued"
    OBVIOUS
  <2>2. PICK new : new = [work EXCEPT !.pc = pc, !.stalled = TRUE]
    OBVIOUS
  <2>3. work.pc \in {"smtp", "settings", "resend", "accepted"} /\ mail' = [mail EXCEPT ![m] = new]
    BY <1>1, <1>9, <2>1, <2>2 DEF MailWorkerDies, EmailInv
  <2>4. JobOK(new)
    BY <1>2, <2>2, <2>3 DEF JobOK, Job, MailPcs, Remembers
  <2> QED
    BY <2>3, <2>4 DEF JobStep
<1> QED
  BY <1>5, <1>6, <1>7, <1>8, <1>9 DEF Work

\* What a saved setting may change for a mail is what the mail was told before.
LEMMA TouchStep ==
  ASSUME EmailInv, ChangeSettings, NEW m \in Mails
  PROVE  JobOK(mail[m])' /\ mail'[m] \in Job
<1>1. PICK work : work = mail[m]
  OBVIOUS
<1>2. work \in Job /\ JobOK(work) /\ production' = production
  BY <1>1 DEF EmailInv, ChangeSettings
<1>3. CASE work.pc = "idle"
  <2>1. mail'[m] = work /\ work = NoMail
    BY <1>1, <1>2, <1>3 DEF ChangeSettings, JobOK
  <2>2. JobOK(work)'
    BY <1>2, <2>1 DEF JobOK, NoMail, Remembers
  <2> QED
    BY <1>2, <2>1, <2>2 DEF JobOK, Remembers, CanLeave, Configured, Value
<1>4. CASE work.pc # "idle"
  <2>1. mail'[m] = [work EXCEPT !.touched = TRUE]
    BY <1>1, <1>4 DEF ChangeSettings
  <2> QED
    BY <1>2, <1>4, <2>1 DEF JobOK, Job
<1> QED
  BY <1>3, <1>4

\* Each step of a request, of the worker and of a save keeps the invariant of the mail.
LEMMA EmailInvStep ==
  EmailInv /\ [EmailNext]_emailVars => EmailInv'
<1> SUFFICES ASSUME EmailInv, [EmailNext]_emailVars
             PROVE  EmailInv'
  OBVIOUS
<1>1. ASSUME UNCHANGED settingVars PROVE SettingsInv'
  BY <1>1 DEF settingVars, EmailInv, SettingsInv, RowOK, HasRow, SaveOK
<1>2. ASSUME setting' = setting, production' = production, NEW work, JobOK(work) PROVE JobOK(work)'
  BY <1>2 DEF JobOK, Remembers, CanLeave, Configured, Value
<1>3. ASSUME NEW m \in Mails, Accept(m) \/ Work(m) PROVE EmailInv'
  <2>1. PICK work : JobOK(work) /\ mail' = [mail EXCEPT ![m] = work]
    BY <1>3, AcceptStep, MailWorkStep DEF EmailInv, JobStep
  <2>2. OnlyMail
    BY <1>3 DEF Accept, Work, ReadProvider, ReadEnabled, ReadCredentials, ReadTemplate,
       ReadLayout, Enqueue, GiveUpMail, Route, ReadResendSettings, Deliver, Complete,
       MailWorkerDies
  <2>3. SettingsInv' /\ TextsOK' /\ setting' = setting /\ production' = production
    BY <1>1, <2>2 DEF OnlyMail, settingVars, EmailInv, TextsOK
  <2>4. mail' \in [Mails -> Job]
    BY <2>1 DEF JobOK, EmailInv
  <2>5. ASSUME NEW n \in Mails PROVE JobOK(mail[n])'
    <3>1. PICK j : j = mail'[n]
      OBVIOUS
    <3>2. JobOK(j)
      BY <2>1, <3>1 DEF EmailInv
    <3>3. JobOK(j)'
      BY <1>2, <2>3, <3>2
    <3> QED
      BY <3>1, <3>3 DEF JobOK, Remembers
  <2> QED
    BY <2>3, <2>4, <2>5 DEF EmailInv
<1>4. CASE UNCHANGED emailVars
  BY <1>4 DEF emailVars, settingVars, mailVars, EmailInv, SettingsInv, RowOK, HasRow, SaveOK,
     TextsOK, JobOK, Remembers, CanLeave, Configured, Value
<1>5. CASE ChangeSettings
  <2>1. SettingsInv'
    BY <1>5, CommitStep, PlainStep, EmailAssumption DEF ChangeSettings, EmailInv, MailKeys
  <2>2. TextsOK'
    BY <1>5 DEF ChangeSettings, EmailInv, TextsOK
  <2>3. mail' \in [Mails -> Job] /\ \A m \in Mails : JobOK(mail[m])'
    BY <1>5, TouchStep DEF ChangeSettings
  <2> QED
    BY <2>1, <2>2, <2>3 DEF EmailInv
<1>6. ASSUME UNCHANGED mailVars, NEW r \in Saves,
             GiveUpSave(r) \/ \E k \in MailKeys : \E form \in Input[k] : BeginSave(r, k, form)
      PROVE  EmailInv'
  <2>1. SettingsInv'
    BY <1>6, BeginSaveStep, SettingsStep, EmailAssumption DEF EmailInv, MailKeys, SettingsNext
  <2>2. setting' = setting
    BY <1>6 DEF GiveUpSave, BeginSave
  <2>3. TextsOK' /\ mail' = mail /\ production' = production
    BY <1>6 DEF mailVars, EmailInv, TextsOK
  <2> QED
    BY <2>1, <2>2, <2>3 DEF EmailInv, JobOK, Remembers, CanLeave, Configured, Value
<1>7. ASSUME NEW v \in Versions,
             UpdateEmailTemplate(v) \/ UpdateEmailLayout(v) \/ SeedTexts(v)
      PROVE  EmailInv'
  <2>1. UNCHANGED settingVars /\ mail' = mail /\ production' = production
    BY <1>7 DEF UpdateEmailTemplate, UpdateEmailLayout, SeedTexts
  <2>2. SettingsInv' /\ setting' = setting
    BY <1>1, <2>1 DEF settingVars
  <2>3. TextsOK'
    BY <1>7, <2>1 DEF UpdateEmailTemplate, UpdateEmailLayout, SeedTexts, EmailInv, TextsOK
  <2> QED
    BY <2>1, <2>2, <2>3 DEF EmailInv, JobOK, Remembers, CanLeave, Configured, Value
<1> QED
  BY <1>3, <1>4, <1>5, <1>6, <1>7 DEF EmailNext, Configure

\* A mail that was accepted and whose settings were left alone never fails for want
\* of configuration, leaves by the provider that is set, and was rendered; nothing
\* leaves production through the developers' mailbox.
THEOREM AcceptedMailCanLeaveHolds == EmailSpec => []AcceptedMailCanLeave
<1>1. EmailInit => EmailInv
  BY NoMailOK, SettingsInvInit DEF EmailInit, EmailInv, TextsOK, JobOK
<1>2. EmailInv /\ [EmailNext]_emailVars => EmailInv'
  BY EmailInvStep
<1>3. EmailInv => AcceptedMailCanLeave
  BY DEF EmailInv, JobOK, Remembers, AcceptedMailCanLeave
<1> QED
  BY <1>1, <1>2, <1>3, PTL DEF EmailSpec

\* The rows of settings and texts and what a delivery remembers keep their types
\* (schema.prisma, PlatformSetting, EmailTemplate, EmailLayout).
THEOREM EmailTypeCorrect == EmailSpec => []EmailTypeOK
<1>1. EmailInit => EmailInv
  BY NoMailOK, SettingsInvInit DEF EmailInit, EmailInv, TextsOK, JobOK
<1>2. EmailInv /\ [EmailNext]_emailVars => EmailInv'
  BY EmailInvStep
<1>3. EmailInv => EmailTypeOK
  <2>1. ASSUME SettingsInv PROVE SettingsTypeOK
    BY <2>1 DEF SettingsInv, SettingsTypeOK, Save
  <2> QED BY <2>1 DEF EmailInv, TextsOK, EmailTypeOK, Job
<1> QED
  BY <1>1, <1>2, <1>3, PTL DEF EmailSpec

\* What a mail reads, it does not write; and whoever changes the settings
\* meanwhile is an administrator.
LEMMA MailStepIsASettingsStep == [EmailNext]_emailVars => [SettingsNext]_settingVars
<1> SUFFICES ASSUME [EmailNext]_emailVars PROVE [SettingsNext]_settingVars
  OBVIOUS
<1>1. CASE UNCHANGED emailVars
  BY <1>1 DEF emailVars
<1>2. ASSUME NEW m \in Mails, Accept(m) PROVE UNCHANGED settingVars
  BY <1>2 DEF Accept, ReadProvider, ReadEnabled, ReadCredentials, ReadTemplate, ReadLayout, Enqueue,
              GiveUpMail, OnlyMail
<1>3. ASSUME NEW m \in Mails, Work(m) PROVE UNCHANGED settingVars
  BY <1>3 DEF Work, Route, ReadResendSettings, Deliver, Complete, MailWorkerDies, Goto, AttemptFails, OnlyMail
<1>4. ASSUME NEW v \in Versions, UpdateEmailTemplate(v) \/ UpdateEmailLayout(v) \/ SeedTexts(v)
      PROVE  UNCHANGED settingVars
  BY <1>4 DEF UpdateEmailTemplate, UpdateEmailLayout, SeedTexts
<1>5. CASE Configure
  <2>1. MailKeys \subseteq Keys
    BY EmailAssumption DEF MailKeys
  <2> QED BY <1>5, <2>1 DEF Configure, ChangeSettings, SettingsNext
<1> QED
  BY <1>1, <1>2, <1>3, <1>4, <1>5 DEF EmailNext

\* Mail leaves the settings to the administrators: what holds of the settings in
\* every behaviour holds of them while mail is on its way.
THEOREM MailReadsTheSettings == EmailSpec => SettingsSpec
<1>1. EmailInit => SettingsInit
  BY DEF EmailInit
<1> QED
  BY <1>1, MailStepIsASettingsStep, PTL DEF EmailSpec, SettingsSpec

-----------------------------------------------------------------------------
(* Recursion.  A set of numbers has a least member; with it, what is said  *)
(* of a function by recursion on a measure is said of one that exists.     *)

\* A set of numbers that is not empty has a smallest one.
LEMMA SmallestNumber ==
  ASSUME NEW T \in SUBSET Nat, T # {}
  PROVE  \E x \in T : \A y \in T : x <= y
<1>0. PICK R : R = {ss \in Nat \X Nat : ss[1] < ss[2]}
  OBVIOUS
<1>1. \E x \in T : \A y \in T : ~ (<<y, x>> \in R)
  <2>1. IsWellFoundedOn(R, Nat)
    BY <1>0, NatLessThanWellFounded DEF OpToRel
  <2> QED BY <2>1, WFMin
<1>2. \A x, y \in Nat : y < x => <<y, x>> \in R
  BY <1>0
<1>3. PICK x \in T : \A y \in T : ~ (<<y, x>> \in R)
  BY <1>1
<1>4. ASSUME NEW y \in T
      PROVE  x <= y
  <2>1. x \in Nat /\ y \in Nat /\ ~ (y < x)
    BY <1>2, <1>3
  <2> QED BY <2>1
<1> QED BY <1>4

\* B says of a function what it is at each place, from the places of a smaller
\* measure only.
Local(B, D, R, m) ==
  /\ B \in [[D -> R] -> [D -> R]] /\ m \in [D -> Nat]
  /\ \A f, g \in [D -> R] : \A x \in D :
       (\A y \in D : m[y] < m[x] => f[y] = g[y]) => B[f][x] = B[g][x]
Upto(f, B, D, R, m, k) == f \in [D -> R] /\ \A x \in D : m[x] < k => f[x] = B[f][x]

\* Two functions that satisfy a local description up to a measure agree up to it.
LEMMA UptoUnique ==
  ASSUME NEW D, NEW R, NEW B, NEW m, Local(B, D, R, m),
         NEW k \in Nat, NEW f, NEW g, Upto(f, B, D, R, m, k), Upto(g, B, D, R, m, k)
  PROVE  \A x \in D : m[x] < k => f[x] = g[x]
<1>0. /\ B \in [[D -> R] -> [D -> R]] /\ m \in [D -> Nat]
      /\ f \in [D -> R] /\ g \in [D -> R]
  BY DEF Local, Upto
<1> DEFINE Bad == {n \in Nat : \E x \in D : m[x] = n /\ n < k /\ f[x] # g[x]}
<1>1. SUFFICES ASSUME Bad # {} PROVE FALSE
  BY <1>0
<1>2. PICK n \in Bad : \A l \in Bad : n <= l
  <2>1. Bad \in SUBSET Nat
    OBVIOUS
  <2> HIDE DEF Bad
  <2> QED BY <1>1, <2>1, SmallestNumber
<1>3. PICK x \in D : m[x] = n /\ n < k /\ f[x] # g[x]
  BY <1>2
<1>4. ASSUME NEW y \in D, m[y] < m[x] PROVE f[y] = g[y]
  <2>1. m[y] \in Nat /\ n \in Nat
    BY <1>0, <1>2
  <2>2. m[y] < n /\ m[y] < k
    BY <1>3, <1>4, <2>1
  <2> QED BY <1>2, <2>1, <2>2
<1>5. B[f][x] = B[g][x]
  BY <1>0, <1>4 DEF Local
<1>6. f[x] = B[f][x] /\ g[x] = B[g][x]
  BY <1>3 DEF Upto
<1> QED BY <1>3, <1>5, <1>6

\* Up to every measure some function satisfies a local description.
LEMMA UptoExists ==
  ASSUME NEW D, NEW R, NEW B, NEW m, Local(B, D, R, m),
         [D -> R] # {}
  PROVE  \A k \in Nat : \E f \in [D -> R] : Upto(f, B, D, R, m, k)
<1>0. B \in [[D -> R] -> [D -> R]] /\ m \in [D -> Nat]
  BY DEF Local
<1> DEFINE Bad == {k \in Nat : ~ \E f \in [D -> R] : Upto(f, B, D, R, m, k)}
<1>1. SUFFICES ASSUME Bad # {} PROVE FALSE
  BY <1>1
<1>2. PICK k \in Bad : \A l \in Bad : k <= l
  <2>1. Bad \in SUBSET Nat
    OBVIOUS
  <2> HIDE DEF Bad
  <2> QED BY <1>1, <2>1, SmallestNumber
<1>3. k # 0
  <2>1. PICK f : f \in [D -> R]
    OBVIOUS
  <2>2. ASSUME NEW x \in D, m[x] < 0 PROVE FALSE
    BY <1>0, <2>2
  <2>3. Upto(f, B, D, R, m, 0)
    BY <2>1, <2>2 DEF Upto
  <2> QED BY <1>2, <2>1, <2>3
<1>4. k \in Nat /\ k - 1 \in Nat /\ k - 1 \notin Bad
  BY <1>2, <1>3
<1>5. PICK f \in [D -> R] : Upto(f, B, D, R, m, k - 1)
  BY <1>4
<1>6. PICK g \in [D -> R] : g = B[f]
  BY <1>0
<1>7. ASSUME NEW x \in D, m[x] < k PROVE g[x] = B[g][x]
  <2>1. ASSUME NEW y \in D, m[y] < m[x] PROVE f[y] = g[y]
    <3>1. m[y] \in Nat /\ m[x] \in Nat
      BY <1>0
    <3>2. m[y] < k - 1
      BY <1>4, <1>7, <2>1, <3>1
    <3> QED BY <1>5, <1>6, <3>2 DEF Upto
  <2>2. B[f][x] = B[g][x]
    BY <1>5, <2>1 DEF Local
  <2> QED BY <1>6, <2>2
<1>8. Upto(g, B, D, R, m, k)
  BY <1>7 DEF Upto
<1> QED BY <1>2, <1>8

\* There is a function that is everywhere what B says of it.
LEMMA Recursion ==
  ASSUME NEW D, NEW R, NEW B, NEW m, Local(B, D, R, m),
         [D -> R] # {}
  PROVE  \E f \in [D -> R] : f = B[f]
<1>0. B \in [[D -> R] -> [D -> R]] /\ m \in [D -> Nat]
  BY DEF Local
<1>1. \A k \in Nat : \E f \in [D -> R] : Upto(f, B, D, R, m, k)
  BY UptoExists
<1>2. PICK F : F = [k \in Nat |-> CHOOSE f \in [D -> R] : Upto(f, B, D, R, m, k)]
  OBVIOUS
<1>3. ASSUME NEW k \in Nat PROVE F[k] \in [D -> R] /\ Upto(F[k], B, D, R, m, k)
  BY <1>1, <1>2
<1>4. PICK h : h = [x \in D |-> F[m[x] + 1][x]]
  OBVIOUS
<1>5. ASSUME NEW x \in D PROVE m[x] \in Nat /\ m[x] + 1 \in Nat /\ h[x] = F[m[x] + 1][x]
  BY <1>0, <1>4
<1>6. h \in [D -> R]
  BY <1>3, <1>4, <1>5 DEF Upto
<1>7. ASSUME NEW x \in D PROVE h[x] = B[h][x]
  <2>0. PICK k \in Nat : k = m[x] + 1
    BY <1>5
  <2>1. PICK g \in [D -> R] : g = F[k] /\ Upto(g, B, D, R, m, k)
    BY <1>3
  <2>2. ASSUME NEW y \in D, m[y] < m[x] PROVE g[y] = h[y]
    <3>0. PICK l \in Nat : l = m[y] + 1
      BY <1>5
    <3>1. PICK f \in [D -> R] : f = F[l] /\ Upto(f, B, D, R, m, l)
      BY <1>3
    <3>2. \A z \in D : m[z] < l => m[z] < k
      <4>1. ASSUME NEW z \in D, m[z] < l PROVE m[z] < k
        <5>1. m[z] \in Nat /\ m[y] \in Nat /\ m[x] \in Nat
          BY <1>0
        <5> QED BY <2>0, <2>2, <3>0, <4>1, <5>1
      <4> QED BY <4>1
    <3>3. Upto(g, B, D, R, m, l)
      BY <2>1, <3>2 DEF Upto
    <3>4. \A z \in D : m[z] < l => f[z] = g[z]
      <4>1. Upto(f, B, D, R, m, l)
        BY <3>1
      <4> QED BY <3>3, <4>1, UptoUnique
    <3>5. m[y] < l
      BY <1>5, <3>0
    <3>6. f[y] = g[y]
      BY <3>4, <3>5
    <3> QED BY <1>5, <3>0, <3>1, <3>6
  <2>3. B[g][x] = B[h][x]
    BY <1>0, <1>6, <2>2 DEF Local
  <2>4. m[x] < k
    BY <1>5, <2>0
  <2>5. g[x] = B[g][x]
    BY <2>1, <2>4 DEF Upto
  <2> QED BY <1>5, <2>0, <2>1, <2>3, <2>5
<1>8. B[h] \in [D -> R]
  BY <1>0, <1>6
<1> QED BY <1>6, <1>7, <1>8


-----------------------------------------------------------------------------
(* What the tree always has: parents that exist, siblings that can be      *)
(* ordered, and references to categories that are there.                   *)

ParentsLive == \A c \in LiveCategories : category[c].parentId \in LiveCategories \cup {Nothing}
RanksDiffer == \A c \in LiveCategories :
  /\ category[c].rank \in Ranks
  /\ \A d \in LiveCategories : c # d => category[c].rank # category[d].rank
InUseIsLive == /\ specialized \subseteq LiveCategories
               /\ \A j \in Jobs : job[j] \in LiveCategories \cup {Nothing}

\* A move that no other overtook: a set that is closed downwards still holds
\* the category and not the parent that was checked.
Separated(c, p, T) == c \in T /\ p \notin T /\ Closed(T)
Seen(c) == c \in Categories /\ category[c].status # "NONE"
MoveStillSafe(r) ==
  moving[r].pc = "move" /\ ~ moving[r].overtaken /\ moving[r].parentId # Nothing =>
    /\ Seen(moving[r].c) /\ Seen(moving[r].parentId)
    /\ \E T \in SUBSET Categories : Separated(moving[r].c, moving[r].parentId, T)

CatalogInv == CatalogTypeOK /\ ParentsLive /\ RanksDiffer /\ InUseIsLive
              /\ \A r \in Movers : MoveStillSafe(r)

-----------------------------------------------------------------------------
(* The search for all below.                                               *)

\* The children of categories are categories.
LEMMA ParentsAreRows == ASSUME NEW S \in SUBSET Categories PROVE Widen(S) \in SUBSET Categories
  BY DEF Widen, Children, LiveCategories

\* The levels of the search, as a function.
LEMMA SearchLevels ==
  ASSUME NEW S \in SUBSET Categories
  PROVE  \E f \in [Nat -> SUBSET Categories] :
           /\ f[0] = S
           /\ \A n \in Nat : f[n + 1] = Widen(f[n])
           /\ Descendants(S) = f[Cardinality(Categories)]
<1> DEFINE R == SUBSET Categories
           Level(f) == [n \in Nat |-> IF n = 0 THEN S ELSE Widen(f[n - 1])]
           IsLevels(f) == f = Level(f)
<1>1. PICK B : B = [f \in [Nat -> R] |-> Level(f)]
  OBVIOUS
<1>2. PICK m : m = [n \in Nat |-> n]
  OBVIOUS
<1>3. ASSUME NEW f \in [Nat -> R] PROVE Level(f) \in [Nat -> R]
  <2>1. ASSUME NEW n \in Nat PROVE (IF n = 0 THEN S ELSE Widen(f[n - 1])) \in R
    <3>1. CASE n = 0
      BY <3>1
    <3>2. CASE n # 0
      <4>1. f[n - 1] \in R
        BY <3>2
      <4> QED BY <3>2, <4>1, ParentsAreRows
    <3> QED BY <3>1, <3>2
  <2> QED BY <2>1
<1>4. Local(B, Nat, R, m)
  <2>1. B \in [[Nat -> R] -> [Nat -> R]]
    <3> HIDE DEF Level
    <3> QED BY <1>1, <1>3
  <2>2. ASSUME NEW f \in [Nat -> R], NEW g \in [Nat -> R], NEW n \in Nat,
               \A l \in Nat : m[l] < m[n] => f[l] = g[l]
        PROVE  B[f][n] = B[g][n]
    <3>1. n # 0 => f[n - 1] = g[n - 1]
      BY <1>2, <2>2
    <3>2. Level(f)[n] = Level(g)[n]
      BY <3>1
    <3> HIDE DEF Level
    <3> QED BY <1>1, <3>2
  <2>3. m \in [Nat -> Nat]
    BY <1>2
  <2> QED BY <2>1, <2>2, <2>3 DEF Local
<1>5. PICK h \in [Nat -> R] : IsLevels(h)
  <2>1. [n \in Nat |-> S] \in [Nat -> R]
    OBVIOUS
  <2>2. [Nat -> R] # {}
    BY <2>1
  <2>3. PICK h \in [Nat -> R] : h = B[h]
    <3> HIDE DEF R
    <3> QED BY <1>4, <2>2, Recursion
  <2> HIDE DEF Level
  <2> QED BY <1>1, <2>3
<1>6. PICK f : f = CHOOSE g : IsLevels(g)
  OBVIOUS
<1>7. IsLevels(f)
  <2> HIDE DEF IsLevels
  <2> QED BY <1>5, <1>6
<1>8. Descendants(S) = f[Cardinality(Categories)]
  BY <1>6 DEF Descendants
<1>9. \A n \in Nat : f[n] = IF n = 0 THEN S ELSE Widen(f[n - 1])
  BY <1>7
<1>10. f[0] = S /\ \A n \in Nat : f[n + 1] = Widen(f[n])
  BY <1>9
<1>11. ASSUME NEW n \in Nat PROVE f[n] \in R
  <2> DEFINE Bad == {l \in Nat : f[l] \notin R}
  <2>1. SUFFICES ASSUME Bad # {} PROVE FALSE
    OBVIOUS
  <2>2. PICK k \in Bad : \A l \in Bad : k <= l
    <3>1. Bad \in SUBSET Nat
      OBVIOUS
    <3> HIDE DEF Bad
    <3> QED BY <2>1, <3>1, SmallestNumber
  <2>3. k = 0 \/ f[k - 1] \in R
    BY <2>2
  <2>4. f[k] = IF k = 0 THEN S ELSE Widen(f[k - 1])
    BY <1>9, <2>2
  <2> QED BY <2>2, <2>3, <2>4, ParentsAreRows
<1>12. f \in [Nat -> R]
  <2>1. f = [n \in Nat |-> f[n]]
    BY <1>7
  <2> QED BY <1>11, <2>1
<1> QED BY <1>8, <1>10, <1>12

\* The search ends with the least set that holds S and what is below it.
LEMMA SearchFindsTheClosure ==
  ASSUME NEW S \in SUBSET Categories
  PROVE  /\ Descendants(S) \in SUBSET Categories
         /\ S \subseteq Descendants(S) /\ Closed(Descendants(S))
         /\ \A U \in SUBSET Categories : S \subseteq U /\ Closed(U) => Descendants(S) \subseteq U
<1>0. IsFiniteSet(Categories) /\ Cardinality(Categories) \in Nat
  BY CatalogAssumption, FS_CardinalityType
<1>1. PICK f \in [Nat -> SUBSET Categories] :
        /\ f[0] = S
        /\ \A n \in Nat : f[n + 1] = Widen(f[n])
        /\ Descendants(S) = f[Cardinality(Categories)]
  BY SearchLevels
<1>2. ASSUME NEW T PROVE Closed(T) => Widen(T) = T
  BY DEF Closed, Widen
<1>3. \A n \in Nat : f[n] \subseteq f[n + 1]
  BY <1>1 DEF Widen
<1>4. \A n \in Nat : IsFiniteSet(f[n]) /\ Cardinality(f[n]) \in Nat
  <2>1. ASSUME NEW n \in Nat PROVE IsFiniteSet(f[n]) /\ Cardinality(f[n]) \in Nat
    <3>1. f[n] \in SUBSET Categories
      BY <1>1
    <3>2. IsFiniteSet(f[n])
      BY <1>0, <3>1, FS_Subset
    <3> QED BY <3>2, FS_CardinalityType
  <2> QED BY <2>1
<1>5. ASSUME NEW n \in Nat PROVE S \subseteq f[n]
  <2> DEFINE Bad == {k \in Nat : ~ (S \subseteq f[k])}
  <2>1. SUFFICES ASSUME Bad # {} PROVE FALSE
    OBVIOUS
  <2>2. PICK k \in Bad : \A l \in Bad : k <= l
    <3>1. Bad \in SUBSET Nat
      OBVIOUS
    <3> HIDE DEF Bad
    <3> QED BY <2>1, <3>1, SmallestNumber
  <2>3. PICK l \in Nat : l + 1 = k
    <3>1. k \in Nat /\ k # 0
      BY <1>1, <2>2
    <3>2. k - 1 \in Nat /\ (k - 1) + 1 = k
      BY <3>1
    <3> QED BY <3>2
  <2>4. S \subseteq f[l]
    BY <2>2, <2>3
  <2> QED BY <1>3, <2>2, <2>3, <2>4
\* Until it is closed, each level adds a member.
<1>6. ASSUME NEW n \in Nat, ~ Closed(f[n]) PROVE n <= Cardinality(f[n])
  <2> DEFINE Bad == {k \in Nat : ~ Closed(f[k]) /\ ~ (k <= Cardinality(f[k]))}
  <2>1. SUFFICES ASSUME Bad # {} PROVE FALSE
    BY <1>6
  <2>2. PICK k \in Bad : \A l \in Bad : k <= l
    <3>1. Bad \in SUBSET Nat
      OBVIOUS
    <3> HIDE DEF Bad
    <3> QED BY <2>1, <3>1, SmallestNumber
  <2>3. PICK l \in Nat : l + 1 = k
    <3>1. k \in Nat /\ k # 0
      BY <1>4, <2>2
    <3>2. k - 1 \in Nat /\ (k - 1) + 1 = k
      BY <3>1
    <3> QED BY <3>2
  <2>4. f[k] = Widen(f[l]) /\ f[l] \subseteq f[k]
    BY <1>1, <1>3, <2>3
  <2>5. ~ Closed(f[l])
    <3>1. SUFFICES ASSUME Closed(f[l]) PROVE FALSE
      OBVIOUS
    <3>2. f[k] = f[l]
      BY <1>2, <2>4, <3>1
    <3> QED BY <2>2, <3>1, <3>2
  <2>6. l <= Cardinality(f[l])
    BY <2>2, <2>3, <2>5
  <2>7. f[l] # f[k]
    BY <2>4, <2>5 DEF Widen, Closed
  <2>8. k \in Nat /\ f[l] \in SUBSET f[k]
    BY <2>2, <2>4
  <2>9. Cardinality(f[l]) <= Cardinality(f[k]) /\ Cardinality(f[l]) # Cardinality(f[k])
    <3>1. IsFiniteSet(f[k])
      BY <1>4, <2>8
    <3> QED BY <2>7, <2>8, <3>1, FS_Subset
  <2>10. PICK a \in Nat, b \in Nat : a = Cardinality(f[l]) /\ b = Cardinality(f[k])
    BY <1>4, <2>8
  <2>11. k <= b
    BY <2>3, <2>6, <2>8, <2>9, <2>10
  <2> QED BY <2>2, <2>10, <2>11
<1>7. Closed(f[Cardinality(Categories)])
  <2>0. PICK N \in Nat : N = Cardinality(Categories)
    BY <1>0
  <2>1. SUFFICES ASSUME ~ Closed(f[N]) PROVE FALSE
    BY <2>0
  <2>2. f[N] \in SUBSET Categories
    BY <1>1, <2>0
  <2>3. PICK a \in Nat : a = Cardinality(f[N])
    BY <1>4, <2>0
  <2>4. N <= a
    BY <1>6, <2>1, <2>3
  <2>5. a <= N /\ (N = a => Categories = f[N])
    BY <1>0, <2>0, <2>2, <2>3, FS_Subset
  <2>6. Categories = f[N]
    BY <2>4, <2>5
  <2>7. Closed(Categories)
    BY DEF Closed, Children, LiveCategories
  <2> QED BY <2>1, <2>6, <2>7
<1>8. ASSUME NEW U \in SUBSET Categories, S \subseteq U, Closed(U), NEW n \in Nat
      PROVE  f[n] \subseteq U
  <2> DEFINE Bad == {k \in Nat : ~ (f[k] \subseteq U)}
  <2>1. SUFFICES ASSUME Bad # {} PROVE FALSE
    OBVIOUS
  <2>2. PICK k \in Bad : \A l \in Bad : k <= l
    <3>1. Bad \in SUBSET Nat
      OBVIOUS
    <3> HIDE DEF Bad
    <3> QED BY <2>1, <3>1, SmallestNumber
  <2>3. PICK l \in Nat : l + 1 = k
    <3>1. k \in Nat /\ k # 0
      BY <1>1, <1>8, <2>2
    <3>2. k - 1 \in Nat /\ (k - 1) + 1 = k
      BY <3>1
    <3> QED BY <3>2
  <2>4. f[l] \subseteq U
    BY <2>2, <2>3
  <2>5. f[k] = Widen(f[l])
    BY <1>1, <2>3
  <2>6. f[k] \subseteq U
    BY <1>8, <2>4, <2>5 DEF Widen, Closed
  <2> QED BY <2>2, <2>6
<1> QED BY <1>0, <1>1, <1>5, <1>7, <1>8

-----------------------------------------------------------------------------
(* The tree is kept.                                                       *)

\* A catalog without categories is a tree.
LEMMA CatalogInitHolds == ASSUME CatalogInit PROVE CatalogInv
<1>1. CatalogTypeOK
  BY DEF CatalogInit, CatalogTypeOK, CategoryRow, NoCategory, Parents, MoveRequest, NoMove, MovePcs
<1>2. LiveCategories = {}
  BY DEF CatalogInit, LiveCategories, NoCategory
<1>3. ParentsLive /\ RanksDiffer /\ InUseIsLive
  BY <1>2 DEF CatalogInit, ParentsLive, RanksDiffer, InUseIsLive
<1>4. \A r \in Movers : MoveStillSafe(r)
  BY DEF CatalogInit, MoveStillSafe, NoMove
<1> QED BY <1>1, <1>3, <1>4 DEF CatalogInv

\* What depends on the categories alone, when they stay.
LEMMA SameTree ==
  ASSUME category' = category
  PROVE  /\ LiveCategories' = LiveCategories
         /\ ParentsLive' = ParentsLive /\ RanksDiffer' = RanksDiffer
         /\ \A c : Children(c)' = Children(c) /\ Seen(c)' = Seen(c)
         /\ \A T : Closed(T)' = Closed(T)
BY DEF LiveCategories, ParentsLive, RanksDiffer, Seen, Children, Closed

\* A move that was safe is safe after an edit that only adds categories below,
\* takes categories off or changes ranks.
LEMMA StaysSafe ==
  ASSUME NEW r, MoveStillSafe(r), moving'[r] = moving[r],
         \A c : Seen(c) => Seen(c)',
         \A T \in SUBSET Categories : Closed(T) =>
           \E U \in SUBSET Categories : T \subseteq U /\ Closed(U)' /\ \A c \in U \ T : ~ Seen(c)
  PROVE  MoveStillSafe(r)'
<1> DEFINE c == moving[r].c
           p == moving[r].parentId
<1>1. SUFFICES ASSUME moving[r].pc = "move", ~ moving[r].overtaken, p # Nothing
               PROVE  /\ Seen(c)' /\ Seen(p)'
                      /\ \E T \in SUBSET Categories : c \in T /\ p \notin T /\ Closed(T)'
  BY DEF MoveStillSafe, Separated
<1>2. PICK T \in SUBSET Categories : c \in T /\ p \notin T /\ Closed(T)
  BY <1>1 DEF MoveStillSafe, Separated
<1>3. Seen(c) /\ Seen(p)
  BY <1>1 DEF MoveStillSafe
<1>4. PICK U \in SUBSET Categories : T \subseteq U /\ Closed(U)' /\ \A d \in U \ T : ~ Seen(d)
  BY <1>2
<1> QED BY <1>2, <1>3, <1>4

\* A category is created below one that exists, and above none.
LEMMA CreateKeepsTheTree ==
  ASSUME CatalogInv, NEW c \in Categories, NEW k \in Ranks, NEW p \in Parents, CreateCategory(c, k, p)
  PROVE  CatalogInv'
<1> DEFINE row == [status |-> "LIVE", rank |-> k, parentId |-> p]
<1>0. CatalogTypeOK /\ ParentsLive /\ RanksDiffer /\ InUseIsLive /\ \A r \in Movers : MoveStillSafe(r)
  BY DEF CatalogInv
<1>1. category \in [Categories -> CategoryRow] /\ category[c].status = "NONE"
      /\ category' = [category EXCEPT ![c] = row]
      /\ specialized' = specialized /\ job' = job /\ moving' = moving
      /\ p \in LiveCategories \cup {Nothing} /\ RankFree(k, Nothing)
  BY <1>0 DEF CatalogTypeOK, CreateCategory, IsNext
<1>2. row \in CategoryRow /\ row.status = "LIVE" /\ row.rank = k /\ row.parentId = p
  BY DEF CategoryRow
<1>3. category'[c] = row /\ \A d \in Categories \ {c} : category'[d] = category[d]
  BY <1>1
<1>4. category' \in [Categories -> CategoryRow]
  <2> HIDE DEF row
  <2> QED BY <1>1, <1>2
<1>5. c \notin LiveCategories /\ LiveCategories' = LiveCategories \cup {c}
  <2> HIDE DEF row
  <2> QED BY <1>1, <1>2, <1>3 DEF LiveCategories
<1>6. ParentsLive'
  <2> HIDE DEF row
  <2> QED BY <1>0, <1>1, <1>2, <1>3, <1>5 DEF ParentsLive, LiveCategories
<1>7. \A d \in LiveCategories : category[d].rank # k
  BY <1>1, CatalogAssumption DEF RankFree, LiveCategories
<1>8. RanksDiffer'
  <2> HIDE DEF row
  <2>1. ASSUME NEW d \in LiveCategories' PROVE category'[d].rank \in Ranks
    BY <1>0, <1>2, <1>3, <1>5, <2>1 DEF RanksDiffer, LiveCategories
  <2>2. ASSUME NEW d \in LiveCategories', NEW e \in LiveCategories', d # e
        PROVE  category'[d].rank # category'[e].rank
    BY <1>0, <1>2, <1>3, <1>5, <1>7, <2>2 DEF RanksDiffer, LiveCategories
  <2> QED BY <2>1, <2>2 DEF RanksDiffer
<1>9. InUseIsLive'
  BY <1>0, <1>1, <1>5 DEF InUseIsLive
<1>10. ASSUME NEW d, Seen(d) PROVE Seen(d)' /\ d # c
  BY <1>1, <1>3, <1>10 DEF Seen
<1>11. ASSUME NEW T \in SUBSET Categories, Closed(T)
       PROVE  \E U \in SUBSET Categories : T \subseteq U /\ Closed(U)' /\ \A d \in U \ T : ~ Seen(d)
  <2> HIDE DEF row
  <2>1. \A d : Children(d)' \subseteq Children(d) \cup {c}
    BY <1>1, <1>3, <1>5 DEF Children, LiveCategories
  <2>2. Children(c)' \subseteq {c}
    <3>1. c # Nothing
      BY CatalogAssumption
    <3>2. ASSUME NEW d \in LiveCategories, d # c PROVE category'[d].parentId # c
      BY <1>0, <1>3, <1>5, <3>1, <3>2 DEF ParentsLive, LiveCategories
    <3> QED BY <1>5, <3>2 DEF Children
  <2>3. Closed(T \cup {c})'
    BY <1>11, <2>1, <2>2 DEF Closed
  <2>4. ~ Seen(c)
    BY <1>1 DEF Seen
  <2> QED BY <2>3, <2>4
<1>12. ASSUME NEW r \in Movers PROVE MoveStillSafe(r)'
  <2>1. MoveStillSafe(r) /\ moving'[r] = moving[r]
    BY <1>0, <1>1
  <2>2. \A d : Seen(d) => Seen(d)'
    BY <1>10
  <2> QED BY <1>11, <2>1, <2>2, StaysSafe
<1>13. CatalogTypeOK'
  BY <1>0, <1>1, <1>4 DEF CatalogTypeOK
<1> QED BY <1>6, <1>8, <1>9, <1>12, <1>13 DEF CatalogInv

\* A new rank leaves parents as they are.
LEMMA RankKeepsTheTree ==
  ASSUME CatalogInv, NEW c \in Categories, NEW k \in Ranks, UpdateInPlace(c, k)
  PROVE  CatalogInv'
<1>0. CatalogTypeOK /\ ParentsLive /\ RanksDiffer /\ InUseIsLive /\ \A r \in Movers : MoveStillSafe(r)
  BY DEF CatalogInv
<1>1. category \in [Categories -> CategoryRow] /\ c \in LiveCategories
      /\ category' = [category EXCEPT ![c].rank = k]
      /\ specialized' = specialized /\ job' = job /\ moving' = moving
      /\ RankFree(k, c)
  BY <1>0 DEF CatalogTypeOK, UpdateInPlace
<1>2. PICK row : row = [category[c] EXCEPT !.rank = k]
  OBVIOUS
<1>3. row \in CategoryRow /\ row.status = category[c].status /\ row.rank = k
      /\ row.parentId = category[c].parentId
  BY <1>1, <1>2 DEF CategoryRow
<1>4. category'[c] = row /\ \A d \in Categories \ {c} : category'[d] = category[d]
  BY <1>1, <1>2
<1>5. category' = [category EXCEPT ![c] = row]
  BY <1>1, <1>2
<1>6. category' \in [Categories -> CategoryRow]
  BY <1>1, <1>3, <1>5
<1>7. /\ LiveCategories' = LiveCategories
      /\ \A d \in Categories : category'[d].parentId = category[d].parentId
      /\ \A d \in Categories : category'[d].status = category[d].status
  BY <1>3, <1>4 DEF LiveCategories
<1>8. \A d : Children(d)' = Children(d)
  BY <1>7 DEF Children, LiveCategories
<1>9. ParentsLive'
  BY <1>0, <1>7 DEF ParentsLive, LiveCategories
<1>10. RanksDiffer'
  <2>1. ASSUME NEW d \in LiveCategories PROVE category'[d].rank \in Ranks
    BY <1>0, <1>3, <1>4 DEF RanksDiffer, LiveCategories
  <2>2. ASSUME NEW d \in LiveCategories, NEW e \in LiveCategories, d # e
        PROVE  category'[d].rank # category'[e].rank
    BY <1>0, <1>1, <1>3, <1>4, <2>2 DEF RanksDiffer, LiveCategories, RankFree
  <2> QED BY <1>7, <2>1, <2>2 DEF RanksDiffer
<1>11. InUseIsLive'
  BY <1>0, <1>1, <1>7 DEF InUseIsLive
<1>12. ASSUME NEW T \in SUBSET Categories, Closed(T)
       PROVE  \E U \in SUBSET Categories : T \subseteq U /\ Closed(U)' /\ \A d \in U \ T : ~ Seen(d)
  BY <1>8, <1>12 DEF Closed
<1>13. ASSUME NEW r \in Movers PROVE MoveStillSafe(r)'
  <2>1. MoveStillSafe(r) /\ moving'[r] = moving[r]
    BY <1>0, <1>1
  <2>2. \A d : Seen(d) => Seen(d)'
    BY <1>7 DEF Seen
  <2> QED BY <1>12, <2>1, <2>2, StaysSafe
<1>14. CatalogTypeOK'
  BY <1>0, <1>1, <1>6 DEF CatalogTypeOK
<1> QED BY <1>9, <1>10, <1>11, <1>13, <1>14 DEF CatalogInv

\* Only a category without children is deleted.
LEMMA DeleteKeepsTheTree ==
  ASSUME CatalogInv, NEW c \in Categories, DeleteCategory(c)
  PROVE  CatalogInv'
<1> DEFINE row == [NoCategory EXCEPT !.status = "DELETED"]
<1>0. CatalogTypeOK /\ ParentsLive /\ RanksDiffer /\ InUseIsLive /\ \A r \in Movers : MoveStillSafe(r)
  BY DEF CatalogInv
<1>1. category \in [Categories -> CategoryRow] /\ c \in LiveCategories
      /\ category' = [category EXCEPT ![c] = row]
      /\ specialized' = specialized /\ job' = job /\ moving' = moving
      /\ ~ InUse(c)
  BY <1>0 DEF CatalogTypeOK, DeleteCategory
<1>2. row \in CategoryRow /\ row.status = "DELETED" /\ row.parentId = Nothing
  BY DEF CategoryRow, NoCategory, Parents
<1>3. category'[c] = row /\ \A d \in Categories \ {c} : category'[d] = category[d]
  BY <1>1
<1>4. category' \in [Categories -> CategoryRow]
  <2> HIDE DEF row
  <2> QED BY <1>1, <1>2
<1>5. LiveCategories' = LiveCategories \ {c}
  <2> HIDE DEF row
  <2> QED BY <1>1, <1>2, <1>3 DEF LiveCategories
<1>6. ParentsLive'
  <2> HIDE DEF row
  <2> QED BY <1>0, <1>1, <1>3, <1>5 DEF ParentsLive, LiveCategories, InUse, Children
<1>7. RanksDiffer'
  <2> HIDE DEF row
  <2> QED BY <1>0, <1>3, <1>5 DEF RanksDiffer, LiveCategories
<1>8. InUseIsLive'
  BY <1>0, <1>1, <1>5 DEF InUseIsLive, InUse
<1>9. ASSUME NEW d, Seen(d) PROVE Seen(d)'
  <2> HIDE DEF row
  <2> QED BY <1>2, <1>3, <1>9 DEF Seen
<1>10. ASSUME NEW T \in SUBSET Categories, Closed(T)
       PROVE  \E U \in SUBSET Categories : T \subseteq U /\ Closed(U)' /\ \A d \in U \ T : ~ Seen(d)
  <2> HIDE DEF row
  <2>1. \A d : Children(d)' \subseteq Children(d)
    BY <1>3, <1>5 DEF Children, LiveCategories
  <2> QED BY <1>10, <2>1 DEF Closed
<1>11. ASSUME NEW r \in Movers PROVE MoveStillSafe(r)'
  <2>1. MoveStillSafe(r) /\ moving'[r] = moving[r]
    BY <1>0, <1>1
  <2>2. \A d : Seen(d) => Seen(d)'
    BY <1>9
  <2> QED BY <1>10, <2>1, <2>2, StaysSafe
<1>12. CatalogTypeOK'
  BY <1>0, <1>1, <1>4 DEF CatalogTypeOK
<1> QED BY <1>6, <1>7, <1>8, <1>11, <1>12 DEF CatalogInv

\* What a move writes: the parent of one category and maybe its rank.
LEMMA MoveWrites ==
  ASSUME CatalogInv, NEW r \in Movers, NEW k \in Ranks \cup {Keep}, Move(r, k),
         NEW c, NEW p, c = moving[r].c, p = moving[r].parentId
  PROVE  /\ c \in LiveCategories /\ p \in LiveCategories \cup {Nothing} /\ moving[r].pc = "move"
         /\ LiveCategories' = LiveCategories
         /\ category' \in [Categories -> CategoryRow]
         /\ \A d \in Categories \ {c} : category'[d] = category[d]
         /\ category'[c].parentId = p /\ category'[c].rank = Patch(category[c].rank, k)
         /\ \A d \in Categories : category'[d].status = category[d].status
<1>0. category \in [Categories -> CategoryRow]
  BY DEF CatalogInv, CatalogTypeOK
<1>1. c \in LiveCategories /\ p \in LiveCategories \cup {Nothing} /\ moving[r].pc = "move"
      /\ category' = [category EXCEPT ![c].rank = Patch(@, k), ![c].parentId = p]
      /\ (k # Keep => RankFree(k, c))
  BY DEF Move
<1>2. PICK n : n = Patch(category[c].rank, k)
  OBVIOUS
<1>3. category[c] \in CategoryRow /\ c \in Categories
  BY <1>0, <1>1 DEF LiveCategories
<1>4. n \in Ranks \cup {Nothing}
  BY <1>2, <1>3, CatalogAssumption DEF Patch, CategoryRow
<1>5. PICK row : row = [[category[c] EXCEPT !.rank = n] EXCEPT !.parentId = p]
  OBVIOUS
<1>6. row \in CategoryRow /\ row.status = category[c].status /\ row.rank = n /\ row.parentId = p
  <2>1. p \in Parents
    BY <1>1 DEF Parents, LiveCategories
  <2> QED BY <1>3, <1>4, <1>5, <2>1 DEF CategoryRow
<1>7. category' = [category EXCEPT ![c] = row]
  <2>1. category' = [[category EXCEPT ![c].rank = n] EXCEPT ![c].parentId = p]
    BY <1>1, <1>2
  <2> QED BY <1>0, <1>3, <1>5, <2>1
<1>8. category'[c] = row /\ \A d \in Categories \ {c} : category'[d] = category[d]
  BY <1>0, <1>3, <1>7
<1>9. category' \in [Categories -> CategoryRow]
  BY <1>0, <1>6, <1>7
<1>10. \A d \in Categories : category'[d].status = category[d].status
  BY <1>6, <1>8
<1>11. LiveCategories' = LiveCategories
  BY <1>10 DEF LiveCategories
<1> QED BY <1>1, <1>2, <1>6, <1>8, <1>9, <1>10, <1>11

\* A move writes the parent it checked, and overtakes the others in flight.
LEMMA MoveKeepsTheTree ==
  ASSUME CatalogInv, NEW r \in Movers, NEW k \in Ranks \cup {Keep}, Move(r, k)
  PROVE  CatalogInv'
<1>0. CatalogTypeOK /\ ParentsLive /\ RanksDiffer /\ InUseIsLive /\ \A s \in Movers : MoveStillSafe(s)
  BY DEF CatalogInv
<1>1. PICK c, p : c = moving[r].c /\ p = moving[r].parentId
  OBVIOUS
<1>2. /\ c \in LiveCategories /\ p \in LiveCategories \cup {Nothing}
      /\ LiveCategories' = LiveCategories
      /\ category' \in [Categories -> CategoryRow]
      /\ \A d \in Categories \ {c} : category'[d] = category[d]
      /\ category'[c].parentId = p /\ category'[c].rank = Patch(category[c].rank, k)
  BY <1>1, MoveWrites
<1>3. specialized' = specialized /\ job' = job /\ (k # Keep => RankFree(k, c))
      /\ moving' = [s \in Movers |-> IF s = r THEN NoMove
                                     ELSE [moving[s] EXCEPT !.overtaken = @ \/ moving[s].pc = "move"]]
  BY <1>1 DEF Move
<1>4. ParentsLive'
  <2>1. ASSUME NEW d \in LiveCategories PROVE category'[d].parentId \in LiveCategories \cup {Nothing}
    BY <1>0, <1>2 DEF ParentsLive, LiveCategories
  <2> QED BY <1>2, <2>1 DEF ParentsLive
<1>5. RanksDiffer'
  <2>0. k = Keep \/ (k \in Ranks /\ RankFree(k, c))
    BY <1>3
  <2>1. ASSUME NEW d \in LiveCategories PROVE category'[d].rank \in Ranks
    BY <1>0, <1>2, <2>0 DEF RanksDiffer, LiveCategories, Patch
  <2>2. ASSUME NEW d \in LiveCategories, NEW e \in LiveCategories, d # e
        PROVE  category'[d].rank # category'[e].rank
    BY <1>0, <1>2, <2>0, <2>2 DEF RanksDiffer, LiveCategories, RankFree, Patch
  <2> QED BY <1>2, <2>1, <2>2 DEF RanksDiffer
<1>6. InUseIsLive'
  BY <1>0, <1>2, <1>3 DEF InUseIsLive
<1>7. moving' \in [Movers -> MoveRequest] /\ \A s \in Movers : moving'[s].overtaken \/ moving'[s].pc # "move"
  <2>1. moving \in [Movers -> MoveRequest]
    BY <1>0 DEF CatalogTypeOK
  <2>2. ASSUME NEW s \in Movers
        PROVE  moving'[s] \in MoveRequest /\ (moving'[s].overtaken \/ moving'[s].pc # "move")
    <3>1. CASE s = r
      BY <1>3, <3>1 DEF NoMove, MoveRequest, MovePcs, Parents
    <3>2. CASE s # r
      <4>1. PICK b \in BOOLEAN : b = (moving[s].overtaken \/ moving[s].pc = "move")
        BY <2>1 DEF MoveRequest
      <4>2. moving'[s] = [moving[s] EXCEPT !.overtaken = b]
        BY <1>3, <3>2, <4>1
      <4>3. moving[s] \in MoveRequest
        BY <2>1
      <4>4. moving'[s] \in MoveRequest /\ moving'[s].overtaken = b /\ moving'[s].pc = moving[s].pc
        BY <4>2, <4>3 DEF MoveRequest
      <4> QED BY <4>1, <4>4
    <3> QED BY <3>1, <3>2
  <2>3. moving' = [s \in Movers |-> moving'[s]]
    BY <1>3
  <2> QED BY <2>2, <2>3
<1>8. \A s \in Movers : MoveStillSafe(s)'
  BY <1>7 DEF MoveStillSafe
<1>9. CatalogTypeOK'
  BY <1>0, <1>2, <1>3, <1>7 DEF CatalogTypeOK
<1> QED BY <1>4, <1>5, <1>6, <1>8, <1>9 DEF CatalogInv

\* The steps that leave the categories alone.
LEMMA ReadKeepsTheTree ==
  ASSUME CatalogInv, NEW r \in Movers, NEW c \in Categories, NEW p \in Parents, ReadForMove(r, c, p)
  PROVE  CatalogInv'
<1>0. CatalogTypeOK /\ ParentsLive /\ RanksDiffer /\ InUseIsLive /\ \A s \in Movers : MoveStillSafe(s)
  BY DEF CatalogInv
<1> DEFINE request == [pc |-> "move", c |-> c, parentId |-> p, overtaken |-> FALSE]
<1>1. category' = category /\ specialized' = specialized /\ job' = job
      /\ moving' = [moving EXCEPT ![r] = request] /\ c \in LiveCategories
      /\ (p # Nothing => MoveAllowed(c, p))
  BY DEF ReadForMove
<1>2. request \in MoveRequest
  BY DEF MoveRequest, MovePcs, Parents
<1>3. moving \in [Movers -> MoveRequest]
  BY <1>0 DEF CatalogTypeOK
<1>4. ASSUME NEW s \in Movers \ {r} PROVE MoveStillSafe(s)'
  <2>1. moving'[s] = moving[s]
    BY <1>1, <1>3
  <2>2. MoveStillSafe(s)
    BY <1>0
  <2> QED BY <1>1, <2>1, <2>2, SameTree DEF MoveStillSafe, Separated
<1>5. MoveStillSafe(r)'
  <2>1. moving'[r] = request
    BY <1>1, <1>3
  <2>2. SUFFICES ASSUME p # Nothing
                 PROVE  /\ Seen(c) /\ Seen(p)
                        /\ \E T \in SUBSET Categories : c \in T /\ p \notin T /\ Closed(T)
    BY <1>1, <2>1, SameTree DEF MoveStillSafe, Separated
  <2>3. p \in LiveCategories /\ p \notin Descendants({c})
    BY <1>1, <2>2 DEF MoveAllowed
  <2>4. Seen(c) /\ Seen(p)
    BY <1>1, <2>3 DEF Seen, LiveCategories
  <2>5. {c} \in SUBSET Categories
    OBVIOUS
  <2>6. /\ Descendants({c}) \in SUBSET Categories
        /\ {c} \subseteq Descendants({c}) /\ Closed(Descendants({c}))
    BY <2>5, SearchFindsTheClosure
  <2> QED BY <2>3, <2>4, <2>6
<1>6. CatalogTypeOK'
  <2> HIDE DEF request
  <2>1. moving' \in [Movers -> MoveRequest]
    BY <1>1, <1>2, <1>3
  <2> QED BY <1>0, <1>1, <2>1 DEF CatalogTypeOK
<1>7. ParentsLive' /\ RanksDiffer' /\ InUseIsLive'
  BY <1>0, <1>1, SameTree DEF InUseIsLive
<1> QED BY <1>4, <1>5, <1>6, <1>7 DEF CatalogInv

\* Handlers that give up, and those that refer to categories, leave the tree as it is.
LEMMA ReadersKeepTheTree ==
  ASSUME CatalogInv,
         \/ \E r \in Movers : GiveUpMove(r)
         \/ \E j \in Jobs, c \in Categories : Publish(j, c)
         \/ \E S \in SUBSET Categories : ReplaceSpecializations(S)
         \/ UNCHANGED catalogVars
  PROVE  CatalogInv'
<1>0. CatalogTypeOK /\ ParentsLive /\ RanksDiffer /\ InUseIsLive /\ \A s \in Movers : MoveStillSafe(s)
  BY DEF CatalogInv
<1>1. category' = category
  BY DEF GiveUpMove, Publish, ReplaceSpecializations, catalogVars
<1>2. ParentsLive' /\ RanksDiffer' /\ LiveCategories' = LiveCategories
  BY <1>0, <1>1, SameTree
<1>3. InUseIsLive' /\ specialized' \subseteq Categories /\ job' \in [Jobs -> Parents]
  <2>1. specialized' = specialized \/ specialized' \subseteq LiveCategories
    BY DEF GiveUpMove, Publish, ReplaceSpecializations, catalogVars
  <2>2. CASE job' = job
    BY <1>0, <1>2, <2>1, <2>2 DEF InUseIsLive, CatalogTypeOK, LiveCategories
  <2>3. CASE \E j \in Jobs, c \in Categories : Publish(j, c)
    <3>1. PICK j \in Jobs, c \in LiveCategories : job' = [job EXCEPT ![j] = c]
      BY <2>3 DEF Publish
    <3>2. job \in [Jobs -> Parents] /\ c \in Parents
      BY <1>0 DEF CatalogTypeOK, LiveCategories, Parents
    <3>3. job' \in [Jobs -> Parents] /\ job'[j] = c /\ \A i \in Jobs \ {j} : job'[i] = job[i]
      BY <3>1, <3>2
    <3> QED BY <1>0, <1>2, <2>1, <3>3 DEF InUseIsLive, CatalogTypeOK, LiveCategories
  <2> QED BY <2>2, <2>3 DEF GiveUpMove, ReplaceSpecializations, catalogVars
<1>4. moving' \in [Movers -> MoveRequest] /\ \A s \in Movers : moving'[s] = moving[s] \/ moving'[s].pc = "idle"
  <2>0. moving \in [Movers -> MoveRequest]
    BY <1>0 DEF CatalogTypeOK
  <2>1. CASE moving' = moving
    BY <2>0, <2>1
  <2>2. CASE \E r \in Movers : GiveUpMove(r)
    BY <2>0, <2>2 DEF GiveUpMove, FinishMove, NoMove, MoveRequest, MovePcs, Parents
  <2> QED BY <2>1, <2>2 DEF Publish, ReplaceSpecializations, catalogVars
<1>5. ASSUME NEW s \in Movers PROVE MoveStillSafe(s)'
  <2>1. MoveStillSafe(s) /\ (moving'[s] = moving[s] \/ moving'[s].pc = "idle")
    BY <1>0, <1>4
  <2> QED BY <1>1, <2>1, SameTree DEF MoveStillSafe, Separated
<1>6. CatalogTypeOK'
  BY <1>0, <1>1, <1>3, <1>4 DEF CatalogTypeOK
<1> QED BY <1>2, <1>3, <1>5, <1>6 DEF CatalogInv

\* Moves, edits and deletions in any order keep every parent in the catalog,
\* every rank its own, everything in use there, and what a move has checked
\* true until another move overtakes it.
THEOREM CatalogInvariant == CatalogSpec => []CatalogInv
<1>1. CatalogInv /\ [CatalogNext]_catalogVars => CatalogInv'
  BY CreateKeepsTheTree, RankKeepsTheTree, DeleteKeepsTheTree, MoveKeepsTheTree, ReadKeepsTheTree,
     ReadersKeepTheTree DEF CatalogNext
<1> QED BY <1>1, CatalogInitHolds, PTL DEF CatalogSpec

\* The types of the rows and of what moves carry (schema.prisma, Category).
THEOREM CatalogTypeCorrect == CatalogSpec => []CatalogTypeOK
<1>1. CatalogInv => CatalogTypeOK
  BY DEF CatalogInv
<1> QED BY <1>1, CatalogInvariant, PTL

\* A professional is shown the requests of the categories he chose and of all
\* below them, and no others: the search ends with the least closed set, cycles
\* or not (findDescendantCategoryIds).
THEOREM CompatibleIsTheSubtreeHolds == CatalogSpec => []CompatibleIsTheSubtree
<1>1. ASSUME CatalogInv PROVE CompatibleIsTheSubtree
  <2>1. specialized \subseteq LiveCategories /\ LiveCategories \subseteq Categories
    BY <1>1 DEF CatalogInv, InUseIsLive, LiveCategories
  <2>2. /\ specialized \subseteq Descendants(specialized) /\ Closed(Descendants(specialized))
        /\ Descendants(specialized) \in SUBSET Categories
        /\ \A U \in SUBSET Categories : specialized \subseteq U /\ Closed(U) => Descendants(specialized) \subseteq U
    <3>1. specialized \in SUBSET Categories
      BY <2>1
    <3> QED BY <3>1, SearchFindsTheClosure
  <2>3. PICK D : D = Descendants(specialized)
    OBVIOUS
  <2>4. Closed(LiveCategories)
    BY DEF Closed, Children
  <2>5. D \subseteq LiveCategories
    BY <2>1, <2>2, <2>3, <2>4
  <2>6. \A S \in SUBSET LiveCategories : specialized \subseteq S /\ Closed(S) => D \subseteq S
    BY <2>1, <2>2, <2>3
  <2>7. specialized \subseteq D /\ Closed(D) /\ D \in SUBSET LiveCategories
    BY <2>2, <2>3, <2>5
  <2>8. Nothing \notin D
    BY <2>1, <2>5, CatalogAssumption
  <2>9. ASSUME NEW j \in Jobs
        PROVE  job[j] \in D <=> /\ job[j] # Nothing
                                /\ \A S \in SUBSET LiveCategories :
                                     specialized \subseteq S /\ Closed(S) => job[j] \in S
    BY <2>6, <2>7, <2>8
  <2> QED BY <2>3, <2>9 DEF CompatibleIsTheSubtree, Compatible
<1> QED BY <1>1, CatalogInvariant, PTL

-----------------------------------------------------------------------------
(* The visit.                                                              *)

\* A set that holds each place whose smaller places it holds, holds all.
LEMMA BySize ==
  ASSUME NEW D, NEW m \in [D -> Nat], NEW G,
         \A x \in D : (\A y \in D : m[y] < m[x] => y \in G) => x \in G
  PROVE  D \subseteq G
<1> DEFINE Bad == {n \in Nat : \E x \in D : m[x] = n /\ x \notin G}
<1>1. SUFFICES ASSUME Bad # {} PROVE FALSE
  OBVIOUS
<1>2. PICK n \in Bad : \A l \in Bad : n <= l
  <2>1. Bad \in SUBSET Nat
    OBVIOUS
  <2> HIDE DEF Bad
  <2> QED BY <1>1, <2>1, SmallestNumber
<1>3. PICK x \in D : m[x] = n /\ x \notin G
  BY <1>2
<1>4. ASSUME NEW y \in D, m[y] < m[x] PROVE y \in G
  <2>1. m[y] \in Nat /\ n \in Nat
    BY <1>2
  <2>2. ~ (n <= m[y])
    BY <1>3, <1>4, <2>1
  <2> QED BY <1>2, <2>1, <2>2
<1> QED BY <1>3, <1>4

\* Among siblings one comes first.
LEMMA FirstIsFirst ==
  ASSUME RanksDiffer, NEW S \in SUBSET LiveCategories, S # {}
  PROVE  First(S) \in S /\ \A d \in S \ {First(S)} : category[First(S)].rank < category[d].rank
<1> DEFINE ranks == {category[c].rank : c \in S}
<1>1. \A c \in S : category[c].rank \in Nat
  BY CatalogAssumption DEF RanksDiffer
<1>2. ranks \in SUBSET Nat /\ ranks # {}
  BY <1>1
<1>3. PICK k \in ranks : \A l \in ranks : k <= l
  <2> HIDE DEF ranks
  <2> QED BY <1>2, SmallestNumber
<1>4. PICK c \in S : category[c].rank = k
  BY <1>3
<1>5. ASSUME NEW d \in S \ {c} PROVE Before(c, d)
  <2>1. category[c].rank <= category[d].rank
    BY <1>3, <1>4
  <2>2. category[c].rank # category[d].rank
    BY DEF RanksDiffer
  <2> QED BY <1>1, <2>1, <2>2 DEF Before
<1>6. \E e \in S : \A d \in S \ {e} : Before(e, d)
  BY <1>5
<1>7. First(S) \in S /\ \A d \in S \ {First(S)} : Before(First(S), d)
  BY <1>6 DEF First
<1> QED BY <1>7 DEF Before

Places == Nat \X SUBSET LiveCategories
Walk(f, at) == IF at[1] = 0 \/ at[2] = {} THEN << >>
               ELSE LET c == First(at[2])
                    IN  <<c>> \o f[<<at[1] - 1, Children(c)>>] \o f[<<at[1], at[2] \ {c}>>]

\* The places that a visit goes on to are smaller, in depth and then in width.
Size == [at \in Places |-> at[1] * (Cardinality(Categories) + 1) + Cardinality(at[2])]

\* A visit goes on with places that have less left to visit.
LEMMA SizeDrops ==
  ASSUME RanksDiffer
  PROVE  /\ Size \in [Places -> Nat]
         /\ \A k \in Nat : \A S \in SUBSET LiveCategories : k # 0 /\ S # {} =>
              /\ First(S) \in LiveCategories
              /\ <<k - 1, Children(First(S))>> \in Places /\ <<k, S \ {First(S)}>> \in Places
              /\ Size[<<k - 1, Children(First(S))>>] < Size[<<k, S>>]
              /\ Size[<<k, S \ {First(S)}>>] < Size[<<k, S>>]
<1>0. IsFiniteSet(Categories)
  BY CatalogAssumption
<1>1. PICK N \in Nat : N = Cardinality(Categories)
  BY <1>0, FS_CardinalityType
<1>2. ASSUME NEW S \in SUBSET LiveCategories
      PROVE  IsFiniteSet(S) /\ Cardinality(S) \in Nat /\ Cardinality(S) <= N
  <2>1. S \in SUBSET Categories
    BY DEF LiveCategories
  <2>2. IsFiniteSet(S) /\ Cardinality(S) <= N
    BY <1>0, <1>1, <2>1, FS_Subset
  <2> QED BY <2>2, FS_CardinalityType
<1>3. \A k \in Nat : \A S \in SUBSET LiveCategories : Size[<<k, S>>] = k * (N + 1) + Cardinality(S)
  BY <1>1 DEF Size, Places
<1>4. Size \in [Places -> Nat]
  <2>1. ASSUME NEW at \in Places PROVE at[1] * (N + 1) + Cardinality(at[2]) \in Nat
    <3>1. at[1] \in Nat /\ at[2] \in SUBSET LiveCategories
      BY DEF Places
    <3>2. PICK k \in Nat, n \in Nat : k = at[1] /\ n = Cardinality(at[2])
      BY <1>2, <3>1
    <3>3. k * (N + 1) \in Nat
      OBVIOUS
    <3> QED BY <3>2, <3>3
  <2> QED BY <1>1, <2>1 DEF Size
<1>5. ASSUME NEW k \in Nat, NEW S \in SUBSET LiveCategories, k # 0, S # {}
      PROVE  /\ First(S) \in LiveCategories
             /\ <<k - 1, Children(First(S))>> \in Places /\ <<k, S \ {First(S)}>> \in Places
             /\ Size[<<k - 1, Children(First(S))>>] < Size[<<k, S>>]
             /\ Size[<<k, S \ {First(S)}>>] < Size[<<k, S>>]
  <2>1. PICK c \in S : c = First(S)
    BY <1>5, FirstIsFirst
  <2>2. Children(c) \in SUBSET LiveCategories /\ S \ {c} \in SUBSET LiveCategories /\ k - 1 \in Nat
    BY <1>5 DEF Children
  <2>3. PICK s \in Nat, t \in Nat, u \in Nat :
          s = Cardinality(S) /\ t = Cardinality(Children(c)) /\ u = Cardinality(S \ {c}) /\ t <= N
    BY <1>2, <2>2
  <2>4. u < s
    BY <1>2, <2>3, FS_RemoveElement
  <2>5. (k - 1) * (N + 1) + t < k * (N + 1) + s
    <3>1. (k - 1) * (N + 1) = k * (N + 1) - (N + 1)
      OBVIOUS
    <3>2. PICK a \in Nat : a = k * (N + 1)
      OBVIOUS
    <3> QED BY <2>3, <3>1, <3>2
  <2>6. k * (N + 1) + u < k * (N + 1) + s
    <3>1. PICK a \in Nat : a = k * (N + 1)
      OBVIOUS
    <3> QED BY <2>4, <3>1
  <2>7. Size[<<k - 1, Children(c)>>] < Size[<<k, S>>]
    BY <1>3, <2>2, <2>3, <2>5
  <2>8. Size[<<k, S \ {c}>>] < Size[<<k, S>>]
    BY <1>3, <2>2, <2>3, <2>6
  <2> QED BY <2>1, <2>2, <2>7, <2>8 DEF Places
<1> QED BY <1>4, <1>5

\* The visit is what its definition says, everywhere, and lists categories.
LEMMA VisitWalks ==
  ASSUME RanksDiffer
  PROVE  /\ Visit \in [Places -> Seq(LiveCategories)]
         /\ \A at \in Places : Visit[at] = Walk(Visit, at)
<1> DEFINE R == Seq(LiveCategories)
           Step(f) == [at \in Places |-> Walk(f, at)]
           IsVisit(f) == f = Step(f)
<1>0. Size \in [Places -> Nat]
  BY SizeDrops
<1>1. ASSUME NEW f, NEW at \in Places, \A to \in Places : Size[to] < Size[at] => f[to] \in R
      PROVE  Walk(f, at) \in R
  <2>0. PICK k \in Nat, S \in SUBSET LiveCategories : at = <<k, S>>
    BY DEF Places
  <2>1. CASE k = 0 \/ S = {}
    BY <2>0, <2>1 DEF Walk
  <2>2. CASE k # 0 /\ S # {}
    <3>1. PICK c \in LiveCategories : c = First(S)
      BY <2>2, SizeDrops
    <3>2. PICK v, w : v = f[<<k - 1, Children(c)>>] /\ w = f[<<k, S \ {c}>>]
      OBVIOUS
    <3>3. v \in R /\ w \in R
      <4>1. /\ <<k - 1, Children(c)>> \in Places /\ <<k, S \ {c}>> \in Places
            /\ Size[<<k - 1, Children(c)>>] < Size[<<k, S>>]
            /\ Size[<<k, S \ {c}>>] < Size[<<k, S>>]
        BY <2>2, <3>1, SizeDrops
      <4> HIDE DEF R
      <4> QED BY <1>1, <2>0, <3>2, <4>1
    <3>4. Walk(f, at) = <<c>> \o v \o w
      BY <2>0, <2>2, <3>1, <3>2 DEF Walk
    <3> QED BY <3>1, <3>3, <3>4
  <2> QED BY <2>1, <2>2
<1>2. PICK B : B = [f \in [Places -> R] |-> Step(f)]
  OBVIOUS
<1>3. Local(B, Places, R, Size)
  <2>1. ASSUME NEW f \in [Places -> R] PROVE Step(f) \in [Places -> R]
    <3> HIDE DEF R
    <3> QED BY <1>1
  <2>2. B \in [[Places -> R] -> [Places -> R]]
    <3> HIDE DEF Step, R
    <3> QED BY <1>2, <2>1
  <2>3. ASSUME NEW f \in [Places -> R], NEW g \in [Places -> R], NEW at \in Places,
               \A to \in Places : Size[to] < Size[at] => f[to] = g[to]
        PROVE  B[f][at] = B[g][at]
    <3>0. PICK k \in Nat, S \in SUBSET LiveCategories : at = <<k, S>>
      BY DEF Places
    <3>1. Walk(f, at) = Walk(g, at)
      <4>1. CASE k = 0 \/ S = {}
        BY <3>0, <4>1 DEF Walk
      <4>2. CASE k # 0 /\ S # {}
        <5>1. PICK c \in LiveCategories : c = First(S)
          BY <4>2, SizeDrops
        <5>2. /\ <<k - 1, Children(c)>> \in Places /\ <<k, S \ {c}>> \in Places
              /\ Size[<<k - 1, Children(c)>>] < Size[<<k, S>>]
              /\ Size[<<k, S \ {c}>>] < Size[<<k, S>>]
          BY <4>2, <5>1, SizeDrops
        <5>3. f[<<k - 1, Children(c)>>] = g[<<k - 1, Children(c)>>] /\ f[<<k, S \ {c}>>] = g[<<k, S \ {c}>>]
          BY <2>3, <3>0, <5>2
        <5> QED BY <3>0, <4>2, <5>1, <5>3 DEF Walk
      <4> QED BY <4>1, <4>2
    <3>2. B[f] = Step(f) /\ B[g] = Step(g)
      <4> HIDE DEF Step
      <4> QED BY <1>2
    <3> QED BY <3>1, <3>2
  <2> QED BY <1>0, <2>2, <2>3 DEF Local
<1>4. PICK h \in [Places -> R] : IsVisit(h)
  <2>1. [at \in Places |-> << >>] \in [Places -> R]
    OBVIOUS
  <2>2. [Places -> R] # {}
    BY <2>1
  <2>3. PICK h \in [Places -> R] : h = B[h]
    <3> HIDE DEF R
    <3> QED BY <1>3, <2>2, Recursion
  <2> HIDE DEF Step
  <2> QED BY <1>2, <2>3
<1>5. Visit = CHOOSE f : IsVisit(f)
  BY DEF Visit, Walk, Places
<1>6. IsVisit(Visit)
  <2> HIDE DEF IsVisit
  <2> QED BY <1>4, <1>5
<1>7. \A at \in Places : Visit[at] = Walk(Visit, at)
  BY <1>6
<1>8. \A at \in Places : Visit[at] \in R
  <2>1. PICK G : G = {at \in Places : Visit[at] \in R}
    OBVIOUS
  <2>2. ASSUME NEW at \in Places, \A to \in Places : Size[to] < Size[at] => to \in G
        PROVE  at \in G
    <3>1. \A to \in Places : Size[to] < Size[at] => Visit[to] \in R
      BY <2>1, <2>2
    <3> HIDE DEF R
    <3> QED BY <1>1, <1>7, <2>1, <3>1
  <2>3. Places \subseteq G
    BY <1>0, <2>2, BySize
  <2> QED BY <2>1, <2>3
<1>9. Visit = [at \in Places |-> Visit[at]]
  BY <1>6
<1> QED BY <1>7, <1>8, <1>9

-----------------------------------------------------------------------------
(* What the visit lists: trees that are whole.                             *)

Up(c) == category[c].parentId
ListedIn(V) == {V[i] : i \in 1..Len(V)}
InOrder(V) == \A i, j \in 1..Len(V) : i < j =>
  V[i] # V[j] /\ (Up(V[i]) = Up(V[j]) => category[V[i]].rank < category[V[j]].rank)
\* A parent stands before, and only categories of the branch in between.
Branch(V, i) == \E k \in 1..(i - 1) :
  V[k] = Up(V[i]) /\ \A j \in (k + 1)..i : Up(V[j]) \in {V[h] : h \in k..(j - 1)}
Trees(V, A, S) ==
  /\ V \in Seq(LiveCategories)
  /\ InOrder(V)
  /\ \A i \in 1..Len(V) : V[i] \notin A /\ (V[i] \in S \/ Branch(V, i))
Whole(V, S) == S \subseteq ListedIn(V) /\ Closed(ListedIn(V))

\* What two sequences of categories list together, and where.
LEMMA Joined ==
  ASSUME NEW V \in Seq(LiveCategories), NEW W \in Seq(LiveCategories)
  PROVE  /\ V \o W \in Seq(LiveCategories) /\ Len(V \o W) = Len(V) + Len(W)
         /\ Len(V) \in Nat /\ Len(W) \in Nat
         /\ \A i \in 1..Len(V) : (V \o W)[i] = V[i]
         /\ \A i \in 1..Len(W) : (V \o W)[Len(V) + i] = W[i]
         /\ ListedIn(V \o W) = ListedIn(V) \cup ListedIn(W)
<1>1. /\ V \o W \in Seq(LiveCategories) /\ Len(V \o W) = Len(V) + Len(W)
      /\ Len(V) \in Nat /\ Len(W) \in Nat
  OBVIOUS
<1>2. \A i \in 1..Len(V) : (V \o W)[i] = V[i]
  OBVIOUS
<1>3. \A i \in 1..Len(W) : (V \o W)[Len(V) + i] = W[i]
  OBVIOUS
<1>4. PICK U : U = V \o W
  OBVIOUS
<1>5. \A i \in 1..Len(U) : i \in 1..Len(V) \/ \E j \in 1..Len(W) : i = Len(V) + j
  <2>1. ASSUME NEW i \in 1..Len(U), i \notin 1..Len(V) PROVE i - Len(V) \in 1..Len(W) /\ i = Len(V) + (i - Len(V))
    BY <1>1, <1>4, <2>1
  <2> QED BY <2>1
<1>6. ListedIn(U) \subseteq ListedIn(V) \cup ListedIn(W)
  BY <1>2, <1>3, <1>4, <1>5 DEF ListedIn
<1>7. \A i \in 1..Len(V) : i \in 1..Len(U)
  BY <1>1, <1>4
<1>8. \A i \in 1..Len(W) : Len(V) + i \in 1..Len(U)
  BY <1>1, <1>4
<1>9. ListedIn(V) \subseteq ListedIn(U)
  BY <1>2, <1>4, <1>7 DEF ListedIn
<1>10. ListedIn(W) \subseteq ListedIn(U)
  <2>1. ASSUME NEW i \in 1..Len(W) PROVE W[i] \in ListedIn(U)
    BY <1>3, <1>4, <1>8 DEF ListedIn
  <2> QED BY <2>1 DEF ListedIn
<1> QED BY <1>1, <1>2, <1>3, <1>4, <1>6, <1>9, <1>10

Opens(U, i, k) == /\ k \in 1..(i - 1) /\ U[k] = Up(U[i])
                  /\ \A j \in (k + 1)..i : \E h \in k..(j - 1) : Up(U[j]) = U[h]

\* A branch is one that some place opens: there its parent stands.
LEMMA BranchOpens == ASSUME NEW U, NEW i PROVE Branch(U, i) <=> \E k : Opens(U, i, k)
<1>1. ASSUME Branch(U, i) PROVE \E k : Opens(U, i, k)
  BY <1>1 DEF Branch, Opens
<1>2. ASSUME NEW k, Opens(U, i, k) PROVE Branch(U, i)
  BY <1>2 DEF Branch, Opens
<1> QED BY <1>1, <1>2

\* A branch is one in a longer list too.
LEMMA BranchOnTheLeft ==
  ASSUME NEW V \in Seq(LiveCategories), NEW W \in Seq(LiveCategories), NEW U, U = V \o W,
         NEW i \in 1..Len(V), Branch(V, i)
  PROVE  Branch(U, i)
<1>1. PICK k : k \in 1..(i - 1) /\ V[k] = Up(V[i]) /\ \A j \in (k + 1)..i : \E h \in k..(j - 1) : Up(V[j]) = V[h]
  BY BranchOpens DEF Opens
<1>2. \A j \in 1..i : U[j] = V[j]
  BY Joined
<1>3. U[k] = Up(U[i])
  BY <1>1, <1>2
<1>4. ASSUME NEW j \in (k + 1)..i PROVE \E h \in k..(j - 1) : Up(U[j]) = U[h]
  <2>1. PICK h \in k..(j - 1) : Up(V[j]) = V[h]
    BY <1>1
  <2>2. h \in 1..i /\ j \in 1..i
    BY <1>1
  <2>3. Up(U[j]) = U[h]
    BY <1>2, <2>1, <2>2
  <2> QED BY <2>3
<1>5. Opens(U, i, k)
  BY <1>1, <1>3, <1>4 DEF Opens
<1> QED BY <1>5, BranchOpens

\* A branch of a part of the listing is one of the whole.
LEMMA BranchOnTheRight ==
  ASSUME NEW V \in Seq(LiveCategories), NEW W \in Seq(LiveCategories), NEW U, U = V \o W,
         NEW i \in 1..Len(W), Branch(W, i)
  PROVE  Branch(U, Len(V) + i)
<1>1. PICK k : k \in 1..(i - 1) /\ W[k] = Up(W[i]) /\ \A j \in (k + 1)..i : \E h \in k..(j - 1) : Up(W[j]) = W[h]
  BY BranchOpens DEF Opens
<1>2. PICK n \in Nat : n = Len(V)
  BY Joined
<1>3. \A j \in 1..i : U[n + j] = W[j]
  BY <1>2, Joined
<1>4. i \in Nat /\ k \in Nat /\ k \in 1..i /\ i \in 1..i
  BY <1>1, Joined
<1>5. U[n + k] = Up(U[n + i])
  <2>1. U[n + k] = W[k] /\ U[n + i] = W[i]
    BY <1>4, <1>3
  <2> QED BY <1>1, <2>1
<1>6. ASSUME NEW l \in (n + k + 1)..(n + i) PROVE \E h \in (n + k)..(l - 1) : Up(U[l]) = U[h]
  <2>1. PICK j \in (k + 1)..i : l = n + j
    <3>1. l - n \in (k + 1)..i /\ l = n + (l - n)
      BY <1>1
    <3> QED BY <3>1
  <2>2. PICK h \in k..(j - 1) : Up(W[j]) = W[h]
    BY <1>1
  <2>3. h \in 1..i /\ j \in 1..i /\ n + h \in (n + k)..(l - 1)
    BY <1>1, <2>1
  <2>4. Up(U[l]) = U[n + h]
    <3>1. U[n + h] = W[h] /\ U[n + j] = W[j]
      BY <1>3, <2>3
    <3> QED BY <2>1, <2>2, <3>1
  <2> QED BY <2>3, <2>4
<1>7. n + k \in 1..(n + i - 1)
  BY <1>1
<1>8. PICK q \in Nat : q = n + k
  BY <1>4
<1>9. PICK m \in Nat : m = n + i
  BY <1>4
<1>10. ASSUME NEW l \in (q + 1)..m PROVE \E h \in q..(l - 1) : Up(U[l]) = U[h]
  <2>1. l \in (n + k + 1)..(n + i)
    BY <1>8, <1>9
  <2>2. PICK h \in (n + k)..(l - 1) : Up(U[l]) = U[h]
    BY <1>6, <2>1
  <2> QED BY <1>8, <2>2
<1>11. q \in 1..(m - 1) /\ U[q] = Up(U[m])
  <2>1. q \in 1..(m - 1)
    BY <1>4, <1>7, <1>8, <1>9
  <2> QED BY <1>5, <1>8, <1>9, <2>1
<1>12. Opens(U, m, q)
  BY <1>10, <1>11 DEF Opens
<1>13. Branch(U, m)
  BY <1>12, BranchOpens
<1> QED BY <1>2, <1>9, <1>13

\* A parent of what trees list is listed, or is that of the roots.
LEMMA ParentsAreListed ==
  ASSUME NEW V, NEW A, NEW S, Trees(V, A, S)
  PROVE  \A x \in ListedIn(V) : x \in LiveCategories /\ x \notin A /\ (x \in S \/ Up(x) \in ListedIn(V))
<1>1. ASSUME NEW i \in 1..Len(V) PROVE V[i] \in LiveCategories /\ V[i] \notin A /\ (V[i] \in S \/ Up(V[i]) \in ListedIn(V))
  <2>1. V[i] \in LiveCategories /\ V[i] \notin A /\ Len(V) \in Nat
    BY DEF Trees
  <2>2. CASE Branch(V, i)
    <3>1. PICK k \in 1..(i - 1) : V[k] = Up(V[i])
      BY <2>2 DEF Branch
    <3>2. k \in 1..Len(V)
      BY <2>1
    <3> QED BY <2>1, <3>1, <3>2 DEF ListedIn
  <2> QED BY <2>1, <2>2 DEF Trees
<1> QED BY <1>1 DEF ListedIn

\* A category put before the trees of its children is one tree.
Planted(A, B, c, V, U) ==
  /\ c \in LiveCategories /\ c \notin A /\ Up(c) \in A \cup {Nothing} /\ Nothing \notin LiveCategories
  /\ B = A \cup {c} /\ Trees(V, B, Children(c))
  /\ U = <<c>> \o V

\* A category before the trees below it is a tree.
LEMMA RootAdded ==
  ASSUME NEW A, NEW B, NEW c, NEW V, NEW U, Planted(A, B, c, V, U)
  PROVE  Trees(U, A, {c}) /\ \A x : x \in ListedIn(U) <=> x = c \/ x \in ListedIn(V)
<1> /\ c \in LiveCategories /\ c \notin A /\ Up(c) \in A \cup {Nothing} /\ Nothing \notin LiveCategories
    /\ B = A \cup {c} /\ Trees(V, B, Children(c))
    /\ U = <<c>> \o V
  BY DEF Planted
<1>0. /\ V \in Seq(LiveCategories) /\ <<c>> \in Seq(LiveCategories) /\ Len(V) \in Nat /\ InOrder(V)
      /\ \A i \in 1..Len(V) : V[i] \notin A /\ V[i] # c /\ (V[i] \in Children(c) \/ Branch(V, i))
  BY DEF Trees
<1>1. /\ U \in Seq(LiveCategories) /\ Len(U) = 1 + Len(V) /\ U[1] = c
      /\ ListedIn(U) = {c} \cup ListedIn(V)
      /\ \A i \in 1..Len(V) : U[1 + i] = V[i]
  <2>1. PICK W \in Seq(LiveCategories) : W = <<c>>
    BY <1>0
  <2>2. Len(W) = 1 /\ W[1] = c
    BY <2>1
  <2>3. ListedIn(W) = {c}
    BY <2>2 DEF ListedIn
  <2>4. U = W \o V
    BY <2>1
  <2>5. /\ U \in Seq(LiveCategories) /\ Len(U) = Len(W) + Len(V)
        /\ \A i \in 1..Len(W) : U[i] = W[i]
        /\ \A i \in 1..Len(V) : U[Len(W) + i] = V[i]
        /\ ListedIn(U) = ListedIn(W) \cup ListedIn(V)
    <3>1. V \in Seq(LiveCategories)
      BY <1>0
    <3> QED BY <2>4, <3>1, Joined
  <2>6. Len(U) = 1 + Len(V) /\ \A i \in 1..Len(V) : U[1 + i] = V[i]
    BY <2>2, <2>5
  <2>7. U[1] = c
    BY <2>2, <2>5
  <2> QED BY <2>3, <2>5, <2>6, <2>7
<1>2. \A i \in 1..Len(U) : i = 1 \/ \E j \in 1..Len(V) : i = 1 + j
  <2>1. ASSUME NEW i \in 1..Len(U), i # 1 PROVE i - 1 \in 1..Len(V) /\ i = 1 + (i - 1)
    BY <1>0, <1>1, <2>1
  <2> QED BY <2>1
\* Each parent among the rest stands before its child.
<1>3. ASSUME NEW i \in 1..Len(V)
      PROVE  \E h \in 1..i : Up(V[i]) = U[h]
  <2>1. CASE V[i] \in Children(c)
    <3>1. Up(V[i]) = c /\ 1 \in 1..i
      BY <1>0, <2>1 DEF Children, Up
    <3> QED BY <1>1, <3>1
  <2>2. CASE Branch(V, i)
    <3>1. PICK k \in 1..(i - 1) : V[k] = Up(V[i])
      BY <2>2 DEF Branch
    <3>2. 1 + k \in 1..i /\ k \in 1..Len(V)
      BY <1>0, <3>1
    <3> QED BY <1>1, <3>1, <3>2
  <2> QED BY <1>0, <2>1, <2>2
<1>4. ASSUME NEW i \in 1..Len(V) PROVE Branch(U, 1 + i)
  <2>1. CASE V[i] \in Children(c)
    <3>1. U[1] = Up(U[1 + i])
      BY <1>1, <2>1 DEF Children, Up
    <3>2. ASSUME NEW j \in 2..(1 + i) PROVE \E h \in 1..(j - 1) : Up(U[j]) = U[h]
      <4>1. PICK l \in 1..Len(V) : j = 1 + l /\ l = j - 1
        <5>1. j - 1 \in 1..Len(V) /\ j = 1 + (j - 1)
          BY <1>0
        <5> QED BY <5>1
      <4>2. PICK h \in 1..l : Up(V[l]) = U[h]
        BY <1>3
      <4> QED BY <1>1, <4>1, <4>2
    <3>3. PICK m \in Nat : m = 1 + i /\ m > 1
      BY <1>0
    <3>4. ASSUME NEW j \in (1 + 1)..m PROVE \E h \in 1..(j - 1) : Up(U[j]) = U[h]
      <4>1. j \in 2..(1 + i)
        BY <3>3
      <4> QED BY <3>2, <4>1
    <3>5. 1 \in 1..(m - 1) /\ U[1] = Up(U[m])
      <4>1. 1 \in 1..(m - 1)
        BY <3>3
      <4> QED BY <3>1, <3>3, <4>1
    <3>6. Opens(U, m, 1)
      BY <3>4, <3>5 DEF Opens
    <3> QED BY <3>3, <3>6, BranchOpens
  <2>2. CASE Branch(V, i)
    <3>1. Len(<<c>>) = 1
      OBVIOUS
    <3> QED BY <1>0, <2>2, <3>1, BranchOnTheRight
  <2> QED BY <1>0, <2>1, <2>2
<1>5. ASSUME NEW i \in 1..Len(V) PROVE V[i] # c /\ Up(V[i]) # Up(c)
  <2>1. V[i] \in ListedIn(V)
    BY DEF ListedIn
  <2>2. \A x \in ListedIn(V) : x \in LiveCategories /\ x \notin B
                                /\ (x \in Children(c) \/ Up(x) \in ListedIn(V))
    BY ParentsAreListed
  <2>3. PICK x \in ListedIn(V) : x = V[i]
    BY <2>1
  <2>4. V[i] \in Children(c) => Up(V[i]) = c
    BY DEF Children, Up
  <2> QED BY <2>2, <2>3, <2>4
<1>6. InOrder(U)
  <2>1. ASSUME NEW i \in 1..Len(U), NEW j \in 1..Len(U), i < j
        PROVE  U[i] # U[j] /\ (Up(U[i]) = Up(U[j]) => category[U[i]].rank < category[U[j]].rank)
    <3>1. PICK b \in 1..Len(V) : j = 1 + b
      BY <1>1, <1>2, <2>1
    <3>2. CASE i = 1
      BY <1>1, <1>5, <3>1, <3>2
    <3>3. CASE i # 1
      <4>1. PICK a \in 1..Len(V) : i = 1 + a
        BY <1>2, <3>3
      <4>2. a < b
        BY <1>0, <2>1, <3>1, <4>1
      <4> QED BY <1>0, <1>1, <3>1, <4>1, <4>2 DEF InOrder
    <3> QED BY <3>2, <3>3
  <2> QED BY <2>1 DEF InOrder
<1>7. ASSUME NEW i \in 1..Len(U) PROVE U[i] \notin A /\ (U[i] \in {c} \/ Branch(U, i))
  BY <1>0, <1>1, <1>2, <1>4
<1> QED BY <1>1, <1>6, <1>7 DEF Trees

\* Trees of later siblings put after the tree of the first one.
Followed(A, B, S, c, p, W, V, U) ==
  /\ c \in S /\ p \in A \cup {Nothing} /\ S \subseteq Children(p) /\ Nothing \notin LiveCategories
  /\ \A d \in S \ {c} : category[c].rank < category[d].rank
  /\ Trees(W, A, {c}) /\ B = A \cup ListedIn(W) /\ Trees(V, B, S \ {c})
  /\ U = W \o V

\* A tree before those of the later siblings are the trees of all of them.
LEMMA SiblingsAdded ==
  ASSUME NEW A, NEW B, NEW S, NEW c, NEW p, NEW W, NEW V, NEW U, Followed(A, B, S, c, p, W, V, U)
  PROVE  Trees(U, A, S) /\ ListedIn(U) = ListedIn(W) \cup ListedIn(V)
<1> /\ c \in S /\ p \in A \cup {Nothing} /\ S \subseteq Children(p) /\ Nothing \notin LiveCategories
    /\ \A d \in S \ {c} : category[c].rank < category[d].rank
    /\ Trees(W, A, {c}) /\ B = A \cup ListedIn(W) /\ Trees(V, B, S \ {c})
    /\ U = W \o V
  BY DEF Followed
<1>0. /\ W \in Seq(LiveCategories) /\ InOrder(W)
      /\ \A i \in 1..Len(W) : W[i] \notin A /\ (W[i] = c \/ Branch(W, i))
      /\ V \in Seq(LiveCategories) /\ InOrder(V)
      /\ \A i \in 1..Len(V) : V[i] \notin A /\ (V[i] \in S \ {c} \/ Branch(V, i))
  BY DEF Trees
<1>1. PICK n \in Nat : n = Len(W)
  BY <1>0
<1>2. /\ U \in Seq(LiveCategories) /\ Len(U) = n + Len(V) /\ Len(V) \in Nat
      /\ ListedIn(U) = ListedIn(W) \cup ListedIn(V)
      /\ \A i \in 1..n : U[i] = W[i]
      /\ \A i \in 1..Len(V) : U[n + i] = V[i]
  BY <1>0, <1>1, Joined
<1>3. \A i \in 1..Len(U) : i \in 1..n \/ \E j \in 1..Len(V) : i = n + j
  <2>1. ASSUME NEW i \in 1..Len(U), i \notin 1..n PROVE i - n \in 1..Len(V) /\ i = n + (i - n)
    BY <1>2, <2>1
  <2> QED BY <2>1
<1>4. ASSUME NEW i \in 1..n PROVE U[i] \notin A /\ (U[i] \in S \/ Branch(U, i))
  <2>1. Branch(W, i) => Branch(U, i)
    BY <1>0, <1>1, BranchOnTheLeft
  <2> QED BY <1>0, <1>1, <1>2, <2>1
<1>5. ASSUME NEW i \in 1..Len(V) PROVE U[n + i] \notin A /\ (U[n + i] \in S \/ Branch(U, n + i))
  <2>1. Branch(V, i) => Branch(U, n + i)
    BY <1>0, <1>1, BranchOnTheRight
  <2> QED BY <1>0, <1>2, <2>1
<1>6. ASSUME NEW x \in ListedIn(W), NEW y \in ListedIn(V)
      PROVE  x # y /\ (Up(x) = Up(y) => category[x].rank < category[y].rank)
  <2>1. x \in LiveCategories /\ x \notin A /\ (x = c \/ Up(x) \in ListedIn(W))
    <3>1. \A z \in ListedIn(W) : z \in LiveCategories /\ z \notin A /\ (z \in {c} \/ Up(z) \in ListedIn(W))
      BY ParentsAreListed
    <3> QED BY <3>1
  <2>2. y \in LiveCategories /\ y \notin A \cup ListedIn(W) /\ (y \in S \ {c} \/ Up(y) \in ListedIn(V))
    <3>1. \A z \in ListedIn(V) : z \in LiveCategories /\ z \notin B /\ (z \in S \ {c} \/ Up(z) \in ListedIn(V))
      BY ParentsAreListed
    <3> QED BY <3>1
  <2>3. \A z \in ListedIn(V) : z \in LiveCategories /\ z \notin A /\ z \notin ListedIn(W)
    <3>1. \A z \in ListedIn(V) : z \in LiveCategories /\ z \notin B
      BY ParentsAreListed
    <3> QED BY <3>1
  <2>4. \A z \in ListedIn(W) : z \in LiveCategories /\ z \notin A
    BY ParentsAreListed
  <2>5. \A z \in S : Up(z) = p
    BY DEF Children, Up
  <2>6. p \notin ListedIn(V) /\ p \notin ListedIn(W)
    BY <2>3, <2>4
  <2>7. CASE x = c
    BY <2>2, <2>5, <2>6, <2>7
  <2>8. CASE Up(x) \in ListedIn(W)
    BY <2>2, <2>3, <2>5, <2>6, <2>8
  <2> QED BY <2>1, <2>2, <2>7, <2>8
<1>7. InOrder(U)
  <2>1. ASSUME NEW i \in 1..Len(U), NEW j \in 1..Len(U), i < j
        PROVE  U[i] # U[j] /\ (Up(U[i]) = Up(U[j]) => category[U[i]].rank < category[U[j]].rank)
    <3>1. CASE i \in 1..n /\ j \in 1..n
      BY <1>0, <1>1, <1>2, <2>1, <3>1 DEF InOrder
    <3>2. CASE i \in 1..n /\ \E b \in 1..Len(V) : j = n + b
      <4>1. PICK b \in 1..Len(V) : j = n + b
        BY <3>2
      <4>2. U[i] \in ListedIn(W) /\ U[j] \in ListedIn(V)
        BY <1>1, <1>2, <3>2, <4>1 DEF ListedIn
      <4> QED BY <1>6, <4>2
    <3>3. CASE (\E a \in 1..Len(V) : i = n + a) /\ \E b \in 1..Len(V) : j = n + b
      <4>1. PICK a \in 1..Len(V), b \in 1..Len(V) : i = n + a /\ j = n + b
        BY <3>3
      <4>2. a < b
        BY <1>2, <2>1, <4>1
      <4>3. U[i] = V[a] /\ U[j] = V[b]
        BY <1>2, <4>1
      <4> QED BY <1>0, <4>2, <4>3 DEF InOrder
    <3>4. ~ ((\E a \in 1..Len(V) : i = n + a) /\ j \in 1..n)
      BY <1>2, <2>1
    <3> QED BY <1>3, <3>1, <3>2, <3>3, <3>4
  <2> QED BY <2>1 DEF InOrder
<1>8. ASSUME NEW i \in 1..Len(U) PROVE U[i] \notin A /\ (U[i] \in S \/ Branch(U, i))
  BY <1>3, <1>4, <1>5
<1> QED BY <1>2, <1>7, <1>8 DEF Trees

\* Above the place of a visit is a path to the root, and as much of the
\* catalog as the depth that is left does not reach.
Above(A, p, S) ==
  /\ A \in SUBSET LiveCategories /\ p \in A \cup {Nothing}
  /\ \A a \in A : Up(a) \in A \cup {Nothing}
  /\ S \subseteq Children(p) /\ S \cap A = {}
VisitsTrees(k, S) ==
  \A A, p : Above(A, p, S) =>
    /\ Trees(Visit[<<k, S>>], A, S)
    /\ Cardinality(A) + k >= Cardinality(Categories) => Whole(Visit[<<k, S>>], S)

\* Nothing is left to visit at the bottom, or of no siblings.
LEMMA NoRoomBelow ==
  ASSUME NEW k \in Nat, NEW S \in SUBSET LiveCategories, RanksDiffer, k = 0 \/ S = {}
  PROVE  VisitsTrees(k, S)
<1>1. <<k, S>> \in Places
  BY DEF Places
<1>2. PICK V : V = Visit[<<k, S>>]
  OBVIOUS
<1>3. V = << >>
  BY <1>1, <1>2, VisitWalks DEF Walk
<1>4. V \in Seq(LiveCategories) /\ Len(V) = 0 /\ ListedIn(V) = {}
  BY <1>3 DEF ListedIn
<1>5. ASSUME NEW A, NEW p, Above(A, p, S)
      PROVE  Trees(V, A, S) /\ (Cardinality(A) + k >= Cardinality(Categories) => Whole(V, S))
  <2>1. Trees(V, A, S)
    BY <1>4 DEF Trees, InOrder
  <2>2. ASSUME Cardinality(A) + k >= Cardinality(Categories) PROVE S = {}
    <3>1. CASE S = {}
      BY <3>1
    <3>2. CASE k = 0
      <4>1. A \in SUBSET Categories /\ IsFiniteSet(Categories)
        BY <1>5, CatalogAssumption DEF Above, LiveCategories
      <4>2. IsFiniteSet(A)
        BY <4>1, FS_Subset
      <4>3. PICK a \in Nat, n \in Nat : a = Cardinality(A) /\ n = Cardinality(Categories)
        BY <4>1, <4>2, FS_CardinalityType
      <4>4. a <= n /\ (n = a => Categories = A)
        BY <4>1, <4>3, FS_Subset
      <4>5. n <= a
        BY <2>2, <3>2, <4>3
      <4>6. Categories = A
        BY <4>3, <4>4, <4>5
      <4> QED BY <1>5, <4>6 DEF Above, LiveCategories
    <3> QED BY <3>1, <3>2
  <2> QED BY <1>4, <2>1, <2>2 DEF Whole, Closed
<1> QED BY <1>2, <1>5 DEF VisitsTrees

\* If a visit lists the trees below the first sibling and those of the others, it
\* lists the trees of all.
LEMMA OneMoreSibling ==
  ASSUME CatalogInv, NEW k \in Nat, k # 0, NEW S \in SUBSET LiveCategories, S # {},
         NEW c, c = First(S), VisitsTrees(k - 1, Children(c)), VisitsTrees(k, S \ {c})
  PROVE  VisitsTrees(k, S)
<1>0. RanksDiffer /\ Nothing \notin LiveCategories
  BY CatalogAssumption DEF CatalogInv, LiveCategories
<1>1. c \in S /\ c \in LiveCategories /\ \A d \in S \ {c} : category[c].rank < category[d].rank
  BY <1>0, FirstIsFirst
<1>2. PICK V, W, T, U : /\ V = Visit[<<k - 1, Children(c)>>] /\ T = Visit[<<k, S \ {c}>>]
                        /\ W = <<c>> \o V /\ U = Visit[<<k, S>>]
  OBVIOUS
<1>3. V \in Seq(LiveCategories) /\ T \in Seq(LiveCategories)
  <2>1. <<k - 1, Children(c)>> \in Places /\ <<k, S \ {c}>> \in Places
    BY DEF Places, Children
  <2> QED BY <1>0, <1>2, <2>1, VisitWalks
<1>4. U = W \o T
  <2>1. <<k, S>> \in Places
    BY DEF Places
  <2>2. U = <<c>> \o V \o T
    BY <1>0, <1>2, <2>1, VisitWalks DEF Walk
  <2> QED BY <1>1, <1>2, <1>3, <2>2
<1>5. ASSUME NEW A, NEW p, Above(A, p, S)
      PROVE  Trees(U, A, S) /\ (Cardinality(A) + k >= Cardinality(Categories) => Whole(U, S))
  <2>0. /\ A \in SUBSET LiveCategories /\ p \in A \cup {Nothing} /\ S \subseteq Children(p) /\ S \cap A = {}
        /\ \A a \in A : Up(a) \in A \cup {Nothing}
    BY <1>5 DEF Above
  <2>1. c \notin A /\ Up(c) = p /\ \A d \in S : Up(d) = p
    BY <1>1, <2>0 DEF Children, Up
  <2>2. \A d \in Children(c) : d \in LiveCategories /\ Up(d) = c
    BY DEF Children, Up
  <2>3. PICK A1 : A1 = A \cup {c}
    OBVIOUS
  <2>4. Above(A1, c, Children(c))
    <3>1. Children(c) \cap A1 = {}
      BY <1>0, <1>1, <2>0, <2>1, <2>2, <2>3
    <3> QED BY <1>1, <2>0, <2>1, <2>3, <3>1 DEF Above
  <2>5. Trees(V, A1, Children(c))
    BY <1>2, <2>4 DEF VisitsTrees
  <2>6. Trees(W, A, {c}) /\ ListedIn(W) = {c} \cup ListedIn(V)
    <3>1. Up(c) \in A \cup {Nothing}
      BY <2>0, <2>1
    <3>2. W = <<c>> \o V
      BY <1>2
    <3>3. c \in LiveCategories /\ c \notin A /\ Nothing \notin LiveCategories
      BY <1>0, <1>1, <2>1
    <3>4. Planted(A, A1, c, V, W)
      BY <2>3, <2>5, <3>1, <3>2, <3>3 DEF Planted
    <3>5. Trees(W, A, {c})
      BY <3>4, RootAdded
    <3>6. \A x : x \in ListedIn(W) <=> x = c \/ x \in ListedIn(V)
      BY <3>4, RootAdded
    <3> QED BY <3>5, <3>6
  <2>7. \A x \in ListedIn(W) : x \in LiveCategories /\ x \notin A /\ (x \in {c} \/ Up(x) \in ListedIn(W))
    BY <2>6, ParentsAreListed
  <2>8. PICK A2 : A2 = A \cup ListedIn(W)
    OBVIOUS
  <2>9. Above(A2, p, S \ {c})
    <3>1. A2 \in SUBSET LiveCategories /\ p \in A2 \cup {Nothing} /\ S \ {c} \subseteq Children(p)
      BY <2>0, <2>7, <2>8
    <3>2. \A a \in A2 : Up(a) \in A2 \cup {Nothing}
      BY <2>0, <2>1, <2>7, <2>8
    <3>3. p \notin ListedIn(W)
      BY <1>0, <2>0, <2>7
    <3>4. (S \ {c}) \cap A2 = {}
      BY <2>0, <2>1, <2>7, <2>8, <3>3
    <3> QED BY <3>1, <3>2, <3>4 DEF Above
  <2>10. Trees(T, A2, S \ {c})
    BY <1>2, <2>9 DEF VisitsTrees
  <2>11. Trees(U, A, S) /\ ListedIn(U) = ListedIn(W) \cup ListedIn(T)
    <3>1. p \in A \cup {Nothing} /\ S \subseteq Children(p)
      BY <2>0
    <3>2. Trees(W, A, {c})
      BY <2>6
    <3>3. c \in S /\ Nothing \notin LiveCategories /\ \A d \in S \ {c} : category[c].rank < category[d].rank
      BY <1>0, <1>1
    <3>4. Followed(A, A2, S, c, p, W, T, U)
      BY <1>4, <2>8, <2>10, <3>1, <3>2, <3>3 DEF Followed
    <3> QED BY <3>4, SiblingsAdded
  <2>12. ASSUME Cardinality(A) + k >= Cardinality(Categories) PROVE Whole(U, S)
    <3>1. IsFiniteSet(A) /\ IsFiniteSet(A1) /\ IsFiniteSet(A2) /\ IsFiniteSet(Categories)
      <4>1. A \in SUBSET Categories /\ A1 \in SUBSET Categories /\ A2 \in SUBSET Categories
        BY <2>0, <2>4, <2>9 DEF Above, LiveCategories
      <4> QED BY <4>1, FS_Subset, CatalogAssumption
    <3>2. PICK a \in Nat, b \in Nat, d \in Nat, n \in Nat :
            /\ a = Cardinality(A) /\ b = Cardinality(A1) /\ d = Cardinality(A2)
            /\ n = Cardinality(Categories)
      BY <3>1, FS_CardinalityType
    <3>3. b = a + 1
      BY <2>1, <2>3, <3>1, <3>2, FS_AddElement
    <3>4. a <= d
      <4>1. A \in SUBSET A2
        BY <2>8
      <4> QED BY <3>1, <3>2, <4>1, FS_Subset
    <3>5. b + (k - 1) >= n /\ d + k >= n
      BY <2>12, <3>2, <3>3, <3>4
    <3>6. Whole(V, Children(c))
      BY <1>2, <2>4, <3>2, <3>5 DEF VisitsTrees
    <3>7. Whole(T, S \ {c})
      BY <1>2, <2>9, <3>2, <3>5 DEF VisitsTrees
    <3>8. S \subseteq ListedIn(U)
      BY <2>6, <2>11, <3>7 DEF Whole
    <3>9. Closed(ListedIn(W))
      BY <2>6, <3>6 DEF Whole, Closed
    <3>10. Closed(ListedIn(U))
      BY <2>11, <3>7, <3>9 DEF Whole, Closed
    <3> QED BY <3>8, <3>10 DEF Whole
  <2> QED BY <2>11, <2>12
<1> QED BY <1>2, <1>5 DEF VisitsTrees

\* A visit lists whole trees, for every number of levels and every set of siblings.
LEMMA VisitListsTrees ==
  ASSUME CatalogInv, NEW k \in Nat, NEW S \in SUBSET LiveCategories
  PROVE  VisitsTrees(k, S)
<1>0. RanksDiffer
  BY DEF CatalogInv
<1>1. PICK G : G = {at \in Places : VisitsTrees(at[1], at[2])}
  OBVIOUS
<1>2. ASSUME NEW at \in Places, \A to \in Places : Size[to] < Size[at] => to \in G
      PROVE  at \in G
  <2>1. PICK n \in Nat, T \in SUBSET LiveCategories : at = <<n, T>>
    BY DEF Places
  <2>2. CASE n = 0 \/ T = {}
    BY <1>0, <1>1, <2>1, <2>2, NoRoomBelow
  <2>3. CASE n # 0 /\ T # {}
    <3>1. PICK c \in LiveCategories : c = First(T)
      BY <1>0, <2>3, SizeDrops
    <3>2. /\ <<n - 1, Children(c)>> \in Places /\ <<n, T \ {c}>> \in Places
          /\ Size[<<n - 1, Children(c)>>] < Size[<<n, T>>]
          /\ Size[<<n, T \ {c}>>] < Size[<<n, T>>]
      BY <1>0, <2>3, <3>1, SizeDrops
    <3>3. VisitsTrees(n - 1, Children(c)) /\ VisitsTrees(n, T \ {c})
      BY <1>1, <1>2, <2>1, <3>2
    <3>4. VisitsTrees(n, T)
      BY <2>3, <3>1, <3>3, OneMoreSibling
    <3> QED BY <1>1, <2>1, <3>4
  <2> QED BY <2>2, <2>3
<1>3. Size \in [Places -> Nat]
  BY <1>0, SizeDrops
<1>4. Places \subseteq G
  BY <1>2, <1>3, BySize
<1>5. <<k, S>> \in Places
  BY DEF Places
<1> QED BY <1>1, <1>4, <1>5

\* The listing holds the trees of the roots, whole.
LEMMA ListingListsTheRoots ==
  ASSUME CatalogInv
  PROVE  Trees(Listing, {}, Children(Nothing)) /\ Whole(Listing, Children(Nothing))
<1>1. IsFiniteSet(Categories) /\ Cardinality(Categories) \in Nat
  BY CatalogAssumption, FS_CardinalityType
<1>2. PICK k \in Nat, S \in SUBSET LiveCategories : k = Cardinality(Categories) /\ S = Children(Nothing)
  BY <1>1 DEF Children
<1>3. VisitsTrees(k, S)
  BY VisitListsTrees
<1>4. Above({}, Nothing, S)
  BY <1>2 DEF Above
<1>5. Cardinality({}) = 0
  BY FS_EmptySet
<1>6. Cardinality({}) + k >= Cardinality(Categories)
  BY <1>2, <1>5
<1>7. Trees(Visit[<<k, S>>], {}, S) /\ Whole(Visit[<<k, S>>], S)
  BY <1>3, <1>4, <1>6 DEF VisitsTrees
<1> QED BY <1>2, <1>7 DEF Listing

\* Every flat consumer of the catalog reads a tree, whatever the moves have
\* done to it (sortCategoriesInTreeOrder): no category twice, each one after
\* its parent with only its branch in between, siblings in their order.
THEOREM ListingIsATreeHolds == CatalogSpec => []ListingIsATree
<1>1. ASSUME CatalogInv PROVE ListingIsATree
  <2>1. PICK V : V = Listing
    OBVIOUS
  <2>2. Trees(V, {}, Children(Nothing))
    BY <1>1, <2>1, ListingListsTheRoots
  <2>3. ASSUME NEW i \in 1..Len(V), NEW j \in 1..Len(V), i < j
        PROVE  /\ V[i] # V[j]
               /\ category[V[i]].parentId = category[V[j]].parentId => category[V[i]].rank < category[V[j]].rank
    BY <2>2, <2>3 DEF Trees, InOrder, Up
  <2>4. ASSUME NEW i \in 1..Len(V), category[V[i]].parentId # Nothing
        PROVE  \E k \in 1..(i - 1) :
                 /\ V[k] = category[V[i]].parentId
                 /\ \A j \in (k + 1)..i : category[V[j]].parentId \in {V[h] : h \in k..(j - 1)}
    <3>1. V[i] \notin Children(Nothing)
      BY <2>4 DEF Children
    <3>2. Branch(V, i)
      BY <2>2, <3>1 DEF Trees
    <3> QED BY <3>2 DEF Branch, Up
  <2> QED BY <2>1, <2>3, <2>4 DEF ListingIsATree
<1> QED BY <1>1, CatalogInvariant, PTL

-----------------------------------------------------------------------------
(* What the listing leaves out.                                            *)

\* Every set of categories has one whose parent is not in it: nothing hangs
\* in the air.
Grounded == \A F \in SUBSET LiveCategories : F # {} => \E x \in F : Up(x) \notin F

\* The listing has every category exactly if every set of them has one whose parent
\* is not in it.
LEMMA ListedWhenGrounded ==
  ASSUME CatalogInv
  PROVE  LiveCategories = Listed <=> Grounded
<1>1. PICK V : V = Listing
  OBVIOUS
<1>2. Trees(V, {}, Children(Nothing)) /\ Whole(V, Children(Nothing)) /\ Listed = ListedIn(V)
  BY <1>1, ListingListsTheRoots DEF Listed, ListedIn
<1>3. V \in Seq(LiveCategories) /\ ListedIn(V) \subseteq LiveCategories /\ Len(V) \in Nat
  BY <1>2 DEF Trees, ListedIn
<1>4. Nothing \notin LiveCategories
  BY CatalogAssumption DEF LiveCategories
<1>5. ASSUME Grounded, NEW x \in LiveCategories PROVE x \in ListedIn(V)
  <2> DEFINE F == LiveCategories \ ListedIn(V)
  <2>1. SUFFICES ASSUME F # {} PROVE FALSE
    OBVIOUS
  <2>2. PICK y \in F : Up(y) \notin F
    BY <1>5, <2>1 DEF Grounded
  <2>3. y \in LiveCategories /\ Up(y) \in LiveCategories \cup {Nothing}
    BY <2>2 DEF CatalogInv, ParentsLive, Up
  <2>4. y \in Children(Up(y))
    BY <2>3 DEF Children, Up
  <2>5. CASE Up(y) = Nothing
    BY <1>2, <2>2, <2>4, <2>5 DEF Whole
  <2>6. CASE Up(y) \in ListedIn(V)
    BY <1>2, <2>2, <2>4, <2>6 DEF Whole, Closed
  <2> QED BY <2>2, <2>3, <2>5, <2>6
<1>6. ASSUME LiveCategories = ListedIn(V) PROVE Grounded
  <2>1. SUFFICES ASSUME NEW F \in SUBSET LiveCategories, F # {}
                 PROVE  \E x \in F : Up(x) \notin F
    BY DEF Grounded
  <2> DEFINE at == {i \in 1..Len(V) : V[i] \in F}
  <2>2. at \in SUBSET Nat
    BY <1>3
  <2>3. at # {}
    <3>1. PICK x \in F : x \in ListedIn(V)
      BY <1>6, <2>1
    <3> QED BY <3>1 DEF ListedIn
  <2>4. PICK i \in at : \A j \in at : i <= j
    <3> HIDE DEF at
    <3> QED BY <2>2, <2>3, SmallestNumber
  <2>5. i \in 1..Len(V) /\ V[i] \in F
    BY <2>4
  <2>6. CASE V[i] \in Children(Nothing)
    <3>1. Up(V[i]) = Nothing
      BY <2>6 DEF Children, Up
    <3> QED BY <1>4, <2>1, <2>5, <3>1
  <2>7. CASE Branch(V, i)
    <3>1. PICK k \in 1..(i - 1) : V[k] = Up(V[i])
      BY <2>7 DEF Branch
    <3>2. k \in 1..Len(V) /\ ~ (i <= k)
      BY <1>3, <2>5, <3>1
    <3>3. V[k] \notin F
      BY <2>4, <3>2
    <3> QED BY <2>5, <3>1, <3>3
  <2> QED BY <1>2, <2>5, <2>6, <2>7 DEF Trees
<1> QED BY <1>2, <1>3, <1>5, <1>6

\* A move that was not overtaken leaves every category below a root.
LEMMA StaysGrounded ==
  ASSUME CatalogInv, CatalogNext, Grounded,
         \A r \in Movers : moving[r].overtaken => moving'[r] = moving[r]
  PROVE  Grounded'
<1>0. ParentsLive /\ Nothing \notin LiveCategories /\ category \in [Categories -> CategoryRow]
  BY CatalogAssumption DEF CatalogInv, CatalogTypeOK, LiveCategories
<1>1. CASE category' = category
  BY <1>1, SameTree DEF Grounded, Up
<1>2. ASSUME NEW c \in Categories, NEW k \in Ranks, NEW p \in Parents, CreateCategory(c, k, p) PROVE Grounded'
  <2>1. c \notin LiveCategories /\ LiveCategories' = LiveCategories \cup {c}
    BY <1>0, <1>2 DEF CreateCategory, IsNext, LiveCategories
  <2>2. Up(c)' = p /\ p # c /\ \A d \in LiveCategories : Up(d)' = Up(d)
    BY <1>0, <1>2, <2>1, CatalogAssumption DEF CreateCategory, Up, LiveCategories
  <2>3. ASSUME NEW F \in SUBSET LiveCategories', F # {} PROVE \E x \in F : Up(x)' \notin F
    <3>1. CASE F \subseteq {c}
      BY <2>2, <2>3, <3>1
    <3>2. CASE ~ (F \subseteq {c})
      <4>1. F \ {c} \in SUBSET LiveCategories /\ F \ {c} # {}
        BY <2>1, <3>2
      <4>2. PICK x \in F \ {c} : Up(x) \notin F \ {c}
        BY <4>1 DEF Grounded
      <4>3. x \in LiveCategories
        BY <4>1
      <4>4. Up(x) # c
        BY <1>0, <2>1, <4>3, CatalogAssumption DEF ParentsLive, Up
      <4> QED BY <2>2, <4>2, <4>3, <4>4
    <3> QED BY <3>1, <3>2
  <2> QED BY <2>3 DEF Grounded
<1>3. ASSUME NEW c \in Categories, NEW k \in Ranks, UpdateInPlace(c, k) PROVE Grounded'
  <2>1. LiveCategories' = LiveCategories /\ \A d \in Categories : Up(d)' = Up(d)
    BY <1>0, <1>3 DEF UpdateInPlace, LiveCategories, Up, CategoryRow
  <2> QED BY <2>1 DEF Grounded, LiveCategories
<1>4. ASSUME NEW c \in Categories, DeleteCategory(c) PROVE Grounded'
  <2>1. LiveCategories' \subseteq LiveCategories /\ \A d \in LiveCategories' : Up(d)' = Up(d)
    BY <1>0, <1>4 DEF DeleteCategory, LiveCategories, Up, NoCategory
  <2> QED BY <2>1 DEF Grounded
<1>5. ASSUME NEW r \in Movers, NEW k \in Ranks \cup {Keep}, Move(r, k) PROVE Grounded'
  <2>1. PICK c, p : c = moving[r].c /\ p = moving[r].parentId
    OBVIOUS
  <2>2. /\ c \in LiveCategories /\ p \in LiveCategories \cup {Nothing} /\ moving[r].pc = "move"
        /\ LiveCategories' = LiveCategories
        /\ \A d \in Categories \ {c} : category'[d] = category[d]
        /\ category'[c].parentId = p
    BY <1>5, <2>1, MoveWrites
  <2>3. Up(c)' = p /\ \A d \in LiveCategories \ {c} : Up(d)' = Up(d)
    BY <2>2 DEF Up, LiveCategories
  <2>4. ~ moving[r].overtaken
    <3>1. moving'[r].pc = "idle"
      BY <1>5 DEF Move, NoMove
    <3> QED BY <2>2, <3>1
  <2>5. ASSUME NEW F \in SUBSET LiveCategories, F # {}, \A x \in F : Up(x)' \in F
        PROVE  FALSE
    <3>1. CASE c \notin F
      <4>1. \A x \in F : Up(x) \in F
        BY <2>3, <2>5, <3>1
      <4> QED BY <2>5, <4>1 DEF Grounded
    <3>2. CASE c \in F
      <4>1. p \in F /\ p # Nothing
        BY <1>0, <2>3, <2>5, <3>2
      <4>2. PICK T \in SUBSET Categories : Separated(c, p, T)
        BY <2>1, <2>2, <2>4, <4>1 DEF CatalogInv, MoveStillSafe
      <4>3. c \in T /\ p \notin T /\ Closed(T)
        BY <4>2 DEF Separated
      <4>4. ASSUME NEW x \in F \ T PROVE Up(x) \in F \ T
        <5>1. x # c /\ x \in LiveCategories
          BY <2>5, <4>3
        <5>2. Up(x) \in F
          BY <2>3, <2>5, <5>1
        <5>3. x \in Children(Up(x))
          BY <5>1 DEF Children, Up
        <5>4. Up(x) \notin T
          BY <4>3, <5>3 DEF Closed
        <5> QED BY <5>2, <5>4
      <4>5. F \ T \in SUBSET LiveCategories /\ F \ T # {}
        BY <2>5, <4>1, <4>3
      <4>6. \A x \in F \ T : Up(x) \in F \ T
        BY <4>4
      <4> QED BY <4>5, <4>6 DEF Grounded
    <3> QED BY <3>1, <3>2
  <2> QED BY <2>2, <2>5 DEF Grounded
<1>6. \/ category' = category
      \/ \E r \in Movers, k \in Ranks \cup {Keep} : Move(r, k)
      \/ \E c \in Categories, k \in Ranks : UpdateInPlace(c, k)
      \/ \E c \in Categories, k \in Ranks, p \in Parents : CreateCategory(c, k, p)
      \/ \E c \in Categories : DeleteCategory(c)
  BY DEF CatalogNext, ReadForMove, GiveUpMove, Publish, ReplaceSpecializations
<1> QED BY <1>1, <1>2, <1>3, <1>4, <1>5, <1>6

\* Categories leave the listing, with all below them, only by a move that
\* another move overtook between its check and its write (updateCategory).
THEOREM OnlyARaceHidesHolds == CatalogSpec => OnlyARaceHides
<1>1. CatalogInv => (LiveCategories = Listed <=> Grounded)
  BY ListedWhenGrounded
<1>2. CatalogInv' => (LiveCategories = Listed <=> Grounded)'
  BY <1>1, PTL
<1>3. ASSUME CatalogInv, CatalogInv', [CatalogNext]_catalogVars
      PROVE  [UndisturbedEdit => (LiveCategories = Listed)']_catalogVars
  <2>1. SUFFICES ASSUME CatalogNext, UndisturbedEdit PROVE (LiveCategories = Listed)'
    BY <1>3
  <2>2. Grounded
    BY <1>1, <1>3, <2>1 DEF UndisturbedEdit
  <2>3. Grounded'
    BY <1>3, <2>1, <2>2, StaysGrounded DEF UndisturbedEdit
  <2> QED BY <1>2, <1>3, <2>3
<1>4. CatalogInv /\ CatalogInv' /\ [CatalogNext]_catalogVars => [UndisturbedEdit => (LiveCategories = Listed)']_catalogVars
  BY <1>3
<1> QED BY <1>4, CatalogInvariant, PTL DEF CatalogSpec, OnlyARaceHides

-----------------------------------------------------------------------------
(* The settings in the panel                                               *)

W == Words \cup Buckets \cup {"mode"}

\* The first i members of a sequence over S: how many they are, what comes before
\* the last of them, and what the cuts of such a cut are.
CutAt(S, s, i) ==
  /\ SubSeq(s, 1, i) \in Seq(S) /\ Len(SubSeq(s, 1, i)) = i
  /\ SubSeq(s, 1, i) # << >>
  /\ Front(SubSeq(s, 1, i)) = SubSeq(s, 1, i - 1)
  /\ Last(SubSeq(s, 1, i)) = s[i] /\ s[i] \in S
  /\ \A h \in 1 .. i : SubSeq(SubSeq(s, 1, i), 1, h) = SubSeq(s, 1, h)

\* Every sequence can be cut at each of its members.
LEMMA Cut ==
  ASSUME NEW S, NEW s \in Seq(S), NEW i \in 1 .. Len(s)
  PROVE  CutAt(S, s, i)
<1>1. SubSeq(s, 1, i) \in Seq(S) /\ Len(SubSeq(s, 1, i)) = i
  OBVIOUS
<1>2. \A h \in 1 .. i : SubSeq(s, 1, i)[h] = s[h] /\ s[h] \in S
  OBVIOUS
<1>3. \A h \in 0 .. i : SubSeq(SubSeq(s, 1, i), 1, h) = SubSeq(s, 1, h)
  OBVIOUS
<1>4. SubSeq(s, 1, i) # << >>
  BY <1>1
<1> QED
  BY <1>1, <1>2, <1>3, <1>4 DEF CutAt, Front, Last

\* What comes before a segment that was added to a node, and that it is last.
LEMMA Added ==
  ASSUME NEW S, NEW s \in Seq(S), NEW x \in S
  PROVE  /\ Append(s, x) \in Seq(S) /\ Append(s, x) # << >>
         /\ Front(Append(s, x)) = s /\ Last(Append(s, x)) = x
<1>1. Append(s, x) \in Seq(S) /\ Len(Append(s, x)) = Len(s) + 1 /\ Append(s, x)[Len(s) + 1] = x
  OBVIOUS
<1>2. SubSeq(Append(s, x), 1, Len(s)) = s
  OBVIOUS
<1> QED
  BY <1>1, <1>2 DEF Front, Last

\* A sequence that is not empty is what comes before its last member, and that.
LEMMA FrontLast ==
  ASSUME NEW S, NEW s \in Seq(S), s # << >>
  PROVE  /\ Front(s) \in Seq(S) /\ Last(s) \in S /\ Append(Front(s), Last(s)) = s
         /\ Len(s) \in Nat \ {0} /\ Len(Front(s)) = Len(s) - 1
<1>1. Len(s) \in Nat \ {0}
  OBVIOUS
<1>2. SubSeq(s, 1, Len(s) - 1) \in Seq(S) /\ Len(SubSeq(s, 1, Len(s) - 1)) = Len(s) - 1
  <2>1. ASSUME NEW i \in 0 .. Len(s)
        PROVE  SubSeq(s, 1, i) \in Seq(S) /\ Len(SubSeq(s, 1, i)) = i
    OBVIOUS
  <2>2. Len(s) - 1 \in 0 .. Len(s)
    BY <1>1
  <2> QED
    BY <2>1, <2>2
<1>3. Append(SubSeq(s, 1, Len(s) - 1), s[Len(s)]) = s
  <2> DEFINE f == SubSeq(s, 1, Len(s) - 1)
  <2>1. \A i \in 1 .. Len(s) - 1 : f[i] = s[i]
    BY <1>1, <1>2
  <2>2. s[Len(s)] \in S
    BY <1>1
  <2> HIDE DEF f
  <2>3. /\ Append(f, s[Len(s)]) \in Seq(S) /\ Len(Append(f, s[Len(s)])) = Len(s)
        /\ \A i \in 1 .. Len(s) - 1 : Append(f, s[Len(s)])[i] = s[i]
        /\ Append(f, s[Len(s)])[Len(s)] = s[Len(s)]
    BY <1>1, <1>2, <2>1, <2>2 DEF f
  <2>4. \A i \in 1 .. Len(s) : Append(f, s[Len(s)])[i] = s[i]
    BY <1>1, <2>3
  <2>5. Append(f, s[Len(s)]) = s
    BY <2>3, <2>4
  <2> QED
    BY <2>5 DEF f
<1> QED
  BY <1>1, <1>2, <1>3 DEF Front, Last

\* The nodes of a tree: prefixes of the blocks of its keys.
TreeOf(t, D) ==
  /\ D \subseteq Keys /\ DOMAIN t.encrypted = D
  /\ t.nodes = UNION {{SubSeq(Block(k), 1, i) : i \in 1 .. Len(Block(k))} : k \in D}

\* The block of a key is a sequence of segments, and with its field it is the key.
LEMMA Blocks ==
  ASSUME NEW k \in Keys
  PROVE  /\ Segments[k] \in Seq(W) /\ Block(k) \in Seq(W)
         /\ Len(Block(k)) = Len(Segments[k]) - 1 /\ Len(Block(k)) \in Nat
         /\ Len(Segments[k]) \in Nat \ {0}
<1>1. Segments[k] \in Seq(Words) /\ Segments[k] # << >>
  BY PageAssumption
<1>2. Segments[k] \in Seq(W)
  BY <1>1 DEF W
<1> QED
  BY <1>1, <1>2, FrontLast DEF Block

\* A node on the way to a block is what comes before the next one on that way.
LEMMA OnTheWay ==
  ASSUME NEW k \in Keys, NEW i \in 1 .. Len(Block(k))
  PROVE  /\ SubSeq(Block(k), 1, i) \in Seq(W) /\ SubSeq(Block(k), 1, i) # << >>
         /\ Len(SubSeq(Block(k), 1, i)) = i /\ i \in Nat \ {0} /\ i <= Len(Block(k))
         /\ Front(SubSeq(Block(k), 1, i)) = SubSeq(Block(k), 1, i - 1)
         /\ \A h \in 1 .. i : SubSeq(SubSeq(Block(k), 1, i), 1, h) = SubSeq(Block(k), 1, h)
<1> DEFINE s == Block(k)
<1>1. s \in Seq(W) /\ Len(s) \in Nat
  BY Blocks
<1> HIDE DEF s
<1>2. ASSUME NEW j \in 1 .. Len(s)
      PROVE  /\ SubSeq(s, 1, j) \in Seq(W) /\ SubSeq(s, 1, j) # << >>
             /\ Len(SubSeq(s, 1, j)) = j
             /\ Front(SubSeq(s, 1, j)) = SubSeq(s, 1, j - 1)
             /\ \A h \in 1 .. j : SubSeq(SubSeq(s, 1, j), 1, h) = SubSeq(s, 1, h)
  <2>1. CutAt(W, s, j)
    BY <1>1, Cut
  <2> QED
    BY <2>1, Zenon DEF CutAt
<1>3. ASSUME NEW j \in 1 .. Len(s) PROVE j \in Nat \ {0} /\ j <= Len(s)
  BY <1>1
<1> QED
  BY <1>2, <1>3, Zenon DEF s

\* A node of the tree lies on the way to the block of some field.
LEMMA NodeIs ==
  ASSUME NEW t, NEW D, TreeOf(t, D), NEW n \in t.nodes
  PROVE  n \in Seq(W) /\ n # << >> /\ Len(n) \in Nat \ {0} /\ SubSeq(n, 1, Len(n)) = n
<1>1. PICK k \in D : \E i \in 1 .. Len(Block(k)) : n = SubSeq(Block(k), 1, i)
  BY DEF TreeOf
<1>2. PICK i \in 1 .. Len(Block(k)) : n = SubSeq(Block(k), 1, i)
  BY <1>1
<1>3. k \in Keys
  BY DEF TreeOf
<1>4. n \in Seq(W) /\ n # << >> /\ Len(n) = i /\ i \in Nat \ {0}
  BY <1>2, <1>3, OnTheWay
<1>5. SubSeq(n, 1, Len(n)) = n
  BY <1>4
<1> QED
  BY <1>4, <1>5

\* Whatever lies on the way to the block of a field is a node of the tree.
LEMMA PrefixIsNode ==
  ASSUME NEW t, NEW D, TreeOf(t, D), NEW k \in D, NEW i \in 1 .. Len(Block(k))
  PROVE  SubSeq(Block(k), 1, i) \in t.nodes
BY DEF TreeOf

\* What a node that splits is: the block of its mode.
LEMMA ModeOf ==
  ASSUME NEW t, NEW D, TreeOf(t, D), NEW n \in Seq(W), Split(t, n)
  PROVE  /\ n # << >>
         /\ \A k \in Keys, b \in Buckets :
              IsPrefix(Append(n, b), Block(k)) =>
                /\ Block(k) = Append(n, b)
                /\ \A j \in Keys : Block(j) = n => Field(j) # Field(k)
<1>1. PICK m \in D : Segments[m] = Append(n, "mode")
  BY DEF TreeOf, Split
<1>2. m \in Keys
  BY DEF TreeOf
<1>3. Block(m) = n /\ Field(m) = "mode"
  <2>1. "mode" \in W
    BY DEF W
  <2>2. Front(Append(n, "mode")) = n /\ Last(Append(n, "mode")) = "mode"
    BY <2>1, Added
  <2> QED
    BY <1>1, <2>2 DEF Block, Field
<1>4. /\ Block(m) # << >>
      /\ \A k \in Keys, b \in Buckets :
           IsPrefix(Append(Block(m), b), Block(k)) =>
             /\ Block(k) = Append(Block(m), b)
             /\ \A j \in Keys : Block(j) = Block(m) => Field(j) # Field(k)
  <2>1. \E b \in Buckets : TRUE
    BY DEF Buckets
  <2> QED
    BY <1>2, <1>3, <2>1, PageAssumption, ZenonT(30)
<1> QED
  BY <1>3, <1>4, Zenon

\* No block lies below a bucket.
LEMMA NoBucketAbove ==
  ASSUME NEW t, NEW D, TreeOf(t, D), NEW k \in D, NEW i \in 1 .. Len(Block(k)), i # Len(Block(k))
  PROVE  ~ MergedAway(t, SubSeq(Block(k), 1, i))
<1> DEFINE c == SubSeq(Block(k), 1, i)
<1> SUFFICES ASSUME MergedAway(t, c) PROVE FALSE
  OBVIOUS
<1>1. k \in Keys /\ Block(k) \in Seq(W)
  BY Blocks DEF TreeOf
<1>2. c \in Seq(W) /\ Len(c) = i /\ c # << >> /\ SubSeq(c, 1, i) = SubSeq(Block(k), 1, i)
  <2>1. i \in 1 .. i
    BY <1>1, Blocks
  <2> QED
    BY <1>1, <2>1, OnTheWay, Zenon
<1> HIDE DEF c
<1>3. Front(c) \in Seq(W) /\ Append(Front(c), Last(c)) = c
  BY <1>2, FrontLast
<1>4. Split(t, Front(c)) /\ Last(c) \in Buckets
  BY DEF MergedAway
<1>5. IsPrefix(c, Block(k))
  <2>1. Len(c) <= Len(Block(k))
    BY <1>1, <1>2, Blocks
  <2>2. SubSeq(c, 1, Len(c)) = SubSeq(Block(k), 1, Len(c))
    BY <1>2
  <2> QED
    BY <2>1, <2>2 DEF IsPrefix
<1>6. Block(k) = c
  BY <1>1, <1>3, <1>4, <1>5, ModeOf
<1> QED
  BY <1>2, <1>6

\* A node on the way to a block that is not merged away renders it.
LEMMA WayDown ==
  ASSUME NEW t, NEW D, TreeOf(t, D), NEW k \in D, NEW i \in 1 .. Len(Block(k)),
         ~ MergedAway(t, SubSeq(Block(k), 1, i))
  PROVE  Reached(t, SubSeq(Block(k), 1, i))
<1> DEFINE n == SubSeq(Block(k), 1, i)
<1>1. k \in Keys /\ Block(k) \in Seq(W)
  BY Blocks DEF TreeOf
<1>2. Len(n) = i /\ \A h \in 1 .. i : SubSeq(n, 1, h) = SubSeq(Block(k), 1, h)
  BY <1>1, OnTheWay
<1>3. ASSUME NEW h \in 1 .. i
      PROVE  RendersChildren(t, SubSeq(n, 1, h - 1)) /\ ~ MergedAway(t, SubSeq(n, 1, h))
  <2>1. h \in 1 .. Len(Block(k)) /\ Len(Block(k)) \in Nat
    BY <1>1, Blocks
  <2>2. ~ MergedAway(t, SubSeq(Block(k), 1, h))
    BY <2>1, NoBucketAbove
  <2>3. SubSeq(Block(k), 1, h) \in t.nodes
    BY <2>1, PrefixIsNode
  <2>4. Front(SubSeq(Block(k), 1, h)) = SubSeq(Block(k), 1, h - 1)
    BY <1>1, <2>1, OnTheWay
  <2>5. SubSeq(n, 1, h - 1) = SubSeq(Block(k), 1, h - 1)
    BY <1>1, <2>1
  <2> QED
    BY <1>2, <2>2, <2>3, <2>4, <2>5 DEF RendersChildren, ChildrenOf
<1> QED
  BY <1>2, <1>3 DEF Reached


\* One control each: that of a block nobody merged away, or of the node that took
\* the active bucket.
LEMMA OneBlockEach ==
  ASSUME NEW t, NEW D, TreeOf(t, D), NEW storage, NEW k \in D
  PROVE  IF Len(Segments[k]) = 1 \/ Resting(t, k)
         THEN Controls(Render(t, storage), k) = {}
         ELSE \E n \in t.nodes : Controls(Render(t, storage), k) = {n}
<1> DEFINE B == Block(k)
           F == Front(Block(k))
           Shows(n) == n \in t.nodes /\ k \in FieldsOf(t, n) /\ Reached(t, n)
<1>1. Controls(Render(t, storage), k) = {n \in t.nodes : Shows(n)}
  <2> DEFINE f == [n \in LeafBlocks(t) |-> FieldsOf(t, n)]
  <2>1. Render(t, storage).block = f
    BY DEF Render
  <2>2. Controls(Render(t, storage), k) = {n \in DOMAIN f : k \in f[n]}
    BY <2>1 DEF Controls
  <2>3. {n \in DOMAIN f : k \in f[n]} = {n \in LeafBlocks(t) : k \in FieldsOf(t, n)}
    OBVIOUS
  <2> QED
    BY <2>2, <2>3 DEF LeafBlocks
<1>2. /\ k \in Keys /\ B \in Seq(W) /\ Len(B) = Len(Segments[k]) - 1 /\ Len(B) \in Nat
      /\ Len(Segments[k]) \in Nat \ {0}
  BY Blocks DEF TreeOf
<1>3. ASSUME NEW n, Shows(n)
      PROVE  /\ n \in Seq(W) /\ n # << >> /\ ~ MergedAway(t, n)
             /\ \/ Split(t, n) /\ B = Active(t, n) /\ F = n /\ Last(B) \in Buckets /\ MergedAway(t, B)
                \/ B = n
  <2>1. n \in Seq(W) /\ n # << >> /\ Len(n) \in Nat \ {0} /\ SubSeq(n, 1, Len(n)) = n
    BY <1>3, NodeIs
  <2>2. Len(n) \in 1 .. Len(n)
    BY <2>1
  <2>3. ~ MergedAway(t, n)
    BY <1>3, <2>1, <2>2 DEF Reached
  <2>4. CASE k \in Assigned(t, n)
    <3>1. Split(t, n) /\ B = Active(t, n)
      BY <2>4 DEF Assigned
    <3>2. PICK b \in Buckets : B = Append(n, b)
      BY <3>1 DEF Active, Buckets
    <3>3. b \in W
      BY DEF W
    <3>4. Front(B) = n /\ Last(B) = b
      BY <2>1, <3>2, <3>3, Added
    <3> QED
      BY <2>1, <2>3, <3>1, <3>4 DEF MergedAway
  <2>5. CASE k \notin Assigned(t, n)
    BY <1>3, <2>1, <2>3, <2>5 DEF FieldsOf
  <2> QED
    BY <2>4, <2>5
<1> HIDE DEF Shows
<1>4. CASE Len(Segments[k]) = 1
  <2>1. B = << >>
    BY <1>2, <1>4
  <2>2. ASSUME NEW n, Shows(n) PROVE FALSE
    <3>1. CASE B = n
      BY <1>3, <2>1, <2>2, <3>1
    <3>2. CASE B = Active(t, n)
      <4>1. PICK b \in Buckets : B = Append(n, b)
        BY <3>2 DEF Active, Buckets
      <4>2. b \in W /\ n \in Seq(W)
        BY <1>3, <2>2 DEF W
      <4> QED
        BY <2>1, <4>1, <4>2, Added
    <3> QED
      BY <1>3, <2>2, <3>1, <3>2
  <2> QED
    BY <1>1, <1>4, <2>2
<1>5. CASE Len(Segments[k]) # 1 /\ Resting(t, k)
  <2>1. MergedAway(t, B) /\ B # Active(t, F)
    BY <1>5 DEF Resting
  <2>2. ASSUME NEW n, Shows(n) PROVE FALSE
    BY <1>3, <2>1, <2>2
  <2> QED
    BY <1>1, <1>5, <2>2
<1>6. CASE Len(Segments[k]) # 1 /\ ~ Resting(t, k)
  <2>1. Len(B) \in Nat \ {0} /\ Len(B) \in 1 .. Len(B)
    <3> DEFINE l == Len(B)
               s == Len(Segments[k])
    <3>1. l = s - 1 /\ s \in Nat \ {0} /\ s # 1
      BY <1>2, <1>6
    <3> HIDE DEF l, s
    <3>2. l \in Nat \ {0} /\ l \in 1 .. l
      BY <3>1
    <3> QED
      BY <3>2 DEF l
  <2>2. B # << >> /\ SubSeq(B, 1, Len(B)) = B /\ B \in t.nodes
    <3>1. B # << >> /\ SubSeq(B, 1, Len(B)) = B
      BY <1>2, <2>1
    <3>2. SubSeq(B, 1, Len(B)) \in t.nodes
      BY <2>1, PrefixIsNode
    <3> QED
      BY <3>1, <3>2
  <2>3. F \in Seq(W) /\ Last(B) \in W /\ Append(F, Last(B)) = B /\ Len(F) = Len(B) - 1
    BY <1>2, <2>2, FrontLast
  <2>4. CASE MergedAway(t, B)
    <3>1. Split(t, F) /\ B = Active(t, F)
      BY <1>6, <2>4 DEF Resting, MergedAway
    <3>2. F # << >>
      BY <2>3, <3>1, ModeOf
    <3>3. Len(F) \in 1 .. Len(B) /\ Len(F) # Len(B) /\ F = SubSeq(B, 1, Len(F))
      <4>1. Len(F) # 0
        BY <2>3, <3>2
      <4>2. F = SubSeq(B, 1, Len(B) - 1)
        BY DEF Front
      <4> HIDE DEF B, F
      <4> QED
        BY <2>1, <2>3, <4>1, <4>2
    <3>4. F \in t.nodes
      BY <3>3, PrefixIsNode
    <3>5. ~ MergedAway(t, F)
      BY <3>3, NoBucketAbove
    <3>6. Reached(t, F)
      BY <3>3, <3>5, WayDown
    <3>7. Shows(F)
      BY <3>1, <3>4, <3>6 DEF Shows, FieldsOf, Assigned, TreeOf
    <3>8. ASSUME NEW n, Shows(n) PROVE n = F
      BY <1>3, <2>4, <3>8
    <3> QED
      BY <1>1, <1>6, <3>4, <3>7, <3>8
  <2>5. CASE ~ MergedAway(t, B)
    <3>1. Reached(t, B)
      BY <2>1, <2>2, <2>5, WayDown
    <3>2. ASSUME NEW j \in Assigned(t, B) PROVE Field(j) # Field(k)
      <4>1. j \in Keys /\ Split(t, B) /\ Block(j) = Active(t, B)
        BY DEF Assigned, TreeOf
      <4>2. PICK b \in Buckets : Block(j) = Append(B, b)
        BY <4>1 DEF Active, Buckets
      <4>3. IsPrefix(Append(B, b), Block(j))
        BY <4>2 DEF IsPrefix
      <4> QED
        BY <1>2, <4>1, <4>3, ModeOf
    <3>3. Shows(B)
      BY <2>2, <3>1, <3>2 DEF Shows, FieldsOf, TreeOf
    <3>4. ASSUME NEW n, Shows(n) PROVE n = B
      BY <1>3, <2>5, <3>4
    <3> QED
      BY <1>1, <1>6, <2>2, <3>3, <3>4
  <2> QED
    BY <2>4, <2>5
<1> QED
  BY <1>4, <1>5, <1>6

\* What the pages add to the settings is who saves what: they are administrators
\* among others.
LEMMA PageStepIsASettingsStep == [PageNext]_pageVars => [SettingsNext]_settingVars
<1> SUFFICES ASSUME [PageNext]_pageVars PROVE [SettingsNext]_settingVars
  OBVIOUS
<1>1. CASE UNCHANGED pageVars
  BY <1>1 DEF pageVars
<1>2. ASSUME NEW a \in Pages, LoadSettings(a) \/ LoadSettingsFails(a) \/ SaveStorage(a)
      PROVE  [SettingsNext]_settingVars
  BY <1>2 DEF LoadSettings, LoadSettingsFails, SaveStorage, SettingsNext
<1>3. ASSUME NEW a \in Pages, NEW r \in Saves, NEW k \in Keys, NEW form \in Input[k],
             HandleToggle(a, r, k, form) \/ HandleSaveSetting(a, r, k, form) \/ HandleSaveCredential(a, r, k, form)
      PROVE  [SettingsNext]_settingVars
  BY <1>3 DEF HandleToggle, HandleSaveSetting, HandleSaveCredential, Submits, SettingsNext
<1>4. ASSUME NEW k \in Seeds, NEW form \in Input[k], SeedSetting(k, form)
      PROVE  [SettingsNext]_settingVars
  <2>1. k \in Keys
    BY PageAssumption
  <2> QED
    BY <1>4, <2>1 DEF SettingsNext
<1>5. ASSUME NEW r \in Saves, CommitSave(r) \/ GiveUpSave(r)
      PROVE  [SettingsNext]_settingVars
  BY <1>5 DEF SettingsNext
<1> QED
  BY <1>1, <1>2, <1>3, <1>4, <1>5 DEF PageNext

\* Pages and seeds do to the settings what administrators may do: whatever
\* holds of the settings in every behaviour holds of them under the panel too
\* (handleToggle, handleSaveSetting, handleSaveCredential and the storage tab).
THEOREM PagesAreAdministrators == PageSpec => SettingsSpec
<1>1. PageInit => SettingsInit
  BY DEF PageInit
<1> QED
  BY <1>1, PageStepIsASettingsStep, PTL DEF PageSpec, SettingsSpec

\* What a page shows was rendered from a tree whose fields are of their kind.
PageOK(p) ==
  p # Null =>
    /\ p = Render(p.tree, p.storage)
    /\ TreeOf(p.tree, DOMAIN p.tree.encrypted)
    /\ \A k \in DOMAIN p.tree.encrypted : p.tree.encrypted[k] <=> k \in Credentials

SaveIsOfItsKind(r) == save[r] # NoSave => (save[r].form.encrypted <=> save[r].k \in Credentials)

KindsOK == \A k \in Keys : HasRow(k) => (setting[k].encrypted <=> k \in Credentials)

\* A row is of its kind because every save in flight is, and that because every
\* page is.
KindsInv ==
  /\ KindsOK
  /\ \A r \in Saves : SaveIsOfItsKind(r)
  /\ DOMAIN page = Pages /\ \A a \in Pages : PageOK(page[a])

\* A page that loads finds credentials where settings are encrypted, so it is
\* as PageOK says.
LEMMA LoadedPageOK ==
  ASSUME KindsOK, NEW general \in BOOLEAN, NEW storage,
         NEW p, p = Render(BuildSettingsTree(IF general THEN Fields ELSE << >>), storage)
  PROVE  PageOK(p)
<1> DEFINE D == Present \cup Slots
<1>1. Present \subseteq Keys /\ Slots \subseteq Keys
  BY PageAssumption DEF Present
<1>2. PICK f : f = IF general THEN Fields ELSE << >>
  OBVIOUS
<1>3. DOMAIN f \subseteq Keys /\ \A k \in DOMAIN f : f[k] <=> k \in Credentials
  <2>1. CASE general
    <3>1. f = Fields /\ DOMAIN f = D
      BY <1>2, <2>1 DEF Fields, Offered, EncryptedSlot
    <3>2. \A k \in D : f[k] = IF k \in Present THEN setting[k].encrypted ELSE k \in Credentials
      BY <3>1 DEF Fields, Offered, EncryptedSlot
    <3>3. \A k \in Present : setting[k].encrypted <=> k \in Credentials
      BY <1>1 DEF Present, KindsOK
    <3> QED
      BY <1>1, <3>1, <3>2, <3>3
  <2>2. CASE ~ general
    <3>1. DOMAIN f = {}
      BY <1>2, <2>2
    <3> QED
      BY <3>1
  <2> QED
    BY <2>1, <2>2
<1>4. PICK t : t = BuildSettingsTree(f)
  OBVIOUS
<1>5. t.encrypted = f /\ TreeOf(t, DOMAIN f)
  BY <1>3, <1>4 DEF BuildSettingsTree, TreeOf
<1>6. p = Render(t, storage) /\ p.tree = t /\ p.storage = storage
  BY <1>2, <1>4 DEF Render
<1> QED
  BY <1>3, <1>5, <1>6 DEF PageOK

\* A control of a page saves what its setting is.
LEMMA SubmitsItsKind ==
  ASSUME KindsInv, NEW a \in Pages, NEW r \in Saves, NEW k \in Keys, NEW form \in Input[k],
         HandleToggle(a, r, k, form) \/ HandleSaveSetting(a, r, k, form) \/ HandleSaveCredential(a, r, k, form)
  PROVE  /\ form.encrypted <=> k \in Credentials
         /\ BeginSave(r, k, form) /\ UNCHANGED page
<1> DEFINE p == page[a]
           t == page[a].tree
<1>1. /\ p # Null /\ Controls(p, k) # {} /\ BeginSave(r, k, form) /\ UNCHANGED page
      /\ \/ ~ form.encrypted /\ Kind(p, k) \in {"flag", "select", "text"}
         \/ form.encrypted /\ Kind(p, k) = "credential"
  BY DEF HandleToggle, HandleSaveSetting, HandleSaveCredential, Submits
<1>2. PageOK(p)
  BY DEF KindsInv
<1>3. k \in DOMAIN t.encrypted
  <2>1. PICK n : n \in DOMAIN p.block /\ k \in p.block[n]
    BY <1>1 DEF Controls
  <2>2. p.block = [m \in LeafBlocks(t) |-> FieldsOf(t, m)]
    BY <1>1, <1>2 DEF PageOK, Render
  <2>3. k \in FieldsOf(t, n)
    BY <2>1, <2>2
  <2> QED
    BY <2>3 DEF FieldsOf, Assigned
<1>4. t.encrypted[k] <=> k \in Credentials
  BY <1>1, <1>2, <1>3 DEF PageOK
<1> QED
  BY <1>1, <1>4 DEF Kind

\* Every step of a page, of a save or of a seed leaves saves, rows and pages
\* of the kind that their keys have.
LEMMA KindsStep ==
  ASSUME SettingsInv, KindsInv, [PageNext]_pageVars
  PROVE  KindsInv'
<1>1. CASE UNCHANGED pageVars
  BY <1>1 DEF pageVars, settingVars, KindsInv, KindsOK, HasRow, SaveIsOfItsKind, PageOK
<1>2. ASSUME NEW a \in Pages, LoadSettings(a) \/ LoadSettingsFails(a) PROVE KindsInv'
  <2>1. UNCHANGED settingVars
    BY <1>2 DEF LoadSettings, LoadSettingsFails
  <2>2. /\ KindsOK' /\ \A r \in Saves : SaveIsOfItsKind(r)'
    BY <2>1 DEF settingVars, KindsInv, KindsOK, HasRow, SaveIsOfItsKind
  <2>3. PICK p : PageOK(p) /\ page' = [page EXCEPT ![a] = p]
    <3>1. CASE LoadSettingsFails(a)
      BY <3>1 DEF LoadSettingsFails, PageOK
    <3>2. CASE LoadSettings(a)
      <4>1. PICK general \in BOOLEAN, storage \in BOOLEAN :
              page' = [page EXCEPT ![a] = Render(BuildSettingsTree(IF general THEN Fields ELSE << >>), storage)]
        BY <3>2 DEF LoadSettings
      <4> QED
        BY <4>1, LoadedPageOK DEF KindsInv
    <3> QED
      BY <1>2, <3>1, <3>2
  <2>4. DOMAIN page' = Pages /\ \A b \in Pages : PageOK(page'[b])
    BY <2>3 DEF KindsInv
  <2> QED
    BY <2>2, <2>4 DEF KindsInv, PageOK
<1>3. ASSUME UNCHANGED page, KindsOK', \A r \in Saves : SaveIsOfItsKind(r)'
      PROVE  KindsInv'
  BY <1>3 DEF KindsInv, PageOK
<1>4. ASSUME NEW a \in Pages, NEW r \in Saves, NEW k \in Keys, NEW form \in Input[k],
             HandleToggle(a, r, k, form) \/ HandleSaveSetting(a, r, k, form) \/ HandleSaveCredential(a, r, k, form)
      PROVE  KindsInv'
  <2>1. (form.encrypted <=> k \in Credentials) /\ BeginSave(r, k, form) /\ UNCHANGED page
    BY <1>4, SubmitsItsKind
  <2>2. PICK s : s.k = k /\ s.form = form /\ save' = [save EXCEPT ![r] = s]
    <3>1. PICK kept : kept = IF KeepsCredential(setting[k], form) THEN setting[k].secret ELSE Null
      OBVIOUS
    <3>2. PICK s : s = [pc |-> "write", k |-> k, form |-> form, overtaken |-> FALSE, kept |-> kept]
      OBVIOUS
    <3>3. s.k = k /\ s.form = form
      BY <3>2
    <3>4. save' = [save EXCEPT ![r] = s]
      BY <2>1, <3>1, <3>2 DEF BeginSave
    <3> QED
      BY <3>3, <3>4
  <2>3. KindsOK'
    BY <2>1 DEF BeginSave, KindsInv, KindsOK, HasRow
  <2>4. \A q \in Saves : SaveIsOfItsKind(q)'
    BY <2>1, <2>2 DEF KindsInv, SaveIsOfItsKind, SettingsInv
  <2> QED
    BY <1>3, <2>1, <2>3, <2>4
<1>5. ASSUME NEW a \in Pages, SaveStorage(a) PROVE KindsInv'
  <2>1. PICK values \in [StorageKeys -> Values] : UpdateStorageSettings(values)
    BY <1>5 DEF SaveStorage
  <2>2. save' = save /\ \A k \in Keys : setting'[k] = setting[k] \/ (k \in StorageKeys /\ ~ setting'[k].encrypted)
    BY <2>1 DEF UpdateStorageSettings, NoRow
  <2>3. KindsOK' /\ \A r \in Saves : SaveIsOfItsKind(r)'
    BY <2>2, PageAssumption DEF KindsInv, KindsOK, HasRow, SaveIsOfItsKind
  <2> QED
    BY <1>3, <1>5, <2>3 DEF SaveStorage
<1>6. ASSUME NEW k \in Seeds, NEW form \in Input[k], SeedSetting(k, form), UNCHANGED page PROVE KindsInv'
  <2>1. k \in Keys /\ k \notin Credentials
    BY PageAssumption
  <2>2. save' = save /\ \A j \in Keys : setting'[j] = setting[j] \/ (j = k /\ ~ setting'[j].encrypted)
    BY <1>6, <2>1 DEF SeedSetting, NoRow, SettingsInv
  <2>3. KindsOK' /\ \A r \in Saves : SaveIsOfItsKind(r)'
    BY <2>1, <2>2 DEF KindsInv, KindsOK, HasRow, SaveIsOfItsKind
  <2> QED
    BY <1>3, <1>6, <2>3
<1>7. ASSUME NEW r \in Saves, GiveUpSave(r), UNCHANGED page PROVE KindsInv'
  <2>1. KindsOK' /\ \A q \in Saves : SaveIsOfItsKind(q)'
    BY <1>7 DEF GiveUpSave, KindsInv, KindsOK, HasRow, SaveIsOfItsKind, SettingsInv
  <2> QED
    BY <1>3, <1>7, <2>1
<1>8. ASSUME NEW r \in Saves, CommitSave(r), UNCHANGED page PROVE KindsInv'
  <2>1. PICK k \in Keys : k = save[r].k /\ save[r] # NoSave /\ save[r].pc = "write"
    BY <1>8, SaveFields DEF CommitSave, NoSave
  <2>2. Written(r).encrypted <=> k \in Credentials
    BY <2>1, WrittenWhole DEF KindsInv, SaveIsOfItsKind
  <2>3. setting' = [setting EXCEPT ![k] = Written(r)]
    BY <1>8, <2>1 DEF CommitSave
  <2>4. KindsOK'
    BY <2>2, <2>3 DEF KindsInv, KindsOK, HasRow, SettingsInv
  <2>5. ASSUME NEW q \in Saves PROVE SaveIsOfItsKind(q)'
    <3>1. save'[q] = IF q = r THEN NoSave
                     ELSE IF save[q].k = k THEN [save[q] EXCEPT !.overtaken = TRUE]
                     ELSE save[q]
      BY <1>8, <2>1 DEF CommitSave, Overtake
    <3>2. save[q] \in {NoSave} \cup Save /\ SaveIsOfItsKind(q)
      BY DEF SettingsInv, KindsInv
    <3>3. k # Null
      BY SettingsAssumption
    <3>4. CASE save[q] = NoSave
      BY <3>1, <3>3, <3>4 DEF NoSave, SaveIsOfItsKind
    <3>5. CASE save[q] \in Save /\ save[q] # NoSave
      <4>1. /\ [save[q] EXCEPT !.overtaken = TRUE].k = save[q].k
            /\ [save[q] EXCEPT !.overtaken = TRUE].form = save[q].form
        BY <3>5 DEF Save
      <4> QED
        BY <3>1, <3>2, <3>5, <4>1 DEF SaveIsOfItsKind
    <3> QED
      BY <3>2, <3>4, <3>5
  <2> QED
    BY <1>3, <1>8, <2>4, <2>5
<1> QED
  BY <1>1, <1>2, <1>4, <1>5, <1>6, <1>7, <1>8 DEF PageNext

\* A page that loaded the settings has one control for each of them, in a block
\* that is reached, of the kind the setting has (buildSettingsTree,
\* mergeActiveModeCredentials, renderLeafBlock), however pages and saves interleave.
THEOREM OneControlEachHolds == PageSpec => []OneControlEach
<1>1. PageInit => SettingsInv /\ KindsInv
  <2>1. PageInit => KindsInv
    BY DEF PageInit, SettingsInit, KindsInv, KindsOK, HasRow, SaveIsOfItsKind, PageOK
  <2> QED
    BY <2>1, SettingsInvInit DEF PageInit
<1>2. SettingsInv /\ KindsInv /\ [PageNext]_pageVars => SettingsInv' /\ KindsInv'
  BY PageStepIsASettingsStep, SettingsStep, KindsStep
<1>3. KindsInv => OneControlEach
  <2> SUFFICES ASSUME KindsInv, NEW a \in Pages, page[a] # Null, NEW k \in DOMAIN page[a].tree.encrypted
               PROVE  /\ page[a].tree.encrypted[k] <=> k \in Credentials
                      /\ IF Len(Segments[k]) = 1 \/ Resting(page[a].tree, k)
                         THEN Controls(page[a], k) = {}
                         ELSE \E n \in page[a].tree.nodes : Controls(page[a], k) = {n}
    BY DEF OneControlEach, KindsInv, KindsOK
  <2>1. PageOK(page[a])
    BY DEF KindsInv
  <2> QED
    BY <2>1, OneBlockEach DEF PageOK
<1> QED
  BY <1>1, <1>2, <1>3, PTL DEF PageSpec

-----------------------------------------------------------------------------
(* The tree that clients read.  Both of its folds, of the public settings   *)
(* and of the defaults, are the value of a function that is defined by      *)
(* recursion over the subsets of a finite set of numbers.                   *)

Folded(filling, tree, i) ==
  IF filling THEN FillDefaultAtPath(tree, Defaults[i]) ELSE AssignAtPath(tree, Path[i], setting[i].value)
TreeBody(filling, base, f, s) ==
  IF s = {} THEN base ELSE Folded(filling, f[s \ {Max(s)}], Max(s))
IsTreeFold(filling, base, f, S) == f = [s \in SUBSET S |-> TreeBody(filling, base, f, s)]

\* A finite set of numbers that is not empty has a greatest one.
LEMMA Greatest ==
  ASSUME NEW S \in SUBSET Nat, IsFiniteSet(S), S # {}
  PROVE  Max(S) \in S /\ \A x \in S : x <= Max(S)
<1> DEFINE Greater(x) == {y \in S : y > x}
           Sizes == {Cardinality(Greater(x)) : x \in S}
<1>1. ASSUME NEW x \in S PROVE IsFiniteSet(Greater(x)) /\ Cardinality(Greater(x)) \in Nat
  BY FS_Subset, FS_CardinalityType
<1>2. Sizes \in SUBSET Nat /\ Sizes # {}
  <2> HIDE DEF Greater
  <2> QED BY <1>1
<1>3. PICK n \in Sizes : \A l \in Sizes : n <= l
  <2> HIDE DEF Sizes
  <2> QED BY <1>2, SmallestNumber
<1>4. PICK x \in S : n = Cardinality(Greater(x))
  BY <1>3
<1>5. ASSUME NEW y \in S, y > x PROVE FALSE
  <2>1. Greater(y) \subseteq Greater(x) /\ y \in Greater(x) /\ y \notin Greater(y)
    <3>1. x \in Nat /\ y \in Nat /\ \A z \in S : z \in Nat
      OBVIOUS
    <3>2. \A z \in S : z > y => z > x
      BY <1>5, <3>1
    <3>3. \A z \in Greater(y) : z \in S /\ z > x /\ z > y
      BY <3>2
    <3>4. ~ (y > y)
      BY <3>1
    <3>5. Greater(y) \subseteq Greater(x)
      BY <3>3
    <3> QED BY <1>5, <3>3, <3>4, <3>5
  <2>2. Cardinality(Greater(y)) <= Cardinality(Greater(x)) - 1
    <3>1. Greater(y) \subseteq Greater(x) \ {y}
      BY <2>1
    <3>2. Cardinality(Greater(x) \ {y}) = Cardinality(Greater(x)) - 1 /\ IsFiniteSet(Greater(x) \ {y})
      BY <1>1, <2>1, FS_RemoveElement
    <3>3. Cardinality(Greater(y)) <= Cardinality(Greater(x) \ {y})
      BY <3>1, <3>2, FS_Subset
    <3> QED BY <3>2, <3>3
  <2>3. Cardinality(Greater(y)) \in Sizes
    OBVIOUS
  <2>4. Cardinality(Greater(x)) <= Cardinality(Greater(y))
    BY <1>3, <1>4, <2>3
  <2>5. Cardinality(Greater(x)) \in Nat /\ Cardinality(Greater(y)) \in Nat
    BY <1>1
  <2> HIDE DEF Greater
  <2> QED BY <2>2, <2>4, <2>5
<1>6. x \in S /\ \A y \in S : x >= y
  BY <1>5
<1>7. Max(S) \in S /\ \A y \in S : Max(S) >= y
  BY <1>6 DEF Max
<1> QED BY <1>7

\* There is such a function.
LEMMA TreeFoldExists ==
  ASSUME NEW filling, NEW base, NEW S \in SUBSET Nat, IsFiniteSet(S)
  PROVE  \E f : IsTreeFold(filling, base, f, S)
<1> DEFINE Body(f, s) == TreeBody(filling, base, f, s)
           Upto0(f, k) == \A s \in SUBSET S : Cardinality(s) <= k => f[s] = Body(f, s)
           Fcn(f) == f = [s \in SUBSET S |-> f[s]]
           Bad == {k \in Nat : ~ \E f : Fcn(f) /\ Upto0(f, k)}
<1>1. ASSUME NEW s \in SUBSET S
      PROVE  /\ Cardinality(s) \in Nat /\ (Cardinality(s) = 0 => s = {})
             /\ s # {} => s \ {Max(s)} \in SUBSET S /\ Cardinality(s \ {Max(s)}) = Cardinality(s) - 1
  <2>1. IsFiniteSet(s) /\ s \in SUBSET Nat
    BY FS_Subset
  <2>2. s # {} => Max(s) \in s
    BY <2>1, Greatest
  <2> QED BY <2>1, <2>2, FS_CardinalityType, FS_EmptySet, FS_RemoveElement
<1>2. 0 \notin Bad
  <2> DEFINE f0 == [s \in SUBSET S |-> base]
  <2>1. Fcn(f0)
    OBVIOUS
  <2>2. ASSUME NEW s \in SUBSET S, Cardinality(s) <= 0 PROVE f0[s] = Body(f0, s)
    <3>1. Cardinality(s) \in Nat /\ (Cardinality(s) = 0 => s = {})
      BY <1>1
    <3>2. s = {}
      BY <2>2, <3>1
    <3> QED BY <3>2 DEF TreeBody
  <2>3. Upto0(f0, 0)
    BY <2>2
  <2> HIDE DEF f0, Fcn, Upto0
  <2> QED BY <2>1, <2>3
<1>3. ASSUME NEW k \in Nat, k \notin Bad
      PROVE  k + 1 \notin Bad
  <2>1. PICK f : Fcn(f) /\ Upto0(f, k)
    BY <1>3
  <2>2. PICK h : h = [s \in SUBSET S |-> Body(f, s)]
    OBVIOUS
  <2>3. Fcn(h)
    <3> HIDE DEF Body
    <3> QED BY <2>2
  <2>4. ASSUME NEW s \in SUBSET S, Cardinality(s) <= k + 1
        PROVE  h[s] = Body(h, s)
    <3>0. h[s] = Body(f, s)
      <4> HIDE DEF Body
      <4> QED BY <2>2
    <3>1. CASE s = {}
      BY <3>0, <3>1 DEF TreeBody
    <3>2. CASE s # {}
      <4>1. PICK t : t = s \ {Max(s)}
        OBVIOUS
      <4>2. t \in SUBSET S /\ Cardinality(t) <= k
        BY <1>1, <2>4, <3>2, <4>1
      <4>3. f[t] = Body(f, t) /\ h[t] = Body(f, t)
        <5> HIDE DEF Body
        <5> QED BY <2>1, <2>2, <4>2
      <4>4. f[s \ {Max(s)}] = h[s \ {Max(s)}]
        BY <4>1, <4>3
      <4> QED BY <3>0, <3>2, <4>4 DEF TreeBody
    <3> QED BY <3>1, <3>2
  <2> HIDE DEF Body
  <2> QED BY <2>3, <2>4
<1>4. Bad = {}
  <2>1. SUFFICES ASSUME Bad # {} PROVE FALSE
    OBVIOUS
  <2>0. Bad \in SUBSET Nat
    OBVIOUS
  <2> HIDE DEF Bad
  <2>2. PICK k \in Bad : \A j \in Bad : k <= j
    BY <2>0, <2>1, SmallestNumber
  <2>3. k \in Nat /\ k # 0
    BY <1>2, <2>0
  <2>4. k - 1 \in Nat /\ k - 1 \notin Bad
    BY <2>2, <2>3
  <2>5. (k - 1) + 1 \notin Bad
    BY <1>3, <2>4
  <2>6. (k - 1) + 1 = k
    BY <2>3
  <2> QED BY <2>2, <2>5, <2>6
<1>5. PICK f : Fcn(f) /\ Upto0(f, Cardinality(S))
  <2>1. Cardinality(S) \in Nat
    BY FS_CardinalityType
  <2> HIDE DEF Fcn, Upto0
  <2> QED BY <1>4, <2>1
<1>6. \A s \in SUBSET S : f[s] = TreeBody(filling, base, f, s)
  BY <1>5, FS_Subset
<1>7. f = [s \in SUBSET S |-> TreeBody(filling, base, f, s)]
  BY <1>5, <1>6
<1> QED BY <1>7 DEF IsTreeFold

\* What holds of no numbers, and of numbers when it holds without their greatest,
\* holds of all subsets of a finite set of numbers.
LEMMA ByGreatest ==
  ASSUME NEW S \in SUBSET Nat, IsFiniteSet(S), NEW G, {} \in G,
         \A s \in SUBSET S : s # {} /\ s \ {Max(s)} \in G => s \in G
  PROVE  SUBSET S \subseteq G
<1>1. PICK m : m = [s \in SUBSET S |-> Cardinality(s)]
  OBVIOUS
<1>2. ASSUME NEW s \in SUBSET S
      PROVE  /\ m[s] \in Nat
             /\ s # {} => s \ {Max(s)} \in SUBSET S /\ m[s \ {Max(s)}] < m[s]
  <2>1. IsFiniteSet(s) /\ s \in SUBSET Nat
    BY FS_Subset
  <2>2. s # {} => Max(s) \in s
    BY <2>1, Greatest
  <2>3. m[s] = Cardinality(s) /\ m[s] \in Nat
    BY <1>1, <2>1, FS_CardinalityType
  <2>4. ASSUME s # {} PROVE s \ {Max(s)} \in SUBSET S /\ m[s \ {Max(s)}] < m[s]
    <3>1. PICK t \in SUBSET S : t = s \ {Max(s)}
      OBVIOUS
    <3>2. Cardinality(t) = Cardinality(s) - 1
      BY <2>1, <2>2, <2>4, <3>1, FS_RemoveElement
    <3>3. m[t] = Cardinality(t)
      BY <1>1
    <3>4. m[t] < m[s]
      BY <2>3, <3>2, <3>3
    <3> QED BY <3>1, <3>4
  <2> QED BY <2>3, <2>4
<1>3. m \in [SUBSET S -> Nat]
  BY <1>1, <1>2
<1>4. ASSUME NEW s \in SUBSET S, \A t \in SUBSET S : m[t] < m[s] => t \in G
      PROVE  s \in G
  BY <1>2, <1>4
<1>5. PICK D : D = SUBSET S
  OBVIOUS
<1>6. m \in [D -> Nat] /\ \A s \in D : (\A t \in D : m[t] < m[s] => t \in G) => s \in G
  BY <1>3, <1>4, <1>5
<1>7. D \subseteq G
  BY <1>6, BySize
<1> QED BY <1>5, <1>7

\* A value is put unless another leaf stands above or below.
LEMMA AssignsUnless ==
  ASSUME NEW tree, NEW path, NEW value
  PROVE  AssignAtPath(tree, path, value) =
           IF \E q \in DOMAIN tree : q # path /\ Related(q, path) THEN tree ELSE Put(tree, path, value)
  BY DEF AssignAtPath, BelowALeaf, IsObject, IsStrictPrefix, Related

\* What a tree of the settings in S shows.
LeavesApart(tree) == \A p, q \in DOMAIN tree : Related(p, q) => p = q
LeavesAreSettings(tree, S) == \A p \in DOMAIN tree : \E k \in S :
  Path[k] = p /\ tree[p] = setting[k].value /\ \A j \in S : Path[j] = p => j <= k
MissingAreHidden(tree, S) == \A k \in S : Path[k] \notin DOMAIN tree =>
  \E j \in S : j < k /\ Path[j] \in DOMAIN tree /\ Related(Path[j], Path[k])
Shows(tree, S) == LeavesApart(tree) /\ LeavesAreSettings(tree, S) /\ MissingAreHidden(tree, S)

\* Another setting, whose key is the greatest, leaves the tree such.
LEMMA ShowsOneMore ==
  ASSUME NEW S \in SUBSET Nat, NEW m \in S, \A k \in S : k <= m,
         NEW tree, Shows(tree, S \ {m})
  PROVE  Shows(AssignAtPath(tree, Path[m], setting[m].value), S)
<1>1. PICK path : path = Path[m]
  OBVIOUS
<1>2. PICK new : new = AssignAtPath(tree, path, setting[m].value)
  OBVIOUS
<1>3. \A j \in S \ {m} : j < m
  <2>1. \A j \in S : j \in Nat
    OBVIOUS
  <2> QED BY <2>1
<1>4. CASE \E q \in DOMAIN tree : q # path /\ Related(q, path)
  <2>1. new = tree
    BY <1>2, <1>4, AssignsUnless
  <2>2. PICK q \in DOMAIN tree : q # path /\ Related(q, path)
    BY <1>4
  <2>3. path \notin DOMAIN tree
    BY <2>2 DEF Shows, LeavesApart
  <2>4. LeavesAreSettings(tree, S)
    BY <1>1, <2>3 DEF Shows, LeavesAreSettings
  <2>5. \E j \in S : j < m /\ Path[j] \in DOMAIN tree /\ Related(Path[j], path)
    BY <1>3, <2>2 DEF Shows, LeavesAreSettings
  <2>6. MissingAreHidden(tree, S)
    BY <1>1, <2>5 DEF Shows, MissingAreHidden
  <2> QED BY <1>1, <1>2, <2>1, <2>4, <2>6 DEF Shows
<1>5. CASE ~ \E q \in DOMAIN tree : q # path /\ Related(q, path)
  <2>1. /\ DOMAIN new = DOMAIN tree \cup {path} /\ new[path] = setting[m].value
        /\ \A q \in DOMAIN tree : q # path => new[q] = tree[q]
    <3>1. new = Put(tree, path, setting[m].value)
      BY <1>2, <1>5, AssignsUnless
    <3> QED BY <3>1 DEF Put
  <2>2. LeavesApart(new)
    BY <1>5, <2>1 DEF Shows, LeavesApart, Related
  <2>3. ASSUME NEW p \in DOMAIN new
        PROVE  \E k \in S : Path[k] = p /\ new[p] = setting[k].value /\ \A j \in S : Path[j] = p => j <= k
    <3>1. CASE p = path
      BY <1>1, <2>1, <3>1
    <3>2. CASE p # path
      <4>1. p \in DOMAIN tree /\ new[p] = tree[p]
        BY <2>1, <3>2
      <4>2. PICK k \in S \ {m} :
              Path[k] = p /\ tree[p] = setting[k].value /\ \A j \in S \ {m} : Path[j] = p => j <= k
        BY <4>1 DEF Shows, LeavesAreSettings
      <4>3. Path[m] # p
        BY <1>1, <3>2
      <4> QED BY <4>1, <4>2, <4>3
    <3> QED BY <3>1, <3>2
  <2>4. MissingAreHidden(new, S)
    BY <1>1, <2>1 DEF Shows, MissingAreHidden
  <2>5. LeavesAreSettings(new, S)
    BY <2>3 DEF LeavesAreSettings
  <2> QED BY <1>1, <1>2, <2>2, <2>4, <2>5 DEF Shows
<1> QED BY <1>4, <1>5

\* The settings that are assigned are shown.
LEMMA AssignedAreShown ==
  ASSUME IsFiniteSet(PublicSettings)
  PROVE  Shows(AssignedSettings, PublicSettings)
<1> DEFINE S == PublicSettings
           IsAssigned(f) == f = [s \in SUBSET S |->
             IF s = {} THEN << >>
             ELSE LET k == Max(s) IN AssignAtPath(f[s \ {k}], Path[k], setting[k].value)]
<1>1. S \in SUBSET Nat /\ IsFiniteSet(S)
  BY SettingsAssumption DEF PublicSettings
<1>2. PICK g : IsTreeFold(FALSE, << >>, g, S)
  BY <1>1, TreeFoldExists
<1>3. ASSUME NEW f PROVE IsAssigned(f) <=> IsTreeFold(FALSE, << >>, f, S)
  BY DEF IsTreeFold, TreeBody, Folded
<1>4. PICK f : f = CHOOSE e : IsAssigned(e)
  OBVIOUS
<1>5. IsAssigned(f)
  <2> HIDE DEF IsAssigned
  <2> QED BY <1>2, <1>3, <1>4
<1>6. AssignedSettings = f[S]
  BY <1>4 DEF AssignedSettings, MapThenFoldSet
<1>7. PICK G : G = {s \in SUBSET S : Shows(f[s], s)}
  OBVIOUS
<1>8. \A s \in SUBSET S : f[s] = IF s = {} THEN << >>
        ELSE AssignAtPath(f[s \ {Max(s)}], Path[Max(s)], setting[Max(s)].value)
  BY <1>5
<1>9. {} \in G
  <2>1. f[{}] = << >>
    BY <1>8
  <2>2. DOMAIN << >> = {}
    OBVIOUS
  <2>3. DOMAIN f[{}] = {}
    BY <2>1, <2>2
  <2> QED BY <1>7, <2>3 DEF Shows, LeavesApart, LeavesAreSettings, MissingAreHidden
<1>10. ASSUME NEW s \in SUBSET S, s # {}, s \ {Max(s)} \in G PROVE s \in G
  <2>1. PICK m : m = Max(s)
    OBVIOUS
  <2>2. s \in SUBSET Nat /\ m \in s /\ \A k \in s : k <= m
    <3>1. s \in SUBSET Nat /\ IsFiniteSet(s)
      BY <1>1, FS_Subset
    <3> QED BY <1>10, <2>1, <3>1, Greatest
  <2>3. Shows(f[s \ {m}], s \ {m})
    BY <1>7, <1>10, <2>1
  <2>4. f[s] = AssignAtPath(f[s \ {m}], Path[m], setting[m].value)
    BY <1>8, <1>10, <2>1
  <2>5. Shows(f[s], s)
    <3>1. PICK tree : tree = f[s \ {m}]
      OBVIOUS
    <3> QED BY <2>2, <2>3, <2>4, <3>1, ShowsOneMore
  <2> QED BY <1>7, <2>5
<1>11. SUBSET S \subseteq G
  <2>1. \A s \in SUBSET S : s # {} /\ s \ {Max(s)} \in G => s \in G
    BY <1>10
  <2> HIDE DEF S
  <2> QED BY <1>1, <1>9, <2>1, ByGreatest
<1> QED BY <1>6, <1>7, <1>11

\* What a tree shows when the defaults that T numbers were filled into the one
\* of the settings.
Fills(tree, T) ==
  /\ LeavesApart(tree)
  /\ \A p \in DOMAIN AssignedSettings : p \in DOMAIN tree /\ tree[p] = AssignedSettings[p]
  /\ \A p \in DOMAIN tree \ DOMAIN AssignedSettings : tree[p] = Off /\ \E i \in T : p = Defaults[i]
  /\ \A i \in T : Defaults[i] \notin DOMAIN tree =>
       \E q \in DOMAIN AssignedSettings : Related(q, Defaults[i])

\* Another default leaves the tree such.
LEMMA FillsOneMore ==
  ASSUME NEW T \in SUBSET DOMAIN Defaults, NEW m \in T, NEW tree, Fills(tree, T \ {m})
  PROVE  Fills(FillDefaultAtPath(tree, Defaults[m]), T)
<1>1. PICK path : path = Defaults[m]
  OBVIOUS
<1>2. PICK new : new = FillDefaultAtPath(tree, path)
  OBVIOUS
<1>3. CASE path \in DOMAIN tree
  <2>1. new = tree
    BY <1>2, <1>3 DEF FillDefaultAtPath
  <2> QED BY <1>1, <1>2, <1>3, <2>1 DEF Fills
<1>4. CASE path \notin DOMAIN tree /\ \E q \in DOMAIN tree : q # path /\ Related(q, path)
  <2>1. new = tree
    BY <1>2, <1>4, AssignsUnless DEF FillDefaultAtPath
  <2>2. PICK q \in DOMAIN tree : q # path /\ Related(q, path)
    BY <1>4
  <2>3. q \in DOMAIN AssignedSettings
    BY <1>1, <2>2, DefaultsAssumption DEF Fills
  <2> QED BY <1>1, <1>2, <2>1, <2>2, <2>3 DEF Fills
<1>5. CASE path \notin DOMAIN tree /\ ~ \E q \in DOMAIN tree : q # path /\ Related(q, path)
  <2>1. /\ DOMAIN new = DOMAIN tree \cup {path} /\ new[path] = Off
        /\ \A q \in DOMAIN tree : q # path => new[q] = tree[q]
    <3>1. new = Put(tree, path, Off)
      BY <1>2, <1>5, AssignsUnless DEF FillDefaultAtPath
    <3> QED BY <3>1 DEF Put
  <2>2. LeavesApart(new)
    BY <1>5, <2>1 DEF Fills, LeavesApart, Related
  <2>3. \A p \in DOMAIN AssignedSettings : p \in DOMAIN new /\ new[p] = AssignedSettings[p]
    BY <1>5, <2>1 DEF Fills
  <2>4. \A p \in DOMAIN new \ DOMAIN AssignedSettings : new[p] = Off /\ \E i \in T : p = Defaults[i]
    BY <1>1, <1>5, <2>1 DEF Fills
  <2>5. \A i \in T : Defaults[i] \notin DOMAIN new =>
          \E q \in DOMAIN AssignedSettings : Related(q, Defaults[i])
    BY <1>1, <2>1 DEF Fills
  <2> QED BY <1>1, <1>2, <2>2, <2>3, <2>4, <2>5 DEF Fills
<1> QED BY <1>3, <1>4, <1>5

\* The defaults are filled in.
LEMMA DefaultsAreFilled ==
  ASSUME LeavesApart(AssignedSettings)
  PROVE  Fills(ListPlatformConfig, DOMAIN Defaults)
<1> DEFINE S == DOMAIN Defaults
           IsFilled(f) == f = [s \in SUBSET S |->
             IF s = {} THEN AssignedSettings
             ELSE LET i == Max(s) IN FillDefaultAtPath(f[s \ {i}], Defaults[i])]
<1>1. S \in SUBSET Nat /\ IsFiniteSet(S)
  <2>1. Len(Defaults) \in Nat /\ S = 1..Len(Defaults)
    BY DefaultsAssumption
  <2>2. IsFiniteSet(1..Len(Defaults)) /\ 1..Len(Defaults) \subseteq Nat
    BY <2>1, FS_Interval
  <2> QED BY <2>1, <2>2
<1>2. PICK g : IsTreeFold(TRUE, AssignedSettings, g, S)
  BY <1>1, TreeFoldExists
<1>3. ASSUME NEW f PROVE IsFilled(f) <=> IsTreeFold(TRUE, AssignedSettings, f, S)
  BY DEF IsTreeFold, TreeBody, Folded
<1>4. PICK f : f = CHOOSE e : IsFilled(e)
  OBVIOUS
<1>5. IsFilled(f)
  <2> HIDE DEF IsFilled
  <2> QED BY <1>2, <1>3, <1>4
<1>6. ListPlatformConfig = f[S]
  BY <1>4 DEF ListPlatformConfig, FoldLeft, MapThenFoldSet
<1>7. PICK G : G = {s \in SUBSET S : Fills(f[s], s)}
  OBVIOUS
<1>8. \A s \in SUBSET S : f[s] = IF s = {} THEN AssignedSettings
        ELSE FillDefaultAtPath(f[s \ {Max(s)}], Defaults[Max(s)])
  BY <1>5
<1>9. {} \in G
  <2>1. f[{}] = AssignedSettings
    BY <1>8
  <2>2. Fills(AssignedSettings, {})
    BY DEF Fills
  <2> QED BY <1>7, <2>1, <2>2
<1>10. ASSUME NEW s \in SUBSET S, s # {}, s \ {Max(s)} \in G PROVE s \in G
  <2>1. PICK m : m = Max(s)
    OBVIOUS
  <2>2. m \in s
    <3>1. s \in SUBSET Nat /\ IsFiniteSet(s)
      BY <1>1, FS_Subset
    <3> QED BY <1>10, <2>1, <3>1, Greatest
  <2>3. PICK tree : tree = f[s \ {m}]
    OBVIOUS
  <2>4. Fills(tree, s \ {m})
    BY <1>7, <1>10, <2>1, <2>3
  <2>5. f[s] = FillDefaultAtPath(tree, Defaults[m])
    BY <1>8, <1>10, <2>1, <2>3
  <2>6. Fills(f[s], s)
    BY <2>2, <2>4, <2>5, FillsOneMore
  <2> QED BY <1>7, <2>6
<1>11. SUBSET S \subseteq G
  <2>1. \A s \in SUBSET S : s # {} /\ s \ {Max(s)} \in G => s \in G
    BY <1>10
  <2> HIDE DEF S
  <2> QED BY <1>1, <1>9, <2>1, ByGreatest
<1> QED BY <1>6, <1>7, <1>11

\* The tree shows what is public.
LEMMA TreeShowsWhatIsPublic ==
  ASSUME SettingsInv, IsFiniteSet(PublicSettings)
  PROVE  ConfigShowsWhatIsPublic
<1> DEFINE Public(k) == HasRow(k) /\ setting[k].public
           At(p) == {k \in Keys : Public(k) /\ Path[k] = p}
           Hidden(p) == \E j \in Keys : Public(j) /\ Related(Path[j], p)
<1>1. PICK assigned : assigned = AssignedSettings
  OBVIOUS
<1>2. PICK tree : tree = ListPlatformConfig
  OBVIOUS
<1>3. \A k : k \in PublicSettings <=> k \in Keys /\ Public(k)
  BY DEF SettingsInv, RowOK, PublicSettings
<1>4. Shows(assigned, PublicSettings)
  BY <1>1, AssignedAreShown
<1>5. /\ LeavesApart(tree)
      /\ \A p \in DOMAIN assigned : p \in DOMAIN tree /\ tree[p] = assigned[p]
      /\ \A p \in DOMAIN tree \ DOMAIN assigned : tree[p] = Off /\ \E i \in DOMAIN Defaults : p = Defaults[i]
      /\ \A i \in DOMAIN Defaults : Defaults[i] \notin DOMAIN tree =>
           \E q \in DOMAIN assigned : Related(q, Defaults[i])
  BY <1>1, <1>2, <1>4, DefaultsAreFilled DEF Shows, Fills
<1>6. ASSUME NEW p \in DOMAIN assigned
      PROVE  \E k \in At(p) : tree[p] = setting[k].value /\ \A j \in At(p) : j <= k
  <2>1. PICK k \in PublicSettings : Path[k] = p /\ assigned[p] = setting[k].value
                                    /\ \A j \in PublicSettings : Path[j] = p => j <= k
    BY <1>4 DEF Shows, LeavesAreSettings
  <2>2. k \in At(p) /\ \A j \in At(p) : j <= k
    BY <1>3, <2>1
  <2> QED BY <1>5, <2>1, <2>2
<1>7. ASSUME NEW k \in PublicSettings, Path[k] \notin DOMAIN assigned
      PROVE  /\ Path[k] \notin DOMAIN tree
             /\ \E j \in PublicSettings : j < k /\ Related(Path[j], Path[k])
  <2>1. PICK j \in PublicSettings : j < k /\ Path[j] \in DOMAIN assigned /\ Related(Path[j], Path[k])
    BY <1>4, <1>7 DEF Shows, MissingAreHidden
  <2> QED BY <1>5, <1>7, <2>1 DEF LeavesApart
<1>8. ASSUME NEW p \in DOMAIN tree
      PROVE  IF At(p) = {} THEN p \in Range(Defaults) /\ tree[p] = Off
             ELSE \E k \in At(p) : tree[p] = setting[k].value /\ \A j \in At(p) : j <= k
  <2>1. CASE p \in DOMAIN assigned
    BY <1>6, <2>1
  <2>2. CASE p \notin DOMAIN assigned
    <3>1. ASSUME NEW k \in At(p) PROVE FALSE
      BY <1>3, <1>7, <2>2, <3>1
    <3>2. p \in Range(Defaults) /\ tree[p] = Off
      BY <1>5, <2>2 DEF Range
    <3> QED BY <3>1, <3>2
  <2> QED BY <2>1, <2>2
<1>9. ASSUME NEW k \in Keys, Public(k), Path[k] \notin DOMAIN tree
      PROVE  \E j \in Keys : j < k /\ Public(j) /\ Related(Path[j], Path[k])
  BY <1>3, <1>5, <1>7, <1>9
<1>10. ASSUME NEW p \in Range(Defaults) \ DOMAIN tree PROVE Hidden(p)
  <2>1. PICK i \in DOMAIN Defaults : p = Defaults[i]
    BY DEF Range
  <2>2. PICK q \in DOMAIN assigned : Related(q, p)
    BY <1>5, <1>10, <2>1
  <2>3. PICK k \in PublicSettings : Path[k] = q
    BY <1>4 DEF Shows, LeavesAreSettings
  <2> QED BY <1>3, <2>2, <2>3
<1> QED BY <1>2, <1>5, <1>8, <1>9, <1>10 DEF ConfigShowsWhatIsPublic, LeavesApart

\* A step makes at most one more setting public.
LEMMA FewBecomePublic ==
  ASSUME SettingsInv, SettingsNext
  PROVE  \E k : PublicSettings' \subseteq PublicSettings \cup {k}
<1>1. ASSUME NEW k \in Keys, \A j \in Keys : j # k => setting'[j] = setting[j]
      PROVE  PublicSettings' \subseteq PublicSettings \cup {k}
  BY <1>1 DEF PublicSettings, HasRow
<1>2. ASSUME NEW r \in Saves, CommitSave(r) PROVE \E k : PublicSettings' \subseteq PublicSettings \cup {k}
  <2>1. PICK k \in Keys : k = save[r].k
    BY <1>2, SaveFields DEF CommitSave
  <2>2. \A j \in Keys : j # k => setting'[j] = setting[j]
    BY <1>2, <2>1 DEF CommitSave, SettingsInv
  <2> QED BY <1>1, <2>2
<1>3. ASSUME NEW k \in Keys, NEW form, SeedSetting(k, form) PROVE PublicSettings' \subseteq PublicSettings \cup {k}
  <2>1. \A j \in Keys : j # k => setting'[j] = setting[j]
    BY <1>3 DEF SeedSetting, SettingsInv
  <2> QED BY <1>1, <2>1
<1>4. ASSUME NEW values, UpdateStorageSettings(values) PROVE PublicSettings' \subseteq PublicSettings
  <2>1. ASSUME NEW k \in Keys PROVE setting'[k] = setting[k] \/ ~ setting'[k].public
    <3>1. CASE k \in StorageKeys
      BY <1>4, <3>1 DEF UpdateStorageSettings, NoRow
    <3>2. CASE k \notin StorageKeys
      BY <1>4, <3>2 DEF UpdateStorageSettings
    <3> QED BY <3>1, <3>2
  <2> QED BY <2>1 DEF PublicSettings, HasRow
<1>5. ASSUME setting' = setting PROVE PublicSettings' \subseteq PublicSettings
  BY <1>5 DEF PublicSettings, HasRow
<1> QED
  BY <1>2, <1>3, <1>4, <1>5 DEF SettingsNext, GiveUpSave, BeginSave

\* The tree that clients read shows exactly what is public: a leaf is the last
\* setting of its path or a default that no setting is at, and a setting that is
\* missing is hidden by one that sorts before it.
THEOREM ConfigShowsWhatIsPublicHolds == SettingsSpec => []ConfigShowsWhatIsPublic
<1> DEFINE Inv == SettingsInv /\ IsFiniteSet(PublicSettings)
<1>1. SettingsInit => Inv
  <2>1. SettingsInit => PublicSettings = {}
    BY DEF SettingsInit, PublicSettings, HasRow
  <2> QED BY <2>1, SettingsInvInit, FS_EmptySet
<1>2. Inv /\ [SettingsNext]_settingVars => Inv'
  <2> SUFFICES ASSUME Inv, [SettingsNext]_settingVars PROVE Inv'
    OBVIOUS
  <2>1. SettingsInv'
    BY SettingsStep
  <2>2. CASE SettingsNext
    <3>1. PICK k : PublicSettings' \subseteq PublicSettings \cup {k}
      BY <2>2, FewBecomePublic
    <3>2. IsFiniteSet(PublicSettings \cup {k})
      BY FS_AddElement
    <3>3. IsFiniteSet(PublicSettings')
      BY <3>1, <3>2, FS_Subset
    <3> QED BY <2>1, <3>3
  <2>3. CASE UNCHANGED settingVars
    <3>1. PublicSettings' = PublicSettings
      BY <2>3 DEF settingVars, PublicSettings, HasRow
    <3> QED BY <2>1, <3>1
  <2> QED BY <2>2, <2>3
<1>3. Inv => ConfigShowsWhatIsPublic
  BY TreeShowsWhatIsPublic
<1> QED
  BY <1>1, <1>2, <1>3, PTL DEF SettingsSpec
=============================================================================
