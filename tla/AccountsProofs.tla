---------------------------- MODULE AccountsProofs ----------------------------
(***************************************************************************)
(* Proofs about Accounts and Sessions, for every number of users,          *)
(* addresses, codes, checks and concurrent handlers.                       *)
(*                                                                         *)
(* A status is written long after what earns it was seen, so the           *)
(* invariant says what each handler in flight still has behind it: the     *)
(* code it is about to use, or has used, and the check whose result it     *)
(* carries; unless the account has been deleted under it.  Rows keep that  *)
(* evidence: nothing leaves CONSUMED, and no decided check changes.        *)
(***************************************************************************)
EXTENDS Sessions, TLAPS

Gone(u) == u \in Users /\ account[u].status = "DELETED"
UsedACode(u) == \E c \in Codes : code[c].user = u /\ code[c].status = "CONSUMED"
WasDecided(u, result) == \E i \in Checks : check[i].user = u /\ check[i].status = result

\* What a handler that carries q has behind it.
Carried(q) ==
  /\ q.pc \in {"register", "createSocial", "consume", "verified", "profile", "edit"} => q.u \in Users
  /\ q.pc = "profile" => q.kind \in Kinds
  /\ q.pc = "consume" => \/ Gone(q.u)
                         \/ q.c \in Codes /\ code[q.c].user = q.u /\ code[q.c].status # "NONE"
  /\ q.pc = "verified" => Gone(q.u) \/ UsedACode(q.u)
  /\ q.pc = "result" => /\ q.result \in Results
                        /\ \/ Gone(q.u)
                           \/ q.i \in Checks /\ check[q.i].user = q.u /\ check[q.i].status # "NONE"
  /\ q.pc = "decide" => q.result \in Decided /\ (Gone(q.u) \/ WasDecided(q.u, q.result))

EarnedBy(u) ==
  Exists(u) /\ u \notin audited =>
    /\ account[u].status # "PENDING_EMAIL_VERIFICATION" => account[u].social \/ UsedACode(u)
    /\ account[u].status \in {"PENDING_APPROVAL", "APPROVED", "REJECTED"} => account[u].profiles # {}
    /\ account[u].status \in {"APPROVED", "REJECTED"} => WasDecided(u, account[u].status)

IInv == /\ TypeOK
        /\ \A r \in Requests : Carried(req[r])
        /\ \A u \in Users : EarnedBy(u)

\* The evidence in the rows outlives a step, but not its account.
RowsKept ==
  /\ \A u \in Users : account[u].status = "DELETED" => account'[u].status = "DELETED"
  /\ \A c \in Codes, u \in Users \cup {None} : code[c].status # "NONE" /\ code[c].user = u =>
       \/ Gone(u)'
       \/ /\ code'[c].user = u /\ code'[c].status # "NONE"
          /\ code[c].status = "CONSUMED" => code'[c].status = "CONSUMED"
  /\ \A i \in Checks, u \in Users \cup {None} : check[i].status # "NONE" /\ check[i].user = u =>
       \/ Gone(u)'
       \/ /\ check'[i].user = u /\ check'[i].status # "NONE"
          /\ check[i].status \in Decided => check'[i].status = check[i].status

------------------------------------------------------------------------------
(* What the steps have in common                                           *)

\* A handler that waits carries nothing that could be wrong.
LEMMA IdleTyped == Idle \in Request /\ Carried(Idle) /\ Carried(Idle)'
  BY DEF Idle, Request, Pcs, Carried

\* A user keeps using a code, and being decided.
LEMMA EvidenceKept ==
  ASSUME TypeOK, RowsKept
  PROVE  /\ \A u \in Users : Gone(u) => Gone(u)'
         /\ \A u \in Users \cup {None} : UsedACode(u) => Gone(u)' \/ UsedACode(u)'
         /\ \A u \in Users \cup {None}, result \in Results : result \in Decided /\ WasDecided(u, result)
                             => Gone(u)' \/ WasDecided(u, result)'
<1>1. \A u \in Users : Gone(u) => Gone(u)'
  BY DEF RowsKept, Gone
<1>2. ASSUME NEW u \in Users \cup {None}, UsedACode(u) PROVE Gone(u)' \/ UsedACode(u)'
  <2>1. PICK c \in Codes : code[c].user = u /\ code[c].status = "CONSUMED"
    BY <1>2 DEF UsedACode
  <2>2. \/ Gone(u)'
        \/ code'[c].user = u /\ code'[c].status = "CONSUMED"
    BY <2>1 DEF RowsKept
  <2> QED
    BY <2>2 DEF UsedACode
<1>3. ASSUME NEW u \in Users \cup {None}, NEW result \in Results, result \in Decided, WasDecided(u, result)
      PROVE  Gone(u)' \/ WasDecided(u, result)'
  <2>1. PICK i \in Checks : check[i].user = u /\ check[i].status = result
    BY <1>3 DEF WasDecided
  <2>2. check[i].status # "NONE" /\ check[i].status \in Decided
    BY <1>3, <2>1 DEF Decided
  <2>3. \/ Gone(u)'
        \/ check'[i].user = u /\ check'[i].status = result
    BY <2>1, <2>2 DEF RowsKept
  <2> QED
    BY <2>3 DEF WasDecided
<1> QED
  BY <1>1, <1>2, <1>3

\* What a handler that does not move has behind it is still there.
LEMMA CarriedKept ==
  ASSUME TypeOK, RowsKept, NEW q \in Request, Carried(q)
  PROVE  Carried(q)'
<1>1. q.pc = "consume" => \/ Gone(q.u)'
                          \/ q.c \in Codes /\ code'[q.c].user = q.u /\ code'[q.c].status # "NONE"
  <2> SUFFICES ASSUME q.pc = "consume", ~ Gone(q.u)'
               PROVE  q.c \in Codes /\ code'[q.c].user = q.u /\ code'[q.c].status # "NONE"
    OBVIOUS
  <2>1. ~ Gone(q.u)
    BY EvidenceKept DEF Gone
  <2>2. q.c \in Codes /\ code[q.c].user = q.u /\ code[q.c].status # "NONE"
    BY <2>1 DEF Carried
  <2> QED
    BY <2>2 DEF RowsKept, Request
<1>2. q.pc = "verified" => Gone(q.u)' \/ UsedACode(q.u)'
  BY EvidenceKept DEF Carried, Gone, Request
<1>3. q.pc = "result" => /\ q.result \in Results
                         /\ \/ Gone(q.u)'
                            \/ q.i \in Checks /\ check'[q.i].user = q.u /\ check'[q.i].status # "NONE"
  <2> SUFFICES ASSUME q.pc = "result", ~ Gone(q.u)'
               PROVE  q.i \in Checks /\ check'[q.i].user = q.u /\ check'[q.i].status # "NONE"
    BY DEF Carried
  <2>1. ~ Gone(q.u)
    BY EvidenceKept DEF Gone
  <2>2. q.i \in Checks /\ check[q.i].user = q.u /\ check[q.i].status # "NONE"
    BY <2>1 DEF Carried
  <2> QED
    BY <2>2 DEF RowsKept, Request
<1>4. q.pc = "decide" => q.result \in Decided /\ (Gone(q.u)' \/ WasDecided(q.u, q.result)')
  BY EvidenceKept DEF Carried, Gone, Request, Decided, Results
<1> QED
  BY <1>1, <1>2, <1>3, <1>4 DEF Carried

\* An account whose status a step leaves alone has still earned it.
LEMMA EarnedKept ==
  ASSUME TypeOK, RowsKept, NEW u \in Users, EarnedBy(u), audited \subseteq audited',
         account'[u].status = account[u].status, account'[u].social = account[u].social,
         account[u].profiles \subseteq account'[u].profiles
  PROVE  EarnedBy(u)'
<1> SUFFICES ASSUME Exists(u)', u \notin audited' PROVE EarnedBy(u)'
  BY DEF EarnedBy
<1>1. Exists(u) /\ u \notin audited /\ ~ Gone(u)'
  BY DEF Exists, Gone, Statuses
<1>2. account[u].status # "PENDING_EMAIL_VERIFICATION" => account[u].social \/ UsedACode(u)'
  BY <1>1, EvidenceKept DEF EarnedBy
<1>3. \A result \in {"APPROVED", "REJECTED"} : account[u].status = result => WasDecided(u, result)'
  BY <1>1, EvidenceKept DEF EarnedBy, Decided, Results
<1>4. account[u].status \in {"PENDING_APPROVAL", "APPROVED", "REJECTED"} => account'[u].profiles # {}
  BY <1>1 DEF EarnedBy
<1>5. account'[u].status \in {"APPROVED", "REJECTED"} => WasDecided(u, account[u].status)'
  BY <1>3 DEF WasDecided
<1> QED
  BY <1>2, <1>4, <1>5 DEF EarnedBy

\* Handlers that move carry what they should; the others are untouched.
LEMMA MovedOrKept ==
  ASSUME TypeOK, RowsKept, \A r \in Requests : Carried(req[r]),
         NEW r \in Requests, NEW new \in Request, Carried(new)',
         req' = [req EXCEPT ![r] = new]
  PROVE  req' \in [Requests -> Request] /\ \A s \in Requests : Carried(req[s])'
<1>1. req' \in [Requests -> Request]
  BY DEF TypeOK
<1>2. ASSUME NEW s \in Requests PROVE Carried(req[s])'
  <2>1. CASE s = r
    <3>1. req'[s] = new
      BY <2>1 DEF TypeOK
    <3> QED
      BY <3>1
  <2>2. CASE s # r
    <3>1. req'[s] = req[s] /\ req[s] \in Request
      BY <2>2 DEF TypeOK
    <3>2. Carried(req[s])
      OBVIOUS
    <3> DEFINE q == req[s]
    <3>3. q \in Request /\ Carried(q)
      BY <3>1, <3>2
    <3> QED
      BY <3>1, <3>3, CarriedKept
  <2> QED
    BY <2>1, <2>2
<1> QED
  BY <1>1, <1>2

\* A handler that starts, or ends, writes no rows.
LEMMA NothingWritten ==
  ASSUME IInv, NEW r \in Requests, NEW new \in Request, Carried(new),
         req' = [req EXCEPT ![r] = new],
         UNCHANGED <<account, signedIn, code, check, audited>>
  PROVE  IInv'
<1>1. RowsKept
  BY DEF RowsKept, IInv
<1>2. Carried(new)'
  BY <1>1, CarriedKept DEF IInv
<1>3. req' \in [Requests -> Request] /\ \A s \in Requests : Carried(req[s])'
  BY <1>1, <1>2, MovedOrKept DEF IInv
<1>4. TypeOK'
  BY <1>3 DEF IInv, TypeOK
<1>5. ASSUME NEW u \in Users PROVE EarnedBy(u)'
  BY <1>1, EarnedKept DEF IInv
<1> QED
  BY <1>3, <1>4, <1>5 DEF IInv

\* A handler that goes on, or ends, after it has written rows.
LEMMA RowsWritten ==
  ASSUME IInv, RowsKept, NEW r \in Requests, NEW new \in Request, Carried(new)',
         req' = [req EXCEPT ![r] = new],
         account' \in [Users -> AccountRow], signedIn' \subseteq Users,
         code' \in [Codes -> CodeRow], check' \in [Checks -> CheckRow], audited' \subseteq Users,
         \A u \in Users : EarnedBy(u)'
  PROVE  IInv'
<1>1. req' \in [Requests -> Request] /\ \A s \in Requests : Carried(req[s])'
  BY MovedOrKept DEF IInv
<1>2. TypeOK'
  BY <1>1 DEF TypeOK
<1> QED
  BY <1>1, <1>2 DEF IInv

------------------------------------------------------------------------------
(* The handlers that read                                                  *)

\* What a handler starts with lets the others be.
LEMMA Starts ==
  ASSUME IInv, NEW r \in Requests, Begin(r)
  PROVE  IInv'
<1>1. ASSUME NEW u \in Users, NEW e \in Emails, ReadForRegister(r, u, e) PROVE IInv'
  <2> DEFINE new == [Idle EXCEPT !.pc = "register", !.u = u, !.e = e]
  <2>1. new \in Request /\ Carried(new)
    BY DEF Idle, Request, Pcs, Carried
  <2> QED
    BY <1>1, <2>1, NothingWritten DEF ReadForRegister
<1>2. ASSUME NEW u \in Users, NEW e \in Emails, ReadForSocial(r, u, e) PROVE IInv'
  <2> DEFINE new == [Idle EXCEPT !.pc = "createSocial", !.u = u, !.e = e]
  <2>1. new \in Request /\ Carried(new)
    BY DEF Idle, Request, Pcs, Carried
  <2> QED
    BY <1>2, <2>1, NothingWritten DEF ReadForSocial
<1>3. ASSUME NEW u \in Users, ReadForResend(r, u) PROVE IInv'
  <2>1. account[u].email \in Emails \cup {None}
    BY DEF IInv, TypeOK, AccountRow
  <2> DEFINE issue == [Idle EXCEPT !.pc = "issue", !.u = u, !.e = account[u].email]
             resend(c) == [Idle EXCEPT !.pc = "resend", !.u = u, !.e = account[u].email, !.c = c]
  <2>2. issue \in Request /\ Carried(issue)
    BY <2>1 DEF Idle, Request, Pcs, Carried
  <2>3. \A c \in Codes : resend(c) \in Request /\ Carried(resend(c))
    BY <2>1 DEF Idle, Request, Pcs, Carried
  <2>4. CASE req' = [req EXCEPT ![r] = issue]
    BY <1>3, <2>2, <2>4, NothingWritten DEF ReadForResend
  <2>5. ASSUME NEW c \in Codes, req' = [req EXCEPT ![r] = resend(c)] PROVE IInv'
    BY <1>3, <2>3, <2>5, NothingWritten DEF ReadForResend
  <2> QED
    BY <1>3, <2>4, <2>5 DEF ReadForResend
<1>4. ASSUME NEW u \in Users, NEW c \in Codes, NEW right \in BOOLEAN, ReadForVerify(r, u, c, right)
      PROVE  IInv'
  <2> DEFINE new == [Idle EXCEPT !.pc = IF right THEN "consume" ELSE "mismatch", !.u = u, !.c = c]
  <2>1. code[c].status = "ACTIVE" /\ code[c].user = u
    BY <1>4 DEF ReadForVerify, IsActiveCode, ActiveCodes
  <2>2. new \in Request /\ Carried(new)
    BY <2>1 DEF Idle, Request, Pcs, Carried
  <2> QED
    BY <1>4, <2>2, NothingWritten DEF ReadForVerify
<1>5. ASSUME NEW u \in Users, NEW kind \in Kinds, ReadForProfile(r, u, kind) PROVE IInv'
  <2> DEFINE new == [Idle EXCEPT !.pc = "profile", !.u = u, !.kind = kind,
                                 !.fresh = kind \notin account[u].profiles]
  <2>1. (kind \notin account[u].profiles) \in BOOLEAN
    OBVIOUS
  <2>2. new \in Request /\ Carried(new)
    BY <2>1 DEF Idle, Request, Pcs, Carried
  <2> QED
    BY <1>5, <2>2, NothingWritten DEF ReadForProfile
<1>6. ASSUME NEW u \in Users, ReadForCheck(r, u) PROVE IInv'
  <2> DEFINE new == [Idle EXCEPT !.pc = "startCheck", !.u = u]
  <2>1. new \in Request /\ Carried(new)
    BY DEF Idle, Request, Pcs, Carried
  <2> QED
    BY <1>6, <2>1, NothingWritten DEF ReadForCheck
<1>7. ASSUME NEW u \in Users, NEW email \in Emails \cup {None}, NEW status \in Statuses \cup {None},
             ReadForEdit(r, u, email, status)
      PROVE  IInv'
  <2> DEFINE new == [Idle EXCEPT !.pc = "edit", !.u = u, !.email = email,
                                 !.status = StatusToWrite(account[u].status, email, status)]
  <2>1. StatusToWrite(account[u].status, email, status) \in Statuses \cup {None}
    BY DEF StatusToWrite, Statuses
  <2>2. new \in Request /\ Carried(new)
    BY <2>1 DEF Idle, Request, Pcs, Carried
  <2> QED
    BY <1>7, <2>2, NothingWritten DEF ReadForEdit
<1>8. ASSUME NEW i \in Checks, NEW result \in Results, ReadWebhook(r, i, result) PROVE IInv'
  <2> DEFINE new == [Idle EXCEPT !.pc = "result", !.u = check[i].user, !.i = i, !.result = result]
  <2>1. check[i].user \in Users \cup {None} /\ check[i].status = "PENDING"
    BY <1>8 DEF IInv, TypeOK, CheckRow, ReadWebhook
  <2>2. new \in Request /\ Carried(new)
    BY <2>1 DEF Idle, Request, Pcs, Carried
  <2> QED
    BY <1>8, <2>2, NothingWritten DEF ReadWebhook
<1> QED
  BY <1>1, <1>2, <1>3, <1>4, <1>5, <1>6, <1>7, <1>8 DEF Begin

------------------------------------------------------------------------------
(* The handlers that write accounts                                        *)

\* A write that leaves codes and checks alone and deletes no account keeps the
\* evidence, and what the other accounts have earned.
LEMMA AccountWritten ==
  ASSUME IInv, NEW v \in Users, NEW row \in AccountRow,
         account' = [account EXCEPT ![v] = row], account[v].status # "DELETED",
         UNCHANGED <<code, check>>, audited \subseteq audited', audited' \subseteq Users
  PROVE  /\ RowsKept
         /\ account' \in [Users -> AccountRow]
         /\ \A u \in Users \ {v} : EarnedBy(u)'
<1>1. account' \in [Users -> AccountRow] /\ \A u \in Users \ {v} : account'[u] = account[u]
  BY DEF IInv, TypeOK
<1>2. RowsKept
  BY <1>1 DEF RowsKept, IInv, TypeOK
<1>3. ASSUME NEW u \in Users \ {v} PROVE EarnedBy(u)'
  BY <1>1, <1>2, EarnedKept DEF IInv
<1> QED
  BY <1>1, <1>2, <1>3

\* What a handler carries, as it was before the step.
LEMMA InHand ==
  ASSUME IInv, NEW r \in Requests
  PROVE  \E q \in Request : q = req[r] /\ Carried(q)
  BY DEF IInv, TypeOK

\* Registration with a password creates a user that has earned nothing yet.
LEMMA CreatePasswordUserKeeps ==
  ASSUME IInv, NEW r \in Requests, CreatePasswordUser(r)
  PROVE  IInv'
<1>1. PICK q \in Request : q = req[r] /\ Carried(q)
  BY InHand
<1> DEFINE u == q.u
           new == [q EXCEPT !.pc = "issue"]
           row == [NoAccount EXCEPT !.status = "PENDING_EMAIL_VERIFICATION", !.email = q.e]
<1>2. new \in Request /\ new.pc = "issue"
  BY DEF Request, Pcs
<1>3. row \in AccountRow
  BY DEF Request, NoAccount, AccountRow, Statuses
<1>4. u \in Users /\ account[u].status # "DELETED" /\ account' = [account EXCEPT ![u] = row]
  BY <1>1 DEF CreatePasswordUser, Carried
<1>5. RowsKept /\ account' \in [Users -> AccountRow] /\ \A v \in Users \ {u} : EarnedBy(v)'
  BY <1>3, <1>4, AccountWritten DEF CreatePasswordUser, IInv, TypeOK
<1>6. EarnedBy(u)'
  <2>1. account'[u].status = "PENDING_EMAIL_VERIFICATION"
    BY <1>4 DEF NoAccount, IInv, TypeOK
  <2> QED
    BY <2>1 DEF EarnedBy
<1>7. Carried(new)'
  BY <1>2 DEF Carried
<1>8. req' = [req EXCEPT ![r] = new]
  <2>1. req' = [req EXCEPT ![r].pc = "issue"] /\ req \in [Requests -> Request]
    BY DEF CreatePasswordUser, IInv, TypeOK
  <2> QED
    BY <1>1, <2>1
<1> QED
  BY <1>2, <1>5, <1>6, <1>7, <1>8, RowsWritten DEF CreatePasswordUser, IInv, TypeOK

\* A social login creates a user whose address its provider has verified.
LEMMA CreateSocialUserKeeps ==
  ASSUME IInv, NEW r \in Requests, CreateSocialUser(r)
  PROVE  IInv'
<1>1. PICK q \in Request : q = req[r] /\ Carried(q)
  BY InHand
<1> DEFINE u == q.u
           row == [status |-> "EMAIL_VERIFIED", email |-> q.e, social |-> TRUE, profiles |-> {}]
<1>2. row \in AccountRow
  BY DEF Request, AccountRow, Statuses
<1>3. u \in Users /\ account[u].status # "DELETED" /\ account' = [account EXCEPT ![u] = row]
  BY <1>1 DEF CreateSocialUser, Carried
<1>4. RowsKept /\ account' \in [Users -> AccountRow] /\ \A v \in Users \ {u} : EarnedBy(v)'
  BY <1>2, <1>3, AccountWritten DEF CreateSocialUser, IInv, TypeOK
<1>5. EarnedBy(u)'
  <2>1. account'[u] = row
    BY <1>3 DEF IInv, TypeOK
  <2>2. account'[u].status = "EMAIL_VERIFIED" /\ account'[u].social
    BY <2>1
  <2> QED
    BY <2>2 DEF EarnedBy
<1>6. signedIn' \subseteq Users
  BY <1>1, <1>3 DEF CreateSocialUser, IInv, TypeOK
<1> QED
  BY <1>4, <1>5, <1>6, IdleTyped, RowsWritten DEF CreateSocialUser, Finish, IInv, TypeOK

\* A verified status is written by the handler that consumed the code.
LEMMA MarkEmailVerifiedKeeps ==
  ASSUME IInv, NEW r \in Requests, MarkEmailVerified(r)
  PROVE  IInv'
<1>1. PICK q \in Request : q = req[r] /\ Carried(q)
  BY InHand
<1>2. q.pc = "verified" /\ q.u \in Users /\ Exists(q.u)
  BY <1>1 DEF MarkEmailVerified, Carried
<1>3. PICK u \in Users : u = q.u
  BY <1>2
<1> DEFINE row == [account[u] EXCEPT !.status = "EMAIL_VERIFIED"]
<1>4. row \in AccountRow /\ row.status = "EMAIL_VERIFIED" /\ account[u].status # "DELETED"
  BY <1>2, <1>3 DEF IInv, TypeOK, AccountRow, Statuses, Exists
<1>5. account' = [account EXCEPT ![u] = row]
  BY <1>1, <1>3 DEF MarkEmailVerified, IInv, TypeOK
<1>6. RowsKept /\ account' \in [Users -> AccountRow] /\ \A v \in Users \ {u} : EarnedBy(v)'
  BY <1>4, <1>5, AccountWritten DEF MarkEmailVerified, IInv, TypeOK
<1>7. EarnedBy(u)'
  <2>1. account'[u].status = "EMAIL_VERIFIED"
    BY <1>4, <1>5 DEF IInv, TypeOK
  <2>2. UsedACode(u)
    BY <1>1, <1>2, <1>3, <1>4 DEF Carried, Gone
  <2>3. UsedACode(u)'
    BY <2>2 DEF UsedACode, MarkEmailVerified
  <2> QED
    BY <2>1, <2>3 DEF EarnedBy
<1> QED
  BY <1>6, <1>7, IdleTyped, RowsWritten DEF MarkEmailVerified, Finish, IInv, TypeOK

\* A profile moves on a user whose address is verified.
LEMMA UpsertProfileKeeps ==
  ASSUME IInv, NEW r \in Requests, UpsertProfile(r)
  PROVE  IInv'
<1>1. PICK q \in Request : q = req[r] /\ Carried(q)
  BY InHand
<1>2. q.u \in Users /\ Exists(q.u) /\ q.kind \in Kinds
  BY <1>1 DEF UpsertProfile, Carried
<1>3. PICK u \in Users : u = q.u
  BY <1>2
<1> DEFINE next == IF q.fresh THEN AwaitApproval(account[u].status) ELSE account[u].status
           row == [account[u] EXCEPT !.profiles = @ \cup {q.kind}, !.status = next]
<1>4. account[u] \in AccountRow /\ account[u].status \in Statuses /\ account[u].status # "DELETED"
  BY <1>2, <1>3 DEF IInv, TypeOK, Exists, Statuses
<1>5. next \in Statuses
  BY <1>4 DEF AwaitApproval, Statuses
<1>6. row \in AccountRow /\ row.status = next /\ row.profiles # {} /\ row.social = account[u].social
  BY <1>2, <1>4, <1>5 DEF AccountRow
<1>7. account' = [account EXCEPT ![u] = row]
  BY <1>1, <1>3 DEF UpsertProfile, IInv, TypeOK
<1>8. RowsKept /\ account' \in [Users -> AccountRow] /\ \A v \in Users \ {u} : EarnedBy(v)'
  <2> HIDE DEF row
  <2>1. UNCHANGED <<code, check, audited>> /\ audited \subseteq Users
    BY DEF UpsertProfile, IInv, TypeOK
  <2> QED
    BY <1>4, <1>6, <1>7, <2>1, AccountWritten
<1>9. EarnedBy(u)'
  <2> SUFFICES ASSUME u \notin audited' PROVE EarnedBy(u)'
    BY DEF EarnedBy
  <2>1. account'[u] = row
    BY <1>7 DEF IInv, TypeOK
  <2>2. /\ next # "PENDING_EMAIL_VERIFICATION" => account[u].status # "PENDING_EMAIL_VERIFICATION"
        /\ next \in {"APPROVED", "REJECTED"} => account[u].status = next
    BY DEF AwaitApproval
  <2>3. EarnedBy(u) /\ u \notin audited /\ Exists(u)
    BY <1>2, <1>3 DEF IInv, UpsertProfile
  <2>4. next # "PENDING_EMAIL_VERIFICATION" => account[u].social \/ UsedACode(u)
    BY <2>2, <2>3 DEF EarnedBy
  <2>5. next \in {"APPROVED", "REJECTED"} => WasDecided(u, next)
    BY <2>2, <2>3 DEF EarnedBy
  <2>6. UsedACode(u)' = UsedACode(u) /\ \A result : WasDecided(u, result)' = WasDecided(u, result)
    BY DEF UsedACode, WasDecided, UpsertProfile
  <2> HIDE DEF next, row
  <2> QED
    BY <1>6, <2>1, <2>4, <2>5, <2>6 DEF EarnedBy
<1> QED
  BY <1>8, <1>9, IdleTyped, RowsWritten DEF UpsertProfile, Finish, IInv, TypeOK

\* A decision moves a user that waits for it, as its check says.
LEMMA TransitionFromPendingApprovalKeeps ==
  ASSUME IInv, NEW r \in Requests, TransitionFromPendingApproval(r)
  PROVE  IInv'
<1>1. PICK q \in Request : q = req[r] /\ Carried(q)
  BY InHand
<1>2. q.pc = "decide" /\ q.result \in Decided
  BY <1>1 DEF TransitionFromPendingApproval, Carried
<1>3. UNCHANGED <<signedIn, code, check, audited>> /\ req' = [req EXCEPT ![r] = Idle]
  BY DEF TransitionFromPendingApproval, Finish
<1>4. CASE account' = account
  BY <1>3, <1>4, IdleTyped, NothingWritten
<1>5. CASE account' # account
  <2>1. Exists(q.u) /\ account' = [account EXCEPT ![q.u].status = Decide(@, q.result)]
    BY <1>1, <1>5 DEF TransitionFromPendingApproval
  <2>2. q.u \in Users
    BY <1>5, <2>1 DEF IInv, TypeOK
  <2>3. PICK u \in Users : u = q.u
    BY <2>2
  <2> DEFINE next == Decide(account[u].status, q.result)
             row == [account[u] EXCEPT !.status = next]
  <2>4. account[u] \in AccountRow /\ account[u].status \in Statuses /\ account[u].status # "DELETED"
    BY <2>1, <2>3 DEF IInv, TypeOK, Exists, Statuses
  <2>5. next \in Statuses
    BY <1>2, <2>4 DEF Decide, Statuses, Decided
  <2>6. row \in AccountRow /\ row.status = next /\ row.profiles = account[u].profiles
          /\ row.social = account[u].social
    BY <2>4, <2>5 DEF AccountRow
  <2>7. account' = [account EXCEPT ![u] = row]
    BY <2>1, <2>3 DEF IInv, TypeOK
  <2>8. RowsKept /\ account' \in [Users -> AccountRow] /\ \A v \in Users \ {u} : EarnedBy(v)'
    <3> HIDE DEF row
    <3>1. audited \subseteq audited' /\ audited' \subseteq Users
      BY <1>3 DEF IInv, TypeOK
    <3> QED
      BY <1>3, <2>4, <2>6, <2>7, <3>1, AccountWritten
  <2>9. EarnedBy(u)'
    <3> SUFFICES ASSUME u \notin audited' PROVE EarnedBy(u)'
      BY DEF EarnedBy
    <3>1. account'[u] = row
      BY <2>7 DEF IInv, TypeOK
    <3>2. EarnedBy(u) /\ u \notin audited /\ Exists(u)
      BY <1>3, <2>1, <2>3 DEF IInv
    <3>3. \/ next = account[u].status
          \/ account[u].status = "PENDING_APPROVAL" /\ next = q.result
      BY DEF Decide
    <3>4. next # "PENDING_EMAIL_VERIFICATION" => account[u].social \/ UsedACode(u)
      BY <3>2, <3>3 DEF EarnedBy
    <3>5. next \in {"PENDING_APPROVAL", "APPROVED", "REJECTED"} => account[u].profiles # {}
      BY <3>2, <3>3 DEF EarnedBy
    <3>6. next = q.result => WasDecided(u, next)
      <4>1. Gone(u) \/ WasDecided(u, q.result)
        BY <1>1, <1>2, <2>3 DEF Carried
      <4>2. ~ Gone(u)
        BY <2>4 DEF Gone
      <4> HIDE DEF next
      <4> QED
        BY <4>1, <4>2
    <3>7. next \in {"APPROVED", "REJECTED"} => WasDecided(u, next)
      BY <3>2, <3>3, <3>6 DEF EarnedBy
    <3>8. UsedACode(u)' = UsedACode(u) /\ \A result : WasDecided(u, result)' = WasDecided(u, result)
      BY <1>3 DEF UsedACode, WasDecided
    <3> HIDE DEF next, row
    <3> QED
      BY <2>6, <3>1, <3>4, <3>5, <3>7, <3>8 DEF EarnedBy
  <2> QED
    BY <1>3, <2>8, <2>9, IdleTyped, RowsWritten DEF IInv, TypeOK
<1> QED
  BY <1>4, <1>5

\* What an administrator writes leaves the user with a reason.
LEMMA UpdateForAdminKeeps ==
  ASSUME IInv, NEW r \in Requests, UpdateForAdmin(r)
  PROVE  IInv'
<1>1. PICK q \in Request : q = req[r] /\ Carried(q)
  BY InHand
<1>2. q.u \in Users /\ Exists(q.u)
  BY <1>1 DEF UpdateForAdmin, Carried
<1>3. PICK u \in Users : u = q.u
  BY <1>2
<1> DEFINE email == IF q.email = None THEN account[u].email ELSE q.email
           status == IF q.status = None THEN account[u].status ELSE q.status
           row == [account[u] EXCEPT !.email = email, !.status = status]
<1>4. account[u] \in AccountRow /\ account[u].status \in Statuses /\ account[u].status # "DELETED"
  BY <1>2, <1>3 DEF IInv, TypeOK, Exists, Statuses
<1>5. status \in Statuses /\ email \in Emails \cup {None}
  BY <1>4 DEF Request, AccountRow
<1>6. row \in AccountRow /\ row.status = status /\ row.profiles = account[u].profiles
        /\ row.social = account[u].social
  BY <1>4, <1>5 DEF AccountRow
<1>7. account' = [account EXCEPT ![u] = row]
  BY <1>1, <1>3 DEF UpdateForAdmin, IInv, TypeOK
<1>8. /\ UNCHANGED <<signedIn, code, check>> /\ req' = [req EXCEPT ![r] = Idle]
      /\ audited' = IF q.status = None THEN audited ELSE audited \cup {u}
      /\ audited \subseteq audited' /\ audited' \subseteq Users
  BY <1>1, <1>3 DEF UpdateForAdmin, Finish, IInv, TypeOK
<1>9. RowsKept /\ account' \in [Users -> AccountRow] /\ \A v \in Users \ {u} : EarnedBy(v)'
  <2> HIDE DEF row
  <2> QED
    BY <1>4, <1>6, <1>7, <1>8, AccountWritten
<1>10. EarnedBy(u)'
  <2>1. account'[u] = row
    BY <1>7 DEF IInv, TypeOK
  <2>2. CASE q.status = None
    <3>1. account'[u].status = account[u].status /\ account'[u].profiles = account[u].profiles
            /\ account'[u].social = account[u].social
      BY <1>6, <2>1, <2>2
    <3> QED
      BY <1>8, <1>9, <3>1, EarnedKept DEF IInv
  <2>3. CASE q.status # None
    BY <1>8, <2>3 DEF EarnedBy
  <2> QED
    BY <2>2, <2>3
<1> QED
  BY <1>8, <1>9, <1>10, IdleTyped, RowsWritten DEF IInv, TypeOK

\* A user that is deleted has to justify nothing.
LEMMA DeleteUserAccountKeeps ==
  ASSUME IInv, NEW u \in Users, DeleteUserAccount(u)
  PROVE  IInv'
<1>1. /\ account' \in [Users -> AccountRow] /\ account'[u].status = "DELETED"
      /\ \A v \in Users \ {u} : account'[v] = account[v]
  BY DEF DeleteUserAccount, IInv, TypeOK, AccountRow, NoAccount
<1>2. /\ code' \in [Codes -> CodeRow]
      /\ \A c \in Codes : code[c].user # u => code'[c] = code[c]
  BY AttemptsAssumption DEF DeleteUserAccount, IInv, TypeOK, CodeRow, NoCode
<1>3. /\ check' \in [Checks -> CheckRow]
      /\ \A i \in Checks : check[i].user # u => check'[i] = check[i]
  BY DEF DeleteUserAccount, IInv, TypeOK, CheckRow, NoCheck
<1>4. Gone(u)'
  BY <1>1 DEF Gone
<1>5. RowsKept
  BY <1>1, <1>2, <1>3, <1>4 DEF RowsKept
<1>6. UNCHANGED <<audited, req>> /\ signedIn' \subseteq Users
  BY DEF DeleteUserAccount, IInv, TypeOK
<1>7. ASSUME NEW v \in Users PROVE EarnedBy(v)'
  <2>1. CASE v = u
    BY <1>1, <2>1 DEF EarnedBy, Exists, Statuses
  <2>2. CASE v # u
    BY <1>1, <1>5, <1>6, <2>2, EarnedKept DEF IInv
  <2> QED
    BY <2>1, <2>2
<1>8. ASSUME NEW r \in Requests PROVE Carried(req[r])'
  <2>1. PICK q \in Request : q = req[r] /\ Carried(q)
    BY InHand
  <2>2. Carried(q)'
    BY <1>5, <2>1, CarriedKept DEF IInv
  <2>3. q = req'[r]
    BY <1>6, <2>1
  <2> QED
    BY <2>2, <2>3
<1>9. TypeOK'
  BY <1>1, <1>2, <1>3, <1>6 DEF IInv, TypeOK
<1> QED
  BY <1>7, <1>8, <1>9 DEF IInv

------------------------------------------------------------------------------
(* The handlers that write codes and checks                                *)

\* A write of one code that keeps whose it is, and that it was used.
LEMMA CodeWritten ==
  ASSUME IInv, NEW c, NEW row,
         c \in Codes => /\ row \in CodeRow
                        /\ \/ code[c].status = "NONE"
                           \/ /\ row.user = code[c].user /\ row.status # "NONE"
                              /\ code[c].status = "CONSUMED" => row.status = "CONSUMED",
         code' = [code EXCEPT ![c] = row], UNCHANGED <<account, signedIn, check, audited>>
  PROVE  /\ RowsKept
         /\ code' \in [Codes -> CodeRow]
         /\ \A u \in Users : EarnedBy(u)'
         /\ c \in Codes => code'[c] = row
<1>1. /\ code' \in [Codes -> CodeRow]
      /\ c \in Codes => code'[c] = row
      /\ \A d \in Codes : d # c => code'[d] = code[d]
  BY DEF IInv, TypeOK
<1>2. RowsKept
  BY <1>1 DEF RowsKept
<1>3. ASSUME NEW u \in Users PROVE EarnedBy(u)'
  BY <1>2, EarnedKept DEF IInv
<1> QED
  BY <1>1, <1>2, <1>3

\* A write of one check that keeps whose it is, and how it was decided.
LEMMA CheckWritten ==
  ASSUME IInv, NEW i, NEW row,
         i \in Checks => /\ row \in CheckRow
                         /\ \/ check[i].status = "NONE"
                            \/ /\ row.user = check[i].user /\ row.status # "NONE"
                               /\ check[i].status \notin Decided,
         check' = [check EXCEPT ![i] = row], UNCHANGED <<account, signedIn, code, audited>>
  PROVE  /\ RowsKept
         /\ check' \in [Checks -> CheckRow]
         /\ \A u \in Users : EarnedBy(u)'
         /\ i \in Checks => check'[i] = row
<1>1. /\ check' \in [Checks -> CheckRow]
      /\ i \in Checks => check'[i] = row
      /\ \A j \in Checks : j # i => check'[j] = check[j]
  BY DEF IInv, TypeOK
<1>2. RowsKept
  BY <1>1 DEF RowsKept
<1>3. ASSUME NEW u \in Users PROVE EarnedBy(u)'
  BY <1>2, EarnedKept DEF IInv
<1> QED
  BY <1>1, <1>2, <1>3

\* The former code is retired before another one exists.
LEMMA InvalidateCodeKeeps ==
  ASSUME IInv, NEW r \in Requests, InvalidateCode(r)
  PROVE  IInv'
<1>1. PICK q \in Request : q = req[r] /\ Carried(q)
  BY InHand
<1> DEFINE c == q.c
           row == [code[c] EXCEPT !.status = IF @ = "ACTIVE" THEN "INVALIDATED" ELSE @]
           new == [q EXCEPT !.pc = "issue", !.c = 0]
<1>2. c \in Codes => /\ row \in CodeRow
                     /\ \/ code[c].status = "NONE"
                        \/ /\ row.user = code[c].user /\ row.status # "NONE"
                           /\ code[c].status = "CONSUMED" => row.status = "CONSUMED"
  BY DEF IInv, TypeOK, CodeRow
<1>3. code' = [code EXCEPT ![c] = row] /\ UNCHANGED <<account, signedIn, check, audited>>
  BY <1>1 DEF InvalidateCode, IInv, TypeOK
<1>4. new \in Request /\ new.pc = "issue"
  BY DEF Request, Pcs
<1>5. Carried(new)'
  BY <1>4 DEF Carried
<1>6. req' = [req EXCEPT ![r] = new]
  BY <1>1 DEF InvalidateCode, IInv, TypeOK
<1> HIDE DEF row, new
<1>7. RowsKept /\ code' \in [Codes -> CodeRow] /\ \A u \in Users : EarnedBy(u)'
  BY <1>2, <1>3, CodeWritten
<1> QED
  BY <1>3, <1>4, <1>5, <1>6, <1>7, RowsWritten DEF IInv, TypeOK

\* A new code is of the user it was asked for, and unused.
LEMMA CreateCodeKeeps ==
  ASSUME IInv, NEW r \in Requests, NEW c \in Codes, CreateCode(r, c)
  PROVE  IInv'
<1>1. PICK q \in Request : q = req[r] /\ Carried(q)
  BY InHand
<1> DEFINE row == [NoCode EXCEPT !.status = "ACTIVE", !.user = q.u]
           new == [q EXCEPT !.pc = "send", !.c = c]
<1>2. row \in CodeRow /\ code[c].status = "NONE"
  <2>1. 0 \in 0..MaxAttempts
    BY AttemptsAssumption
  <2>2. row \in CodeRow
    BY <2>1 DEF NoCode, CodeRow, Request
  <2>3. code[c].status = "NONE"
    BY DEF CreateCode, IsNextCode
  <2> QED
    BY <2>2, <2>3
<1>3. code' = [code EXCEPT ![c] = row] /\ UNCHANGED <<account, signedIn, check, audited>>
  BY <1>1 DEF CreateCode
<1>4. new \in Request /\ new.pc = "send"
  BY DEF Request, Pcs
<1>5. Carried(new)'
  BY <1>4 DEF Carried
<1>6. req' = [req EXCEPT ![r] = new]
  BY <1>1 DEF CreateCode, IInv, TypeOK
<1> HIDE DEF row, new
<1>7. RowsKept /\ code' \in [Codes -> CodeRow] /\ \A u \in Users : EarnedBy(u)'
  BY <1>2, <1>3, CodeWritten
<1> QED
  BY <1>3, <1>4, <1>5, <1>6, <1>7, RowsWritten DEF IInv, TypeOK

\* A mail changes no row.
LEMMA SendCodeKeeps ==
  ASSUME IInv, NEW r \in Requests, SendCode(r)
  PROVE  IInv'
<1>1. PICK q \in Request : q = req[r] /\ Carried(q)
  BY InHand
<1> DEFINE c == q.c
           row == [code[c] EXCEPT !.sentTo = q.e]
<1>2. c \in Codes => /\ row \in CodeRow
                     /\ \/ code[c].status = "NONE"
                        \/ /\ row.user = code[c].user /\ row.status # "NONE"
                           /\ code[c].status = "CONSUMED" => row.status = "CONSUMED"
  BY DEF IInv, TypeOK, CodeRow, Request
<1>3. code' = [code EXCEPT ![c] = row] /\ UNCHANGED <<account, signedIn, check, audited>>
  BY <1>1 DEF SendCode, IInv, TypeOK
<1> HIDE DEF row
<1>4. RowsKept /\ code' \in [Codes -> CodeRow] /\ \A u \in Users : EarnedBy(u)'
  BY <1>2, <1>3, CodeWritten
<1> QED
  BY <1>3, <1>4, IdleTyped, RowsWritten DEF SendCode, Finish, IInv, TypeOK

\* A wrong guess is counted and proves nothing.
LEMMA IncrementAttemptsKeeps ==
  ASSUME IInv, NEW r \in Requests, IncrementAttempts(r)
  PROVE  IInv'
<1>1. PICK q \in Request : q = req[r] /\ Carried(q)
  BY InHand
<1> DEFINE c == q.c
           row == [code[c] EXCEPT !.attempts = IF @ < MaxAttempts THEN @ + 1 ELSE @]
<1>2. c \in Codes => /\ row \in CodeRow
                     /\ \/ code[c].status = "NONE"
                        \/ /\ row.user = code[c].user /\ row.status # "NONE"
                           /\ code[c].status = "CONSUMED" => row.status = "CONSUMED"
  <2> SUFFICES ASSUME c \in Codes
               PROVE  row \in CodeRow /\ row.user = code[c].user /\ row.status = code[c].status
    BY DEF CodeRow
  <2>1. code[c] \in CodeRow /\ code[c].attempts \in 0..MaxAttempts
    BY DEF IInv, TypeOK, CodeRow
  <2>2. (IF code[c].attempts < MaxAttempts THEN code[c].attempts + 1 ELSE code[c].attempts) \in 0..MaxAttempts
    BY <2>1, AttemptsAssumption
  <2> QED
    BY <2>1, <2>2 DEF CodeRow
<1>3. code' = [code EXCEPT ![c] = row] /\ UNCHANGED <<account, signedIn, check, audited>>
  BY <1>1 DEF IncrementAttempts, IInv, TypeOK
<1> HIDE DEF row
<1>4. RowsKept /\ code' \in [Codes -> CodeRow] /\ \A u \in Users : EarnedBy(u)'
  BY <1>2, <1>3, CodeWritten
<1> QED
  BY <1>3, <1>4, IdleTyped, RowsWritten DEF IncrementAttempts, Finish, IInv, TypeOK

\* A code that is consumed verifies the user its handler carries on with.
LEMMA ConsumeCodeKeeps ==
  ASSUME IInv, NEW r \in Requests, ConsumeCode(r)
  PROVE  IInv'
<1>1. PICK q \in Request : q = req[r] /\ Carried(q)
  BY InHand
<1> DEFINE c == q.c
           row == [code[c] EXCEPT !.status = "CONSUMED"]
           new == [q EXCEPT !.pc = "verified", !.c = 0]
<1>2. c \in Codes => row \in CodeRow /\ row.user = code[c].user /\ row.status = "CONSUMED"
  BY DEF IInv, TypeOK, CodeRow
<1>3. code' = [code EXCEPT ![c] = row] /\ UNCHANGED <<account, signedIn, check, audited>>
  BY <1>1 DEF ConsumeCode, IInv, TypeOK
<1>4. new \in Request /\ new.pc = "verified" /\ new.u = q.u
  BY DEF Request, Pcs
<1>5. req' = [req EXCEPT ![r] = new]
  BY <1>1 DEF ConsumeCode, IInv, TypeOK
<1> HIDE DEF row
<1>6. /\ RowsKept /\ code' \in [Codes -> CodeRow] /\ \A u \in Users : EarnedBy(u)'
      /\ c \in Codes => code'[c] = row
  BY <1>2, <1>3, CodeWritten
<1>7. Carried(new)'
  <2>1. q.pc = "consume" /\ q.u \in Users
    BY <1>1 DEF ConsumeCode, Carried
  <2>2. Gone(q.u) \/ (c \in Codes /\ code[c].user = q.u)
    BY <1>1, <2>1 DEF Carried
  <2>3. Gone(q.u)' \/ UsedACode(q.u)'
    BY <1>2, <1>3, <1>6, <2>2 DEF Gone, UsedACode
  <2> HIDE DEF new
  <2> QED
    BY <1>4, <2>1, <2>3 DEF Carried
<1> HIDE DEF new
<1> QED
  BY <1>3, <1>4, <1>5, <1>6, <1>7, RowsWritten DEF IInv, TypeOK

\* A check that is started is of the user that asked, and undecided.
LEMMA CreateCheckKeeps ==
  ASSUME IInv, NEW r \in Requests, NEW i \in Checks, CreateCheck(r, i)
  PROVE  IInv'
<1>1. PICK q \in Request : q = req[r] /\ Carried(q)
  BY InHand
<1> DEFINE row == [status |-> "PENDING", user |-> q.u]
<1>2. row \in CheckRow /\ check[i].status = "NONE"
  BY DEF CreateCheck, IsNextCheck, CheckRow, Results, Request
<1>3. check' = [check EXCEPT ![i] = row] /\ UNCHANGED <<account, signedIn, code, audited>>
  BY <1>1 DEF CreateCheck
<1> HIDE DEF row
<1>4. RowsKept /\ check' \in [Checks -> CheckRow] /\ \A u \in Users : EarnedBy(u)'
  BY <1>2, <1>3, CheckWritten
<1> QED
  BY <1>3, <1>4, IdleTyped, RowsWritten DEF CreateCheck, Finish, IInv, TypeOK

\* A webhook decides a pending check once, and carries on with its user.
LEMMA UpdateResultIfPendingKeeps ==
  ASSUME IInv, NEW r \in Requests, UpdateResultIfPending(r)
  PROVE  IInv'
<1>1. PICK q \in Request : q = req[r] /\ Carried(q)
  BY InHand
<1> DEFINE i == q.i
           row == [check[i] EXCEPT !.status = q.result]
           decide == [q EXCEPT !.pc = "decide", !.i = 0]
<1>2. q.pc = "result" /\ q.result \in Results /\ check[i].status = "PENDING"
  BY <1>1 DEF UpdateResultIfPending, StillUndecided, Carried
<1>3. i \in Checks => /\ row \in CheckRow /\ row.user = check[i].user /\ row.status = q.result
                      /\ row.status # "NONE" /\ check[i].status \notin Decided
  BY <1>2 DEF IInv, TypeOK, CheckRow, Results, Decided
<1>4. check' = [check EXCEPT ![i] = row] /\ UNCHANGED <<account, signedIn, code, audited>>
  BY <1>1 DEF UpdateResultIfPending, IInv, TypeOK
<1>5. req' = [req EXCEPT ![r] = IF q.result = "PENDING" THEN Idle ELSE decide]
  BY <1>1 DEF UpdateResultIfPending, IInv, TypeOK
<1>6. decide \in Request /\ decide.pc = "decide" /\ decide.u = q.u /\ decide.result = q.result
  BY ZenonT(60) DEF Request, Pcs
<1> HIDE DEF row
<1>7. /\ RowsKept /\ check' \in [Checks -> CheckRow] /\ \A u \in Users : EarnedBy(u)'
      /\ i \in Checks => check'[i] = row
  BY <1>3, <1>4, CheckWritten
<1>8. CASE q.result = "PENDING"
  BY <1>4, <1>5, <1>7, <1>8, IdleTyped, RowsWritten DEF IInv, TypeOK
<1>9. CASE q.result # "PENDING"
  <2>1. Gone(q.u) \/ (i \in Checks /\ check[i].user = q.u)
    BY <1>1, <1>2 DEF Carried
  <2>2. Gone(q.u)' \/ WasDecided(q.u, q.result)'
    BY <1>3, <1>4, <1>7, <2>1 DEF Gone, WasDecided
  <2>3. q.result \in Decided
    BY <1>2, <1>9 DEF Results, Decided
  <2> HIDE DEF decide
  <2>4. Carried(decide)'
    BY <1>6, <2>2, <2>3 DEF Carried
  <2> QED
    BY <1>4, <1>5, <1>6, <1>7, <1>9, <2>4, RowsWritten DEF IInv, TypeOK
<1> QED
  BY <1>8, <1>9

------------------------------------------------------------------------------
(* The invariant                                                           *)

\* Nobody has an account yet.
LEMMA IInvInit ==
  ASSUME Init
  PROVE  IInv
<1>1. TypeOK
  BY AttemptsAssumption
     DEF Init, TypeOK, NoAccount, AccountRow, NoCode, CodeRow, NoCheck, CheckRow, Idle, Request, Pcs
<1>2. ASSUME NEW r \in Requests PROVE Carried(req[r])
  BY DEF Init, Carried, Idle
<1>3. ASSUME NEW u \in Users PROVE EarnedBy(u)
  BY DEF Init, EarnedBy, Exists, NoAccount, Statuses
<1> QED
  BY <1>1, <1>2, <1>3 DEF IInv

\* Each step of the accounts keeps their invariant.
LEMMA IInvStep ==
  ASSUME IInv, [Next]_vars
  PROVE  IInv'
<1>1. ASSUME NEW r \in Requests, Begin(r) PROVE IInv'
  BY <1>1, Starts
<1>2. ASSUME NEW r \in Requests, Continue(r) PROVE IInv'
  <2>1. CASE GiveUp(r)
    BY <2>1, IdleTyped, NothingWritten DEF GiveUp, Finish
  <2>2. ASSUME NEW c \in Codes, CreateCode(r, c) PROVE IInv'
    BY <2>2, CreateCodeKeeps
  <2>3. ASSUME NEW i \in Checks, CreateCheck(r, i) PROVE IInv'
    BY <2>3, CreateCheckKeeps
  <2> QED
    BY <1>2, <2>1, <2>2, <2>3, CreatePasswordUserKeeps, CreateSocialUserKeeps, InvalidateCodeKeeps,
       SendCodeKeeps, IncrementAttemptsKeeps, ConsumeCodeKeeps, MarkEmailVerifiedKeeps,
       UpsertProfileKeeps, UpdateResultIfPendingKeeps, TransitionFromPendingApprovalKeeps,
       UpdateForAdminKeeps
    DEF Continue
<1>3. ASSUME NEW u \in Users, LogIn(u) PROVE IInv'
  <2>1. RowsKept
    BY <1>3 DEF LogIn, RowsKept, IInv
  <2>2. ASSUME NEW r \in Requests PROVE Carried(req[r])'
    <3>1. PICK q \in Request : q = req[r] /\ Carried(q)
      BY InHand
    <3>2. Carried(q)'
      BY <2>1, <3>1, CarriedKept DEF IInv
    <3>3. q = req'[r]
      BY <1>3, <3>1 DEF LogIn
    <3> QED
      BY <3>2, <3>3
  <2>3. ASSUME NEW v \in Users PROVE EarnedBy(v)'
    BY <1>3, <2>1, EarnedKept DEF IInv, LogIn
  <2>4. TypeOK'
    BY <1>3 DEF LogIn, IInv, TypeOK
  <2> QED
    BY <2>2, <2>3, <2>4 DEF IInv
<1>4. ASSUME NEW u \in Users, DeleteUserAccount(u) PROVE IInv'
  BY <1>4, DeleteUserAccountKeeps
<1>5. CASE UNCHANGED vars
  <2> SUFFICES ASSUME UNCHANGED vars PROVE IInv'
    BY <1>5
  <2> QED
    BY DEF vars, IInv, TypeOK, Carried, EarnedBy, Gone, Exists, UsedACode, WasDecided
<1> QED
  BY <1>1, <1>2, <1>3, <1>4, <1>5 DEF Next

\* Rows and handlers have their types, whatever the numbers of accounts,
\* codes, checks and handlers in flight.
THEOREM TypeCorrect == Spec => []TypeOK
<1>1. IInv => TypeOK
  BY DEF IInv
<1> QED
  BY IInvInit, IInvStep, <1>1, PTL DEF Spec

\* A status that no administrator has touched was earned.
THEOREM StatusEarned == Spec => []StatusIsEarned
<1>1. IInv => StatusIsEarned
  BY DEF IInv, StatusIsEarned, EarnedBy, UsedACode, WasDecided
<1> QED
  BY IInvInit, IInvStep, <1>1, PTL DEF Spec

------------------------------------------------------------------------------
(* Decisions                                                               *)

\* What a step may do to a decision.
Reversed(u) == /\ account[u].status \in Decided /\ account'[u].status \in Decided
               /\ account'[u].status # account[u].status
EditedBy(r, u) == req[r].pc = "edit" /\ req[r].u = u /\ req'[r].pc = "idle"

\* A status goes back in a step that an administrator's edit takes, and in no other.
LEMMA OnlyEditsReverse ==
  ASSUME TypeOK, [Next]_vars, NEW u \in Users, Reversed(u)
  PROVE  \E r \in Requests : EditedBy(r, u)
<1>1. account' # account /\ account[u].status \in Decided /\ account'[u].status \in Decided
        /\ account'[u].status # account[u].status /\ account \in [Users -> AccountRow]
  BY DEF Reversed, TypeOK
<1>2. PICK r \in Requests : \/ CreatePasswordUser(r) \/ CreateSocialUser(r) \/ MarkEmailVerified(r)
                            \/ UpsertProfile(r) \/ TransitionFromPendingApproval(r) \/ UpdateForAdmin(r)
  <2>1. ASSUME NEW v \in Users, DeleteUserAccount(v) PROVE FALSE
    BY <1>1, <2>1 DEF DeleteUserAccount, NoAccount, Decided
  <2>2. ASSUME NEW r \in Requests, Begin(r) PROVE account' = account
    BY <2>2 DEF Begin, ReadForRegister, ReadForSocial, ReadForResend, ReadForVerify, ReadForProfile,
                ReadForCheck, ReadForEdit, ReadWebhook
  <2> QED
    BY <1>1, <2>1, <2>2 DEF vars, Next, LogIn, Continue, InvalidateCode, SendCode, IncrementAttempts,
                            ConsumeCode, UpdateResultIfPending, CreateCode, CreateCheck, GiveUp
<1>3. CASE CreatePasswordUser(r)
  BY <1>1, <1>3 DEF CreatePasswordUser, NoAccount, Decided
<1>4. CASE CreateSocialUser(r)
  BY <1>1, <1>4 DEF CreateSocialUser, Decided
<1>5. CASE MarkEmailVerified(r)
  BY <1>1, <1>5 DEF MarkEmailVerified, Decided
<1>6. CASE UpsertProfile(r)
  BY <1>1, <1>6 DEF UpsertProfile, AwaitApproval, Decided
<1>7. CASE TransitionFromPendingApproval(r)
  BY <1>1, <1>7 DEF TransitionFromPendingApproval, Decide, Decided
<1>8. CASE UpdateForAdmin(r)
  <2>1. req[r].u = u
    BY <1>1, <1>8 DEF UpdateForAdmin
  <2>2. req'[r] = Idle
    BY <1>8 DEF UpdateForAdmin, Finish, TypeOK
  <2> QED
    BY <1>8, <2>1, <2>2 DEF UpdateForAdmin, Idle, EditedBy
<1> QED
  BY <1>2, <1>3, <1>4, <1>5, <1>6, <1>7, <1>8

\* However often a check is decided and in whatever order, only an
\* administrator's edit turns one decision into the other.
THEOREM FirstDecision == Spec => FirstDecisionStands
<1>1. TypeOK /\ [Next]_vars
        => [\A u \in Users :
              account[u].status \in Decided /\ account'[u].status \in Decided
              /\ account'[u].status # account[u].status
                => \E r \in Requests : req[r].pc = "edit" /\ req[r].u = u /\ req'[r].pc = "idle"]_vars
  BY OnlyEditsReverse DEF Reversed, EditedBy
<1> QED
  BY TypeCorrect, <1>1, PTL DEF Spec, FirstDecisionStands

-----------------------------------------------------------------------------
(***************************************************************************)
(* Sessions: for every number of accounts, sessions, codes, password       *)
(* writes and concurrent handlers.                                         *)
(*                                                                         *)
(* The four writes of a reset leave a gap after each one.  What closes     *)
(* them: an epoch never goes back, a row opened now carries the epoch of   *)
(* now, and a row that has ended stays so.  The invariant adds what a      *)
(* reset has behind it at each of its writes.                              *)
(***************************************************************************)

ForAUser == {"open", "issue", "invalidate", "write", "consume", "others", "revokeAll"}

\* What a handler that carries q has behind it.
Behind(q) ==
  /\ q.pc \in ForAUser => q.u \in Users
  /\ q.pc \in {"consume", "others", "revokeAll"} => q.epoch <= user[q.u].epoch
  /\ q.pc = "others" => (q.c \in ResetCodes => resetCode[q.c].status \in Over)
  /\ q.pc = "revokeAll" =>
       \A c \in ResetCodes : resetCode[c].status = "ACTIVE" /\ resetCode[c].user = q.u
                               => resetCode[c].epoch >= q.epoch

Owned == /\ \A s \in SessionIds : session[s].status = "ACTIVE" => session[s].user \in Users
         /\ \A c \in ResetCodes : resetCode[c].status = "ACTIVE" => resetCode[c].user \in Users

SInv == /\ SessionsTypeOK
        /\ Owned
        /\ \A r \in Requests : Behind(loginReq[r])
        /\ \A u \in Users : completed[u] <= user[u].epoch
        /\ NothingOutlivesAReset

\* What every step does to the rows: a row is active because it was, or
\* because it has just been made for the epoch of now; an end is final.
RowsMove ==
  /\ \A u \in Users : user[u].epoch <= user'[u].epoch
  /\ \A s \in SessionIds :
       /\ session[s].status \in Over => session'[s].status \in Over
       /\ session'[s].status = "ACTIVE" =>
            \/ /\ session[s].status = "ACTIVE" /\ session'[s].user = session[s].user
               /\ session'[s].epoch = session[s].epoch
            \/ /\ session'[s].user \in Users
               /\ session'[s].epoch = user[session'[s].user].epoch
  /\ \A c \in ResetCodes :
       /\ resetCode[c].status \in Over => resetCode'[c].status \in Over
       /\ resetCode'[c].status = "ACTIVE" =>
            \/ /\ resetCode[c].status = "ACTIVE" /\ resetCode'[c].user = resetCode[c].user
               /\ resetCode'[c].epoch = resetCode[c].epoch
            \/ /\ resetCode'[c].user \in Users
               /\ resetCode'[c].epoch = user[resetCode'[c].user].epoch

------------------------------------------------------------------------------
(* The handlers                                                            *)

\* A handler of no login has left nothing behind.
LEMMA NoLoginTyped == NoLogin \in LoginRequest /\ Behind(NoLogin) /\ Behind(NoLogin)'
<1>1. NoLogin \in LoginRequest
  BY EpochAssumption DEF NoLogin, LoginRequest, LoginPcs
<1> QED
  BY <1>1 DEF NoLogin, Behind, ForAUser

\* A handler holds a request whose earlier writes are done.
LEMMA SessionInHand ==
  ASSUME SInv, NEW r \in Requests
  PROVE  \E q \in LoginRequest : q = loginReq[r] /\ Behind(q)
  BY DEF SInv, SessionsTypeOK

\* What a handler that does not move has behind it is still there.
LEMMA BehindKept ==
  ASSUME SInv, SessionsTypeOK', RowsMove, NEW q \in LoginRequest, Behind(q)
  PROVE  Behind(q)'
<1>1. q.pc \in ForAUser => q.u \in Users
  BY DEF Behind
<1>2. ASSUME q.pc \in {"consume", "others", "revokeAll"} PROVE q.epoch <= user'[q.u].epoch
  <2>1. q.u \in Users /\ q.epoch <= user[q.u].epoch
    BY <1>2 DEF Behind, ForAUser
  <2>2. q.epoch \in Nat /\ user[q.u].epoch \in Nat /\ user'[q.u].epoch \in Nat
    BY <2>1, EpochAssumption DEF SInv, SessionsTypeOK, UserRow, LoginRequest
  <2>3. user[q.u].epoch <= user'[q.u].epoch
    BY <2>1 DEF RowsMove
  <2> QED
    BY <2>1, <2>2, <2>3
<1>3. ASSUME q.pc = "others", q.c \in ResetCodes PROVE resetCode'[q.c].status \in Over
  BY <1>3 DEF Behind, RowsMove
<1>4. ASSUME q.pc = "revokeAll", NEW c \in ResetCodes, resetCode'[c].status = "ACTIVE", resetCode'[c].user = q.u
      PROVE  resetCode'[c].epoch >= q.epoch
  <2>1. CASE resetCode[c].status = "ACTIVE" /\ resetCode[c].user = q.u /\ resetCode'[c].epoch = resetCode[c].epoch
    BY <1>4, <2>1 DEF Behind
  <2>2. CASE resetCode'[c].epoch = user[q.u].epoch
    <3>1. q.epoch <= user[q.u].epoch /\ q.u \in Users
      BY <1>4 DEF Behind, ForAUser
    <3>2. q.epoch \in Nat /\ user[q.u].epoch \in Nat
      BY <3>1, EpochAssumption DEF SInv, SessionsTypeOK, UserRow, LoginRequest
    <3> QED
      BY <2>2, <3>1, <3>2
  <2> QED
    BY <1>4, <2>1, <2>2 DEF RowsMove
<1> QED
  BY <1>1, <1>2, <1>3, <1>4 DEF Behind

\* The rows of a step that completes no reset keep to the invariant.
LEMMA RowsKeep ==
  ASSUME SInv, SessionsTypeOK', RowsMove, completed' = completed
  PROVE  /\ Owned'
         /\ \A u \in Users : completed'[u] <= user'[u].epoch
         /\ NothingOutlivesAReset'
<1>1. Owned'
  BY DEF Owned, RowsMove, SInv
<1>2. \A u \in Users : completed[u] \in Nat /\ user[u].epoch \in Nat /\ user'[u].epoch \in Nat
  BY EpochAssumption DEF SInv, SessionsTypeOK, UserRow
<1>3. \A u \in Users : completed'[u] <= user'[u].epoch
  BY <1>2 DEF SInv, RowsMove
<1>4. ASSUME NEW s \in SessionIds, session'[s].status = "ACTIVE"
      PROVE  session'[s].epoch >= completed'[session'[s].user]
  <2>1. CASE session[s].status = "ACTIVE" /\ session'[s].user = session[s].user
             /\ session'[s].epoch = session[s].epoch
    BY <2>1 DEF SInv, NothingOutlivesAReset
  <2>2. CASE session'[s].user \in Users /\ session'[s].epoch = user[session'[s].user].epoch
    BY <1>2, <2>2 DEF SInv
  <2> QED
    BY <1>4, <2>1, <2>2 DEF RowsMove
<1>5. ASSUME NEW c \in ResetCodes, resetCode'[c].status = "ACTIVE"
      PROVE  resetCode'[c].epoch >= completed'[resetCode'[c].user]
  <2>1. CASE resetCode[c].status = "ACTIVE" /\ resetCode'[c].user = resetCode[c].user
             /\ resetCode'[c].epoch = resetCode[c].epoch
    BY <2>1 DEF SInv, NothingOutlivesAReset
  <2>2. CASE resetCode'[c].user \in Users /\ resetCode'[c].epoch = user[resetCode'[c].user].epoch
    BY <1>2, <2>2 DEF SInv
  <2> QED
    BY <1>5, <2>1, <2>2 DEF RowsMove
<1> QED
  BY <1>1, <1>3, <1>4, <1>5 DEF NothingOutlivesAReset

\* A step of one handler that completes no reset.
LEMMA HandlerMoved ==
  ASSUME SInv, SessionsTypeOK', RowsMove, completed' = completed,
         NEW r \in Requests, NEW new \in LoginRequest, Behind(new)',
         loginReq' = [loginReq EXCEPT ![r] = new]
  PROVE  SInv'
<1>1. ASSUME NEW s \in Requests PROVE Behind(loginReq[s])'
  <2>1. CASE s = r
    <3>1. loginReq'[s] = new
      BY <2>1 DEF SInv, SessionsTypeOK
    <3> QED
      BY <3>1
  <2>2. CASE s # r
    <3>1. PICK q \in LoginRequest : q = loginReq[s] /\ Behind(q)
      BY SessionInHand
    <3>2. Behind(q)'
      BY <3>1, BehindKept
    <3>3. loginReq'[s] = q
      BY <2>2, <3>1 DEF SInv, SessionsTypeOK
    <3> QED
      BY <3>2, <3>3
  <2> QED
    BY <2>1, <2>2
<1> QED
  BY <1>1, RowsKeep DEF SInv

\* A handler that starts, or ends, writes no rows.
LEMMA NothingTouched ==
  ASSUME SInv, NEW r \in Requests, NEW new \in LoginRequest, Behind(new),
         loginReq' = [loginReq EXCEPT ![r] = new], UNCHANGED <<user, session, resetCode, completed>>
  PROVE  SInv'
<1>1. SessionsTypeOK'
  BY DEF SInv, SessionsTypeOK
<1>2. RowsMove
  <2>1. \A u \in Users : user[u].epoch <= user'[u].epoch
    BY EpochAssumption DEF SInv, SessionsTypeOK, UserRow
  <2> QED
    BY <2>1 DEF RowsMove
<1>3. Behind(new)'
  BY <1>1, <1>2, BehindKept
<1> QED
  BY <1>1, <1>2, <1>3, HandlerMoved

\* A handler that begins has no write behind it, whatever it read.
LEMMA SessionStarts ==
  ASSUME SInv, NEW r \in Requests, BeginLogin(r)
  PROVE  SInv'
<1>1. ASSUME NEW u \in Users, ReadForLogin(r, u) PROVE SInv'
  <2> DEFINE new == [NoLogin EXCEPT !.pc = "open", !.u = u]
  <2>1. new \in LoginRequest
    BY NoLoginTyped DEF NoLogin, LoginRequest, LoginPcs
  <2>2. Behind(new)
    BY DEF NoLogin, Behind
  <2> QED
    BY <1>1, <2>1, <2>2, NothingTouched DEF ReadForLogin
<1>2. ASSUME NEW u \in Users, NEW c \in ResetCodes, NEW right \in BOOLEAN, ReadForReset(r, u, c, right)
      PROVE  SInv'
  <2> DEFINE new == IF right THEN [NoLogin EXCEPT !.pc = "write", !.u = u, !.c = c]
                    ELSE [NoLogin EXCEPT !.pc = "mismatch", !.c = c]
  <2>1. new \in LoginRequest
    BY NoLoginTyped DEF NoLogin, LoginRequest, LoginPcs
  <2>2. Behind(new)
    BY DEF NoLogin, Behind, ForAUser
  <2> QED
    BY <1>2, <2>1, <2>2, NothingTouched DEF ReadForReset
<1>3. ASSUME NEW u \in Users, NEW forced \in BOOLEAN, ReadForIssue(r, u, forced) PROVE SInv'
  <2> DEFINE issue == [NoLogin EXCEPT !.pc = "issue", !.u = u]
             renew(c) == [NoLogin EXCEPT !.pc = "invalidate", !.u = u, !.c = c]
  <2>1. issue \in LoginRequest /\ \A c \in ResetCodes : renew(c) \in LoginRequest
    BY NoLoginTyped DEF NoLogin, LoginRequest, LoginPcs
  <2>2. Behind(issue) /\ \A c \in ResetCodes : Behind(renew(c))
    BY DEF NoLogin, Behind
  <2>3. CASE loginReq' = [loginReq EXCEPT ![r] = issue]
    BY <1>3, <2>1, <2>2, <2>3, NothingTouched DEF ReadForIssue
  <2>4. ASSUME NEW c \in ResetCodes, loginReq' = [loginReq EXCEPT ![r] = renew(c)] PROVE SInv'
    BY <1>3, <2>1, <2>2, <2>4, NothingTouched DEF ReadForIssue
  <2> QED
    BY <1>3, <2>3, <2>4 DEF ReadForIssue
<1>4. ASSUME NEW s \in SessionIds, ReadLateSession(r, s) \/ ReadForLogout(r, s) PROVE SInv'
  <2> DEFINE expire == [NoLogin EXCEPT !.pc = "expire", !.s = s]
             revoke == [NoLogin EXCEPT !.pc = "revoke", !.s = s]
  <2>1. expire \in LoginRequest /\ revoke \in LoginRequest
    BY NoLoginTyped DEF NoLogin, LoginRequest, LoginPcs
  <2>2. Behind(expire) /\ Behind(revoke)
    BY DEF NoLogin, Behind, ForAUser
  <2> QED
    BY <1>4, <2>1, <2>2, NothingTouched DEF ReadLateSession, ReadForLogout
<1> QED
  BY <1>1, <1>2, <1>3, <1>4 DEF BeginLogin

------------------------------------------------------------------------------
(* The handlers that write one row                                         *)

\* A session is made for the epoch of now, or ends, or keeps whose it is.
LEMMA SessionWritten ==
  ASSUME SInv, NEW s, NEW row,
         s \in SessionIds => /\ row \in SessionRow
                             /\ \/ row.status \in Over
                                \/ /\ session[s].status \notin Over
                                   /\ row.user \in Users /\ row.epoch = user[row.user].epoch
                                \/ /\ row.status = session[s].status
                                   /\ row.user = session[s].user /\ row.epoch = session[s].epoch,
         session' = [session EXCEPT ![s] = row], UNCHANGED <<user, resetCode, completed>>
  PROVE  RowsMove /\ session' \in [SessionIds -> SessionRow]
<1>1. /\ session' \in [SessionIds -> SessionRow]
      /\ s \in SessionIds => session'[s] = row
      /\ \A t \in SessionIds : t # s => session'[t] = session[t]
  BY DEF SInv, SessionsTypeOK
<1>2. \A u \in Users : user[u].epoch <= user'[u].epoch
  BY EpochAssumption DEF SInv, SessionsTypeOK, UserRow
<1>3. \A t \in SessionIds :
        /\ session[t].status \in Over => session'[t].status \in Over
        /\ session'[t].status = "ACTIVE" =>
             \/ /\ session[t].status = "ACTIVE" /\ session'[t].user = session[t].user
                /\ session'[t].epoch = session[t].epoch
             \/ /\ session'[t].user \in Users
                /\ session'[t].epoch = user[session'[t].user].epoch
  BY <1>1 DEF Over
<1> QED
  BY <1>1, <1>2, <1>3 DEF RowsMove

\* So is a code.
LEMMA ResetCodeWritten ==
  ASSUME SInv, NEW c, NEW row,
         c \in ResetCodes => /\ row \in ResetRow
                             /\ \/ row.status \in Over
                                \/ /\ resetCode[c].status \notin Over
                                   /\ row.user \in Users /\ row.epoch = user[row.user].epoch
                                \/ /\ row.status = resetCode[c].status
                                   /\ row.user = resetCode[c].user /\ row.epoch = resetCode[c].epoch,
         resetCode' = [resetCode EXCEPT ![c] = row], UNCHANGED <<user, session, completed>>
  PROVE  /\ RowsMove
         /\ resetCode' \in [ResetCodes -> ResetRow]
         /\ c \in ResetCodes => resetCode'[c] = row
<1>1. /\ resetCode' \in [ResetCodes -> ResetRow]
      /\ c \in ResetCodes => resetCode'[c] = row
      /\ \A d \in ResetCodes : d # c => resetCode'[d] = resetCode[d]
  BY DEF SInv, SessionsTypeOK
<1>2. \A u \in Users : user[u].epoch <= user'[u].epoch
  BY EpochAssumption DEF SInv, SessionsTypeOK, UserRow
<1>3. \A d \in ResetCodes :
        /\ resetCode[d].status \in Over => resetCode'[d].status \in Over
        /\ resetCode'[d].status = "ACTIVE" =>
             \/ /\ resetCode[d].status = "ACTIVE" /\ resetCode'[d].user = resetCode[d].user
                /\ resetCode'[d].epoch = resetCode[d].epoch
             \/ /\ resetCode'[d].user \in Users
                /\ resetCode'[d].epoch = user[resetCode'[d].user].epoch
  BY <1>1 DEF Over
<1> QED
  BY <1>1, <1>2, <1>3 DEF RowsMove

\* Handlers stay handlers when one carries on.
LEMMA RequestTyped ==
  ASSUME SInv, NEW r \in Requests, NEW new \in LoginRequest,
         loginReq' = [loginReq EXCEPT ![r] = new]
  PROVE  loginReq' \in [Requests -> LoginRequest]
  BY DEF SInv, SessionsTypeOK

\* A login opens a session of the present epoch.
LEMMA CreateSessionKeeps ==
  ASSUME SInv, NEW r \in Requests, NEW s \in SessionIds, CreateSession(r, s)
  PROVE  SInv' /\ RowsMove
<1>1. PICK q \in LoginRequest : q = loginReq[r] /\ Behind(q)
  BY SessionInHand
<1>2. PICK u \in Users : u = q.u
  BY <1>1 DEF CreateSession, Behind, ForAUser
<1> DEFINE row == [NoSession EXCEPT !.status = "ACTIVE", !.user = u, !.epoch = user[u].epoch]
<1>3. user[u].epoch \in 0..MaxEpoch
  BY DEF SInv, SessionsTypeOK, UserRow
<1>4. row \in SessionRow /\ row.user = u /\ row.epoch = user[u].epoch
  BY <1>3 DEF NoSession, SessionRow
<1>5. session[s].status \notin Over
  BY DEF CreateSession, IsNextSession, Over
<1>6. session' = [session EXCEPT ![s] = row] /\ UNCHANGED <<user, resetCode, completed>>
  BY <1>1, <1>2 DEF CreateSession
<1> HIDE DEF row
<1>7. RowsMove /\ session' \in [SessionIds -> SessionRow]
  BY <1>4, <1>5, <1>6, SessionWritten
<1>8. loginReq' = [loginReq EXCEPT ![r] = NoLogin]
  BY DEF CreateSession, FinishLogin
<1>9. SessionsTypeOK'
  BY <1>6, <1>7, <1>8, NoLoginTyped, RequestTyped DEF SInv, SessionsTypeOK
<1> QED
  BY <1>6, <1>7, <1>8, <1>9, NoLoginTyped, HandlerMoved

\* A session that expires or is revoked does not come back.
LEMMA EndSessionKeeps ==
  ASSUME SInv, NEW r \in Requests, MarkExpired(r) \/ MarkRevoked(r)
  PROVE  SInv' /\ RowsMove
<1>1. PICK q \in LoginRequest : q = loginReq[r] /\ Behind(q)
  BY SessionInHand
<1>2. PICK end \in {"EXPIRED", "REVOKED"} : session' = [session EXCEPT ![q.s].status = end]
  BY <1>1 DEF MarkExpired, MarkRevoked
<1> DEFINE row == [session[q.s] EXCEPT !.status = end]
<1>3. q.s \in SessionIds => row \in SessionRow /\ row.status \in Over
  BY DEF SInv, SessionsTypeOK, SessionRow, Over
<1>4. /\ session' = [session EXCEPT ![q.s] = row] /\ UNCHANGED <<user, resetCode, completed>>
      /\ loginReq' = [loginReq EXCEPT ![r] = NoLogin]
  BY <1>2 DEF MarkExpired, MarkRevoked, FinishLogin, SInv, SessionsTypeOK
<1> HIDE DEF row
<1>5. RowsMove /\ session' \in [SessionIds -> SessionRow]
  BY <1>3, <1>4, SessionWritten
<1>6. SessionsTypeOK'
  BY <1>4, <1>5, NoLoginTyped, RequestTyped DEF SInv, SessionsTypeOK
<1> QED
  BY <1>4, <1>5, <1>6, NoLoginTyped, HandlerMoved

\* invalidate, then issue.
LEMMA InvalidateResetKeeps ==
  ASSUME SInv, NEW r \in Requests, InvalidateReset(r)
  PROVE  SInv' /\ RowsMove
<1>1. PICK q \in LoginRequest : q = loginReq[r] /\ Behind(q)
  BY SessionInHand
<1> DEFINE c == q.c
           row == [resetCode[c] EXCEPT !.status = IF @ = "ACTIVE" THEN "INVALIDATED" ELSE @]
           new == [q EXCEPT !.pc = "issue", !.c = 0]
<1>2. c \in ResetCodes => /\ row \in ResetRow
                          /\ \/ row.status \in Over
                             \/ /\ row.status = resetCode[c].status
                                /\ row.user = resetCode[c].user /\ row.epoch = resetCode[c].epoch
  BY DEF SInv, SessionsTypeOK, ResetRow, Over
<1>3. /\ resetCode' = [resetCode EXCEPT ![c] = row] /\ UNCHANGED <<user, session, completed>>
      /\ loginReq' = [loginReq EXCEPT ![r] = new]
  BY <1>1 DEF InvalidateReset, SInv, SessionsTypeOK
<1>4. new \in LoginRequest /\ new.pc = "issue" /\ new.u = q.u /\ q.u \in Users
  BY <1>1 DEF LoginRequest, LoginPcs, InvalidateReset, Behind, ForAUser
<1> HIDE DEF row, new
<1>5. Behind(new)'
  BY <1>4 DEF Behind
<1>6. RowsMove /\ resetCode' \in [ResetCodes -> ResetRow]
  BY <1>2, <1>3, ResetCodeWritten
<1>7. SessionsTypeOK'
  BY <1>3, <1>4, <1>6, RequestTyped DEF SInv, SessionsTypeOK
<1> QED
  BY <1>3, <1>4, <1>5, <1>6, <1>7, HandlerMoved

\* A reset code that is issued is of the present epoch.
LEMMA CreateResetKeeps ==
  ASSUME SInv, NEW r \in Requests, NEW c \in ResetCodes, CreateReset(r, c)
  PROVE  SInv' /\ RowsMove
<1>1. PICK q \in LoginRequest : q = loginReq[r] /\ Behind(q)
  BY SessionInHand
<1>2. PICK u \in Users : u = q.u
  BY <1>1 DEF CreateReset, Behind, ForAUser
<1> DEFINE row == [NoReset EXCEPT !.status = "ACTIVE", !.user = u, !.epoch = user[u].epoch]
<1>3. user[u].epoch \in 0..MaxEpoch /\ 0 \in 0..MaxAttempts
  BY AttemptsAssumption DEF SInv, SessionsTypeOK, UserRow
<1>4. row \in ResetRow /\ row.user = u /\ row.epoch = user[u].epoch
  BY <1>3 DEF NoReset, ResetRow
<1>5. resetCode[c].status \notin Over
  BY DEF CreateReset, IsNextReset, Over
<1>6. resetCode' = [resetCode EXCEPT ![c] = row] /\ UNCHANGED <<user, session, completed>>
  BY <1>1, <1>2 DEF CreateReset
<1> HIDE DEF row
<1>7. RowsMove /\ resetCode' \in [ResetCodes -> ResetRow]
  BY <1>4, <1>5, <1>6, ResetCodeWritten
<1>8. loginReq' = [loginReq EXCEPT ![r] = NoLogin]
  BY DEF CreateReset, FinishLogin
<1>9. SessionsTypeOK'
  BY <1>6, <1>7, <1>8, NoLoginTyped, RequestTyped DEF SInv, SessionsTypeOK
<1> QED
  BY <1>6, <1>7, <1>8, <1>9, NoLoginTyped, HandlerMoved

\* A wrong guess of a reset code is counted.
LEMMA IncrementResetAttemptsKeeps ==
  ASSUME SInv, NEW r \in Requests, IncrementResetAttempts(r)
  PROVE  SInv' /\ RowsMove
<1>1. PICK q \in LoginRequest : q = loginReq[r] /\ Behind(q)
  BY SessionInHand
<1> DEFINE c == q.c
           counted == IF resetCode[c].attempts < MaxAttempts THEN resetCode[c].attempts + 1
                      ELSE resetCode[c].attempts
           row == [resetCode[c] EXCEPT !.attempts = counted]
<1>2. c \in ResetCodes => /\ row \in ResetRow /\ row.status = resetCode[c].status
                          /\ row.user = resetCode[c].user /\ row.epoch = resetCode[c].epoch
  <2> SUFFICES ASSUME c \in ResetCodes
               PROVE  /\ row \in ResetRow /\ row.status = resetCode[c].status
                      /\ row.user = resetCode[c].user /\ row.epoch = resetCode[c].epoch
    OBVIOUS
  <2>1. resetCode[c] \in ResetRow /\ resetCode[c].attempts \in 0..MaxAttempts
    BY DEF SInv, SessionsTypeOK, ResetRow
  <2>2. counted \in 0..MaxAttempts
    BY <2>1, AttemptsAssumption
  <2> HIDE DEF counted
  <2> QED
    BY <2>1, <2>2 DEF ResetRow
<1>3. /\ resetCode' = [resetCode EXCEPT ![c] = row] /\ UNCHANGED <<user, session, completed>>
      /\ loginReq' = [loginReq EXCEPT ![r] = NoLogin]
  BY <1>1 DEF IncrementResetAttempts, FinishLogin, SInv, SessionsTypeOK
<1> HIDE DEF row
<1>4. RowsMove /\ resetCode' \in [ResetCodes -> ResetRow]
  BY <1>2, <1>3, ResetCodeWritten
<1>5. SessionsTypeOK'
  BY <1>3, <1>4, NoLoginTyped, RequestTyped DEF SInv, SessionsTypeOK
<1> QED
  BY <1>3, <1>4, <1>5, NoLoginTyped, HandlerMoved

------------------------------------------------------------------------------
(* The four writes of a reset                                              *)

\* A new password begins an epoch, with all that is to be ended behind it.
LEMMA UpdatePasswordHashKeeps ==
  ASSUME SInv, NEW r \in Requests, UpdatePasswordHash(r)
  PROVE  SInv' /\ RowsMove
<1>1. PICK q \in LoginRequest : q = loginReq[r] /\ Behind(q)
  BY SessionInHand
<1>2. PICK u \in Users : u = q.u
  BY <1>1 DEF UpdatePasswordHash, Behind, ForAUser
<1>3. PICK epoch : epoch = user[u].epoch + 1
  OBVIOUS
<1> DEFINE row == [user[u] EXCEPT !.epoch = @ + 1]
           new == [q EXCEPT !.pc = "consume", !.epoch = epoch]
<1>4. user[u] \in UserRow /\ user[u].epoch \in 0..MaxEpoch /\ user[u].epoch < MaxEpoch
  BY <1>1, <1>2 DEF UpdatePasswordHash, SInv, SessionsTypeOK, UserRow
<1>5. epoch \in 0..MaxEpoch /\ user[u].epoch <= epoch
  BY <1>3, <1>4, EpochAssumption
<1>6. row \in UserRow /\ row.epoch = epoch
  BY <1>3, <1>4, <1>5 DEF UserRow
<1>7. /\ user' = [user EXCEPT ![u] = row] /\ UNCHANGED <<session, resetCode, completed>>
      /\ loginReq' = [loginReq EXCEPT ![r] = new]
  BY <1>1, <1>2, <1>3 DEF UpdatePasswordHash, SInv, SessionsTypeOK
<1>8. new \in LoginRequest /\ new.pc = "consume" /\ new.u = u /\ new.epoch = epoch
  BY <1>2, <1>5 DEF LoginRequest, LoginPcs
<1> HIDE DEF row, new
<1>9. user' \in [Users -> UserRow] /\ user'[u].epoch = epoch /\ \A v \in Users : v # u => user'[v] = user[v]
  BY <1>6, <1>7 DEF SInv, SessionsTypeOK
<1>10. RowsMove
  <2>1. \A v \in Users : user[v].epoch <= user'[v].epoch
    <3>1. \A v \in Users : user[v].epoch <= user[v].epoch
      BY EpochAssumption DEF SInv, SessionsTypeOK, UserRow
    <3> QED
      BY <1>5, <1>9, <3>1
  <2> QED
    BY <1>7, <2>1 DEF RowsMove
<1>11. Behind(new)'
  <2>1. epoch <= user'[u].epoch
    BY <1>5, <1>9, EpochAssumption
  <2> QED
    BY <1>8, <2>1 DEF Behind
<1>12. SessionsTypeOK'
  BY <1>7, <1>8, <1>9, RequestTyped DEF SInv, SessionsTypeOK
<1> QED
  BY <1>7, <1>8, <1>10, <1>11, <1>12, HandlerMoved

\* The code of a reset is consumed by the handler that changes the password.
LEMMA ConsumeResetKeeps ==
  ASSUME SInv, NEW r \in Requests, ConsumeReset(r)
  PROVE  SInv' /\ RowsMove
<1>1. PICK q \in LoginRequest : q = loginReq[r] /\ Behind(q)
  BY SessionInHand
<1> DEFINE c == q.c
           row == [resetCode[c] EXCEPT !.status = "CONSUMED"]
           new == [q EXCEPT !.pc = "others"]
<1>2. c \in ResetCodes => row \in ResetRow /\ row.status \in Over
  BY DEF SInv, SessionsTypeOK, ResetRow, Over
<1>3. /\ resetCode' = [resetCode EXCEPT ![c] = row] /\ UNCHANGED <<user, session, completed>>
      /\ loginReq' = [loginReq EXCEPT ![r] = new]
  BY <1>1 DEF ConsumeReset, SInv, SessionsTypeOK
<1>4. new \in LoginRequest /\ new.pc = "others" /\ new.u = q.u /\ new.epoch = q.epoch /\ new.c = c
  BY DEF LoginRequest, LoginPcs
<1> HIDE DEF row, new
<1>5. /\ RowsMove /\ resetCode' \in [ResetCodes -> ResetRow]
      /\ c \in ResetCodes => resetCode'[c] = row
  BY <1>2, <1>3, ResetCodeWritten
<1>6. Behind(new)'
  <2>1. q.u \in Users /\ q.epoch <= user'[q.u].epoch
    BY <1>1, <1>3 DEF ConsumeReset, Behind, ForAUser
  <2>2. c \in ResetCodes => resetCode'[c].status \in Over
    BY <1>2, <1>5
  <2> QED
    BY <1>4, <2>1, <2>2 DEF Behind
<1>7. SessionsTypeOK'
  BY <1>3, <1>4, <1>5, RequestTyped DEF SInv, SessionsTypeOK
<1> QED
  BY <1>3, <1>4, <1>5, <1>6, <1>7, HandlerMoved

\* The other codes of the user are retired by the same handler.
LEMMA InvalidateOtherActiveCodesKeeps ==
  ASSUME SInv, NEW r \in Requests, InvalidateOtherActiveCodes(r)
  PROVE  SInv' /\ RowsMove
<1>1. PICK q \in LoginRequest : q = loginReq[r] /\ Behind(q)
  BY SessionInHand
<1> DEFINE u == q.u
           others == OtherCodes(u, q.c)
           new == [q EXCEPT !.pc = "revokeAll", !.c = 0]
<1>2. /\ resetCode' = [c \in ResetCodes |-> IF c \in others THEN [resetCode[c] EXCEPT !.status = "INVALIDATED"]
                                            ELSE resetCode[c]]
      /\ loginReq' = [loginReq EXCEPT ![r] = new]
      /\ UNCHANGED <<user, session, completed>>
  BY <1>1 DEF InvalidateOtherActiveCodes, SInv, SessionsTypeOK
<1>3. new \in LoginRequest /\ new.pc = "revokeAll" /\ new.u = u /\ new.epoch = q.epoch
  BY DEF LoginRequest, LoginPcs
<1> HIDE DEF new
<1>4. resetCode' \in [ResetCodes -> ResetRow]
  BY <1>2 DEF SInv, SessionsTypeOK, ResetRow
<1>5. ASSUME NEW c \in ResetCodes
      PROVE  \/ resetCode'[c] = resetCode[c] /\ c \notin others
             \/ resetCode'[c].status = "INVALIDATED"
  BY <1>2 DEF SInv, SessionsTypeOK, ResetRow
<1>6. RowsMove
  <2>1. \A v \in Users : user[v].epoch <= user'[v].epoch
    BY <1>2, EpochAssumption DEF SInv, SessionsTypeOK, UserRow
  <2> QED
    BY <1>2, <1>5, <2>1 DEF RowsMove, Over
<1>7. Behind(new)'
  <2>1. u \in Users /\ q.epoch <= user'[u].epoch
    BY <1>1, <1>2 DEF InvalidateOtherActiveCodes, Behind, ForAUser
  <2>2. q.c \in ResetCodes => resetCode[q.c].status \in Over
    BY <1>1 DEF InvalidateOtherActiveCodes, Behind
  <2>3. \A c \in ResetCodes : ~ (resetCode'[c].status = "ACTIVE" /\ resetCode'[c].user = u)
    BY <1>5, <2>2 DEF OtherCodes, ActiveResets, Over
  <2> QED
    BY <1>3, <2>1, <2>3 DEF Behind
<1>8. SessionsTypeOK'
  BY <1>2, <1>3, <1>4, RequestTyped DEF SInv, SessionsTypeOK
<1> QED
  BY <1>2, <1>3, <1>6, <1>7, <1>8, HandlerMoved

\* The last write: here the reset is complete.
LEMMA RevokeAllActiveForUserKeeps ==
  ASSUME SInv, NEW r \in Requests, RevokeAllActiveForUser(r)
  PROVE  SInv' /\ RowsMove
<1>1. PICK q \in LoginRequest : q = loginReq[r] /\ Behind(q)
  BY SessionInHand
<1>2. PICK u \in Users : u = q.u
  BY <1>1 DEF RevokeAllActiveForUser, Behind, ForAUser
<1>3. /\ session' = [s \in SessionIds |-> IF session[s].user = u /\ session[s].status = "ACTIVE"
                                          THEN [session[s] EXCEPT !.status = "REVOKED"] ELSE session[s]]
      /\ completed' = [completed EXCEPT ![u] = IF @ < q.epoch THEN q.epoch ELSE @]
      /\ loginReq' = [loginReq EXCEPT ![r] = NoLogin]
      /\ UNCHANGED <<user, resetCode>>
  BY <1>1, <1>2 DEF RevokeAllActiveForUser, FinishLogin
<1>4. /\ q.epoch <= user[u].epoch
      /\ \A c \in ResetCodes : resetCode[c].status = "ACTIVE" /\ resetCode[c].user = u
                                 => resetCode[c].epoch >= q.epoch
  BY <1>1, <1>2 DEF RevokeAllActiveForUser, Behind
<1>5. session' \in [SessionIds -> SessionRow]
  BY <1>3 DEF SInv, SessionsTypeOK, SessionRow
<1>6. ASSUME NEW s \in SessionIds
      PROVE  \/ /\ session'[s] = session[s]
                /\ ~ (session[s].status = "ACTIVE" /\ session[s].user = u)
             \/ session'[s].status = "REVOKED"
  BY <1>3 DEF SInv, SessionsTypeOK, SessionRow
<1>7. RowsMove
  <2>1. \A v \in Users : user[v].epoch <= user'[v].epoch
    BY <1>3, EpochAssumption DEF SInv, SessionsTypeOK, UserRow
  <2> QED
    BY <1>3, <1>6, <2>1 DEF RowsMove, Over
<1>8. /\ completed' \in [Users -> 0..MaxEpoch]
      /\ completed'[u] = completed[u] \/ completed'[u] = q.epoch
      /\ \A v \in Users : v # u => completed'[v] = completed[v]
  BY <1>3 DEF SInv, SessionsTypeOK, LoginRequest
<1>9. SessionsTypeOK'
  BY <1>3, <1>5, <1>8, NoLoginTyped, RequestTyped DEF SInv, SessionsTypeOK
<1>10. Owned'
  BY <1>3, <1>6 DEF SInv, Owned
<1>11. \A v \in Users : completed'[v] <= user'[v].epoch
  BY <1>3, <1>4, <1>8 DEF SInv
<1>12. NothingOutlivesAReset'
  <2>1. ASSUME NEW s \in SessionIds, session'[s].status = "ACTIVE"
        PROVE  session'[s].epoch >= completed'[session'[s].user]
    <3>1. session'[s] = session[s] /\ session[s].user # u /\ session[s].status = "ACTIVE"
      BY <1>6, <2>1
    <3>2. session[s].user \in Users
      BY <3>1 DEF SInv, Owned
    <3> QED
      BY <1>8, <3>1, <3>2 DEF SInv, NothingOutlivesAReset
  <2>2. ASSUME NEW c \in ResetCodes, resetCode'[c].status = "ACTIVE"
        PROVE  resetCode'[c].epoch >= completed'[resetCode'[c].user]
    <3>1. resetCode[c].status = "ACTIVE" /\ resetCode[c].user \in Users
      BY <1>3, <2>2 DEF SInv, Owned
    <3>2. resetCode[c].epoch >= completed[resetCode[c].user]
      BY <3>1 DEF SInv, NothingOutlivesAReset
    <3>3. CASE resetCode[c].user = u
      BY <1>3, <1>4, <1>8, <3>1, <3>2, <3>3
    <3>4. CASE resetCode[c].user # u
      BY <1>3, <1>8, <3>1, <3>2, <3>4
    <3> QED
      BY <3>3, <3>4
  <2> QED
    BY <2>1, <2>2 DEF NothingOutlivesAReset
<1>13. ASSUME NEW s \in Requests PROVE Behind(loginReq[s])'
  <2>1. CASE s = r
    <3>1. loginReq'[s] = NoLogin
      BY <1>3, <2>1 DEF SInv, SessionsTypeOK
    <3> QED
      BY <3>1, NoLoginTyped
  <2>2. CASE s # r
    <3>1. PICK p \in LoginRequest : p = loginReq[s] /\ Behind(p)
      BY SessionInHand
    <3>2. Behind(p)'
      BY <1>7, <1>9, <3>1, BehindKept
    <3>3. loginReq'[s] = p
      BY <1>3, <2>2, <3>1 DEF SInv, SessionsTypeOK
    <3> QED
      BY <3>2, <3>3
  <2> QED
    BY <2>1, <2>2
<1> QED
  BY <1>7, <1>9, <1>10, <1>11, <1>12, <1>13 DEF SInv

------------------------------------------------------------------------------
(* Time and the account                                                    *)

\* A step of no handler that completes no reset.
LEMMA NoHandlerMoved ==
  ASSUME SInv, SessionsTypeOK', RowsMove, completed' = completed, loginReq' = loginReq
  PROVE  SInv'
<1>1. ASSUME NEW r \in Requests PROVE Behind(loginReq[r])'
  <2>1. PICK q \in LoginRequest : q = loginReq[r] /\ Behind(q)
    BY SessionInHand
  <2>2. Behind(q)'
    BY <2>1, BehindKept
  <2>3. loginReq'[r] = q
    BY <2>1
  <2> QED
    BY <2>2, <2>3
<1> QED
  BY <1>1, RowsKeep DEF SInv

\* A session whose time passes is late, and otherwise what it was.
LEMMA ElapseKeeps ==
  ASSUME SInv, NEW s \in SessionIds, Elapse(s)
  PROVE  SInv' /\ RowsMove
<1> DEFINE row == [session[s] EXCEPT !.late = TRUE]
<1>1. /\ row \in SessionRow /\ row.status = session[s].status
      /\ row.user = session[s].user /\ row.epoch = session[s].epoch
  BY DEF SInv, SessionsTypeOK, SessionRow
<1>2. session' = [session EXCEPT ![s] = row] /\ UNCHANGED <<user, resetCode, completed, loginReq>>
  BY DEF Elapse, SInv, SessionsTypeOK
<1> HIDE DEF row
<1>3. RowsMove /\ session' \in [SessionIds -> SessionRow]
  BY <1>1, <1>2, SessionWritten
<1>4. SessionsTypeOK'
  BY <1>2, <1>3 DEF SInv, SessionsTypeOK
<1> QED
  BY <1>2, <1>3, <1>4, NoHandlerMoved

\* A status that moves opens no session, and a deletion ends those of the user.
LEMMA AccountMovedKeeps ==
  ASSUME SInv, NEW u \in Users, MoveStatus(u) \/ DeleteUser(u)
  PROVE  SInv' /\ RowsMove
<1>1. user' \in [Users -> UserRow] /\ \A v \in Users : user'[v].epoch = user[v].epoch
  <2>1. PICK row \in UserRow : row.epoch = user[u].epoch /\ user' = [user EXCEPT ![u] = row]
    <3>1. CASE MoveStatus(u)
      <4> DEFINE row == [user[u] EXCEPT !.eligible = ~ @]
      <4>1. row \in UserRow /\ row.epoch = user[u].epoch
        BY DEF SInv, SessionsTypeOK, UserRow
      <4>2. user' = [user EXCEPT ![u] = row]
        BY <3>1 DEF MoveStatus, SInv, SessionsTypeOK
      <4> QED
        BY <4>1, <4>2
    <3>2. CASE DeleteUser(u)
      <4> DEFINE row == [user[u] EXCEPT !.deleted = TRUE]
      <4>1. row \in UserRow /\ row.epoch = user[u].epoch
        BY DEF SInv, SessionsTypeOK, UserRow
      <4>2. user' = [user EXCEPT ![u] = row]
        BY <3>2 DEF DeleteUser, SInv, SessionsTypeOK
      <4> QED
        BY <4>1, <4>2
    <3> QED
      BY <3>1, <3>2
  <2> QED
    BY <2>1 DEF SInv, SessionsTypeOK
<1>2. \A v \in Users : user[v].epoch <= user'[v].epoch
  BY <1>1, EpochAssumption DEF SInv, SessionsTypeOK, UserRow
<1>3. completed' = completed /\ loginReq' = loginReq
  BY DEF MoveStatus, DeleteUser
<1>4. session' \in [SessionIds -> SessionRow] /\ resetCode' \in [ResetCodes -> ResetRow]
  <2>1. 0 \in 0..MaxEpoch /\ 0 \in 0..MaxAttempts
    BY EpochAssumption, AttemptsAssumption
  <2>2. /\ [NoSession EXCEPT !.status = "DELETED"] \in SessionRow
        /\ [NoReset EXCEPT !.status = "DELETED"] \in ResetRow
    BY <2>1 DEF NoSession, SessionRow, NoReset, ResetRow
  <2> QED
    BY <2>2 DEF MoveStatus, DeleteUser, SInv, SessionsTypeOK
<1>5. ASSUME NEW s \in SessionIds PROVE session'[s] = session[s] \/ session'[s].status = "DELETED"
  BY DEF MoveStatus, DeleteUser, SInv, SessionsTypeOK, SessionRow, NoSession
<1>6. ASSUME NEW c \in ResetCodes PROVE resetCode'[c] = resetCode[c] \/ resetCode'[c].status = "DELETED"
  BY DEF MoveStatus, DeleteUser, SInv, SessionsTypeOK, ResetRow, NoReset
<1>7. RowsMove
  BY <1>2, <1>5, <1>6 DEF RowsMove, Over
<1>8. SessionsTypeOK'
  BY <1>1, <1>3, <1>4 DEF SInv, SessionsTypeOK
<1> QED
  BY <1>3, <1>7, <1>8, NoHandlerMoved

------------------------------------------------------------------------------
(* The invariant                                                           *)

\* There are no sessions and no codes yet.
LEMMA SInvInit ==
  ASSUME SessionsInit
  PROVE  SInv
<1>1. 0 \in 0..MaxEpoch /\ 0 \in 0..MaxAttempts
  BY EpochAssumption, AttemptsAssumption
<1>2. SessionsTypeOK
  <2>1. NoSession \in SessionRow /\ NoReset \in ResetRow
    BY <1>1 DEF NoSession, SessionRow, NoReset, ResetRow
  <2> QED
    BY <1>1, <2>1, NoLoginTyped DEF SessionsInit, SessionsTypeOK
<1>3. /\ \A s \in SessionIds : session[s].status = "NONE"
      /\ \A c \in ResetCodes : resetCode[c].status = "NONE"
  BY DEF SessionsInit, NoSession, NoReset
<1>4. Owned /\ NothingOutlivesAReset
  BY <1>3 DEF Owned, NothingOutlivesAReset
<1>5. \A r \in Requests : Behind(loginReq[r])
  BY NoLoginTyped DEF SessionsInit
<1>6. ASSUME NEW u \in Users PROVE completed[u] <= user[u].epoch
  <2>1. completed[u] = 0 /\ user[u].epoch = 0
    BY DEF SessionsInit
  <2> QED
    BY <2>1
<1> QED
  BY <1>2, <1>4, <1>5, <1>6 DEF SInv

\* A step that writes no row undoes none.
LEMMA Unwritten ==
  ASSUME SInv, UNCHANGED <<user, session, resetCode>>
  PROVE  RowsMove
<1>1. \A u \in Users : user[u].epoch <= user'[u].epoch
  BY EpochAssumption DEF SInv, SessionsTypeOK, UserRow
<1> QED
  BY <1>1 DEF RowsMove

\* Each step of the sessions keeps their invariant, and only moves rows on.
LEMMA SInvStep ==
  ASSUME SInv, [SessionsNext]_sessionVars
  PROVE  SInv' /\ RowsMove
<1>1. ASSUME NEW r \in Requests, BeginLogin(r) PROVE SInv' /\ RowsMove
  <2>1. UNCHANGED <<user, session, resetCode>>
    BY <1>1 DEF BeginLogin, ReadForLogin, ReadForReset, ReadForIssue, ReadLateSession, ReadForLogout
  <2> QED
    BY <1>1, <2>1, SessionStarts, Unwritten
<1>2. ASSUME NEW r \in Requests, ContinueLogin(r) PROVE SInv' /\ RowsMove
  <2>1. CASE GiveUpLogin(r)
    BY <2>1, NoLoginTyped, NothingTouched, Unwritten DEF GiveUpLogin, FinishLogin
  <2> QED
    BY <1>2, <2>1, CreateSessionKeeps, EndSessionKeeps, InvalidateResetKeeps, CreateResetKeeps,
       IncrementResetAttemptsKeeps, UpdatePasswordHashKeeps, ConsumeResetKeeps,
       InvalidateOtherActiveCodesKeeps, RevokeAllActiveForUserKeeps
    DEF ContinueLogin
<1>3. CASE UNCHANGED sessionVars
  <2>1. SessionsTypeOK' /\ UNCHANGED <<user, session, resetCode, completed, loginReq>>
    BY <1>3 DEF sessionVars, SInv, SessionsTypeOK
  <2> QED
    BY <2>1, Unwritten, NoHandlerMoved
<1> QED
  BY <1>1, <1>2, <1>3, ElapseKeeps, AccountMovedKeeps DEF SessionsNext

\* Rows and handlers have their types, whatever the numbers of sessions,
\* codes, password writes and handlers in flight.
THEOREM SessionsTypeCorrect == SessionsSpec => []SessionsTypeOK
<1>1. SInv => SessionsTypeOK
  BY DEF SInv
<1> QED
  BY SInvInit, SInvStep, <1>1, PTL DEF SessionsSpec

\* Whatever runs between the writes of a reset, and however many resets run
\* at once, nothing opened or issued before it is active after it.
THEOREM NothingOutlives == SessionsSpec => []NothingOutlivesAReset
<1>1. SInv => NothingOutlivesAReset
  BY DEF SInv
<1> QED
  BY SInvInit, SInvStep, <1>1, PTL DEF SessionsSpec

\* No order of expiry, logout, resets and deletion brings an ended session or
\* code back.
THEOREM EndsAreFinal == SessionsSpec => EndedStaysEnded
<1>1. SInv /\ [SessionsNext]_sessionVars
        => [/\ \A s \in SessionIds : session[s].status \in Over => session'[s].status \in Over
            /\ \A c \in ResetCodes : resetCode[c].status \in Over
                                       => resetCode'[c].status \in Over]_sessionVars
  BY SInvStep DEF RowsMove
<1> QED
  BY SInvInit, SInvStep, <1>1, PTL DEF SessionsSpec, EndedStaysEnded
=============================================================================
