------------------------------ MODULE Accounts ------------------------------
(***************************************************************************)
(* The accounts of customers and professionals (src/users, src/profiles,   *)
(* src/identity-verification, platform-admin/user-accounts): registration  *)
(* and the e-mail codes, profiles, the identity check of the provider, and *)
(* what an administrator edits.  All of them write User.accountStatus.     *)
(*                                                                         *)
(* The reads of a handler are one step, every write or transaction one     *)
(* more.  Time is left out: a cooldown may be over or not, a code that is  *)
(* not used may have expired.  Rows are never reused: a deleted one has    *)
(* status DELETED.                                                         *)
(***************************************************************************)
EXTENDS Naturals

CONSTANTS Users,        \* ids of User rows
          Emails,       \* addresses
          Kinds,        \* kinds of profile: customer, professional
          Codes,        \* ids of EmailVerificationCode rows, in creation order
          Checks,       \* ids of IdentityVerification rows, in creation order
          MaxAttempts,  \* emailVerification.maxAttempts
          Requests,     \* handlers that can be in flight at once
          None

ASSUME CodesAssumption == Codes \subseteq Nat \ {0}
ASSUME ChecksAssumption == Checks \subseteq Nat \ {0}
ASSUME AttemptsAssumption == MaxAttempts \in Nat \ {0}
ASSUME NoneAssumption == None \notin Users \cup Emails \cup Kinds

VARIABLES account,   \* the User rows with the kinds of their profiles
          signedIn,  \* users who hold a session
          code,      \* the EmailVerificationCode rows, and where they were sent
          check,     \* the IdentityVerification rows
          audited,   \* users whose status AdminAuditLog says was edited
          req        \* the handlers in flight

vars == <<account, signedIn, code, check, audited, req>>

Statuses == {"PENDING_EMAIL_VERIFICATION", "EMAIL_VERIFIED", "PENDING_APPROVAL", "APPROVED", "REJECTED"}
Results == {"PENDING", "APPROVED", "REJECTED"}

AccountRow == [status : Statuses \cup {"NONE", "DELETED"}, email : Emails \cup {None},
               social : BOOLEAN, profiles : SUBSET Kinds]
NoAccount == [status |-> "NONE", email |-> None, social |-> FALSE, profiles |-> {}]
CodeRow == [status : {"NONE", "ACTIVE", "CONSUMED", "INVALIDATED", "DELETED"}, user : Users \cup {None},
            sentTo : Emails \cup {None}, attempts : 0..MaxAttempts]
NoCode == [status |-> "NONE", user |-> None, sentTo |-> None, attempts |-> 0]
CheckRow == [status : Results \cup {"NONE", "DELETED"}, user : Users \cup {None}]
NoCheck == [status |-> "NONE", user |-> None]

\* What a handler carries: the account it found, the address and the code it
\* works with, the check and its result, the kind of the profile and whether it
\* saw none, and what an edit is to write (None keeps the column).
Pcs == {"idle", "register", "createSocial", "resend", "issue", "send", "mismatch", "consume",
        "verified", "profile", "startCheck", "result", "decide", "edit"}
Request == [pc : Pcs, u : Users \cup {None}, e : Emails \cup {None}, c : Codes \cup {0},
            i : Checks \cup {0}, result : Results \cup {None}, kind : Kinds \cup {None},
            fresh : BOOLEAN, email : Emails \cup {None}, status : Statuses \cup {None}]
Idle == [pc |-> "idle", u |-> None, e |-> None, c |-> 0, i |-> 0, result |-> None, kind |-> None,
         fresh |-> FALSE, email |-> None, status |-> None]

\* The types of the rows and of what handlers carry.
TypeOK ==
  /\ account \in [Users -> AccountRow]
  /\ signedIn \subseteq Users
  /\ code \in [Codes -> CodeRow]
  /\ check \in [Checks -> CheckRow]
  /\ audited \subseteq Users
  /\ req \in [Requests -> Request]

------------------------------------------------------------------------------
(* Helpers                                                                 *)

Finish(r) == req' = [req EXCEPT ![r] = Idle]
Exists(u) == account[u].status \in Statuses

\* The unique index of User.email.
EmailFree(e) == \A u \in Users : Exists(u) => account[u].email # e

\* The latest code that is neither consumed nor invalidated.
ActiveCodes(u) == {c \in Codes : code[c].status = "ACTIVE" /\ code[c].user = u}
IsActiveCode(u, c) == c \in ActiveCodes(u) /\ \A d \in ActiveCodes(u) : d <= c

\* The next row to insert.
IsNextCode(c) == code[c].status = "NONE" /\ \A d \in Codes : d < c => code[d].status # "NONE"
IsNextCheck(i) == check[i].status = "NONE" /\ \A j \in Checks : j < i => check[j].status # "NONE"

Init == /\ account = [u \in Users |-> NoAccount]
        /\ signedIn = {}
        /\ code = [c \in Codes |-> NoCode]
        /\ check = [i \in Checks |-> NoCheck]
        /\ audited = {}
        /\ req = [r \in Requests |-> Idle]

------------------------------------------------------------------------------
(* Registration and login                                                  *)

ReadForRegister(r, u, e) ==
  /\ req[r].pc = "idle"
  /\ account[u].status = "NONE"
  /\ EmailFree(e)
  /\ req' = [req EXCEPT ![r] = [Idle EXCEPT !.pc = "register", !.u = u, !.e = e]]
  /\ UNCHANGED <<account, signedIn, code, check, audited>>

CreatePasswordUser(r) ==
  LET u == req[r].u  e == req[r].e IN
  /\ req[r].pc = "register"
  /\ account[u].status = "NONE"
  /\ EmailFree(e)
  /\ account' = [account EXCEPT ![u] = [NoAccount EXCEPT !.status = "PENDING_EMAIL_VERIFICATION", !.email = e]]
  /\ req' = [req EXCEPT ![r].pc = "issue"]
  /\ UNCHANGED <<signedIn, code, check, audited>>

\* socialLogin: an identity without an account gets one, already verified.
ReadForSocial(r, u, e) ==
  /\ req[r].pc = "idle"
  /\ account[u].status = "NONE"
  /\ EmailFree(e)
  /\ req' = [req EXCEPT ![r] = [Idle EXCEPT !.pc = "createSocial", !.u = u, !.e = e]]
  /\ UNCHANGED <<account, signedIn, code, check, audited>>

CreateSocialUser(r) ==
  LET u == req[r].u  e == req[r].e IN
  /\ req[r].pc = "createSocial"
  /\ account[u].status = "NONE"
  /\ EmailFree(e)
  /\ account' = [account EXCEPT ![u] = [status |-> "EMAIL_VERIFIED", email |-> e, social |-> TRUE,
                                        profiles |-> {}]]
  /\ signedIn' = signedIn \cup {u}
  /\ Finish(r)
  /\ UNCHANGED <<code, check, audited>>

\* Who may log in; a session outlives later changes of the status.
LoginEligible == {"EMAIL_VERIFIED", "PENDING_APPROVAL", "APPROVED"}
LogIn(u) ==
  /\ account[u].status \in LoginEligible
  /\ u \notin signedIn
  /\ signedIn' = signedIn \cup {u}
  /\ UNCHANGED <<account, code, check, audited, req>>

------------------------------------------------------------------------------
(* E-mail codes                                                            *)

\* resendVerificationCode: the account and its latest active code, whose
\* cooldown is over (within it, the handler stops).
ReadForResend(r, u) ==
  /\ req[r].pc = "idle"
  /\ account[u].status = "PENDING_EMAIL_VERIFICATION"
  /\ \/ /\ ActiveCodes(u) = {}
        /\ req' = [req EXCEPT ![r] = [Idle EXCEPT !.pc = "issue", !.u = u, !.e = account[u].email]]
     \/ \E c \in Codes :
          /\ IsActiveCode(u, c)
          /\ req' = [req EXCEPT ![r] = [Idle EXCEPT !.pc = "resend", !.u = u, !.e = account[u].email, !.c = c]]
  /\ UNCHANGED <<account, signedIn, code, check, audited>>

InvalidateCode(r) ==
  LET c == req[r].c IN
  /\ req[r].pc = "resend"
  /\ code[c].status # "DELETED"
  /\ code' = [code EXCEPT ![c].status = IF @ = "ACTIVE" THEN "INVALIDATED" ELSE @]
  /\ req' = [req EXCEPT ![r] = [@ EXCEPT !.pc = "issue", !.c = 0]]
  /\ UNCHANGED <<account, signedIn, check, audited>>

CreateCode(r, c) ==
  /\ req[r].pc = "issue"
  /\ Exists(req[r].u)
  /\ IsNextCode(c)
  /\ code' = [code EXCEPT ![c] = [NoCode EXCEPT !.status = "ACTIVE", !.user = req[r].u]]
  /\ req' = [req EXCEPT ![r] = [@ EXCEPT !.pc = "send", !.c = c]]
  /\ UNCHANGED <<account, signedIn, check, audited>>

\* The mail goes to the address the handler read.
SendCode(r) ==
  /\ req[r].pc = "send"
  /\ code' = [code EXCEPT ![req[r].c].sentTo = req[r].e]
  /\ Finish(r)
  /\ UNCHANGED <<account, signedIn, check, audited>>

\* verifyEmailCode: the account by its address, its active code, and whether
\* the submitted code is that one; a code that was never sent is not known.
ReadForVerify(r, u, c, right) ==
  /\ req[r].pc = "idle"
  /\ Exists(u)
  /\ IsActiveCode(u, c)
  /\ code[c].attempts < MaxAttempts
  /\ right => code[c].sentTo # None
  /\ req' = [req EXCEPT ![r] = [Idle EXCEPT !.pc = IF right THEN "consume" ELSE "mismatch", !.u = u, !.c = c]]
  /\ UNCHANGED <<account, signedIn, code, check, audited>>

\* Counted as far as the limit that stops the next attempt.
IncrementAttempts(r) ==
  LET c == req[r].c IN
  /\ req[r].pc = "mismatch"
  /\ code[c].status # "DELETED"
  /\ code' = [code EXCEPT ![c].attempts = IF @ < MaxAttempts THEN @ + 1 ELSE @]
  /\ Finish(r)
  /\ UNCHANGED <<account, signedIn, check, audited>>

ConsumeCode(r) ==
  LET c == req[r].c IN
  /\ req[r].pc = "consume"
  /\ code[c].status # "DELETED"
  /\ code' = [code EXCEPT ![c].status = "CONSUMED"]
  /\ req' = [req EXCEPT ![r] = [@ EXCEPT !.pc = "verified", !.c = 0]]
  /\ UNCHANGED <<account, signedIn, check, audited>>

\* The status is written whatever it is by now.
MarkEmailVerified(r) ==
  LET u == req[r].u IN
  /\ req[r].pc = "verified"
  /\ Exists(u)
  /\ account' = [account EXCEPT ![u].status = "EMAIL_VERIFIED"]
  /\ Finish(r)
  /\ UNCHANGED <<signedIn, code, check, audited>>

------------------------------------------------------------------------------
(* Profiles                                                                *)

\* The transaction of upsertCustomerProfile and upsertProfessionalProfile
\* reads whether the profile is there before it writes.
ReadForProfile(r, u, kind) ==
  /\ req[r].pc = "idle"
  /\ Exists(u)
  /\ u \in signedIn
  /\ req' = [req EXCEPT ![r] = [Idle EXCEPT !.pc = "profile", !.u = u, !.kind = kind,
                                            !.fresh = kind \notin account[u].profiles]]
  /\ UNCHANGED <<account, signedIn, code, check, audited>>

\* What the creation of a profile makes of the status; the variant writes
\* the status of a check.
AwaitApprovalMisnamed(status) == IF status = "EMAIL_VERIFIED" THEN "PENDING" ELSE status
AwaitApproval(status) == IF status = "EMAIL_VERIFIED" THEN "PENDING_APPROVAL" ELSE status

UpsertProfile(r) ==
  LET u == req[r].u IN
  /\ req[r].pc = "profile"
  /\ Exists(u)
  /\ account' = [account EXCEPT ![u].profiles = @ \cup {req[r].kind},
                                ![u].status = IF req[r].fresh THEN AwaitApproval(@) ELSE @]
  /\ Finish(r)
  /\ UNCHANGED <<signedIn, code, check, audited>>

------------------------------------------------------------------------------
(* The identity check                                                      *)

ReadForCheck(r, u) ==
  /\ req[r].pc = "idle"
  /\ u \in signedIn
  /\ account[u].status = "PENDING_APPROVAL"
  /\ account[u].profiles # {}
  /\ req' = [req EXCEPT ![r] = [Idle EXCEPT !.pc = "startCheck", !.u = u]]
  /\ UNCHANGED <<account, signedIn, code, check, audited>>

\* The row is written once the provider has opened its session.
CreateCheck(r, i) ==
  /\ req[r].pc = "startCheck"
  /\ Exists(req[r].u)
  /\ IsNextCheck(i)
  /\ check' = [check EXCEPT ![i] = [status |-> "PENDING", user |-> req[r].u]]
  /\ Finish(r)
  /\ UNCHANGED <<account, signedIn, code, audited>>

\* A webhook can come at any time and any number of times, with any result.
ReadWebhook(r, i, result) ==
  /\ req[r].pc = "idle"
  /\ check[i].status = "PENDING"
  /\ req' = [req EXCEPT ![r] = [Idle EXCEPT !.pc = "result", !.u = check[i].user, !.i = i, !.result = result]]
  /\ UNCHANGED <<account, signedIn, code, check, audited>>

\* The condition of updateResultIfPending; the variant trusts the read.
StillUndecidedAsRead(i) == check[i].status # "DELETED"
StillUndecided(i) == check[i].status = "PENDING"

UpdateResultIfPending(r) ==
  LET i == req[r].i  result == req[r].result IN
  /\ req[r].pc = "result"
  /\ StillUndecided(i)
  /\ check' = [check EXCEPT ![i].status = result]
  /\ req' = [req EXCEPT ![r] = IF result = "PENDING" THEN Idle ELSE [@ EXCEPT !.pc = "decide", !.i = 0]]
  /\ UNCHANGED <<account, signedIn, code, audited>>

\* The decision reaches an account that still waits for it; the variant
\* overwrites whatever it finds.
DecideAnyway(status, result) == result
Decide(status, result) == IF status = "PENDING_APPROVAL" THEN result ELSE status

TransitionFromPendingApproval(r) ==
  LET u == req[r].u IN
  /\ req[r].pc = "decide"
  /\ account' = IF Exists(u) THEN [account EXCEPT ![u].status = Decide(@, req[r].result)] ELSE account
  /\ Finish(r)
  /\ UNCHANGED <<signedIn, code, check, audited>>

------------------------------------------------------------------------------
(* Administrators                                                          *)

\* updateUserAccount: a new address sends the account back to verification,
\* whatever status was asked for; the status is compared with the one read.
StatusToWrite(old, email, status) ==
  CASE email # None -> IF old = "PENDING_EMAIL_VERIFICATION" THEN None ELSE "PENDING_EMAIL_VERIFICATION"
    [] email = None -> status

ReadForEdit(r, u, email, status) ==
  /\ req[r].pc = "idle"
  /\ Exists(u)
  /\ email # account[u].email
  /\ status # account[u].status
  /\ email # None => EmailFree(email)
  /\ email # None \/ status # None
  /\ req' = [req EXCEPT ![r] = [Idle EXCEPT !.pc = "edit", !.u = u, !.email = email,
                                            !.status = StatusToWrite(account[u].status, email, status)]]
  /\ UNCHANGED <<account, signedIn, code, check, audited>>

UpdateForAdmin(r) ==
  LET u == req[r].u  email == req[r].email  status == req[r].status IN
  /\ req[r].pc = "edit"
  /\ Exists(u)
  /\ email # None => EmailFree(email) \/ account[u].email = email
  /\ account' = [account EXCEPT ![u].email = IF email = None THEN @ ELSE email,
                                ![u].status = IF status = None THEN @ ELSE status]
  /\ audited' = IF status = None THEN audited ELSE audited \cup {u}
  /\ Finish(r)
  /\ UNCHANGED <<signedIn, code, check>>

\* Sessions, codes, profiles and checks go with the row.
DeleteUserAccount(u) ==
  /\ Exists(u)
  /\ account' = [account EXCEPT ![u] = [NoAccount EXCEPT !.status = "DELETED"]]
  /\ signedIn' = signedIn \ {u}
  /\ code' = [c \in Codes |-> IF code[c].user = u THEN [NoCode EXCEPT !.status = "DELETED"] ELSE code[c]]
  /\ check' = [i \in Checks |-> IF check[i].user = u THEN [NoCheck EXCEPT !.status = "DELETED"] ELSE check[i]]
  /\ UNCHANGED <<audited, req>>

------------------------------------------------------------------------------
\* A write found nothing to change or was refused, or the process died.
GiveUp(r) ==
  /\ req[r].pc # "idle"
  /\ Finish(r)
  /\ UNCHANGED <<account, signedIn, code, check, audited>>

Begin(r) ==
  \/ \E u \in Users :
       \/ \E e \in Emails : ReadForRegister(r, u, e) \/ ReadForSocial(r, u, e)
       \/ ReadForResend(r, u)
       \/ \E c \in Codes, right \in BOOLEAN : ReadForVerify(r, u, c, right)
       \/ \E kind \in Kinds : ReadForProfile(r, u, kind)
       \/ ReadForCheck(r, u)
       \/ \E email \in Emails \cup {None}, status \in Statuses \cup {None} : ReadForEdit(r, u, email, status)
  \/ \E i \in Checks, result \in Results : ReadWebhook(r, i, result)

Continue(r) ==
  \/ CreatePasswordUser(r) \/ CreateSocialUser(r)
  \/ InvalidateCode(r) \/ SendCode(r) \/ IncrementAttempts(r) \/ ConsumeCode(r) \/ MarkEmailVerified(r)
  \/ UpsertProfile(r)
  \/ UpdateResultIfPending(r) \/ TransitionFromPendingApproval(r)
  \/ UpdateForAdmin(r)
  \/ \E c \in Codes : CreateCode(r, c)
  \/ \E i \in Checks : CreateCheck(r, i)
  \/ GiveUp(r)

Next == \/ \E r \in Requests : Begin(r) \/ Continue(r)
        \/ \E u \in Users : LogIn(u) \/ DeleteUserAccount(u)

Spec == Init /\ [][Next]_vars

------------------------------------------------------------------------------
(* Properties                                                              *)

\* A status no administrator has touched was earned, in whatever order the
\* handlers of the account ran and died: beyond the e-mail step a password
\* account has used a code, beyond the profile step it has a profile, and a
\* decision is one that the provider gave in a check of this account.
StatusIsEarned ==
  \A u \in Users : Exists(u) /\ u \notin audited =>
    /\ account[u].status # "PENDING_EMAIL_VERIFICATION" =>
         account[u].social \/ \E c \in Codes : code[c].user = u /\ code[c].status = "CONSUMED"
    /\ account[u].status \in {"PENDING_APPROVAL", "APPROVED", "REJECTED"} => account[u].profiles # {}
    /\ account[u].status \in {"APPROVED", "REJECTED"} =>
         \E i \in Checks : check[i].user = u /\ check[i].status = account[u].status

\* A decision is reversed by an administrator's edit only: two checks of one
\* account that end differently, a repeated or late webhook and a manual
\* decision in between leave the first one standing
\* (transitionFromPendingApproval).
Decided == {"APPROVED", "REJECTED"}
FirstDecisionStands ==
  [][\A u \in Users :
       account[u].status \in Decided /\ account'[u].status \in Decided /\ account'[u].status # account[u].status
         => \E r \in Requests : req[r].pc = "edit" /\ req[r].u = u /\ req'[r].pc = "idle"]_vars
=============================================================================
