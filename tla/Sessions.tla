------------------------------ MODULE Sessions ------------------------------
(***************************************************************************)
(* Login sessions and the reset of a forgotten password (src/auth,         *)
(* src/password-reset, and the reset an administrator forces).             *)
(*                                                                         *)
(* No transaction spans the four writes of a reset, nor the check of a     *)
(* password and the session opened for it; the model keeps every await     *)
(* between a read and a write, and between two writes.  The status of an   *)
(* account is what Accounts makes of it: here it may log in or not.        *)
(* A password is known by its epoch: how often it was written before.      *)
(* MaxAttempts stands for passwordReset.maxAttempts.                       *)
(***************************************************************************)
EXTENDS Accounts

CONSTANTS SessionIds,   \* ids of Session rows, in creation order
          ResetCodes,   \* ids of PasswordResetCode rows, in creation order
          MaxEpoch      \* bound on the password writes of an account

ASSUME IdsAssumption == SessionIds \subseteq Nat \ {0} /\ ResetCodes \subseteq Nat \ {0}
ASSUME EpochAssumption == MaxEpoch \in Nat

VARIABLES user,       \* the User rows, by what login reads of them
          session,    \* the Session rows
          resetCode,  \* the PasswordResetCode rows
          completed,  \* the epoch whose reset has last run to its end
          loginReq    \* the handlers in flight

sessionVars == <<user, session, resetCode, completed, loginReq>>

UserRow == [eligible : BOOLEAN, deleted : BOOLEAN, social : BOOLEAN, epoch : 0..MaxEpoch]
\* A session and a code remember the epoch in which they were made.
SessionRow == [status : {"NONE", "ACTIVE", "EXPIRED", "REVOKED", "DELETED"}, user : Users \cup {None},
               late : BOOLEAN, epoch : 0..MaxEpoch]
NoSession == [status |-> "NONE", user |-> None, late |-> FALSE, epoch |-> 0]
ResetRow == [status : {"NONE", "ACTIVE", "CONSUMED", "INVALIDATED", "DELETED"}, user : Users \cup {None},
             attempts : 0..MaxAttempts, epoch : 0..MaxEpoch]
NoReset == [status |-> "NONE", user |-> None, attempts |-> 0, epoch |-> 0]

\* What a handler carries: the account, the session or the code it found, and
\* the epoch it has begun.
LoginPcs == {"idle", "open", "expire", "revoke", "issue", "invalidate", "mismatch",
             "write", "consume", "others", "revokeAll"}
LoginRequest == [pc : LoginPcs, u : Users \cup {None}, s : SessionIds \cup {0}, c : ResetCodes \cup {0},
                 epoch : 0..MaxEpoch]
NoLogin == [pc |-> "idle", u |-> None, s |-> 0, c |-> 0, epoch |-> 0]

\* The types of the rows and of what handlers carry.
SessionsTypeOK ==
  /\ user \in [Users -> UserRow]
  /\ session \in [SessionIds -> SessionRow]
  /\ resetCode \in [ResetCodes -> ResetRow]
  /\ completed \in [Users -> 0..MaxEpoch]
  /\ loginReq \in [Requests -> LoginRequest]

------------------------------------------------------------------------------
(* Helpers                                                                 *)

FinishLogin(r) == loginReq' = [loginReq EXCEPT ![r] = NoLogin]
UserExists(u) == ~ user[u].deleted

\* The latest code that is neither consumed nor invalidated.
ActiveResets(u) == {c \in ResetCodes : resetCode[c].status = "ACTIVE" /\ resetCode[c].user = u}
IsActiveReset(u, c) == c \in ActiveResets(u) /\ \A d \in ActiveResets(u) : d <= c

\* The next row to insert.
IsNextSession(s) == session[s].status = "NONE" /\ \A t \in SessionIds : t < s => session[t].status # "NONE"
IsNextReset(c) == resetCode[c].status = "NONE" /\ \A d \in ResetCodes : d < c => resetCode[d].status # "NONE"

SessionsInit ==
  /\ user \in [Users -> UserRow]
  /\ \A u \in Users : user[u].eligible /\ ~ user[u].deleted /\ user[u].epoch = 0
  /\ session = [s \in SessionIds |-> NoSession]
  /\ resetCode = [c \in ResetCodes |-> NoReset]
  /\ completed = [u \in Users |-> 0]
  /\ loginReq = [r \in Requests |-> NoLogin]

------------------------------------------------------------------------------
(* Login, and what asks for a session                                      *)

\* login and socialLogin: the password is compared with the hash that was
\* read; a social account has none to compare.
ReadForLogin(r, u) ==
  /\ loginReq[r].pc = "idle"
  /\ UserExists(u)
  /\ user[u].eligible
  /\ loginReq' = [loginReq EXCEPT ![r] = [NoLogin EXCEPT !.pc = "open", !.u = u]]
  /\ UNCHANGED <<user, session, resetCode, completed>>

CreateSession(r, s) ==
  LET u == loginReq[r].u IN
  /\ loginReq[r].pc = "open"
  /\ UserExists(u)
  /\ IsNextSession(s)
  /\ session' = [session EXCEPT ![s] = [NoSession EXCEPT !.status = "ACTIVE", !.user = u, !.epoch = user[u].epoch]]
  /\ FinishLogin(r)
  /\ UNCHANGED <<user, resetCode, completed>>

\* expiresAt passes.
Elapse(s) ==
  /\ session[s].status = "ACTIVE"
  /\ ~ session[s].late
  /\ session' = [session EXCEPT ![s].late = TRUE]
  /\ UNCHANGED <<user, resetCode, completed, loginReq>>

\* loadEffectiveSession finds a row that is ACTIVE and late.
ReadLateSession(r, s) ==
  /\ loginReq[r].pc = "idle"
  /\ session[s].status = "ACTIVE"
  /\ session[s].late
  /\ loginReq' = [loginReq EXCEPT ![r] = [NoLogin EXCEPT !.pc = "expire", !.s = s]]
  /\ UNCHANGED <<user, session, resetCode, completed>>

ReadForLogout(r, s) ==
  /\ loginReq[r].pc = "idle"
  /\ session[s].status = "ACTIVE"
  /\ ~ session[s].late
  /\ loginReq' = [loginReq EXCEPT ![r] = [NoLogin EXCEPT !.pc = "revoke", !.s = s]]
  /\ UNCHANGED <<user, session, resetCode, completed>>

\* Both updates ask for the id only: they can meet a row that has ended.
MarkExpired(r) ==
  LET s == loginReq[r].s IN
  /\ loginReq[r].pc = "expire"
  /\ session[s].status # "DELETED"
  /\ session' = [session EXCEPT ![s].status = "EXPIRED"]
  /\ FinishLogin(r)
  /\ UNCHANGED <<user, resetCode, completed>>

MarkRevoked(r) ==
  LET s == loginReq[r].s IN
  /\ loginReq[r].pc = "revoke"
  /\ session[s].status # "DELETED"
  /\ session' = [session EXCEPT ![s].status = "REVOKED"]
  /\ FinishLogin(r)
  /\ UNCHANGED <<user, resetCode, completed>>

------------------------------------------------------------------------------
(* Reset codes                                                             *)

\* requestPasswordReset asks for an account that may log in with a password,
\* forceUserAccountPasswordReset for any; issueForUser then looks for the
\* latest active code and stops within its cooldown.
ReadForIssue(r, u, forced) ==
  /\ loginReq[r].pc = "idle"
  /\ UserExists(u)
  /\ forced \/ (user[u].eligible /\ ~ user[u].social)
  /\ \/ /\ ActiveResets(u) = {}
        /\ loginReq' = [loginReq EXCEPT ![r] = [NoLogin EXCEPT !.pc = "issue", !.u = u]]
     \/ \E c \in ResetCodes :
          /\ IsActiveReset(u, c)
          /\ loginReq' = [loginReq EXCEPT ![r] = [NoLogin EXCEPT !.pc = "invalidate", !.u = u, !.c = c]]
  /\ UNCHANGED <<user, session, resetCode, completed>>

InvalidateReset(r) ==
  LET c == loginReq[r].c IN
  /\ loginReq[r].pc = "invalidate"
  /\ resetCode[c].status # "DELETED"
  /\ resetCode' = [resetCode EXCEPT ![c].status = IF @ = "ACTIVE" THEN "INVALIDATED" ELSE @]
  /\ loginReq' = [loginReq EXCEPT ![r] = [@ EXCEPT !.pc = "issue", !.c = 0]]
  /\ UNCHANGED <<user, session, completed>>

CreateReset(r, c) ==
  LET u == loginReq[r].u IN
  /\ loginReq[r].pc = "issue"
  /\ UserExists(u)
  /\ IsNextReset(c)
  /\ resetCode' = [resetCode EXCEPT ![c] = [NoReset EXCEPT !.status = "ACTIVE", !.user = u, !.epoch = user[u].epoch]]
  /\ FinishLogin(r)
  /\ UNCHANGED <<user, session, completed>>

------------------------------------------------------------------------------
(* The reset                                                               *)

\* A submission of the active code, with a password that is not the current one,
\* goes on to hash it; a wrong code is counted.
ReadForReset(r, u, c, right) ==
  /\ loginReq[r].pc = "idle"
  /\ UserExists(u)
  /\ user[u].eligible
  /\ ~ user[u].social
  /\ IsActiveReset(u, c)
  /\ resetCode[c].attempts < MaxAttempts
  /\ loginReq' = [loginReq EXCEPT ![r] = IF right THEN [NoLogin EXCEPT !.pc = "write", !.u = u, !.c = c]
                                         ELSE [NoLogin EXCEPT !.pc = "mismatch", !.c = c]]
  /\ UNCHANGED <<user, session, resetCode, completed>>

\* Counted as far as the limit that stops the next attempt.
IncrementResetAttempts(r) ==
  LET c == loginReq[r].c IN
  /\ loginReq[r].pc = "mismatch"
  /\ resetCode[c].status # "DELETED"
  /\ resetCode' = [resetCode EXCEPT ![c].attempts = IF @ < MaxAttempts THEN @ + 1 ELSE @]
  /\ FinishLogin(r)
  /\ UNCHANGED <<user, session, completed>>

UpdatePasswordHash(r) ==
  LET u == loginReq[r].u IN
  /\ loginReq[r].pc = "write"
  /\ UserExists(u)
  /\ user[u].epoch < MaxEpoch
  /\ user' = [user EXCEPT ![u].epoch = @ + 1]
  /\ loginReq' = [loginReq EXCEPT ![r] = [@ EXCEPT !.pc = "consume", !.epoch = user[u].epoch + 1]]
  /\ UNCHANGED <<session, resetCode, completed>>

ConsumeReset(r) ==
  LET c == loginReq[r].c IN
  /\ loginReq[r].pc = "consume"
  /\ resetCode[c].status # "DELETED"
  /\ resetCode' = [resetCode EXCEPT ![c].status = "CONSUMED"]
  /\ loginReq' = [loginReq EXCEPT ![r].pc = "others"]
  /\ UNCHANGED <<user, session, completed>>

\* Every other code of the account that is still active; the variant takes the
\* older ones only.
OlderCodes(u, c) == {d \in ActiveResets(u) : d < c}
OtherCodes(u, c) == ActiveResets(u) \ {c}

InvalidateOtherActiveCodes(r) ==
  LET others == OtherCodes(loginReq[r].u, loginReq[r].c) IN
  /\ loginReq[r].pc = "others"
  /\ resetCode' = [c \in ResetCodes |-> IF c \in others THEN [resetCode[c] EXCEPT !.status = "INVALIDATED"]
                                        ELSE resetCode[c]]
  /\ loginReq' = [loginReq EXCEPT ![r] = [@ EXCEPT !.pc = "revokeAll", !.c = 0]]
  /\ UNCHANGED <<user, session, completed>>

RevokeAllActiveForUser(r) ==
  LET u == loginReq[r].u IN
  /\ loginReq[r].pc = "revokeAll"
  /\ session' = [s \in SessionIds |-> IF session[s].user = u /\ session[s].status = "ACTIVE"
                                      THEN [session[s] EXCEPT !.status = "REVOKED"] ELSE session[s]]
  /\ completed' = [completed EXCEPT ![u] = IF @ < loginReq[r].epoch THEN loginReq[r].epoch ELSE @]
  /\ FinishLogin(r)
  /\ UNCHANGED <<user, resetCode>>

------------------------------------------------------------------------------
(* The account, as Accounts moves it                                       *)

MoveStatus(u) ==
  /\ UserExists(u)
  /\ user' = [user EXCEPT ![u].eligible = ~ @]
  /\ UNCHANGED <<session, resetCode, completed, loginReq>>

DeleteUser(u) ==
  /\ UserExists(u)
  /\ user' = [user EXCEPT ![u].deleted = TRUE]
  /\ session' = [s \in SessionIds |-> IF session[s].user = u THEN [NoSession EXCEPT !.status = "DELETED"]
                                      ELSE session[s]]
  /\ resetCode' = [c \in ResetCodes |-> IF resetCode[c].user = u THEN [NoReset EXCEPT !.status = "DELETED"]
                                        ELSE resetCode[c]]
  /\ UNCHANGED <<completed, loginReq>>

\* A write was refused, or the process died.
GiveUpLogin(r) ==
  /\ loginReq[r].pc # "idle"
  /\ FinishLogin(r)
  /\ UNCHANGED <<user, session, resetCode, completed>>

BeginLogin(r) ==
  \/ \E u \in Users :
       \/ ReadForLogin(r, u)
       \/ \E c \in ResetCodes, right \in BOOLEAN : ReadForReset(r, u, c, right)
       \/ \E forced \in BOOLEAN : ReadForIssue(r, u, forced)
  \/ \E s \in SessionIds : ReadLateSession(r, s) \/ ReadForLogout(r, s)

ContinueLogin(r) ==
  \/ \E s \in SessionIds : CreateSession(r, s)
  \/ \E c \in ResetCodes : CreateReset(r, c)
  \/ MarkExpired(r) \/ MarkRevoked(r) \/ InvalidateReset(r) \/ IncrementResetAttempts(r)
  \/ UpdatePasswordHash(r) \/ ConsumeReset(r) \/ InvalidateOtherActiveCodes(r) \/ RevokeAllActiveForUser(r)
  \/ GiveUpLogin(r)

SessionsNext == \/ \E r \in Requests : BeginLogin(r) \/ ContinueLogin(r)
        \/ \E s \in SessionIds : Elapse(s)
        \/ \E u \in Users : MoveStatus(u) \/ DeleteUser(u)

SessionsSpec == SessionsInit /\ [][SessionsNext]_sessionVars

------------------------------------------------------------------------------
(* Properties                                                              *)

\* Once a reset has run to its end, every session opened and every code issued
\* before the password it wrote is over, although codes are issued, sessions
\* opened and other resets run between its four writes (the order that the
\* comment of ResetPasswordService insists on).
NothingOutlivesAReset ==
  /\ \A s \in SessionIds : session[s].status = "ACTIVE" => session[s].epoch >= completed[session[s].user]
  /\ \A c \in ResetCodes : resetCode[c].status = "ACTIVE" => resetCode[c].epoch >= completed[resetCode[c].user]

\* A session or a code that has ended never comes back, although expiry and
\* revocation write over each other and a reset consumes a code by its id
\* after two other writes.
Over == {"EXPIRED", "REVOKED", "CONSUMED", "INVALIDATED", "DELETED"}
EndedStaysEnded ==
  [][/\ \A s \in SessionIds : session[s].status \in Over => session'[s].status \in Over
     /\ \A c \in ResetCodes : resetCode[c].status \in Over => resetCode'[c].status \in Over]_sessionVars
=============================================================================
