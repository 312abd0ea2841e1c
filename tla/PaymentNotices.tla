--------------------------- MODULE PaymentNotices ---------------------------
(***************************************************************************)
(* The deliveries of the provider's notices to the requests of Payments.   *)
(* The provider sends a notice of each change of a payment and repeats it  *)
(* until a delivery is answered with 200.  The webhook answers so whenever *)
(* the handler returns, also when it found no attempt; only what it throws *)
(* becomes a 5xx, and the notice comes again.                              *)
(***************************************************************************)
EXTENDS Payments

VARIABLES owed,      \* notices sent whose delivery was not acknowledged yet
          answering  \* the notice each request was begun for

noticeVars == <<vars, owed, answering>>

Notices == PayIds \X Outcomes
NoNotice == <<NoPay, "none">>

NoticesInit == Init /\ owed = {} /\ answering = [r \in Requests |-> NoNotice]

-----------------------------------------------------------------------------
\* The notices of what this step changes at the provider.
Sent == {<<p, provider'[p]>> : p \in {q \in PayIds : provider'[q] # provider[q]}}

\* The ledger refuses the event for want of the percentage: the error leaves the
\* transaction, the handler and the webhook.
Throws(r) == /\ req[r].pc = "apply" /\ req[r].st = "approved"
             /\ Resolvable(req[r].a)
             /\ ~ commissionSet

\* A delivery of notice n is handled; another may be under way.
Deliver(r, n) == /\ n \in owed
                 /\ ReadNotified(r, n[1])
                 /\ answering' = [answering EXCEPT ![r] = n]
                 /\ UNCHANGED owed

\* A request goes on; with its last step it acknowledges the notice it answers.
Work(r) ==
  LET ends == req'[r] = Idle IN
  /\ Continue(r)
  /\ answering' = IF ends THEN [answering EXCEPT ![r] = NoNotice] ELSE answering
  /\ owed' = (owed \cup Sent) \ (IF ends /\ ~ Throws(r) THEN {answering[r]} ELSE {})

\* A request that dies acknowledges nothing.
Die(r) == /\ Crash(r)
          /\ answering' = [answering EXCEPT ![r] = NoNotice]
          /\ UNCHANGED owed

\* Requests of the two parties begin, and the world around changes.
Ask(r) == /\ \/ \E w \in BOOLEAN : ReadForDigitalPayment(r, w)
             \/ ReadLatestAttempt(r)
             \/ \E role \in Roles : ReadForCash(r, role)
          /\ UNCHANGED <<owed, answering>>
Elsewhere == Environment /\ owed' = owed \cup Sent /\ UNCHANGED answering

NoticesNext ==
  \/ Elsewhere
  \/ \E r \in Requests : Ask(r) \/ Work(r) \/ Die(r) \/ \E n \in Notices : Deliver(r, n)

\* Requests run on unless they die, and a notice is delivered again as long as it
\* is owed, also when requests of the parties keep the handlers busy.
FairSpec ==
  /\ NoticesInit /\ [][NoticesNext]_noticeVars
  /\ \A r \in Requests : WF_noticeVars(Work(r))
  /\ \A n \in Notices : SF_noticeVars(\E r \in Requests : Deliver(r, n))

-----------------------------------------------------------------------------
\* Claim of the models and the errors (a later notification will resolve a PENDING
\* attempt): while the commission percentage stays configured, an open attempt
\* whose charge the provider has decided is eventually resolved.
DecidedIsEventuallyResolved ==
  <>[]commissionSet =>
    \A a \in Attempts :
      (/\ attempt[a].status = "PENDING"
       /\ provider[<<a, 1>>] \in {"approved", "rejected"})
        ~> (attempt[a].status # "PENDING")
=============================================================================
