--------------------------- MODULE PaymentGateway ---------------------------
(***************************************************************************)
(* The adapter of the payment provider, as ONE PaymentAttempt uses it: the *)
(* charge or the wallet checkout it asks for, the reads of the payments    *)
(* that follow, and the signed notices of the provider, beside an          *)
(* administrator who changes the credentials of the country one row at a   *)
(* time.                                                                   *)
(*                                                                         *)
(* Every call reads the settings anew, each with an await of its own, and  *)
(* takes the account of its credential for the provider's whole world: a   *)
(* payment of another account is a payment that does not exist.  What the  *)
(* callers do with an answer is the module Payments.                       *)
(***************************************************************************)
EXTENDS Naturals

CONSTANTS Accounts,  \* provider accounts an administrator has credentials of
          Blank,     \* a setting that was never given a value
          Tries,     \* payments the customer can make in one wallet checkout
          Callers,   \* calls of the adapter that can be in flight at once
          MaxEdits   \* edits of the settings (bound of the model)

ASSUME GatewayAssumption == Blank \notin Accounts /\ 1 \in Tries /\ Tries \subseteq Nat \ {0}

VARIABLES means,      \* how the attempt pays: by card or in the wallet
          sibling,    \* accounts that hold an older approved payment of the same engagement
          credential, \* the access token and the webhook secret, by their account
          usable,     \* the other settings that hold a usable value
          edits,      \* edits so far
          asked,      \* the charge or the checkout was asked for: it is, once
          made,       \* the provider's payments, by account and number
          late,       \* account with a charge request that is not processed yet
          page,       \* account of the checkout the customer was sent to
          calls,     \* the calls in flight
          heard,       \* what the callers were told for certain
          mixed,      \* the token and the secret once belonged to two accounts
          dropped     \* a notice was acknowledged without its payment

settingRows == <<credential, usable, edits, mixed>>
world == <<made, late, page>>
gatewayVars == <<means, sibling, settingRows, asked, world, calls, heard, dropped>>

-----------------------------------------------------------------------------
OtherRows == {"environment", "urls"}

\* Words of the Orders API ("accredited" is processed and accredited) and of the
\* Payments API.
OrderWords == {"processing", "processed", "accredited", "failed"}
RecordWords == {"in_process", "approved", "rejected"}
Words == OrderWords \cup RecordWords \cup {"refunded"}
Undecided == {"processing", "processed", "in_process"}
Collected == {"accredited", "approved", "refunded"}

PaymentIds == Accounts \X Tries
Paid(p) == made[p] \in Collected
Nowhere == \A p \in PaymentIds : made[p] = "none"

Stages == {"idle", "secret", "token", "environment", "urls", "sent", "answered"}
Replies == {"none", "ok", "bodyless", "declined", "unauthorized", "refused", "missing",
             "busy", "lost"}
NoCall == [op |-> "none", pc |-> "idle", n |-> 1, from |-> Blank, with |-> Blank,
           status |-> "none", word |-> "none", records |-> {}]
Call == [op : {"none", "create", "read", "notice", "details"}, pc : Stages, n : Tries,
         from : Accounts \cup {Blank}, with : Accounts \cup {Blank},
         status : Replies, word : Words \cup {"none"}, records : SUBSET {"own", "other"}]
Certain == {"approved", "rejected", "refused", "own", "other"}

CallsOK ==
  /\ calls \in [Callers -> Call]
  /\ \A c \in Callers : calls[c].pc \in {"idle", "secret", "token"} \/ calls[c].with \in Accounts

GatewayTypeOK ==
  /\ means \in {"card", "wallet"} /\ sibling \subseteq Accounts
  /\ credential \in [token : Accounts \cup {Blank}, secret : Accounts \cup {Blank}]
  /\ usable \subseteq OtherRows /\ edits \in Nat
  /\ asked \in BOOLEAN /\ mixed \in BOOLEAN /\ dropped \in BOOLEAN
  /\ made \in [PaymentIds -> Words \cup {"none"}]
  /\ late \in Accounts \cup {Blank} /\ page \in Accounts \cup {Blank}
  /\ CallsOK
  /\ heard \subseteq Tries \X Certain

-----------------------------------------------------------------------------
(* What an answer of the provider means.                                   *)

\* Variant: processed is paid, whatever its detail says.
ProcessedIsPaid(word) ==
  CASE word \in {"accredited", "processed"} -> "approved"
    [] word = "failed" -> "rejected"
    [] OTHER -> "pending"

\* Only the known final words decide; an unknown one leaves the attempt open.
MapOrderStatus(word) ==
  CASE word = "accredited" -> "approved"
    [] word = "failed" -> "rejected"
    [] OTHER -> "pending"

MapPaymentRecordStatus(word) ==
  CASE word = "approved" -> "approved"
    [] word = "rejected" -> "rejected"
    [] OTHER -> "pending"

\* Of a charge: a decline carries its order; a success without one, a timeout and
\* a provider that is busy say nothing; anything else created no order.
ChargeOutcome(status, word) ==
  CASE status = "ok" -> MapOrderStatus(word)
    [] status = "declined" /\ word # "none" -> MapOrderStatus(word)
    [] status \in {"bodyless", "busy", "lost"} -> "unknown"
    [] OTHER -> "refused"

\* Of a checkout: without a redirect URL nobody can pay in it.
PreferenceOutcome(status) == IF status = "ok" THEN "redirect" ELSE "refused"

\* Variant: a provider that is busy does not know the payment.
BusyIsUnknownPayment(status, word) ==
  CASE status = "ok" ->
         IF means = "card" THEN MapOrderStatus(word) ELSE MapPaymentRecordStatus(word)
    [] status \in {"missing", "busy"} -> "nothing"
    [] OTHER -> "unknown"

\* Of a read: only a 404 says that there is no such payment.
ReadOutcome(status, word) ==
  CASE status = "ok" ->
         IF means = "card" THEN MapOrderStatus(word) ELSE MapPaymentRecordStatus(word)
    [] status = "missing" -> "nothing"
    [] OTHER -> "unknown"

\* Of the records of the engagement, those with an exact link to this payment.
FindPaymentRecord(records) == records \cap {"own"}

-----------------------------------------------------------------------------
Say(n, what) == heard' = heard \cup ({<<n, what>>} \cap (Tries \X Certain))
Go(c, pc) == calls' = [calls EXCEPT ![c].pc = pc]
Hang(c) == calls' = [calls EXCEPT ![c] = NoCall]
AnsweredWith(c, status, word) ==
  calls' = [calls EXCEPT ![c].pc = "answered", ![c].status = status, ![c].word = word]

\* The call ends before anything is sent: only an attempt to pay is told so.
NotConfigured(c) ==
  /\ Hang(c)
  /\ IF calls[c].op = "create" THEN Say(1, "refused") ELSE UNCHANGED heard

GatewayInit ==
  /\ means \in {"card", "wallet"}
  /\ sibling \in SUBSET Accounts
  /\ \E a \in Accounts : credential \in [token : {a, Blank}, secret : {a, Blank}]
  /\ usable \in SUBSET OtherRows
  /\ edits = 0 /\ asked = FALSE /\ mixed = FALSE /\ dropped = FALSE
  /\ made = [p \in PaymentIds |-> "none"]
  /\ late = Blank /\ page = Blank
  /\ calls = [c \in Callers |-> NoCall]
  /\ heard = {}

-----------------------------------------------------------------------------
(* The calls                                                               *)

Start(c, call) == calls[c].pc = "idle" /\ calls' = [calls EXCEPT ![c] = call]

\* chargeCard or createWalletPreference, once for the attempt.
StartCreate(c) ==
  /\ ~ asked
  /\ asked' = TRUE
  /\ Start(c, [NoCall EXCEPT !.op = "create", !.pc = "token"])
  /\ UNCHANGED <<means, sibling, settingRows, world, heard, dropped>>

\* A debit card has no instalments: nothing is sent.
RefuseInstalments ==
  /\ ~ asked /\ means = "card"
  /\ asked' = TRUE
  /\ Say(1, "refused")
  /\ UNCHANGED <<means, sibling, settingRows, world, calls, dropped>>

\* getPayment or getPaymentByPaymentId, for a payment whose id was recorded.
StartRead(c, p) ==
  /\ made[p] # "none"
  /\ Start(c, [NoCall EXCEPT !.op = "read", !.pc = "token", !.n = p[2]])
  /\ UNCHANGED <<means, sibling, settingRows, asked, world, heard, dropped>>

\* The provider tells about a payment, first or again; the webhook checks who signed.
StartNotice(c, p) ==
  /\ made[p] # "none"
  /\ Start(c, [NoCall EXCEPT !.op = "notice", !.pc = "secret", !.n = p[2], !.from = p[1]])
  /\ UNCHANGED <<means, sibling, settingRows, asked, world, heard, dropped>>

\* getTransactionDetails, of a payment that is about to be recorded as approved.
StartDetails(c, n) ==
  /\ <<n, "approved">> \in heard
  /\ Start(c, [NoCall EXCEPT !.op = "details", !.pc = "token", !.n = n])
  /\ UNCHANGED <<means, sibling, settingRows, asked, world, heard, dropped>>

\* A notice with the wrong signature is answered 401, for the provider to repeat.
CheckSignature(c) ==
  /\ calls[c].pc = "secret"
  /\ IF credential.secret = calls[c].from THEN Go(c, "token") ELSE Hang(c)
  /\ UNCHANGED <<means, sibling, settingRows, asked, world, heard, dropped>>

ReadToken(c) ==
  /\ calls[c].pc = "token"
  /\ IF credential.token = Blank THEN NotConfigured(c)
     ELSE /\ calls' = [calls EXCEPT ![c].pc = "environment", ![c].with = credential.token]
          /\ UNCHANGED heard
  /\ UNCHANGED <<means, sibling, settingRows, asked, world, dropped>>

ReadEnvironment(c) ==
  /\ calls[c].pc = "environment"
  /\ IF "environment" \notin usable THEN NotConfigured(c)
     ELSE /\ Go(c, IF calls[c].op = "create" /\ means = "wallet" THEN "urls" ELSE "sent")
          /\ UNCHANGED heard
  /\ UNCHANGED <<means, sibling, settingRows, asked, world, dropped>>

ReadUrls(c) ==
  /\ calls[c].pc = "urls"
  /\ IF "urls" \notin usable THEN NotConfigured(c) ELSE Go(c, "sent") /\ UNCHANGED heard
  /\ UNCHANGED <<means, sibling, settingRows, asked, world, dropped>>

-----------------------------------------------------------------------------
(* The provider                                                            *)

\* Ways a charge is answered, by the state its order was created in.
AnswersTo(word) ==
  {"busy", "lost"} \cup
  CASE word = "none" -> {"bodyless", "declined", "unauthorized", "refused"}
    [] word = "failed" -> {"declined"}
    [] OTHER -> {"ok", "bodyless"}

Sent(c, op) == calls[c].pc = "sent" /\ calls[c].op = op

ProcessCharge(c) ==
  /\ Sent(c, "create") /\ means = "card"
  /\ \E word \in OrderWords \cup {"none"} : \E status \in AnswersTo(word) :
       /\ made' = [made EXCEPT ![<<calls[c].with, 1>>] = word]
       /\ AnsweredWith(c, status, IF status \in {"ok", "declined"} THEN word ELSE "none")
  /\ UNCHANGED <<means, sibling, settingRows, asked, late, page, heard, dropped>>

\* The request outlives its timeout, or the process that sent it.
OutliveCharge(c) ==
  /\ Sent(c, "create") /\ means = "card"
  /\ late' = calls[c].with
  /\ AnsweredWith(c, "lost", "none") \/ Hang(c)
  /\ UNCHANGED <<means, sibling, settingRows, asked, made, page, heard, dropped>>

ProcessLateCharge ==
  /\ late # Blank
  /\ \E word \in OrderWords : made' = [made EXCEPT ![<<late, 1>>] = word]
  /\ late' = Blank
  /\ UNCHANGED <<means, sibling, settingRows, asked, page, calls, heard, dropped>>

ProcessPreference(c) ==
  /\ Sent(c, "create") /\ means = "wallet"
  /\ \E status \in {"ok", "bodyless", "unauthorized", "refused", "busy", "lost"} :
       AnsweredWith(c, status, "none")
  /\ UNCHANGED <<means, sibling, settingRows, asked, world, heard, dropped>>

\* A payment is known to its account only.
ProcessRead(c) ==
  LET word == made[<<calls[c].with, calls[c].n>>] IN
  /\ Sent(c, "read") \/ Sent(c, "notice")
  /\ \/ \E status \in {"unauthorized", "busy", "lost"} : AnsweredWith(c, status, "none")
     \/ word = "none" /\ AnsweredWith(c, "missing", "none")
     \/ word # "none" /\ (AnsweredWith(c, "ok", word) \/ AnsweredWith(c, "bodyless", "none"))
  /\ UNCHANGED <<means, sibling, settingRows, asked, world, heard, dropped>>

\* A card's record is searched for among the approved ones of the engagement, a
\* wallet's is read by its own id.
Records(a, n) ==
  IF means = "card"
    THEN {x \in {"own", "other"} : IF x = "own" THEN made[<<a, n>>] = "accredited"
                                   ELSE a \in sibling}
    ELSE {x \in {"own"} : made[<<a, n>>] # "none"}

ProcessDetails(c) ==
  /\ Sent(c, "details")
  /\ \/ \E status \in {"missing", "unauthorized", "busy", "lost"} : AnsweredWith(c, status, "none")
     \/ calls' = [calls EXCEPT ![c].pc = "answered", ![c].status = "ok",
                                 ![c].records = Records(calls[c].with, calls[c].n)]
  /\ UNCHANGED <<means, sibling, settingRows, asked, world, heard, dropped>>

\* The customer pays on the page, or again there when the last payment was declined.
PayOnPage(n) ==
  /\ page # Blank /\ made[<<page, n>>] = "none"
  /\ \A m \in Tries : m < n => made[<<page, m>>] = "rejected"
  /\ \E word \in RecordWords : made' = [made EXCEPT ![<<page, n>>] = word]
  /\ UNCHANGED <<means, sibling, settingRows, asked, late, page, calls, heard, dropped>>

\* A payment that is not decided moves on; what was collected may be given back.
MoveOn(p) ==
  /\ \/ /\ made[p] \in Undecided
        /\ \E word \in IF means = "card" THEN OrderWords ELSE RecordWords :
             made' = [made EXCEPT ![p] = word]
     \/ /\ made[p] \in {"accredited", "approved"}
        /\ made' = [made EXCEPT ![p] = "refunded"]
  /\ UNCHANGED <<means, sibling, settingRows, asked, late, page, calls, heard, dropped>>

-----------------------------------------------------------------------------
(* The answers                                                             *)

AnswerCharge(c) ==
  /\ calls[c].pc = "answered" /\ calls[c].op = "create" /\ means = "card"
  /\ Say(1, ChargeOutcome(calls[c].status, calls[c].word))
  /\ Hang(c)
  /\ UNCHANGED <<means, sibling, settingRows, asked, world, dropped>>

AnswerPreference(c) ==
  /\ calls[c].pc = "answered" /\ calls[c].op = "create" /\ means = "wallet"
  /\ Say(1, PreferenceOutcome(calls[c].status))
  /\ page' = IF PreferenceOutcome(calls[c].status) = "redirect" THEN calls[c].with ELSE page
  /\ Hang(c)
  /\ UNCHANGED <<means, sibling, settingRows, asked, made, late, dropped>>

\* A notice without a payment is acknowledged; one that failed is repeated.
AnswerRead(c) ==
  LET outcome == ReadOutcome(calls[c].status, calls[c].word) IN
  /\ calls[c].pc = "answered" /\ calls[c].op \in {"read", "notice"}
  /\ Say(calls[c].n, outcome)
  /\ dropped' = (dropped \/ (calls[c].op = "notice" /\ outcome = "nothing"))
  /\ Hang(c)
  /\ UNCHANGED <<means, sibling, settingRows, asked, world>>

AnswerDetails(c) ==
  /\ calls[c].pc = "answered" /\ calls[c].op = "details"
  /\ heard' = heard \cup ({calls[c].n} \X FindPaymentRecord(calls[c].records))
  /\ Hang(c)
  /\ UNCHANGED <<means, sibling, settingRows, asked, world, dropped>>

\* The process dies; a charge that was sent may be one the provider made.
CallDies(c) ==
  /\ calls[c].pc # "idle"
  /\ Hang(c)
  /\ UNCHANGED <<means, sibling, settingRows, asked, world, heard, dropped>>

-----------------------------------------------------------------------------
(* The administrator: one row at a time, never back to blank.              *)

SaveCredential(field, a) ==
  /\ edits < MaxEdits
  /\ edits' = edits + 1
  /\ credential' = [credential EXCEPT ![field] = a]
  /\ mixed' = (mixed \/ (/\ Blank \notin {credential'.token, credential'.secret}
                         /\ credential'.token # credential'.secret))
  /\ UNCHANGED <<means, sibling, usable, asked, world, calls, heard, dropped>>

SaveOther(s) ==
  /\ edits < MaxEdits
  /\ edits' = edits + 1
  /\ \E u \in {usable \cup {s}, usable \ {s}} : u # usable /\ usable' = u
  /\ UNCHANGED <<means, sibling, credential, mixed, asked, world, calls, heard, dropped>>

GatewayNext ==
  \/ RefuseInstalments \/ ProcessLateCharge
  \/ \E c \in Callers :
       \/ StartCreate(c) \/ CheckSignature(c) \/ ReadToken(c) \/ ReadEnvironment(c)
       \/ ReadUrls(c) \/ ProcessCharge(c) \/ OutliveCharge(c) \/ ProcessPreference(c)
       \/ ProcessRead(c) \/ ProcessDetails(c) \/ AnswerCharge(c) \/ AnswerPreference(c)
       \/ AnswerRead(c) \/ AnswerDetails(c) \/ CallDies(c)
       \/ \E p \in PaymentIds : StartRead(c, p) \/ StartNotice(c, p)
       \/ \E n \in Tries : StartDetails(c, n)
  \/ \E n \in Tries : PayOnPage(n)
  \/ \E p \in PaymentIds : MoveOn(p)
  \/ \E field \in {"token", "secret"}, a \in Accounts : SaveCredential(field, a)
  \/ \E s \in OtherRows : SaveOther(s)

GatewaySpec == GatewayInit /\ [][GatewayNext]_gatewayVars

-----------------------------------------------------------------------------
\* A certain answer is never taken back by the provider: what a caller was told is
\* paid was paid, and of what it was told is rejected, refused or not configured no
\* account ever collects anything, however late a request is processed and whatever
\* credentials were entered meanwhile; the details are those of the payment itself.
AnswersHold ==
  \A t \in heard :
    /\ t[2] = "approved" => \E a \in Accounts : Paid(<<a, t[1]>>)
    /\ t[2] = "rejected" => \A a \in Accounts : ~ Paid(<<a, t[1]>>)
    /\ t[2] = "refused" => \A p \in PaymentIds : ~ Paid(p)
    /\ t[2] # "other"

\* A notice of a payment is acknowledged and forgotten only if the token and the
\* secret in the settings belonged to two accounts at some moment: a provider that
\* is down, a rotation or a call that dies never costs one.
NoticeIsNotLost == dropped => mixed
=============================================================================
