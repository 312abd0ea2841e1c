------------------------------ MODULE Payments ------------------------------
(***************************************************************************)
(* The payment of ONE Engagement: the PaymentAttempt table, the            *)
(* Engagement's payment method, the payment events of the ledger, the      *)
(* external payment provider, and every request in flight on them: card    *)
(* charges, wallet checkouts, cash confirmations, provider notifications   *)
(* and the opportunistic reconciliation of a query.                        *)
(*                                                                         *)
(* A request is a sequence of database statements and provider calls with  *)
(* other requests running between them; each action below is one such      *)
(* statement, transaction or call.  Any request may die between two steps. *)
(***************************************************************************)
EXTENDS Integers, Sequences

CONSTANTS Attempts,      \* ids of PaymentAttempt rows, in creation order
          Requests,      \* requests that can be in flight at once
          Prices,        \* the prices the quote can have
          MaxPayments,   \* payments the customer can try in one wallet checkout
          MaxCrashes     \* requests that die between two steps

ASSUME AttemptsAssumption == Attempts \subseteq Nat \ {0}
ASSUME PricesAssumption   == Prices \subseteq Nat \ {0} /\ Prices # {}
ASSUME BoundsAssumption   == MaxPayments \in Nat \ {0} /\ MaxCrashes \in Nat

VARIABLES engStatus,     \* Engagement.status
          paymentMethod, \* Engagement.paymentMethod, "NONE" while null
          price,         \* quote.negotiatedPrice ?? quote.price
          lateProposal,  \* price of an acceptProposal request still in flight, or 0
          attempt,       \* the PaymentAttempt rows
          ledger,        \* payment events appended to the ledger, in order
          commissionSet, \* the commission percentage is configured
          provider,      \* the provider's payments (orders of card charges too)
          checkout,      \* attempts whose wallet redirect URL was handed out
          req,           \* the requests in flight
          crashes        \* requests that died so far (bound of the model)

engVars == <<engStatus, paymentMethod>>
quoteVars == <<price, lateProposal>>
provVars == <<provider, checkout>>
vars == <<engStatus, paymentMethod, price, lateProposal, attempt, ledger,
          commissionSet, provider, checkout, req, crashes>>

-----------------------------------------------------------------------------
EngagementStatuses == {"ACCEPTED", "IN_PROGRESS", "PENDING_CUSTOMER_CONFIRMATION",
                       "COMPLETED", "CANCELLED"}
PaymentMethods == {"MERCADOPAGO", "CASH"}
AttemptStatuses == {"NONE", "PENDING", "APPROVED", "REJECTED"}
Roles == {"CUSTOMER", "PROFESSIONAL"}
Outcomes == {"pending", "approved", "rejected"}

\* <<a, k>> is the k-th payment made for attempt a; a card charge has only k = 1,
\* because the attempt's id is the idempotency key of the charge.
PayIds == Attempts \X (1..MaxPayments)
NoPay == <<0, 0>>

AttemptRow == [method : PaymentMethods \cup {"NONE"}, status : AttemptStatuses,
               amount : Nat, providerId : PayIds \cup {NoPay},
               confirmed : SUBSET Roles]
NoRow == [method |-> "NONE", status |-> "NONE", amount |-> 0,
          providerId |-> NoPay, confirmed |-> {}]

LedgerEvents == [type : {"CUSTOMER_CHARGE", "CASH_COMMISSION_DEBT"}, amount : Nat]

Pcs == {"idle", "create", "charge", "preference", "apply", "findById", "findByRef",
        "fetch", "confirm"}
Request == [pc : Pcs, wallet : BOOLEAN, a : Attempts \cup {0},
            p : PayIds \cup {NoPay}, st : Outcomes \cup {"none"},
            role : Roles \cup {"none"}, amount : Nat]
Idle == [pc |-> "idle", wallet |-> FALSE, a |-> 0, p |-> NoPay, st |-> "none",
         role |-> "none", amount |-> 0]

TypeOK ==
  /\ engStatus \in EngagementStatuses
  /\ paymentMethod \in PaymentMethods \cup {"NONE"}
  /\ price \in Prices
  /\ lateProposal \in Prices \cup {0}
  /\ attempt \in [Attempts -> AttemptRow]
  /\ ledger \in Seq(LedgerEvents)
  /\ commissionSet \in BOOLEAN
  /\ provider \in [PayIds -> Outcomes \cup {"none"}]
  /\ checkout \subseteq Attempts
  /\ req \in [Requests -> Request]
  /\ crashes \in 0..MaxCrashes

-----------------------------------------------------------------------------
(* Helpers: the predicates of the database statements.                     *)

Payable == {"IN_PROGRESS", "PENDING_CUSTOMER_CONFIRMATION", "COMPLETED"}

\* Rows matched by the partial unique index PaymentAttempt_engagementId_active_key.
Active == {a \in Attempts : attempt[a].status \in {"PENDING", "APPROVED"}}

\* The row the next INSERT creates.
IsNext(a) == /\ attempt[a].status = "NONE"
             /\ \A b \in Attempts : b < a => attempt[b].status # "NONE"

\* a is the row of S created last (ORDER BY createdAt DESC).
IsLatest(a, S) == a \in S /\ \A b \in S : b <= a

\* Bound of the model: no id is left for another row.
NoRowLeft == \A a \in Attempts : attempt[a].status # "NONE"

\* Variant: the resolution forgets that another request may have resolved the row.
ResolvableInAnyState(a) == attempt[a].status # "NONE"

\* The WHERE clause of resolveIfPending.
Resolvable(a) == attempt[a].status = "PENDING"

\* The WHERE clause of attachProviderPaymentIdIfPending.
Attachable(a) == attempt[a].status = "PENDING" /\ attempt[a].providerId = NoPay

\* setPaymentMethodIfUnset: the method once m has been offered.
MethodIfUnset(m) == IF paymentMethod = "NONE" THEN m ELSE paymentMethod

\* The provider charges what the attempt it was asked for had frozen.
AmountOf(p) == attempt[p[1]].amount

\* An approved payment is applied only to an attempt of the same amount.
Reconciles(st, p, a) == st = "approved" => AmountOf(p) = attempt[a].amount

\* The row after resolveIfPending; a recorded provider id is never blanked out.
Resolved(row, status, p) ==
  [row EXCEPT !.status = status, !.providerId = IF p = NoPay THEN @ ELSE p]

Finish(r) == req' = [req EXCEPT ![r] = Idle]

\* Continue request r with the outcome (st, p) for attempt a.
GoApply(r, a, p, st) ==
  req' = [req EXCEPT ![r] = [Idle EXCEPT !.pc = "apply", !.a = a, !.p = p, !.st = st]]

-----------------------------------------------------------------------------
Init ==
  /\ engStatus = "ACCEPTED"
  /\ paymentMethod = "NONE"
  /\ price \in Prices
  /\ lateProposal \in Prices \cup {0}
  /\ attempt = [a \in Attempts |-> NoRow]
  /\ ledger = <<>>
  /\ commissionSet = TRUE
  /\ provider = [p \in PayIds |-> "none"]
  /\ checkout = {}
  /\ req = [r \in Requests |-> Idle]
  /\ crashes = 0

(* Environment: the Engagement's own life and the quote's price.            *)

\* The guarded status updates of the engagements repository.
MoveEngagement(from, to) ==
  /\ engStatus \in from
  /\ engStatus' = to
  /\ UNCHANGED <<paymentMethod, quoteVars, attempt, ledger, commissionSet, provVars,
                 req, crashes>>

StartWorkIfAccepted == MoveEngagement({"ACCEPTED"}, "IN_PROGRESS")
FinishWorkIfInProgress ==
  MoveEngagement({"IN_PROGRESS"}, "PENDING_CUSTOMER_CONFIRMATION")
CompleteIfPendingCustomerConfirmation ==
  MoveEngagement({"PENDING_CUSTOMER_CONFIRMATION"}, "COMPLETED")
CancelIfActive == MoveEngagement({"ACCEPTED", "IN_PROGRESS"}, "CANCELLED")

\* A price-proposal acceptance that passed its checks before the quote was
\* accepted commits after it: setNegotiatedPrice does not look at the quote.
SetNegotiatedPrice ==
  /\ lateProposal # 0
  /\ price' = lateProposal
  /\ lateProposal' = 0
  /\ UNCHANGED <<engVars, attempt, ledger, commissionSet, provVars, req, crashes>>

\* An administrator breaks or repairs the commission percentage.
SetCommission(b) ==
  /\ commissionSet # b
  /\ commissionSet' = b
  /\ UNCHANGED <<engVars, quoteVars, attempt, ledger, provVars, req, crashes>>

-----------------------------------------------------------------------------
(* payEngagementWithCard and startEngagementWalletPayment                  *)

\* Preconditions and billing context, read before anything is written.
ReadForDigitalPayment(r, w) ==
  /\ req[r] = Idle
  /\ engStatus \in Payable
  /\ paymentMethod # "CASH"
  /\ req' = [req EXCEPT ![r] = [Idle EXCEPT !.pc = "create", !.wallet = w,
                                            !.amount = price]]
  /\ UNCHANGED <<engVars, quoteVars, attempt, ledger, commissionSet, provVars, crashes>>

\* createPending: the unique index admits the row only if no attempt is active.
CreatePending(r) ==
  /\ req[r].pc = "create"
  /\ Active = {}
  /\ \E a \in Attempts :
       /\ IsNext(a)
       /\ attempt' = [attempt EXCEPT ![a] =
                        [NoRow EXCEPT !.method = "MERCADOPAGO", !.status = "PENDING",
                                      !.amount = req[r].amount]]
       /\ req' = [req EXCEPT ![r] =
                    [Idle EXCEPT !.pc = IF req[r].wallet THEN "preference" ELSE "charge",
                                 !.a = a]]
  /\ UNCHANGED <<engVars, quoteVars, ledger, commissionSet, provVars, crashes>>

\* P2002: the slot is taken, the request ends with a conflict error.
CreatePendingConflict(r) ==
  /\ req[r].pc = "create"
  /\ Active # {} \/ NoRowLeft
  /\ Finish(r)
  /\ UNCHANGED <<engVars, quoteVars, attempt, ledger, commissionSet, provVars, crashes>>

\* The provider creates the charge and its answer arrives.
ChargeCardAnswered(r) ==
  /\ req[r].pc = "charge"
  /\ \E st \in Outcomes :
       /\ provider' = [provider EXCEPT ![<<req[r].a, 1>>] = st]
       /\ GoApply(r, req[r].a, <<req[r].a, 1>>, st)
  /\ UNCHANGED <<engVars, quoteVars, attempt, ledger, commissionSet, checkout, crashes>>

\* The provider refuses the request, or is not configured: no charge exists.
ChargeCardRefused(r) ==
  /\ req[r].pc = "charge"
  /\ GoApply(r, req[r].a, NoPay, "rejected")
  /\ UNCHANGED <<engVars, quoteVars, attempt, ledger, commissionSet, provVars, crashes>>

\* Timeout, 5xx or an unreadable answer: a charge may exist; the attempt is left
\* PENDING.
ChargeCardUnknown(r) ==
  /\ req[r].pc = "charge"
  /\ \/ \E st \in Outcomes : provider' = [provider EXCEPT ![<<req[r].a, 1>>] = st]
     \/ UNCHANGED provider
  /\ Finish(r)
  /\ UNCHANGED <<engVars, quoteVars, attempt, ledger, commissionSet, checkout, crashes>>

\* createWalletPreference answers with the redirect URL; the attempt stays PENDING.
CreatePreference(r) ==
  /\ req[r].pc = "preference"
  /\ checkout' = checkout \cup {req[r].a}
  /\ Finish(r)
  /\ UNCHANGED <<engVars, quoteVars, attempt, ledger, commissionSet, provider, crashes>>

\* Any failure of createWalletPreference rejects the attempt.
CreatePreferenceFailed(r) ==
  /\ req[r].pc = "preference"
  /\ GoApply(r, req[r].a, NoPay, "rejected")
  /\ UNCHANGED <<engVars, quoteVars, attempt, ledger, commissionSet, provVars, crashes>>

-----------------------------------------------------------------------------
(* ApplyPaymentResultService.apply: the one way an outcome is written.     *)

\* One transaction: the CAS, the ledger event and the payment method.
ApplyApproved(r) ==
  LET a == req[r].a IN
  /\ req[r].pc = "apply" /\ req[r].st = "approved"
  /\ Resolvable(a)
  /\ commissionSet
  /\ attempt' = [attempt EXCEPT ![a] = Resolved(@, "APPROVED", req[r].p)]
  /\ ledger' = Append(ledger, [type |-> "CUSTOMER_CHARGE", amount |-> attempt[a].amount])
  /\ paymentMethod' = MethodIfUnset("MERCADOPAGO")
  /\ Finish(r)
  /\ UNCHANGED <<engStatus, quoteVars, commissionSet, provVars, crashes>>

ApplyRejected(r) ==
  LET a == req[r].a IN
  /\ req[r].pc = "apply" /\ req[r].st = "rejected"
  /\ Resolvable(a)
  /\ attempt' = [attempt EXCEPT ![a] = Resolved(@, "REJECTED", req[r].p)]
  /\ Finish(r)
  /\ UNCHANGED <<engVars, quoteVars, ledger, commissionSet, provVars, crashes>>

\* The provider has not decided: only its id is recorded, on an open attempt.
ApplyPending(r) ==
  LET a == req[r].a IN
  /\ req[r].pc = "apply" /\ req[r].st = "pending"
  /\ Attachable(a)
  /\ attempt' = [attempt EXCEPT ![a].providerId = req[r].p]
  /\ Finish(r)
  /\ UNCHANGED <<engVars, quoteVars, ledger, commissionSet, provVars, crashes>>

\* Nothing to write: the attempt was resolved before, or the id is known, or the
\* ledger refused the event and the whole transaction rolled back.
ApplyNothing(r) ==
  /\ req[r].pc = "apply"
  /\ \/ req[r].st = "pending" /\ ~Attachable(req[r].a)
     \/ req[r].st # "pending" /\ ~Resolvable(req[r].a)
     \/ req[r].st = "approved" /\ ~commissionSet
  /\ Finish(r)
  /\ UNCHANGED <<engVars, quoteVars, attempt, ledger, commissionSet, provVars, crashes>>

-----------------------------------------------------------------------------
(* The provider: wallet checkouts and payments that settle later.          *)

\* The customer pays in the checkout of attempt a, or tries again there when the
\* last payment was declined: the code never expires the checkout.
PayInCheckout(a) ==
  /\ a \in checkout
  /\ \E k \in 1..MaxPayments, st \in Outcomes :
       /\ \A j \in 1..MaxPayments :
            provider[<<a, j>>] = IF j < k THEN "rejected" ELSE "none"
       /\ provider' = [provider EXCEPT ![<<a, k>>] = st]
  /\ UNCHANGED <<engVars, quoteVars, attempt, ledger, commissionSet, checkout, req,
                 crashes>>

\* A pending payment (a 3DS challenge, a deferred method) is decided.
Settle(p) ==
  /\ provider[p] = "pending"
  /\ \E st \in {"approved", "rejected"} : provider' = [provider EXCEPT ![p] = st]
  /\ UNCHANGED <<engVars, quoteVars, attempt, ledger, commissionSet, checkout, req,
                 crashes>>

-----------------------------------------------------------------------------
(* HandleMercadoPagoNotificationService.execute                            *)

\* A notification about p arrives, first or repeated, and p is read back.
ReadNotified(r, p) ==
  /\ req[r] = Idle
  /\ provider[p] # "none"
  /\ req' = [req EXCEPT ![r] = [Idle EXCEPT !.pc = "findById", !.p = p,
                                            !.st = provider[p]]]
  /\ UNCHANGED <<engVars, quoteVars, attempt, ledger, commissionSet, provVars, crashes>>

\* The attempt is known: apply the outcome, unless the amounts do not agree.
ApplyFound(r, a) ==
  IF Reconciles(req[r].st, req[r].p, a)
    THEN GoApply(r, a, req[r].p, req[r].st)
    ELSE Finish(r)

\* findByProviderPaymentId
FindById(r) ==
  LET found == {a \in Attempts : attempt[a].providerId = req[r].p} IN
  /\ req[r].pc = "findById"
  /\ \/ \E a \in Attempts : IsLatest(a, found) /\ ApplyFound(r, a)
     \/ found = {} /\ req' = [req EXCEPT ![r].pc = "findByRef"]
  /\ UNCHANGED <<engVars, quoteVars, attempt, ledger, commissionSet, provVars, crashes>>

\* findPendingWithoutProviderIdByEngagementId: adopt the Engagement's open attempt
\* that has no provider id, of whatever method.
FindByRef(r) ==
  LET found == {a \in Attempts : Attachable(a)} IN
  /\ req[r].pc = "findByRef"
  /\ \/ \E a \in Attempts : IsLatest(a, found) /\ ApplyFound(r, a)
     \/ found = {} /\ Finish(r)
  /\ UNCHANGED <<engVars, quoteVars, attempt, ledger, commissionSet, provVars, crashes>>

-----------------------------------------------------------------------------
(* GetMyEngagementPaymentAttemptService: reconcile the latest attempt      *)

ReadLatestAttempt(r) ==
  /\ req[r] = Idle
  /\ \E a \in Attempts :
       /\ IsLatest(a, {b \in Attempts : attempt[b].status # "NONE"})
       /\ attempt[a].status = "PENDING" /\ attempt[a].providerId # NoPay
       /\ req' = [req EXCEPT ![r] = [Idle EXCEPT !.pc = "fetch", !.a = a,
                                                 !.p = attempt[a].providerId]]
  /\ UNCHANGED <<engVars, quoteVars, attempt, ledger, commissionSet, provVars, crashes>>

FetchAndReconcile(r) ==
  LET a == req[r].a
      p == req[r].p IN
  /\ req[r].pc = "fetch"
  /\ IF Reconciles(provider[p], p, a) THEN GoApply(r, a, p, provider[p]) ELSE Finish(r)
  /\ UNCHANGED <<engVars, quoteVars, attempt, ledger, commissionSet, provVars, crashes>>

-----------------------------------------------------------------------------
(* ConfirmCashPaymentService.confirmCashPayment                            *)

ReadForCash(r, role) ==
  /\ req[r] = Idle
  /\ engStatus \in Payable
  /\ paymentMethod # "MERCADOPAGO"
  /\ req' = [req EXCEPT ![r] = [Idle EXCEPT !.pc = "confirm", !.role = role,
                                            !.amount = price]]
  /\ UNCHANGED <<engVars, quoteVars, attempt, ledger, commissionSet, provVars, crashes>>

\* upsertCashConfirmation: the cash row after this confirmation, inserted or stamped.
Stamped(r, a) ==
  IF attempt[a].status = "NONE"
    THEN [NoRow EXCEPT !.method = "CASH", !.status = "PENDING",
                       !.amount = req[r].amount, !.confirmed = {req[r].role}]
    ELSE [attempt[a] EXCEPT !.confirmed = @ \cup {req[r].role}]

\* The row the INSERT ... ON CONFLICT writes: the active one if it is cash.
CashTarget(a) == IF Active = {} THEN IsNext(a)
                                ELSE a \in Active /\ attempt[a].method = "CASH"

\* Variant: the status of the row is not looked at again.
ConfirmedInAnyState(row) == row.confirmed = Roles
\* Variant: one party is enough.
OneConfirmed(row) == row.status = "PENDING" /\ row.confirmed # {}

BothConfirmed(row) == row.status = "PENDING" /\ row.confirmed = Roles

\* One transaction: fix the method, stamp the confirmation.
ConfirmOneParty(r) ==
  /\ req[r].pc = "confirm"
  /\ \E a \in Attempts : /\ CashTarget(a)
                         /\ ~BothConfirmed(Stamped(r, a))
                         /\ attempt' = [attempt EXCEPT ![a] = Stamped(r, a)]
  /\ paymentMethod' = MethodIfUnset("CASH")
  /\ Finish(r)
  /\ UNCHANGED <<engStatus, quoteVars, ledger, commissionSet, provVars, crashes>>

\* The second party's transaction also approves the attempt and records the
\* commission debt, on the price this request read before the transaction.
ConfirmBothParties(r) ==
  /\ req[r].pc = "confirm"
  /\ commissionSet
  /\ \E a \in Attempts :
       /\ CashTarget(a)
       /\ BothConfirmed(Stamped(r, a))
       /\ attempt' = [attempt EXCEPT ![a] = Resolved(Stamped(r, a), "APPROVED", NoPay)]
  /\ ledger' = Append(ledger, [type |-> "CASH_COMMISSION_DEBT", amount |-> req[r].amount])
  /\ paymentMethod' = MethodIfUnset("CASH")
  /\ Finish(r)
  /\ UNCHANGED <<engStatus, quoteVars, commissionSet, provVars, crashes>>

\* A digital attempt holds the slot, or the debt cannot be computed: all rolls back.
ConfirmRolledBack(r) ==
  /\ req[r].pc = "confirm"
  /\ \/ \E a \in Active : attempt[a].method # "CASH"
     \/ Active = {} /\ NoRowLeft
     \/ ~commissionSet /\ \E a \in Attempts : CashTarget(a) /\ BothConfirmed(Stamped(r, a))
  /\ Finish(r)
  /\ UNCHANGED <<engVars, quoteVars, attempt, ledger, commissionSet, provVars, crashes>>

-----------------------------------------------------------------------------
\* The process dies, the database aborts or the provider is unreachable: the
\* request ends with what its earlier steps committed.
Crash(r) ==
  /\ req[r] # Idle
  /\ crashes < MaxCrashes
  /\ crashes' = crashes + 1
  /\ Finish(r)
  /\ UNCHANGED <<engVars, quoteVars, attempt, ledger, commissionSet, provVars>>

Apply(r) == ApplyApproved(r) \/ ApplyRejected(r) \/ ApplyPending(r) \/ ApplyNothing(r)

\* The next step of a request that has begun.
Continue(r) ==
  \/ CreatePending(r) \/ CreatePendingConflict(r)
  \/ ChargeCardAnswered(r) \/ ChargeCardRefused(r) \/ ChargeCardUnknown(r)
  \/ CreatePreference(r) \/ CreatePreferenceFailed(r)
  \/ Apply(r)
  \/ FindById(r) \/ FindByRef(r) \/ FetchAndReconcile(r)
  \/ ConfirmOneParty(r) \/ ConfirmBothParties(r) \/ ConfirmRolledBack(r)

\* A new request.
Begin(r) ==
  \/ \E w \in BOOLEAN : ReadForDigitalPayment(r, w)
  \/ \E p \in PayIds : ReadNotified(r, p)
  \/ ReadLatestAttempt(r)
  \/ \E role \in Roles : ReadForCash(r, role)

Environment ==
  \/ StartWorkIfAccepted \/ FinishWorkIfInProgress
  \/ CompleteIfPendingCustomerConfirmation \/ CancelIfActive
  \/ SetNegotiatedPrice
  \/ \E b \in BOOLEAN : SetCommission(b)
  \/ \E a \in Attempts : PayInCheckout(a)
  \/ \E p \in PayIds : Settle(p)

Next ==
  \/ Environment
  \/ \E r \in Requests : Begin(r) \/ Continue(r) \/ Crash(r)

Spec == Init /\ [][Next]_vars

\* The contract of the books this component implements: it sees of an attempt its
\* method, its status and its amount.
BookRow(a) == [method |-> attempt[a].method, status |-> attempt[a].status,
               amount |-> attempt[a].amount]
BookRows == [a \in Attempts |-> BookRow(a)]

Book == INSTANCE PaymentBook WITH Amounts <- Prices, row <- BookRows,
                                  books <- ledger, method <- paymentMethod

-----------------------------------------------------------------------------
(* Properties                                                              *)

Approved == {a \in Attempts : attempt[a].status = "APPROVED"}

\* The job is paid at most once in the books: whatever requests race, at most one
\* attempt is ever APPROVED and the ledger holds a payment event exactly when one
\* is (resolveIfPending's CAS, the unique index, the all-or-nothing transactions).
PaymentRecordedOnce ==
  /\ \A a, b \in Approved : a = b
  /\ (Approved # {}) <=> (ledger # <<>>)
  /\ Len(ledger) <= 1

\* Requests, races and a provider that repeats itself implement the contract of
\* PaymentBook: attempts open one at a time and are resolved once, with the ledger
\* event and the method.
ImplementsPaymentBook == Book!Init /\ [][Book!Next]_Book!vars

\* No phantom approval: an APPROVED attempt rests on the confirmation of both
\* parties or on a payment the provider approved for exactly the attempt's amount,
\* and the ledger charges that amount.
ApprovedIsBacked ==
  \A a \in Approved :
    LET p == attempt[a].providerId IN
    \/ /\ attempt[a].method = "CASH" /\ attempt[a].confirmed = Roles
       /\ ledger[1].type = "CASH_COMMISSION_DEBT"
    \/ /\ p # NoPay /\ provider[p] = "approved"
       /\ AmountOf(p) = attempt[a].amount
       /\ ledger[1] = [type |-> "CUSTOMER_CHARGE", amount |-> attempt[a].amount]

\* Engagement.paymentMethod tells the truth about the attempts although it is
\* written by two handlers in separate transactions: CASH exactly when a cash
\* attempt was opened, MERCADOPAGO only behind an approved digital attempt, and
\* never unset once an attempt is approved.
MethodFollowsAttempts ==
  /\ paymentMethod = "CASH" <=> \E a \in Attempts : attempt[a].method = "CASH"
  /\ paymentMethod = "MERCADOPAGO" => \E a \in Approved : attempt[a].method = "MERCADOPAGO"
  /\ Approved # {} => paymentMethod # "NONE"

\* A resolved attempt stays resolved, the amount of a row is frozen when it is
\* inserted, the ledger only grows and the method is fixed once: no late answer,
\* repeated notification or second confirmation rewrites history.
HistoryKept ==
  /\ \A a \in Attempts :
       /\ attempt[a].status \in {"APPROVED", "REJECTED"} =>
            attempt'[a].status = attempt[a].status
       /\ attempt[a].status # "NONE" => attempt'[a].amount = attempt[a].amount
  /\ ledger # <<>> => ledger' = ledger
  /\ paymentMethod # "NONE" => paymentMethod' = paymentMethod

HistoryIsFinal == [][HistoryKept]_vars

\* Claim of the schema (an Engagement can never be paid twice, nor by two methods
\* at once): the money the customer really parted with, at the provider or in
\* cash, is given once.
PaidOnce ==
  LET digital == {p \in PayIds : provider[p] = "approved"}
      cash == {a \in Approved : attempt[a].confirmed = Roles} IN
  /\ \A p, q \in digital : p = q
  /\ digital = {} \/ cash = {}

\* Claim of the repository: a cash attempt is never REJECTED.
CashNeverRejected ==
  \A a \in Attempts : attempt[a].method = "CASH" => attempt[a].status # "REJECTED"
=============================================================================
