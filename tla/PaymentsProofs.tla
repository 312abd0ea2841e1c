---------------------------- MODULE PaymentsProofs ----------------------------
(***************************************************************************)
(* Theorems about Payments for every set of attempts, requests and prices. *)
(***************************************************************************)
EXTENDS Payments, PaymentGateway, TLAPS

-----------------------------------------------------------------------------
(* Typing                                                                  *)

\* The idle request is a request, and the outcome a request carries to apply is one.
LEMMA IdleTyped == Idle \in Request
  BY DEF Idle, Request, Pcs, NoPay

\* A handler that goes on to apply a result is one.
LEMMA ApplyTyped ==
  ASSUME NEW a \in Attempts, NEW p \in PayIds \cup {NoPay}, NEW st \in Outcomes
  PROVE  [Idle EXCEPT !.pc = "apply", !.a = a, !.p = p, !.st = st] \in Request
  BY DEF Idle, Request, Pcs

\* Handlers stay handlers when one ends.
LEMMA FinishTyped ==
  ASSUME TypeOK, NEW r \in Requests, Finish(r)
  PROVE  req' \in [Requests -> Request]
  BY IdleTyped DEF TypeOK, Finish

\* Handlers stay handlers when one goes on to apply a result.
LEMMA GoApplyTyped ==
  ASSUME TypeOK, NEW r \in Requests, NEW a \in Attempts,
         NEW p \in PayIds \cup {NoPay}, NEW st \in Outcomes, GoApply(r, a, p, st)
  PROVE  req' \in [Requests -> Request]
<1>1. [Idle EXCEPT !.pc = "apply", !.a = a, !.p = p, !.st = st] \in Request
  BY ApplyTyped
<1> QED
  BY <1>1 DEF TypeOK, GoApply

\* A resolved row is a row.
LEMMA ResolvedTyped ==
  ASSUME NEW row \in AttemptRow, NEW status \in AttemptStatuses,
         NEW p \in PayIds \cup {NoPay}
  PROVE  Resolved(row, status, p) \in AttemptRow
  BY DEF Resolved, AttemptRow

\* A row that does not exist has its type.
LEMMA RowTyped == NoRow \in AttemptRow
  BY DEF NoRow, AttemptRow, AttemptStatuses, NoPay

\* The initial state is typed.
LEMMA InitTyped == Init => TypeOK
  BY IdleTyped, RowTyped, PricesAssumption, BoundsAssumption
     DEF Init, TypeOK, EngagementStatuses

\* The steps of the environment keep every variable in its type.
LEMMA EnvironmentTyped == TypeOK /\ Environment => TypeOK'
<1> SUFFICES ASSUME TypeOK, Environment PROVE TypeOK'
  OBVIOUS
<1> USE DEF engVars, quoteVars, provVars
<1>1. CASE StartWorkIfAccepted
  BY <1>1 DEF StartWorkIfAccepted, MoveEngagement, TypeOK, EngagementStatuses
<1>2. CASE FinishWorkIfInProgress
  BY <1>2 DEF FinishWorkIfInProgress, MoveEngagement, TypeOK, EngagementStatuses
<1>3. CASE CompleteIfPendingCustomerConfirmation
  BY <1>3 DEF CompleteIfPendingCustomerConfirmation, MoveEngagement, TypeOK,
              EngagementStatuses
<1>4. CASE CancelIfActive
  BY <1>4 DEF CancelIfActive, MoveEngagement, TypeOK, EngagementStatuses
<1>5. CASE SetNegotiatedPrice
  BY <1>5 DEF SetNegotiatedPrice, TypeOK
<1>6. CASE \E b \in BOOLEAN : SetCommission(b)
  BY <1>6 DEF SetCommission, TypeOK
<1>7. CASE \E a \in Attempts : PayInCheckout(a)
  BY <1>7 DEF PayInCheckout, TypeOK
<1>8. CASE \E p \in PayIds : Settle(p)
  BY <1>8 DEF Settle, TypeOK, Outcomes
<1> QED
  BY <1>1, <1>2, <1>3, <1>4, <1>5, <1>6, <1>7, <1>8 DEF Environment

\* The first step of every request keeps every variable in its type.
LEMMA BeginTyped ==
  ASSUME TypeOK, NEW r \in Requests, Begin(r)
  PROVE  TypeOK'
<1> USE DEF engVars, quoteVars, provVars
<1>1. ASSUME NEW w \in BOOLEAN, ReadForDigitalPayment(r, w) PROVE TypeOK'
  <2>1. [Idle EXCEPT !.pc = "create", !.wallet = w, !.amount = price] \in Request
    BY IdleTyped, PricesAssumption DEF TypeOK, Request, Pcs
  <2> QED
    BY <1>1, <2>1 DEF ReadForDigitalPayment, TypeOK
<1>2. ASSUME NEW p \in PayIds, ReadNotified(r, p) PROVE TypeOK'
  <2>1. [Idle EXCEPT !.pc = "findById", !.p = p, !.st = provider[p]] \in Request
    BY IdleTyped DEF TypeOK, Request, Pcs
  <2> QED
    BY <1>2, <2>1 DEF ReadNotified, TypeOK
<1>3. ASSUME ReadLatestAttempt(r) PROVE TypeOK'
  <2>1. PICK a \in Attempts :
          req' = [req EXCEPT ![r] = [Idle EXCEPT !.pc = "fetch", !.a = a,
                                                 !.p = attempt[a].providerId]]
    BY <1>3 DEF ReadLatestAttempt
  <2>2. attempt[a].providerId \in PayIds \cup {NoPay}
    BY DEF TypeOK, AttemptRow
  <2>3. [Idle EXCEPT !.pc = "fetch", !.a = a, !.p = attempt[a].providerId] \in Request
    BY <2>2, IdleTyped DEF Request, Pcs
  <2> QED
    BY <1>3, <2>1, <2>3 DEF ReadLatestAttempt, TypeOK
<1>4. ASSUME NEW role \in Roles, ReadForCash(r, role) PROVE TypeOK'
  <2>1. [Idle EXCEPT !.pc = "confirm", !.role = role, !.amount = price] \in Request
    BY IdleTyped, PricesAssumption DEF TypeOK, Request, Pcs
  <2> QED
    BY <1>4, <2>1 DEF ReadForCash, TypeOK
<1> QED
  BY <1>1, <1>2, <1>3, <1>4 DEF Begin

-----------------------------------------------------------------------------
\* What the program counter of a request says about its fields: a request that
\* works on an attempt has one, what it applies is an outcome, and the payment it
\* was told about exists at the provider.
RequestOK(r) ==
  /\ req[r].pc \in {"charge", "preference", "apply", "fetch"} => req[r].a \in Attempts
  /\ req[r].pc \in {"apply", "findById", "findByRef"} => req[r].st \in Outcomes
  /\ req[r].pc \in {"findById", "findByRef", "fetch"} => req[r].p \in PayIds
  /\ req[r].pc = "apply" /\ req[r].st \in {"approved", "pending"} => req[r].p \in PayIds
  /\ req[r].p # NoPay => provider[req[r].p] # "none"
  /\ req[r].pc = "confirm" => req[r].role \in Roles
  /\ req[r].pc \in {"create", "confirm"} => req[r].amount \in Prices

\* A recorded provider id is the id of a payment that exists.
IdsKnown ==
  \A a \in Attempts :
    attempt[a].providerId # NoPay => provider[attempt[a].providerId] # "none"

\* The inductive typing invariant: TypeOK alone is not preserved by apply, which
\* writes the attempt and the id its request carries.
Typing == TypeOK /\ IdsKnown /\ \A r \in Requests : RequestOK(r)

\* NoPay is no payment.
LEMMA NoPayIsNone == NoPay \notin PayIds
  BY AttemptsAssumption DEF NoPay, PayIds

\* A payment that exists at the provider never stops existing.
LEMMA ProviderGrows ==
  ASSUME Typing, Next, NEW p \in PayIds, provider[p] # "none"
  PROVE  provider'[p] # "none"
<1> USE DEF provVars
<1>1. \/ provider' = provider
      \/ \E q \in PayIds, st \in Outcomes : provider' = [provider EXCEPT ![q] = st]
  <2>1. CASE Environment
    BY <2>1 DEF Environment, StartWorkIfAccepted, FinishWorkIfInProgress,
       CompleteIfPendingCustomerConfirmation, CancelIfActive, MoveEngagement,
       SetNegotiatedPrice, SetCommission, PayInCheckout, Settle, PayIds, Outcomes
  <2>2. ASSUME NEW r \in Requests, Begin(r) PROVE provider' = provider
    BY <2>2 DEF Begin, ReadForDigitalPayment, ReadNotified, ReadLatestAttempt, ReadForCash
  <2>3. ASSUME NEW r \in Requests, Crash(r) PROVE provider' = provider
    BY <2>3 DEF Crash
  <2>4. ASSUME NEW r \in Requests, Continue(r) PROVE <1>1!1 \/ <1>1!2
    <3>1. CASE ChargeCardAnswered(r) \/ ChargeCardUnknown(r)
      <4>1. <<req[r].a, 1>> \in PayIds
        BY <3>1, BoundsAssumption
           DEF Typing, RequestOK, ChargeCardAnswered, ChargeCardUnknown, PayIds
      <4> QED
        BY <3>1, <4>1 DEF ChargeCardAnswered, ChargeCardUnknown
    <3>2. CASE CreatePending(r) \/ CreatePendingConflict(r) \/ ChargeCardRefused(r)
      BY <3>2 DEF CreatePending, CreatePendingConflict, ChargeCardRefused
    <3>3. CASE CreatePreference(r) \/ CreatePreferenceFailed(r)
      BY <3>3 DEF CreatePreference, CreatePreferenceFailed
    <3>4. CASE Apply(r)
      BY <3>4 DEF Apply, ApplyApproved, ApplyRejected, ApplyPending, ApplyNothing
    <3>5. CASE FindById(r) \/ FindByRef(r) \/ FetchAndReconcile(r)
      BY <3>5 DEF FindById, FindByRef, FetchAndReconcile
    <3>6. CASE ConfirmOneParty(r) \/ ConfirmBothParties(r) \/ ConfirmRolledBack(r)
      BY <3>6 DEF ConfirmOneParty, ConfirmBothParties, ConfirmRolledBack
    <3> QED
      BY <2>4, <3>1, <3>2, <3>3, <3>4, <3>5, <3>6 DEF Continue
  <2> QED
    BY <2>1, <2>2, <2>3, <2>4 DEF Next
<1> QED
  BY <1>1 DEF Typing, TypeOK, Outcomes

\* What a step of request r may do to the part of the state Typing is about.
Shape(r) ==
  /\ TypeOK' /\ RequestOK(r)'
  /\ \A q \in Requests \ {r} : req'[q] = req[q]
  /\ \A a \in Attempts :
       attempt'[a].providerId \in {attempt[a].providerId, NoPay, req[r].p}

\* A request that ends satisfies RequestOK.
LEMMA FinishOK ==
  ASSUME TypeOK, NEW r \in Requests, Finish(r)
  PROVE  RequestOK(r)' /\ \A q \in Requests \ {r} : req'[q] = req[q]
  BY DEF Finish, RequestOK, Idle, TypeOK

\* A request that goes on to apply a typed outcome satisfies RequestOK.
LEMMA GoApplyOK ==
  ASSUME TypeOK, NEW r \in Requests, NEW a \in Attempts, NEW p \in PayIds \cup {NoPay},
         NEW st \in Outcomes, GoApply(r, a, p, st),
         st \in {"approved", "pending"} => p \in PayIds,
         p # NoPay => provider'[p] # "none"
  PROVE  RequestOK(r)' /\ \A q \in Requests \ {r} : req'[q] = req[q]
  BY DEF GoApply, RequestOK, Idle, TypeOK

\* Opening an attempt and asking the provider.
LEMMA DigitalShape ==
  ASSUME Typing, Next, NEW r \in Requests,
         \/ CreatePending(r) \/ CreatePendingConflict(r)
         \/ ChargeCardAnswered(r) \/ ChargeCardRefused(r) \/ ChargeCardUnknown(r)
         \/ CreatePreference(r) \/ CreatePreferenceFailed(r)
  PROVE  Shape(r)
<1> USE DEF engVars, quoteVars, provVars
<1>1. CASE CreatePending(r)
  <2>1. PICK a \in Attempts :
          /\ attempt' = [attempt EXCEPT ![a] =
                           [NoRow EXCEPT !.method = "MERCADOPAGO", !.status = "PENDING",
                                         !.amount = req[r].amount]]
          /\ req' = [req EXCEPT ![r] =
                       [Idle EXCEPT !.pc = IF req[r].wallet THEN "preference" ELSE "charge",
                                    !.a = a]]
    BY <1>1 DEF CreatePending
  <2>2. [NoRow EXCEPT !.method = "MERCADOPAGO", !.status = "PENDING",
                      !.amount = req[r].amount] \in AttemptRow
    BY RowTyped DEF Typing, TypeOK, Request, AttemptRow, PaymentMethods, AttemptStatuses
  <2>3. attempt' \in [Attempts -> AttemptRow]
    BY <2>1, <2>2 DEF Typing, TypeOK
  <2>4. [Idle EXCEPT !.pc = IF req[r].wallet THEN "preference" ELSE "charge",
                     !.a = a] \in Request
    BY IdleTyped DEF Request, Pcs
  <2>5. TypeOK'
    BY <1>1, <2>1, <2>3, <2>4 DEF CreatePending, Typing, TypeOK
  <2>6. RequestOK(r)'
    BY <2>1 DEF Typing, RequestOK, TypeOK, Idle
  <2>7. \A b \in Attempts : attempt'[b].providerId \in {attempt[b].providerId, NoPay}
    BY <2>1 DEF Typing, TypeOK, NoRow
  <2> QED
    BY <2>1, <2>5, <2>6, <2>7 DEF Shape, Typing, TypeOK
<1>2. CASE CreatePendingConflict(r)
  BY <1>2, FinishTyped, FinishOK DEF CreatePendingConflict, Shape, Typing, TypeOK
<1>3. CASE ChargeCardAnswered(r)
  <2>1. PICK st \in Outcomes :
          /\ provider' = [provider EXCEPT ![<<req[r].a, 1>>] = st]
          /\ GoApply(r, req[r].a, <<req[r].a, 1>>, st)
    BY <1>3 DEF ChargeCardAnswered
  <2>2. req[r].a \in Attempts /\ <<req[r].a, 1>> \in PayIds
    BY <1>3, BoundsAssumption DEF Typing, RequestOK, ChargeCardAnswered, PayIds
  <2>3. provider' \in [PayIds -> Outcomes \cup {"none"}] /\ provider'[<<req[r].a, 1>>] # "none"
    BY <2>1, <2>2 DEF Typing, TypeOK, Outcomes
  <2>4. TypeOK'
    BY <1>3, <2>1, <2>2, <2>3, GoApplyTyped DEF ChargeCardAnswered, Typing, TypeOK
  <2> QED
    BY <1>3, <2>1, <2>2, <2>3, <2>4, GoApplyOK DEF ChargeCardAnswered, Shape, Typing
<1>4. CASE ChargeCardRefused(r)
  <2>1. req[r].a \in Attempts
    BY <1>4 DEF Typing, RequestOK, ChargeCardRefused
  <2>2. RequestOK(r)' /\ \A q \in Requests \ {r} : req'[q] = req[q]
    BY <1>4, <2>1, GoApplyOK DEF ChargeCardRefused, Typing, Outcomes
  <2>3. TypeOK'
    BY <1>4, <2>1, GoApplyTyped DEF ChargeCardRefused, Typing, TypeOK, Outcomes
  <2> QED
    BY <1>4, <2>2, <2>3 DEF ChargeCardRefused, Shape
<1>5. CASE ChargeCardUnknown(r)
  <2>1. <<req[r].a, 1>> \in PayIds
    BY <1>5, BoundsAssumption DEF Typing, RequestOK, ChargeCardUnknown, PayIds
  <2>2. provider' \in [PayIds -> Outcomes \cup {"none"}]
    BY <1>5, <2>1 DEF ChargeCardUnknown, Typing, TypeOK
  <2> QED
    BY <1>5, <2>2, FinishTyped, FinishOK DEF ChargeCardUnknown, Shape, Typing, TypeOK
<1>6. CASE CreatePreference(r)
  <2>1. req[r].a \in Attempts
    BY <1>6 DEF Typing, RequestOK, CreatePreference
  <2> QED
    BY <1>6, <2>1, FinishTyped, FinishOK DEF CreatePreference, Shape, Typing, TypeOK
<1>7. CASE CreatePreferenceFailed(r)
  <2>1. req[r].a \in Attempts
    BY <1>7 DEF Typing, RequestOK, CreatePreferenceFailed
  <2>2. RequestOK(r)' /\ \A q \in Requests \ {r} : req'[q] = req[q]
    BY <1>7, <2>1, GoApplyOK DEF CreatePreferenceFailed, Typing, Outcomes
  <2>3. TypeOK'
    BY <1>7, <2>1, GoApplyTyped DEF CreatePreferenceFailed, Typing, TypeOK, Outcomes
  <2> QED
    BY <1>7, <2>2, <2>3 DEF CreatePreferenceFailed, Shape
<1> QED
  BY <1>1, <1>2, <1>3, <1>4, <1>5, <1>6, <1>7

\* Writing an outcome.
LEMMA ApplyShape ==
  ASSUME Typing, NEW r \in Requests, Apply(r)
  PROVE  Shape(r)
<1> USE DEF engVars, quoteVars, provVars
<1>0. req[r].a \in Attempts /\ req[r].p \in PayIds \cup {NoPay} /\ attempt[req[r].a] \in AttemptRow
  BY DEF Typing, TypeOK, RequestOK, Request, Apply, ApplyApproved, ApplyRejected,
         ApplyPending, ApplyNothing
<1>1. CASE ApplyApproved(r)
  <2>1. Resolved(attempt[req[r].a], "APPROVED", req[r].p) \in AttemptRow
    BY <1>0, ResolvedTyped DEF AttemptStatuses
  <2>2. attempt' \in [Attempts -> AttemptRow]
    BY <1>1, <2>1 DEF ApplyApproved, Typing, TypeOK
  <2>3. ledger' \in Seq(LedgerEvents)
    BY <1>0, <1>1 DEF ApplyApproved, Typing, TypeOK, LedgerEvents, AttemptRow
  <2>4. paymentMethod' \in PaymentMethods \cup {"NONE"}
    BY <1>1 DEF ApplyApproved, MethodIfUnset, Typing, TypeOK, PaymentMethods
  <2>5. TypeOK'
    BY <1>1, <2>2, <2>3, <2>4, FinishTyped DEF ApplyApproved, Typing, TypeOK
  <2>6. \A a \in Attempts : attempt'[a].providerId \in {attempt[a].providerId, req[r].p}
    BY <1>0, <1>1 DEF ApplyApproved, Resolved, Typing, TypeOK, AttemptRow
  <2> QED
    BY <1>1, <2>5, <2>6, FinishOK DEF ApplyApproved, Shape, Typing
<1>2. CASE ApplyRejected(r)
  <2>1. Resolved(attempt[req[r].a], "REJECTED", req[r].p) \in AttemptRow
    BY <1>0, ResolvedTyped DEF AttemptStatuses
  <2>2. attempt' \in [Attempts -> AttemptRow]
    BY <1>2, <2>1 DEF ApplyRejected, Typing, TypeOK
  <2>3. TypeOK'
    BY <1>2, <2>2, FinishTyped DEF ApplyRejected, Typing, TypeOK
  <2>4. \A a \in Attempts : attempt'[a].providerId \in {attempt[a].providerId, req[r].p}
    BY <1>0, <1>2 DEF ApplyRejected, Resolved, Typing, TypeOK, AttemptRow
  <2> QED
    BY <1>2, <2>3, <2>4, FinishOK DEF ApplyRejected, Shape, Typing
<1>3. CASE ApplyPending(r)
  <2>1. attempt' \in [Attempts -> AttemptRow]
    BY <1>0, <1>3 DEF ApplyPending, Typing, TypeOK, AttemptRow
  <2>2. TypeOK'
    BY <1>3, <2>1, FinishTyped DEF ApplyPending, Typing, TypeOK
  <2>3. \A a \in Attempts : attempt'[a].providerId \in {attempt[a].providerId, req[r].p}
    BY <1>0, <1>3 DEF ApplyPending, Typing, TypeOK, AttemptRow
  <2> QED
    BY <1>3, <2>2, <2>3, FinishOK DEF ApplyPending, Shape, Typing
<1>4. CASE ApplyNothing(r)
  BY <1>4, FinishTyped, FinishOK DEF ApplyNothing, Shape, Typing, TypeOK
<1> QED
  BY <1>1, <1>2, <1>3, <1>4 DEF Apply

\* Going on with an attempt that was found.
LEMMA FoundShape ==
  ASSUME Typing, NEW r \in Requests, NEW a \in Attempts, ApplyFound(r, a),
         req[r].pc \in {"findById", "findByRef"},
         UNCHANGED <<engVars, quoteVars, attempt, ledger, commissionSet, provVars, crashes>>
  PROVE  Shape(r)
<1> USE DEF engVars, quoteVars, provVars
<1>1. req[r].p \in PayIds /\ req[r].st \in Outcomes /\ provider'[req[r].p] # "none"
  BY NoPayIsNone DEF Typing, RequestOK
<1>2. CASE Finish(r)
  BY <1>2, FinishTyped, FinishOK DEF Shape, Typing, TypeOK
<1>3. CASE GoApply(r, a, req[r].p, req[r].st)
  <2>1. RequestOK(r)' /\ \A q \in Requests \ {r} : req'[q] = req[q]
    BY <1>1, <1>3, GoApplyOK DEF Typing
  <2>2. req' \in [Requests -> Request]
    BY <1>1, <1>3, GoApplyTyped DEF Typing
  <2> QED
    BY <2>1, <2>2 DEF Shape, Typing, TypeOK
<1> QED
  BY <1>2, <1>3 DEF ApplyFound

\* Handling a notification and reconciling.
LEMMA NotificationShape ==
  ASSUME Typing, NEW r \in Requests, FindById(r) \/ FindByRef(r) \/ FetchAndReconcile(r)
  PROVE  Shape(r)
<1> USE DEF engVars, quoteVars, provVars
<1>1. CASE FindById(r)
  <2>1. CASE \E a \in Attempts : ApplyFound(r, a)
    BY <1>1, <2>1, FoundShape DEF FindById
  <2>2. CASE req' = [req EXCEPT ![r].pc = "findByRef"]
    <3>0. [req[r] EXCEPT !.pc = "findByRef"] \in Request
      BY DEF Typing, TypeOK, Request, Pcs
    <3>1. req' \in [Requests -> Request]
      BY <2>2, <3>0 DEF Typing, TypeOK
    <3>2. RequestOK(r)' /\ \A q \in Requests \ {r} : req'[q] = req[q]
      BY <1>1, <2>2 DEF FindById, Typing, TypeOK, RequestOK, Request
    <3> QED
      BY <1>1, <3>1, <3>2 DEF FindById, Shape, Typing, TypeOK
  <2> QED
    BY <1>1, <2>1, <2>2 DEF FindById
<1>2. CASE FindByRef(r)
  <2>1. CASE \E a \in Attempts : ApplyFound(r, a)
    BY <1>2, <2>1, FoundShape DEF FindByRef
  <2>2. CASE Finish(r)
    BY <1>2, <2>2, FinishTyped, FinishOK DEF FindByRef, Shape, Typing, TypeOK
  <2> QED
    BY <1>2, <2>1, <2>2 DEF FindByRef
<1>3. CASE FetchAndReconcile(r)
  <2>1. /\ req[r].a \in Attempts /\ req[r].p \in PayIds
        /\ provider[req[r].p] \in Outcomes /\ provider'[req[r].p] # "none"
    BY <1>3, NoPayIsNone DEF FetchAndReconcile, Typing, TypeOK, RequestOK
  <2>2. CASE Finish(r)
    BY <1>3, <2>2, FinishTyped, FinishOK DEF FetchAndReconcile, Shape, Typing, TypeOK
  <2>3. CASE GoApply(r, req[r].a, req[r].p, provider[req[r].p])
    <3>1. RequestOK(r)' /\ \A q \in Requests \ {r} : req'[q] = req[q]
      BY <2>1, <2>3, GoApplyOK DEF Typing
    <3>2. req' \in [Requests -> Request]
      BY <2>1, <2>3, GoApplyTyped DEF Typing
    <3> QED
      BY <1>3, <3>1, <3>2 DEF FetchAndReconcile, Shape, Typing, TypeOK
  <2> QED
    BY <1>3, <2>2, <2>3 DEF FetchAndReconcile
<1> QED
  BY <1>1, <1>2, <1>3

\* Confirming cash.
LEMMA CashShape ==
  ASSUME Typing, NEW r \in Requests,
         ConfirmOneParty(r) \/ ConfirmBothParties(r) \/ ConfirmRolledBack(r)
  PROVE  Shape(r)
<1> USE DEF engVars, quoteVars, provVars
<1>1. /\ req[r].role \in Roles /\ req[r].amount \in Nat
      /\ \A a \in Attempts : attempt[a] \in AttemptRow
  BY DEF Typing, TypeOK, RequestOK, Request, ConfirmOneParty, ConfirmBothParties,
         ConfirmRolledBack
<1>2. ASSUME NEW a \in Attempts
      PROVE  /\ Stamped(r, a) \in AttemptRow
             /\ Stamped(r, a).providerId \in {attempt[a].providerId, NoPay}
  BY <1>1, RowTyped DEF Stamped, AttemptRow, NoRow, AttemptStatuses, PaymentMethods
<1>3. paymentMethod' \in PaymentMethods \cup {"NONE"}
  BY DEF ConfirmOneParty, ConfirmBothParties, ConfirmRolledBack, engVars, MethodIfUnset,
         Typing, TypeOK, PaymentMethods
<1>4. CASE ConfirmOneParty(r)
  <2>1. PICK a \in Attempts : attempt' = [attempt EXCEPT ![a] = Stamped(r, a)]
    BY <1>4 DEF ConfirmOneParty
  <2>2. attempt' \in [Attempts -> AttemptRow]
    BY <1>2, <2>1 DEF Typing, TypeOK
  <2>3. \A b \in Attempts : attempt'[b].providerId \in {attempt[b].providerId, NoPay}
    BY <1>2, <2>1 DEF Typing, TypeOK
  <2> QED
    BY <1>3, <1>4, <2>2, <2>3, FinishTyped, FinishOK DEF ConfirmOneParty, Shape, Typing, TypeOK
<1>5. CASE ConfirmBothParties(r)
  <2>1. PICK a \in Attempts :
          attempt' = [attempt EXCEPT ![a] = Resolved(Stamped(r, a), "APPROVED", NoPay)]
    BY <1>5 DEF ConfirmBothParties
  <2>2. /\ Resolved(Stamped(r, a), "APPROVED", NoPay) \in AttemptRow
        /\ Resolved(Stamped(r, a), "APPROVED", NoPay).providerId \in {attempt[a].providerId, NoPay}
    <3>1. Resolved(Stamped(r, a), "APPROVED", NoPay) \in AttemptRow
      BY <1>2, ResolvedTyped DEF AttemptStatuses
    <3>2. Resolved(Stamped(r, a), "APPROVED", NoPay).providerId = Stamped(r, a).providerId
      BY <1>2 DEF Resolved, AttemptRow
    <3> QED
      BY <1>2, <3>1, <3>2
  <2>3. attempt' \in [Attempts -> AttemptRow]
    BY <2>1, <2>2 DEF Typing, TypeOK
  <2>4. \A b \in Attempts : attempt'[b].providerId \in {attempt[b].providerId, NoPay}
    BY <2>1, <2>2 DEF Typing, TypeOK
  <2>5. ledger' \in Seq(LedgerEvents)
    BY <1>1, <1>5 DEF ConfirmBothParties, Typing, TypeOK, LedgerEvents
  <2> QED
    BY <1>3, <1>5, <2>3, <2>4, <2>5, FinishTyped, FinishOK
       DEF ConfirmBothParties, Shape, Typing, TypeOK
<1>6. CASE ConfirmRolledBack(r)
  BY <1>6, FinishTyped, FinishOK DEF ConfirmRolledBack, Shape, Typing, TypeOK
<1> QED
  BY <1>4, <1>5, <1>6

\* Beginning a request, and dying.
LEMMA BeginShape ==
  ASSUME Typing, NEW r \in Requests, Begin(r) \/ Crash(r)
  PROVE  Shape(r)
<1> USE DEF engVars, quoteVars, provVars
<1>1. CASE Begin(r)
  <2>1. TypeOK'
    BY <1>1, BeginTyped DEF Typing
  <2>2. attempt' = attempt /\ provider' = provider
    BY <1>1 DEF Begin, ReadForDigitalPayment, ReadNotified, ReadLatestAttempt, ReadForCash
  <2>3. \A q \in Requests \ {r} : req'[q] = req[q]
    BY <1>1 DEF Begin, ReadForDigitalPayment, ReadNotified, ReadLatestAttempt, ReadForCash,
                Typing, TypeOK
  <2>4. ASSUME NEW w \in BOOLEAN, ReadForDigitalPayment(r, w) PROVE RequestOK(r)'
    BY <2>4 DEF ReadForDigitalPayment, RequestOK, Idle, Typing, TypeOK
  <2>5. ASSUME NEW p \in PayIds, ReadNotified(r, p) PROVE RequestOK(r)'
    BY <2>5 DEF ReadNotified, RequestOK, Idle, Typing, TypeOK
  <2>6. ASSUME ReadLatestAttempt(r) PROVE RequestOK(r)'
    <3>1. PICK a \in Attempts :
            /\ attempt[a].providerId # NoPay
            /\ req' = [req EXCEPT ![r] = [Idle EXCEPT !.pc = "fetch", !.a = a,
                                                      !.p = attempt[a].providerId]]
      BY <2>6 DEF ReadLatestAttempt
    <3>2. attempt[a].providerId \in PayIds /\ provider[attempt[a].providerId] # "none"
      BY <3>1 DEF Typing, TypeOK, AttemptRow, IdsKnown
    <3>3. /\ req'[r].pc = "fetch" /\ req'[r].a = a /\ req'[r].p = attempt[a].providerId
      BY <3>1 DEF Idle, Typing, TypeOK
    <3> QED
      BY <2>2, <3>2, <3>3 DEF RequestOK
  <2>7. ASSUME NEW role \in Roles, ReadForCash(r, role) PROVE RequestOK(r)'
    BY <2>7 DEF ReadForCash, RequestOK, Idle, Typing, TypeOK
  <2>8. RequestOK(r)'
    BY <1>1, <2>4, <2>5, <2>6, <2>7 DEF Begin
  <2> QED
    BY <2>1, <2>2, <2>3, <2>8 DEF Shape
<1>2. CASE Crash(r)
  <2>1. crashes' \in 0..MaxCrashes
    BY <1>2, BoundsAssumption DEF Crash, Typing, TypeOK
  <2> QED
    BY <1>2, <2>1, FinishTyped, FinishOK DEF Crash, Shape, Typing, TypeOK
<1> QED
  BY <1>1, <1>2

\* Typing is inductive.
LEMMA TypingStep == Typing /\ [Next]_vars => Typing'
<1> SUFFICES ASSUME Typing, [Next]_vars PROVE Typing'
  OBVIOUS
<1>1. CASE UNCHANGED vars
  BY <1>1 DEF vars, Typing, TypeOK, IdsKnown, RequestOK
<1>2. ASSUME Next, NEW r \in Requests, Shape(r) PROVE Typing'
  <2>1. IdsKnown'
    <3> SUFFICES ASSUME NEW a \in Attempts, attempt'[a].providerId # NoPay
                 PROVE  provider'[attempt'[a].providerId] # "none"
      BY DEF IdsKnown
    <3>1. attempt'[a].providerId \in PayIds
      BY <1>2 DEF Shape, TypeOK, AttemptRow
    <3>2. provider[attempt'[a].providerId] # "none"
      BY <1>2 DEF Shape, Typing, IdsKnown, RequestOK
    <3> QED
      BY <1>2, <3>1, <3>2, ProviderGrows
  <2>2. ASSUME NEW q \in Requests \ {r} PROVE RequestOK(q)'
    <3>1. req'[q] = req[q] /\ RequestOK(q)
      BY <1>2 DEF Shape, Typing
    <3>2. req[q].p \in PayIds \cup {NoPay}
      BY DEF Typing, TypeOK, Request
    <3>3. req[q].p # NoPay => provider'[req[q].p] # "none"
      BY <1>2, <3>1, <3>2, ProviderGrows DEF RequestOK
    <3> QED
      BY <3>1, <3>3 DEF RequestOK
  <2> QED
    BY <1>2, <2>1, <2>2 DEF Shape, Typing
<1>3. CASE Environment
  <2>1. TypeOK'
    BY <1>3, EnvironmentTyped DEF Typing
  <2>2. attempt' = attempt /\ req' = req
    BY <1>3 DEF Environment, StartWorkIfAccepted, FinishWorkIfInProgress,
       CompleteIfPendingCustomerConfirmation, CancelIfActive, MoveEngagement,
       SetNegotiatedPrice, SetCommission, PayInCheckout, Settle
  <2>3. \A p \in PayIds : provider[p] # "none" => provider'[p] # "none"
    BY <1>3, ProviderGrows DEF Next
  <2>4. IdsKnown'
    BY <2>2, <2>3 DEF Typing, TypeOK, AttemptRow, IdsKnown
  <2>5. ASSUME NEW q \in Requests PROVE RequestOK(q)'
    BY <2>2, <2>3 DEF Typing, TypeOK, Request, RequestOK
  <2> QED
    BY <2>1, <2>4, <2>5 DEF Typing
<1>4. ASSUME NEW r \in Requests, Begin(r) \/ Continue(r) \/ Crash(r) PROVE Typing'
  <2>1. Next
    BY <1>4 DEF Next
  <2>2. Shape(r)
    BY <1>4, <2>1, BeginShape, DigitalShape, ApplyShape, NotificationShape, CashShape
       DEF Continue
  <2> QED
    BY <1>2, <2>1, <2>2
<1> QED
  BY <1>1, <1>3, <1>4 DEF Next

\* The initial state satisfies the inductive typing invariant.
LEMMA TypingInit == Init => Typing
  BY InitTyped DEF Init, Typing, IdsKnown, RequestOK, NoRow, Idle

\* Every reachable state is typed: no interleaving of requests leaves an attempt, a
\* ledger event or a request with a value outside the program's enumerations.
THEOREM TypeCorrect == Spec => []TypeOK
<1>1. Init => Typing
  BY TypingInit
<1>2. Typing /\ [Next]_vars => Typing'
  BY TypingStep
<1>3. Typing => TypeOK
  BY DEF Typing
<1> QED
  BY <1>1, <1>2, <1>3, PTL DEF Spec

-----------------------------------------------------------------------------
(* The contract of the books, apart from the requests that implement it    *)

\* An empty book is right.
LEMMA BookInit == Book!Init => Book!BookInv
  BY DEF Book!Init, Book!BookInv, Book!BookTypeOK, Book!BookOK, Book!Active, Book!Approved, Book!Unused, Book!Methods

\* Opening keeps the books: nothing is active, so nothing is approved, and a cash
\* attempt makes the method CASH because an unset or CASH method is all there can be.
LEMMA BookOpen ==
  ASSUME Book!BookInv, NEW a \in Attempts, Book!Open(a)
  PROVE  Book!BookInv'
<1>1. PICK m \in Book!Methods, amount \in Prices :
        /\ BookRows' = [BookRows EXCEPT ![a] = [method |-> m, status |-> "PENDING", amount |-> amount]]
        /\ paymentMethod' = IF m = "CASH" /\ paymentMethod = "NONE" THEN "CASH" ELSE paymentMethod
  BY DEF Book!Open
<1>2. [method |-> m, status |-> "PENDING", amount |-> amount] \in Book!AttemptRows
  BY DEF Book!AttemptRows
<1>3. Book!BookTypeOK'
  BY <1>1, <1>2 DEF Book!Open, Book!BookInv, Book!BookTypeOK, Book!Methods
<1>4. Book!Approved = {} /\ Book!Active' = {a} /\ Book!Approved' = {}
  BY <1>1 DEF Book!Open, Book!BookInv, Book!BookTypeOK, Book!Active, Book!Approved
<1>5. paymentMethod \in {"NONE", "CASH"}
  BY <1>4 DEF Book!BookInv, Book!BookTypeOK, Book!BookOK, Book!Methods
<1>6. \A b \in Attempts : b # a => BookRows'[b] = BookRows[b]
  BY <1>1 DEF Book!BookInv, Book!BookTypeOK
<1>7. BookRows'[a].method = m /\ BookRows[a].method = "NONE"
  BY <1>1 DEF Book!Open, Book!BookInv, Book!BookTypeOK, Book!Unused
<1>8. paymentMethod' = "CASH" <=> \E b \in Attempts : BookRows'[b].method = "CASH"
  <2>1. CASE m = "CASH"
    BY <1>1, <1>5, <1>7, <2>1
  <2>2. CASE m # "CASH"
    BY <1>1, <1>6, <1>7, <2>2 DEF Book!BookInv, Book!BookOK
  <2> QED
    BY <2>1, <2>2
<1>9. paymentMethod' # "MERCADOPAGO"
  BY <1>1, <1>5
<1>10. ledger' = ledger /\ ledger = <<>> /\ Len(ledger) <= 1
  BY <1>4 DEF Book!Open, Book!BookInv, Book!BookOK
<1> QED
  BY <1>3, <1>4, <1>8, <1>9, <1>10 DEF Book!BookInv, Book!BookOK

\* A rejected attempt leaves the book right.
LEMMA BookReject ==
  ASSUME Book!BookInv, NEW a \in Attempts, Book!Reject(a)
  PROVE  Book!BookInv'
<1>1. BookRows[a] \in Book!AttemptRows
  BY DEF Book!Reject, Book!BookInv, Book!BookTypeOK, Book!Unused
<1>2. [BookRows[a] EXCEPT !.status = "REJECTED"] \in Book!AttemptRows
  BY <1>1 DEF Book!AttemptRows
<1>3. Book!BookTypeOK'
  BY <1>2 DEF Book!Reject, Book!BookInv, Book!BookTypeOK
<1>4. Book!Active' \subseteq Book!Active /\ Book!Approved' = Book!Approved
  BY DEF Book!Reject, Book!BookInv, Book!BookTypeOK, Book!Active, Book!Approved
<1>5. \A b \in Attempts : BookRows'[b].method = BookRows[b].method /\ BookRows'[b].amount = BookRows[b].amount
  BY <1>1 DEF Book!Reject, Book!BookInv, Book!BookTypeOK, Book!AttemptRows
<1> QED
  BY <1>3, <1>4, <1>5 DEF Book!Reject, Book!BookInv, Book!BookOK, Book!Entry, Book!Approved

\* Approving keeps the books: the approved attempt was the only active one, so
\* nothing had been approved or entered before.
LEMMA BookApprove ==
  ASSUME Book!BookInv, NEW a \in Attempts, Book!Approve(a)
  PROVE  Book!BookInv'
<1>1. BookRows[a] \in Book!AttemptRows
  BY DEF Book!Approve, Book!BookInv, Book!BookTypeOK, Book!Unused
<1>2. [BookRows[a] EXCEPT !.status = "APPROVED"] \in Book!AttemptRows
  BY <1>1 DEF Book!AttemptRows
<1>3. PICK e \in Book!Events : Book!Entry(a, e) /\ ledger' = Append(ledger, e)
  BY DEF Book!Approve
<1>4. paymentMethod' \in Book!Methods
  BY <1>1 DEF Book!Approve, Book!BookInv, Book!BookTypeOK, Book!AttemptRows
<1>5. Book!BookTypeOK'
  BY <1>2, <1>3, <1>4 DEF Book!Approve, Book!BookInv, Book!BookTypeOK
<1>6. Book!Approved = {} /\ Book!Active = {a}
  BY DEF Book!Approve, Book!BookInv, Book!BookOK, Book!Active, Book!Approved
<1>7. Book!Approved' = {a} /\ Book!Active' = {a}
  BY <1>6 DEF Book!Approve, Book!BookInv, Book!BookTypeOK, Book!Active, Book!Approved
<1>8. ledger = <<>>
  BY <1>6 DEF Book!BookInv, Book!BookOK
<1>9. Len(ledger') = 1 /\ ledger' # <<>>
  BY <1>3, <1>8
<1>10. \A b \in Attempts : BookRows'[b].method = BookRows[b].method /\ BookRows'[b].amount = BookRows[b].amount
  BY <1>1 DEF Book!Approve, Book!BookInv, Book!BookTypeOK, Book!AttemptRows
<1>11. paymentMethod' = "CASH" <=> \E b \in Attempts : BookRows'[b].method = "CASH"
  BY <1>10 DEF Book!Approve, Book!BookInv, Book!BookOK
<1>12. paymentMethod' = "MERCADOPAGO" => \E b \in Book!Approved' : BookRows'[b].method = "MERCADOPAGO"
  BY <1>6, <1>7, <1>10 DEF Book!Approve, Book!BookInv, Book!BookOK
<1>13. \A b \in Book!Approved' : Book!Entry(b, ledger[1])'
  <2>1. ledger'[1] = e
    BY <1>3, <1>8
  <2> QED
    BY <1>3, <1>7, <1>10, <2>1 DEF Book!Entry
<1> QED
  BY <1>4, <1>5, <1>7, <1>9, <1>11, <1>12, <1>13 DEF Book!BookInv, Book!BookOK, Book!Methods

\* The books are right in every behaviour of the contract.
LEMMA BookStep == Book!BookInv /\ [Book!Next]_Book!vars => Book!BookInv'
<1> SUFFICES ASSUME Book!BookInv, [Book!Next]_Book!vars PROVE Book!BookInv'
  OBVIOUS
<1>1. CASE UNCHANGED Book!vars
  BY <1>1 DEF Book!vars, Book!BookInv, Book!BookTypeOK, Book!BookOK, Book!Active, Book!Approved, Book!Entry
<1>2. CASE Book!Next
  BY <1>2, BookOpen, BookReject, BookApprove DEF Book!Next
<1> QED
  BY <1>1, <1>2

\* The contract: whatever attempts are opened and resolved, the ledger holds one
\* payment event exactly when one attempt is approved.
THEOREM BooksAreRight == Book!Spec => []Book!BookInv
  BY BookInit, BookStep, PTL DEF Book!Spec

-----------------------------------------------------------------------------
(* Payments implements PaymentBook                                         *)

\* A step that leaves method, status and amount of every attempt, the ledger and the
\* payment method alone is a stutter of the contract.
LEMMA Stutter ==
  ASSUME \A a \in Attempts : BookRow(a)' = BookRow(a),
         ledger' = ledger, paymentMethod' = paymentMethod
  PROVE  UNCHANGED Book!vars
<1>1. BookRows' = BookRows
  BY DEF BookRows
<1> QED
  BY <1>1 DEF Book!vars

\* A row that changed to what BookRow says changes the mapped rows there only.
LEMMA RowChanges ==
  ASSUME NEW a \in Attempts, NEW row, BookRow(a)' = row,
         \A b \in Attempts \ {a} : BookRow(b)' = BookRow(b)
  PROVE  BookRows' = [BookRows EXCEPT ![a] = row]
  BY DEF BookRows

\* The fields of a mapped row, and the mapped row of a resolved attempt.
LEMMA BookRowFields ==
  ASSUME NEW a
  PROVE  /\ BookRow(a).method = attempt[a].method
         /\ BookRow(a).status = attempt[a].status
         /\ BookRow(a).amount = attempt[a].amount
  BY DEF BookRow

\* The row of the book follows the status of the attempt.
LEMMA BookRowResolved ==
  ASSUME NEW a, NEW status
  PROVE  [BookRow(a) EXCEPT !.status = status]
           = [method |-> attempt[a].method, status |-> status, amount |-> attempt[a].amount]
  BY DEF BookRow

\* Under the contract's invariant an attempt that is active is the only one.
LEMMA ActiveMapped ==
  ASSUME Typing, Book!BookInv
  PROVE  /\ Book!Active = Active /\ Book!Approved = Approved
         /\ \A a, b \in Active : a = b
         /\ paymentMethod = "CASH" <=> \E a \in Attempts : attempt[a].method = "CASH"
         /\ paymentMethod = "MERCADOPAGO" => Approved # {}
         /\ \A a \in Attempts : BookRows[a] = BookRow(a)
<1>1. \A a \in Attempts : BookRows[a] = BookRow(a)
  BY DEF BookRows
<1>2. \A a \in Attempts : /\ BookRows[a].status = attempt[a].status
                          /\ BookRows[a].method = attempt[a].method
  BY <1>1, BookRowFields
<1>3. Book!Active = Active /\ Book!Approved = Approved
  BY <1>2 DEF Book!Active, Book!Approved, Active, Approved
<1>4. paymentMethod = "CASH" <=> \E a \in Attempts : attempt[a].method = "CASH"
  BY <1>2 DEF Book!BookInv, Book!BookOK
<1>5. paymentMethod = "MERCADOPAGO" => Approved # {}
  BY <1>3 DEF Book!BookInv, Book!BookOK
<1>6. \A a, b \in Active : a = b
  BY <1>3 DEF Book!BookInv, Book!BookOK
<1> QED
  BY <1>1, <1>3, <1>4, <1>5, <1>6

\* createPending opens a digital attempt.
LEMMA CreateSimulated ==
  ASSUME Typing, Book!BookInv, NEW r \in Requests, CreatePending(r)
  PROVE  Book!Next
<1>1. PICK a \in Attempts :
        /\ IsNext(a)
        /\ attempt' = [attempt EXCEPT ![a] =
                         [NoRow EXCEPT !.method = "MERCADOPAGO", !.status = "PENDING",
                                       !.amount = req[r].amount]]
  BY DEF CreatePending
<1>2. req[r].amount \in Prices /\ Active = {}
  BY DEF CreatePending, Typing, RequestOK
<1>3. /\ BookRow(a)' = [method |-> "MERCADOPAGO", status |-> "PENDING",
                        amount |-> req[r].amount]
      /\ \A b \in Attempts \ {a} : BookRow(b)' = BookRow(b)
  BY <1>1 DEF BookRow, NoRow, Typing, TypeOK
<1>4. BookRows' = [BookRows EXCEPT ![a] = [method |-> "MERCADOPAGO", status |-> "PENDING",
                                           amount |-> req[r].amount]]
  BY <1>3, RowChanges
<1>5. BookRows[a] = Book!Unused
  BY <1>1 DEF IsNext, Book!BookInv, Book!BookTypeOK, Book!AttemptRows, BookRows, BookRow
<1>6. Book!Open(a)
  BY <1>2, <1>4, <1>5, ActiveMapped
     DEF CreatePending, engVars, Book!Open, Book!Methods
<1> QED
  BY <1>6 DEF Book!Next

\* What resolveIfPending changes of a row: its status, and an id that was not known.
LEMMA ResolvedFields ==
  ASSUME NEW row \in AttemptRow, NEW status, NEW p
  PROVE  /\ Resolved(row, status, p).status = status
         /\ Resolved(row, status, p).method = row.method
         /\ Resolved(row, status, p).amount = row.amount
         /\ Resolved(row, status, p).confirmed = row.confirmed
         /\ Resolved(row, status, p).providerId = IF p = NoPay THEN row.providerId ELSE p
  BY DEF Resolved, AttemptRow

\* resolveIfPending changes the status of the mapped row.
LEMMA ResolveMapped ==
  ASSUME Typing, NEW a \in Attempts, NEW status, NEW p,
         attempt' = [attempt EXCEPT ![a] = Resolved(@, status, p)]
  PROVE  BookRows' = [BookRows EXCEPT ![a].status = status]
<1>1. attempt'[a] = Resolved(attempt[a], status, p) /\ attempt[a] \in AttemptRow
  BY DEF Typing, TypeOK
<1>2. /\ attempt'[a].status = status
      /\ attempt'[a].method = attempt[a].method
      /\ attempt'[a].amount = attempt[a].amount
  BY <1>1, ResolvedFields
<1>3. BookRow(a)' = [BookRow(a) EXCEPT !.status = status]
  BY <1>2, BookRowResolved DEF BookRow
<1>4. \A b \in Attempts \ {a} : BookRow(b)' = BookRow(b)
  BY DEF BookRow, Typing, TypeOK
<1>5. BookRows' = [BookRows EXCEPT ![a] = [BookRow(a) EXCEPT !.status = status]]
  BY <1>3, <1>4, RowChanges
<1>6. BookRows[a] = BookRow(a)
  BY DEF BookRows
<1> QED
  BY <1>5, <1>6

\* apply resolves the attempt, or changes nothing the contract sees.
LEMMA ApplySimulated ==
  ASSUME Typing, Book!BookInv, NEW r \in Requests, Apply(r)
  PROVE  Book!Next \/ UNCHANGED Book!vars
<1> USE DEF engVars
<1>0. /\ req[r].a \in Attempts /\ attempt[req[r].a] \in AttemptRow
      /\ BookRows[req[r].a] = BookRow(req[r].a)
  BY ActiveMapped DEF Typing, TypeOK, RequestOK, Apply, ApplyApproved, ApplyRejected,
         ApplyPending, ApplyNothing
<1>2. CASE ApplyApproved(r)
  <2>1. BookRows' = [BookRows EXCEPT ![req[r].a].status = "APPROVED"]
    BY <1>0, <1>2, ResolveMapped DEF ApplyApproved
  <2>2. BookRows[req[r].a].status = "PENDING" /\ BookRows[req[r].a] \in Book!AttemptRows
    BY <1>0, <1>2 DEF ApplyApproved, Resolvable, BookRow, Book!BookInv, Book!BookTypeOK,
                      Book!Unused
  <2>3. PICK e \in Book!Events : Book!Entry(req[r].a, e) /\ ledger' = Append(ledger, e)
    BY <1>0, <1>2, <2>2 DEF ApplyApproved, Book!Entry, Book!Events, Book!AttemptRows, BookRow
  <2>4. paymentMethod' = IF paymentMethod = "NONE" THEN BookRows[req[r].a].method
                                                   ELSE paymentMethod
    <3>1. paymentMethod # "CASH" => BookRows[req[r].a].method # "CASH"
      BY <1>0, ActiveMapped DEF BookRow
    <3> QED
      BY <1>2, <2>2, <3>1 DEF ApplyApproved, MethodIfUnset, Book!AttemptRows, Book!Methods
  <2>5. Book!Approve(req[r].a)
    BY <2>1, <2>2, <2>3, <2>4 DEF Book!Approve
  <2> QED
    BY <1>0, <2>5 DEF Book!Next
<1>3. CASE ApplyRejected(r)
  <2>1. BookRows' = [BookRows EXCEPT ![req[r].a].status = "REJECTED"]
    BY <1>0, <1>3, ResolveMapped DEF ApplyRejected
  <2>2. Book!Reject(req[r].a)
    <3>1. BookRows[req[r].a].status = "PENDING"
      BY <1>0, <1>3 DEF ApplyRejected, Resolvable, BookRow
    <3> QED
      BY <1>3, <2>1, <3>1 DEF ApplyRejected, Book!Reject
  <2> QED
    BY <1>0, <2>2 DEF Book!Next
<1>4. CASE ApplyPending(r)
  <2>1. \A b \in Attempts : BookRow(b)' = BookRow(b)
    BY <1>0, <1>4 DEF ApplyPending, BookRow, Typing, TypeOK, AttemptRow
  <2> QED
    BY <1>4, <2>1, Stutter DEF ApplyPending
<1>5. CASE ApplyNothing(r)
  BY <1>5, Stutter DEF ApplyNothing, BookRow
<1> QED
  BY <1>2, <1>3, <1>4, <1>5 DEF Apply

\* upsertCashConfirmation opens a cash attempt or leaves what the contract sees of
\* the active one alone; the second confirmation approves it.
LEMMA CashSimulated ==
  ASSUME Typing, Book!BookInv, NEW r \in Requests,
         ConfirmOneParty(r) \/ ConfirmBothParties(r) \/ ConfirmRolledBack(r)
  PROVE  Book!Next \/ UNCHANGED Book!vars
<1> USE DEF engVars
<1>1. CASE ConfirmOneParty(r)
  <2>1. PICK a \in Attempts : CashTarget(a) /\ attempt' = [attempt EXCEPT ![a] = Stamped(r, a)]
    BY <1>1 DEF ConfirmOneParty
  <2>2. /\ req[r].amount \in Prices
        /\ paymentMethod' = IF paymentMethod = "NONE" THEN "CASH" ELSE paymentMethod
        /\ ledger' = ledger
    BY <1>1 DEF ConfirmOneParty, MethodIfUnset, Typing, RequestOK
  <2>3. \A b \in Attempts \ {a} : BookRow(b)' = BookRow(b)
    BY <2>1 DEF BookRow, Typing, TypeOK
  <2>4. attempt'[a] = Stamped(r, a) /\ attempt[a] \in AttemptRow
    BY <2>1 DEF Typing, TypeOK
  <2>5. CASE Active = {}
    <3>1. attempt[a].status = "NONE"
      BY <2>1, <2>5 DEF CashTarget, IsNext
    <3>2. BookRow(a)' = [method |-> "CASH", status |-> "PENDING", amount |-> req[r].amount]
      BY <2>4, <3>1 DEF Stamped, NoRow, BookRow
    <3>3. BookRows' = [BookRows EXCEPT ![a] = [method |-> "CASH", status |-> "PENDING",
                                               amount |-> req[r].amount]]
      BY <2>3, <3>2, RowChanges
    <3>4. BookRows[a] = Book!Unused
      BY <3>1, ActiveMapped, BookRowFields DEF Book!BookInv, Book!BookTypeOK, Book!AttemptRows
    <3>5. Book!Open(a)
      BY <2>2, <2>5, <3>3, <3>4, ActiveMapped DEF Book!Open, Book!Methods
    <3> QED
      BY <3>5 DEF Book!Next
  <2>6. CASE Active # {}
    <3>1. attempt[a].status # "NONE" /\ attempt[a].method = "CASH"
      BY <2>1, <2>6 DEF CashTarget, Active
    <3>2. attempt'[a] = [attempt[a] EXCEPT !.confirmed = @ \cup {req[r].role}]
      BY <2>4, <3>1 DEF Stamped
    <3>3. BookRow(a)' = BookRow(a)
      BY <2>4, <3>2 DEF BookRow, AttemptRow
    <3>4. paymentMethod' = paymentMethod
      BY <2>2, <3>1, ActiveMapped
    <3> QED
      BY <2>2, <2>3, <3>3, <3>4, Stutter
  <2> QED
    BY <2>5, <2>6
<1>2. CASE ConfirmBothParties(r)
  <2>1. PICK a \in Attempts :
          /\ CashTarget(a) /\ BothConfirmed(Stamped(r, a))
          /\ attempt' = [attempt EXCEPT ![a] = Resolved(Stamped(r, a), "APPROVED", NoPay)]
    BY <1>2 DEF ConfirmBothParties
  <2>2. attempt[a] \in AttemptRow
    BY DEF Typing, TypeOK
  <2>3. attempt[a].status # "NONE"
    BY <2>1 DEF BothConfirmed, Stamped, NoRow, Roles
  <2>4. Stamped(r, a) = [attempt[a] EXCEPT !.confirmed = @ \cup {req[r].role}]
    BY <2>3 DEF Stamped
  <2>5. /\ Stamped(r, a) \in AttemptRow /\ Stamped(r, a).status = attempt[a].status
        /\ Stamped(r, a).method = attempt[a].method /\ Stamped(r, a).amount = attempt[a].amount
    BY <1>2, <2>2, <2>4, SMTT(30) DEF AttemptRow, ConfirmBothParties, Typing, RequestOK
  <2>6. attempt[a].status = "PENDING" /\ attempt[a].method = "CASH"
    BY <2>1, <2>3, <2>5 DEF BothConfirmed, CashTarget, IsNext
  <2>7. /\ attempt'[a].status = "APPROVED" /\ attempt'[a].method = attempt[a].method
        /\ attempt'[a].amount = attempt[a].amount
    <3>1. attempt'[a] = Resolved(Stamped(r, a), "APPROVED", NoPay)
      BY <2>1 DEF Typing, TypeOK
    <3> QED
      BY <2>5, <3>1, ResolvedFields
  <2>8. BookRow(a)' = [BookRow(a) EXCEPT !.status = "APPROVED"]
    BY <2>7, BookRowResolved DEF BookRow
  <2>9. \A b \in Attempts \ {a} : BookRow(b)' = BookRow(b)
    BY <2>1 DEF BookRow, Typing, TypeOK
  <2>10. BookRows' = [BookRows EXCEPT ![a].status = "APPROVED"]
    BY <2>8, <2>9, RowChanges, ActiveMapped
  <2>11. BookRows[a].status = "PENDING" /\ BookRows[a].method = "CASH"
    BY <2>6, ActiveMapped, BookRowFields
  <2>12. \E e \in Book!Events : Book!Entry(a, e) /\ ledger' = Append(ledger, e)
    BY <1>2, <2>11 DEF ConfirmBothParties, Book!Entry, Book!Events, Typing, RequestOK
  <2>13. paymentMethod' = paymentMethod /\ paymentMethod = "CASH"
    BY <1>2, <2>6, ActiveMapped DEF ConfirmBothParties, MethodIfUnset
  <2>14. Book!Approve(a)
    BY <2>10, <2>11, <2>12, <2>13 DEF Book!Approve
  <2> QED
    BY <2>14 DEF Book!Next
<1>3. CASE ConfirmRolledBack(r)
  BY <1>3, Stutter DEF ConfirmRolledBack, BookRow
<1> QED
  BY <1>1, <1>2, <1>3

\* Every step is a step of the contract or a stutter.
LEMMA StepSimulated ==
  ASSUME Typing, Book!BookInv, [Next]_vars
  PROVE  [Book!Next]_Book!vars
<1> USE DEF engVars
<1>1. CASE UNCHANGED vars
  BY <1>1, Stutter DEF vars, BookRow
<1>2. CASE Environment
  BY <1>2, Stutter DEF Environment, StartWorkIfAccepted, FinishWorkIfInProgress,
     CompleteIfPendingCustomerConfirmation, CancelIfActive, MoveEngagement,
     SetNegotiatedPrice, SetCommission, PayInCheckout, Settle, BookRow
<1>3. ASSUME NEW r \in Requests, Begin(r) \/ Crash(r) PROVE UNCHANGED Book!vars
  BY <1>3, Stutter DEF Begin, ReadForDigitalPayment, ReadNotified, ReadLatestAttempt,
     ReadForCash, Crash, BookRow
<1>4. ASSUME NEW r \in Requests, Continue(r) PROVE [Book!Next]_Book!vars
  <2>1. CASE \/ CreatePendingConflict(r) \/ ChargeCardAnswered(r) \/ ChargeCardRefused(r)
             \/ ChargeCardUnknown(r) \/ CreatePreference(r) \/ CreatePreferenceFailed(r)
             \/ FindById(r) \/ FindByRef(r) \/ FetchAndReconcile(r)
    BY <2>1, Stutter DEF CreatePendingConflict, ChargeCardAnswered, ChargeCardRefused,
       ChargeCardUnknown, CreatePreference, CreatePreferenceFailed, FindById, FindByRef,
       FetchAndReconcile, BookRow
  <2> QED
    BY <1>4, <2>1, CreateSimulated, ApplySimulated, CashSimulated DEF Continue
<1> QED
  BY <1>1, <1>2, <1>3, <1>4 DEF Next

\* The initial states of the component are initial states of the contract.
LEMMA InitSimulated == Init => Book!Init
  BY DEF Init, Book!Init, Book!Unused, BookRows, BookRow, NoRow

\* The contract's invariant holds of every reachable state: it and the typing
\* invariant together are inductive.
LEMMA BookInvariant == Spec => [](Typing /\ Book!BookInv)
<1>1. Init => Typing /\ Book!BookInv
  BY TypingInit, InitSimulated, BookInit
<1>2. Typing /\ Book!BookInv /\ [Next]_vars => (Typing /\ Book!BookInv)'
  BY TypingStep, StepSimulated, BookStep
<1> QED
  BY <1>1, <1>2, PTL DEF Spec

\* The requests on an Engagement, in any interleaving and whatever the provider
\* does, implement the contract of PaymentBook.
THEOREM PaymentsImplementsBook == Spec => ImplementsPaymentBook
<1>1. Typing /\ Book!BookInv /\ [Next]_vars => [Book!Next]_Book!vars
  BY StepSimulated
<1> QED
  BY <1>1, InitSimulated, BookInvariant, PTL DEF Spec, ImplementsPaymentBook

\* At most one attempt is ever approved, and the ledger holds its payment event and
\* no other: no race of card, wallet, cash and notifications pays twice in the books.
THEOREM PaymentRecordedOnceHolds == Spec => []PaymentRecordedOnce
<1>1. Typing /\ Book!BookInv => PaymentRecordedOnce
  BY ActiveMapped DEF PaymentRecordedOnce, Book!BookInv, Book!BookOK, Active, Approved
<1> QED
  BY <1>1, BookInvariant, PTL

\* The Engagement's payment method agrees with its attempts.
THEOREM MethodFollowsAttemptsHolds == Spec => []MethodFollowsAttempts
<1>1. ASSUME Typing, Book!BookInv PROVE MethodFollowsAttempts
  <2>1. Book!BookOK /\ Book!Approved = Approved
    BY <1>1, ActiveMapped DEF Book!BookInv
  <2>2. \A a \in Attempts : BookRows[a].method = attempt[a].method
    BY <1>1, ActiveMapped, BookRowFields
  <2> QED
    BY <2>1, <2>2, <1>1, ActiveMapped DEF MethodFollowsAttempts, Book!BookOK, Approved
<1> QED
  BY <1>1, BookInvariant, PTL

\* Every step keeps what is resolved, frozen, entered and fixed: it is a step of the
\* contract, and the contract rewrites nothing.
LEMMA HistoryStep ==
  ASSUME Typing, Book!BookInv, [Next]_vars
  PROVE  HistoryKept
<1>1. \A a \in Attempts :
        /\ BookRows[a].status = attempt[a].status /\ BookRows[a].amount = attempt[a].amount
        /\ BookRows'[a].status = attempt'[a].status
        /\ BookRows'[a].amount = attempt'[a].amount
  BY DEF BookRows, BookRow
<1>2. [Book!Next]_Book!vars
  BY StepSimulated
<1>3. BookRows \in [Attempts -> Book!AttemptRows \cup {Book!Unused}]
  BY DEF Book!BookInv, Book!BookTypeOK
<1>4. CASE UNCHANGED Book!vars
  BY <1>1, <1>4 DEF Book!vars, HistoryKept
<1>5. ASSUME NEW a \in Attempts, Book!Open(a) PROVE HistoryKept
  <2>1. ledger' = ledger /\ ledger = <<>> /\ attempt[a].status = "NONE"
    BY <1>1, <1>5
       DEF Book!Open, Book!Active, Book!Approved, Book!BookInv, Book!BookOK, Book!Unused
  <2>2. \A b \in Attempts \ {a} : BookRows'[b] = BookRows[b]
    BY <1>3, <1>5 DEF Book!Open
  <2>3. paymentMethod # "NONE" => paymentMethod' = paymentMethod
    BY <1>5 DEF Book!Open
  <2> QED
    BY <1>1, <2>1, <2>2, <2>3 DEF HistoryKept
<1>6. ASSUME NEW a \in Attempts, Book!Reject(a) \/ Book!Approve(a) PROVE HistoryKept
  <2>1. BookRows[a] \in Book!AttemptRows /\ attempt[a].status = "PENDING"
    BY <1>1, <1>3, <1>6 DEF Book!Reject, Book!Approve, Book!Unused
  <2>2. \A b \in Attempts \ {a} : BookRows'[b] = BookRows[b]
    BY <1>3, <1>6 DEF Book!Reject, Book!Approve
  <2>3. BookRows'[a].amount = BookRows[a].amount
    BY <1>3, <1>6, <2>1 DEF Book!Reject, Book!Approve, Book!AttemptRows
  <2>4. ledger # <<>> => ledger' = ledger
    BY <1>6 DEF Book!Reject, Book!Approve, Book!Active, Book!Approved,
                      Book!BookInv, Book!BookOK
  <2>5. paymentMethod # "NONE" => paymentMethod' = paymentMethod
    BY <1>6 DEF Book!Reject, Book!Approve
  <2> QED
    BY <1>1, <2>1, <2>2, <2>3, <2>4, <2>5 DEF HistoryKept
<1> QED
  BY <1>2, <1>4, <1>5, <1>6 DEF Book!Next

\* Nothing resolved, frozen, entered or fixed is ever rewritten: neither a late
\* answer nor a repeated notification nor a second confirmation changes it.
THEOREM HistoryIsFinalHolds == Spec => HistoryIsFinal
  BY HistoryStep, BookInvariant, PTL DEF Spec, HistoryIsFinal

-----------------------------------------------------------------------------
(* What stands behind an approval                                          *)

\* The row of attempt a has been inserted.
Created(a) == attempt[a].status # "NONE"

\* Nobody can have paid for attempt a yet: it has no checkout and no payment.
Untouched(a) ==
  /\ a \notin checkout
  /\ \A k \in 1..MaxPayments : provider[<<a, k>>] = "none"

\* The request is about to ask the provider for money, for the first time.
Asking(r) == req[r].pc \in {"charge", "preference"}

\* What a request in flight can rely on, however long ago it read it: its attempt
\* exists, nobody else asks the provider for that attempt, and an approval it was
\* told of is still one, of a payment of the attempt's amount.
RequestBacked(r) ==
  /\ req[r].pc \in {"charge", "preference", "apply", "fetch"} => Created(req[r].a)
  /\ Asking(r) => Untouched(req[r].a)
  /\ req[r].pc \in {"apply", "findById", "findByRef"} /\ req[r].st = "approved" =>
       provider[req[r].p] = "approved"
  /\ req[r].pc = "apply" /\ req[r].st = "approved" =>
       AmountOf(req[r].p) = attempt[req[r].a].amount

\* ApprovedIsBacked is not inductive: an approval is written by a request that was
\* told of it some steps earlier.
Backing ==
  /\ \A a \in Attempts : ~Created(a) => Untouched(a) /\ attempt[a].providerId = NoPay
  /\ \A r \in Requests : RequestBacked(r)
  /\ \A r, q \in Requests : Asking(r) /\ Asking(q) /\ req[r].a = req[q].a => r = q
  /\ ApprovedIsBacked

\* What no step does to a row: lose it, change its amount, or touch the evidence of
\* one that is approved.
RowKept(a) ==
  /\ Created(a) => Created(a)' /\ attempt'[a].amount = attempt[a].amount
  /\ ~Created(a) => attempt'[a].providerId = NoPay
  /\ attempt[a].status = "APPROVED" =>
       /\ attempt'[a].status = "APPROVED" /\ attempt'[a].method = attempt[a].method
       /\ attempt'[a].providerId = attempt[a].providerId
       /\ attempt[a].confirmed = Roles => attempt'[a].confirmed = Roles

\* The second confirmation approves a pending cash attempt that both parties have
\* then confirmed, for its own amount.
LEMMA SecondConfirmation ==
  ASSUME Typing, NEW r \in Requests, ConfirmBothParties(r), NEW a \in Attempts,
         CashTarget(a), BothConfirmed(Stamped(r, a)),
         attempt' = [attempt EXCEPT ![a] = Resolved(Stamped(r, a), "APPROVED", NoPay)]
  PROVE  /\ attempt[a] \in AttemptRow /\ attempt[a].status = "PENDING"
         /\ attempt[a].method = "CASH"
         /\ attempt'[a].status = "APPROVED" /\ attempt'[a].method = "CASH"
         /\ attempt'[a].amount = attempt[a].amount /\ attempt'[a].confirmed = Roles
<1>1. attempt[a] \in AttemptRow /\ req[r].role \in Roles
  BY DEF ConfirmBothParties, Typing, TypeOK, RequestOK
<1>2. attempt[a].status # "NONE"
  BY DEF BothConfirmed, Stamped, NoRow, Roles
<1>3. Stamped(r, a) = [attempt[a] EXCEPT !.confirmed = @ \cup {req[r].role}]
  BY <1>2 DEF Stamped
<1>4. /\ Stamped(r, a) \in AttemptRow /\ Stamped(r, a).status = attempt[a].status
      /\ Stamped(r, a).method = attempt[a].method /\ Stamped(r, a).amount = attempt[a].amount
  BY <1>1, <1>3 DEF AttemptRow
<1>5. attempt[a].status = "PENDING" /\ attempt[a].method = "CASH"
  BY <1>2, <1>4 DEF BothConfirmed, CashTarget, IsNext
<1>6. attempt'[a] = Resolved(Stamped(r, a), "APPROVED", NoPay)
  BY DEF Typing, TypeOK
<1>7. attempt'[a].confirmed = Roles
  BY <1>4, <1>6, ResolvedFields DEF BothConfirmed
<1> QED
  BY <1>1, <1>4, <1>5, <1>6, <1>7, ResolvedFields

\* The rows no step writes are kept.
LEMMA UnwrittenKept ==
  ASSUME Backing, NEW a \in Attempts, attempt'[a] = attempt[a]
  PROVE  RowKept(a)
  BY DEF Backing, RowKept, Created

\* Nothing a request does to the rows loses one or touches an approval.
LEMMA RowsStep ==
  ASSUME Typing, Backing, [Next]_vars, NEW a \in Attempts
  PROVE  RowKept(a)
<1> USE DEF engVars, quoteVars, provVars
<1>1. ASSUME attempt' = attempt PROVE RowKept(a)
  BY <1>1, UnwrittenKept
<1>2. CASE UNCHANGED vars \/ Environment
  BY <1>1, <1>2 DEF vars, Environment, StartWorkIfAccepted, FinishWorkIfInProgress,
     CompleteIfPendingCustomerConfirmation, CancelIfActive, MoveEngagement,
     SetNegotiatedPrice, SetCommission, PayInCheckout, Settle
<1>3. ASSUME NEW r \in Requests, Begin(r) \/ Crash(r) PROVE RowKept(a)
  BY <1>1, <1>3 DEF Begin, ReadForDigitalPayment, ReadNotified, ReadLatestAttempt,
     ReadForCash, Crash
<1>4. ASSUME NEW r \in Requests, CreatePending(r) PROVE RowKept(a)
  <2>1. PICK b \in Attempts :
          /\ IsNext(b)
          /\ attempt' = [attempt EXCEPT ![b] =
                           [NoRow EXCEPT !.method = "MERCADOPAGO", !.status = "PENDING",
                                         !.amount = req[r].amount]]
    BY <1>4 DEF CreatePending
  <2>2. CASE a # b
    BY <2>1, <2>2, UnwrittenKept DEF Typing, TypeOK
  <2>3. CASE a = b
    BY <2>1, <2>3 DEF IsNext, RowKept, Created, NoRow, Typing, TypeOK
  <2> QED
    BY <2>2, <2>3
<1>5. ASSUME NEW r \in Requests,
             \/ CreatePendingConflict(r) \/ ChargeCardAnswered(r) \/ ChargeCardRefused(r)
             \/ ChargeCardUnknown(r) \/ CreatePreference(r) \/ CreatePreferenceFailed(r)
             \/ FindById(r) \/ FindByRef(r) \/ FetchAndReconcile(r) \/ ConfirmRolledBack(r)
      PROVE  RowKept(a)
  BY <1>1, <1>5 DEF CreatePendingConflict, ChargeCardAnswered, ChargeCardRefused,
     ChargeCardUnknown, CreatePreference, CreatePreferenceFailed, FindById, FindByRef,
     FetchAndReconcile, ConfirmRolledBack
<1>6. ASSUME NEW r \in Requests, Apply(r) PROVE RowKept(a)
  <2>1. attempt[a] \in AttemptRow /\ req[r].a \in Attempts
    BY <1>6 DEF Typing, TypeOK, RequestOK, Apply, ApplyApproved, ApplyRejected, ApplyPending,
                ApplyNothing
  <2>2. CASE ApplyNothing(r)
    BY <1>1, <2>2 DEF ApplyNothing
  <2>3. ASSUME attempt[req[r].a].status = "PENDING",
               NEW status \in {"APPROVED", "REJECTED"},
               attempt' = [attempt EXCEPT ![req[r].a] = Resolved(@, status, req[r].p)]
        PROVE  RowKept(a)
    <3>1. CASE a # req[r].a
      BY <2>3, <3>1, UnwrittenKept DEF Typing, TypeOK
    <3>2. CASE a = req[r].a
      <4>1. attempt'[a] = Resolved(attempt[a], status, req[r].p)
        BY <2>3, <3>2 DEF Typing, TypeOK
      <4> QED
        BY <2>1, <2>3, <3>2, <4>1, ResolvedFields DEF RowKept, Created
    <3> QED
      BY <3>1, <3>2
  <2>4. CASE ApplyApproved(r)
    BY <2>3, <2>4 DEF ApplyApproved, Resolvable
  <2>6. CASE ApplyRejected(r)
    BY <2>3, <2>6 DEF ApplyRejected, Resolvable
  <2>5. CASE ApplyPending(r)
    <3>1. /\ attempt[req[r].a].status = "PENDING"
          /\ attempt' = [attempt EXCEPT ![req[r].a].providerId = req[r].p]
      BY <2>5 DEF ApplyPending, Attachable
    <3>2. CASE a # req[r].a
      BY <3>1, <3>2, UnwrittenKept DEF Typing, TypeOK
    <3>3. CASE a = req[r].a
      BY <2>1, <3>1, <3>3 DEF RowKept, Created, Typing, TypeOK, AttemptRow
    <3> QED
      BY <3>2, <3>3
  <2> QED
    BY <1>6, <2>2, <2>4, <2>5, <2>6 DEF Apply
<1>7. ASSUME NEW r \in Requests, ConfirmOneParty(r) PROVE RowKept(a)
  <2>1. PICK b \in Attempts : CashTarget(b) /\ attempt' = [attempt EXCEPT ![b] = Stamped(r, b)]
    BY <1>7 DEF ConfirmOneParty
  <2>2. attempt[b] \in AttemptRow /\ req[r].role \in Roles
    BY <1>7 DEF ConfirmOneParty, Typing, TypeOK, RequestOK
  <2>3. CASE a # b
    BY <2>1, <2>3, UnwrittenKept DEF Typing, TypeOK
  <2>4. CASE a = b
    <3>1. attempt'[a] = Stamped(r, a)
      BY <2>1, <2>4 DEF Typing, TypeOK
    <3>2. CASE attempt[a].status = "NONE"
      BY <3>1, <3>2 DEF Stamped, NoRow, RowKept, Created
    <3>3. CASE attempt[a].status # "NONE"
      BY <2>2, <2>4, <3>1, <3>3 DEF Stamped, RowKept, Created, AttemptRow, Roles
    <3> QED
      BY <3>2, <3>3
  <2> QED
    BY <2>3, <2>4
<1>8. ASSUME NEW r \in Requests, ConfirmBothParties(r) PROVE RowKept(a)
  <2>1. PICK b \in Attempts :
          /\ CashTarget(b) /\ BothConfirmed(Stamped(r, b))
          /\ attempt' = [attempt EXCEPT ![b] = Resolved(Stamped(r, b), "APPROVED", NoPay)]
    BY <1>8 DEF ConfirmBothParties
  <2>2. CASE a # b
    BY <2>1, <2>2, UnwrittenKept DEF Typing, TypeOK
  <2>3. CASE a = b
    <3>1. attempt[a] \in AttemptRow /\ attempt[a].status = "PENDING"
      BY <2>1, <2>3, SecondConfirmation, <1>8
    <3>2. /\ attempt'[a].status = "APPROVED" /\ attempt'[a].amount = attempt[a].amount
      BY <2>1, <2>3, SecondConfirmation, <1>8
    <3> QED
      BY <3>1, <3>2 DEF RowKept, Created
  <2> QED
    BY <2>2, <2>3
<1> QED
  BY <1>2, <1>3, <1>4, <1>5, <1>6, <1>7, <1>8 DEF Next, Continue

\* A step of request r.
StepOf(r) == Begin(r) \/ Continue(r) \/ Crash(r)

\* A payment the provider approved stays approved: the only request that writes an
\* answer over an earlier state asks for an attempt nobody has paid for.
LEMMA ApprovalsStay ==
  ASSUME Typing, Backing, [Next]_vars, NEW p \in PayIds, provider[p] = "approved"
  PROVE  provider'[p] = "approved"
<1> USE DEF provVars
<1>1. CASE UNCHANGED vars
  BY <1>1 DEF vars
<1>2. CASE Environment
  BY <1>2 DEF Environment, StartWorkIfAccepted, FinishWorkIfInProgress,
     CompleteIfPendingCustomerConfirmation, CancelIfActive, MoveEngagement,
     SetNegotiatedPrice, SetCommission, PayInCheckout, Settle, PayIds, Typing, TypeOK
<1>3. ASSUME NEW r \in Requests, Begin(r) \/ Crash(r) PROVE provider' = provider
  BY <1>3 DEF Begin, ReadForDigitalPayment, ReadNotified, ReadLatestAttempt, ReadForCash,
     Crash
<1>4. ASSUME NEW r \in Requests, ChargeCardAnswered(r) \/ ChargeCardUnknown(r)
      PROVE  provider'[p] = "approved"
  <2>1. provider[<<req[r].a, 1>>] = "none"
    BY <1>4, BoundsAssumption DEF ChargeCardAnswered, ChargeCardUnknown, Backing,
       RequestBacked, Asking, Untouched
  <2> QED
    BY <1>4, <2>1 DEF ChargeCardAnswered, ChargeCardUnknown, Typing, TypeOK
<1>5. ASSUME NEW r \in Requests, Continue(r), ~ChargeCardAnswered(r), ~ChargeCardUnknown(r)
      PROVE  provider' = provider
  BY <1>5 DEF Continue, CreatePending, CreatePendingConflict, ChargeCardRefused,
     CreatePreference, CreatePreferenceFailed, Apply, ApplyApproved, ApplyRejected,
     ApplyPending, ApplyNothing, FindById, FindByRef, FetchAndReconcile, ConfirmOneParty,
     ConfirmBothParties, ConfirmRolledBack
<1> QED
  BY <1>1, <1>2, <1>3, <1>4, <1>5 DEF Next

\* Only the request that asks for an attempt touches it.
LEMMA OthersDoNotTouch ==
  ASSUME Typing, NEW a \in Attempts, Untouched(a),
         \/ UNCHANGED vars \/ Environment
         \/ \E r \in Requests : StepOf(r) /\ (Asking(r) => req[r].a # a)
  PROVE  Untouched(a)'
<1> USE DEF provVars
<1>1. CASE UNCHANGED vars
  BY <1>1 DEF vars, Untouched
<1>2. ASSUME NEW b \in Attempts, PayInCheckout(b) PROVE Untouched(a)'
  BY <1>2 DEF PayInCheckout, Untouched, PayIds, Typing, TypeOK
<1>3. ASSUME NEW p \in PayIds, Settle(p) PROVE Untouched(a)'
  BY <1>3 DEF Settle, Untouched, PayIds, Typing, TypeOK
<1>4. CASE Environment
  BY <1>2, <1>3, <1>4 DEF Environment, StartWorkIfAccepted, FinishWorkIfInProgress,
     CompleteIfPendingCustomerConfirmation, CancelIfActive, MoveEngagement,
     SetNegotiatedPrice, SetCommission, Untouched
<1>5. ASSUME NEW r \in Requests, StepOf(r), Asking(r) => req[r].a # a PROVE Untouched(a)'
  <2>1. CASE Begin(r) \/ Crash(r)
    BY <2>1 DEF Begin, ReadForDigitalPayment, ReadNotified, ReadLatestAttempt, ReadForCash,
       Crash, Untouched
  <2>2. CASE ChargeCardAnswered(r) \/ ChargeCardUnknown(r)
    <3>1. req[r].a # a /\ checkout' = checkout
      BY <1>5, <2>2 DEF ChargeCardAnswered, ChargeCardUnknown, Asking
    <3>2. \A k \in 1..MaxPayments : provider'[<<a, k>>] = provider[<<a, k>>]
      BY <2>2, <3>1 DEF ChargeCardAnswered, ChargeCardUnknown, PayIds, Typing, TypeOK
    <3> QED
      BY <3>1, <3>2 DEF Untouched
  <2>3. CASE CreatePreference(r)
    BY <1>5, <2>3 DEF CreatePreference, Asking, Untouched
  <2>4. CASE \/ CreatePending(r) \/ CreatePendingConflict(r) \/ ChargeCardRefused(r)
             \/ CreatePreferenceFailed(r) \/ Apply(r) \/ FindById(r) \/ FindByRef(r)
             \/ FetchAndReconcile(r) \/ ConfirmOneParty(r) \/ ConfirmBothParties(r)
             \/ ConfirmRolledBack(r)
    BY <2>4 DEF CreatePending, CreatePendingConflict, ChargeCardRefused,
       CreatePreferenceFailed, Apply, ApplyApproved, ApplyRejected, ApplyPending,
       ApplyNothing, FindById, FindByRef, FetchAndReconcile, ConfirmOneParty,
       ConfirmBothParties, ConfirmRolledBack, Untouched
  <2> QED
    BY <1>5, <2>1, <2>2, <2>3, <2>4 DEF StepOf, Continue
<1> QED
  BY <1>1, <1>4, <1>5

\* A payment that exists was made for an attempt that exists.
LEMMA PaidIsCreated ==
  ASSUME Backing, NEW p \in PayIds, provider[p] # "none"
  PROVE  p[1] \in Attempts /\ Created(p[1])
  BY DEF Backing, Untouched, PayIds

\* A request that ends, or works on no payment, relies on nothing.
LEMMA FinishBacked ==
  ASSUME Typing, NEW r \in Requests, Finish(r)
  PROVE  RequestBacked(r)' /\ ~Asking(r)'
  BY DEF Typing, TypeOK, Finish, Idle, RequestBacked, Asking

\* A request that goes on to apply what the provider has approved, or something
\* else, relies on that.
LEMMA GoApplyBacked ==
  ASSUME Typing, NEW r \in Requests, NEW a, NEW p, NEW st, GoApply(r, a, p, st), Created(a)',
         st = "approved" => /\ provider'[p] = "approved"
                            /\ attempt'[p[1]].amount = attempt'[a].amount
  PROVE  RequestBacked(r)' /\ ~Asking(r)'
<1>1. req'[r].pc = "apply" /\ req'[r].a = a /\ req'[r].p = p /\ req'[r].st = st
  BY DEF GoApply, Idle, Typing, TypeOK
<1> QED
  BY <1>1 DEF RequestBacked, Asking, AmountOf

\* The outcome read from the provider is passed on if the amounts agree.
LEMMA FoundBacked ==
  ASSUME Typing, NEW r \in Requests, NEW a \in Attempts, ApplyFound(r, a), Created(a),
         attempt' = attempt, provider' = provider,
         req[r].st = "approved" => provider[req[r].p] = "approved"
  PROVE  RequestBacked(r)' /\ ~Asking(r)'
<1>0. PICK p, st : p = req[r].p /\ st = req[r].st
  OBVIOUS
<1>1. CASE Reconciles(st, p, a)
  <2>1. GoApply(r, a, p, st)
    BY <1>0, <1>1 DEF ApplyFound
  <2> QED
    BY <1>0, <1>1, <2>1, GoApplyBacked DEF Reconciles, AmountOf, Created
<1>2. CASE ~Reconciles(st, p, a)
  BY <1>0, <1>2, FinishBacked DEF ApplyFound
<1> QED
  BY <1>1, <1>2

\* After its own step a request still has what it relies on behind it; it begins to
\* ask only for an attempt it has just inserted.
LEMMA OwnStepBacked ==
  ASSUME Typing, Backing, [Next]_vars, NEW r \in Requests, StepOf(r)
  PROVE  RequestBacked(r)' /\ (Asking(r)' => \E a \in Attempts : a = req'[r].a /\ ~Created(a))
<1> USE DEF engVars, quoteVars, provVars
<1>0. RequestOK(r) /\ RequestBacked(r) /\ \A a \in Attempts : Created(a) => Created(a)'
  BY RowsStep DEF Typing, Backing, RowKept
<1>1. CASE \/ CreatePendingConflict(r) \/ ChargeCardUnknown(r) \/ CreatePreference(r)
           \/ Apply(r) \/ ConfirmOneParty(r) \/ ConfirmBothParties(r) \/ ConfirmRolledBack(r)
           \/ Crash(r)
  BY <1>1, FinishBacked DEF CreatePendingConflict, ChargeCardUnknown, CreatePreference,
     Apply, ApplyApproved, ApplyRejected, ApplyPending, ApplyNothing, ConfirmOneParty,
     ConfirmBothParties, ConfirmRolledBack, Crash
<1>2. CASE CreatePending(r)
  <2>1. PICK a \in Attempts :
          /\ IsNext(a)
          /\ attempt' = [attempt EXCEPT ![a] =
                           [NoRow EXCEPT !.method = "MERCADOPAGO", !.status = "PENDING",
                                         !.amount = req[r].amount]]
          /\ req' = [req EXCEPT ![r] =
                       [Idle EXCEPT !.pc = IF req[r].wallet THEN "preference" ELSE "charge",
                                    !.a = a]]
    BY <1>2 DEF CreatePending
  <2>2. req'[r].a = a /\ req'[r].pc \in {"preference", "charge"}
    BY <2>1 DEF Idle, Typing, TypeOK
  <2>3. Created(a)' /\ ~Created(a)
    BY <2>1 DEF IsNext, Created, NoRow, Typing, TypeOK
  <2>4. Untouched(a)'
    BY <1>2, <2>3 DEF CreatePending, Backing, Untouched
  <2> QED
    BY <2>2, <2>3, <2>4 DEF RequestBacked, Asking
<1>3. CASE ChargeCardAnswered(r)
  <2>1. PICK a \in Attempts : a = req[r].a
    BY <1>0, <1>3 DEF ChargeCardAnswered, RequestOK
  <2>2. PICK st \in Outcomes :
          /\ provider' = [provider EXCEPT ![<<a, 1>>] = st] /\ GoApply(r, a, <<a, 1>>, st)
    BY <1>3, <2>1 DEF ChargeCardAnswered
  <2>3. provider'[<<a, 1>>] = st
    BY <2>1, <2>2, BoundsAssumption DEF PayIds, Typing, TypeOK
  <2>4. Created(a)'
    BY <1>0, <1>3, <2>1 DEF ChargeCardAnswered, RequestBacked
  <2> QED
    BY <2>2, <2>3, <2>4, GoApplyBacked
<1>4. CASE ChargeCardRefused(r) \/ CreatePreferenceFailed(r)
  <2>1. PICK a \in Attempts : a = req[r].a
    BY <1>0, <1>4 DEF ChargeCardRefused, CreatePreferenceFailed, RequestOK
  <2>2. Created(a)'
    BY <1>0, <1>4, <2>1 DEF ChargeCardRefused, CreatePreferenceFailed, RequestBacked
  <2>3. GoApply(r, a, NoPay, "rejected")
    BY <1>4, <2>1 DEF ChargeCardRefused, CreatePreferenceFailed
  <2> QED
    BY <2>2, <2>3, GoApplyBacked
<1>5. CASE FindById(r)
  <2>1. attempt' = attempt /\ provider' = provider
    BY <1>5 DEF FindById
  <2>2. CASE req' = [req EXCEPT ![r].pc = "findByRef"]
    BY <1>0, <1>5, <2>1, <2>2
       DEF FindById, RequestBacked, Asking, Typing, TypeOK, Request
  <2>3. ASSUME NEW a \in Attempts, attempt[a].providerId = req[r].p, ApplyFound(r, a)
        PROVE  RequestBacked(r)' /\ ~Asking(r)'
    <3>1. req[r].p # NoPay
      BY <1>0, <1>5, NoPayIsNone DEF FindById, RequestOK
    <3>2. Created(a)
      BY <2>3, <3>1 DEF Backing
    <3> QED
      BY <1>0, <1>5, <2>1, <2>3, <3>2, FoundBacked DEF FindById, RequestBacked
  <2> QED
    BY <1>5, <2>2, <2>3 DEF FindById, IsLatest
<1>6. CASE FindByRef(r)
  <2>1. attempt' = attempt /\ provider' = provider
    BY <1>6 DEF FindByRef
  <2>2. ASSUME NEW a \in Attempts, Attachable(a), ApplyFound(r, a)
        PROVE  RequestBacked(r)' /\ ~Asking(r)'
    BY <1>0, <1>6, <2>1, <2>2, FoundBacked
       DEF FindByRef, RequestBacked, Attachable, Created
  <2> QED
    BY <1>6, <2>2, FinishBacked DEF FindByRef, IsLatest
<1>7. CASE FetchAndReconcile(r)
  <2>1. PICK a \in Attempts : a = req[r].a
    BY <1>0, <1>7 DEF FetchAndReconcile, RequestOK
  <2>2. PICK p, st : p = req[r].p /\ st = provider[p]
    OBVIOUS
  <2>3. attempt' = attempt /\ provider' = provider /\ Created(a) /\ Created(a)'
    BY <1>0, <1>7, <2>1 DEF FetchAndReconcile, RequestBacked
  <2>4. CASE Reconciles(st, p, a)
    <3>1. GoApply(r, a, p, st)
      BY <1>7, <2>1, <2>2, <2>4 DEF FetchAndReconcile
    <3> QED
      BY <2>2, <2>3, <2>4, <3>1, GoApplyBacked DEF Reconciles, AmountOf
  <2>5. CASE ~Reconciles(st, p, a)
    BY <1>7, <2>1, <2>2, <2>5, FinishBacked DEF FetchAndReconcile
  <2> QED
    BY <2>4, <2>5
<1>8. CASE Begin(r)
  <2>1. ASSUME NEW w \in BOOLEAN, ReadForDigitalPayment(r, w)
        PROVE  RequestBacked(r)' /\ ~Asking(r)'
    BY <2>1 DEF ReadForDigitalPayment, RequestBacked, Asking, Idle, Typing, TypeOK
  <2>2. ASSUME NEW p \in PayIds, ReadNotified(r, p) PROVE RequestBacked(r)' /\ ~Asking(r)'
    BY <2>2 DEF ReadNotified, RequestBacked, Asking, Idle, Typing, TypeOK
  <2>3. ASSUME ReadLatestAttempt(r) PROVE RequestBacked(r)' /\ ~Asking(r)'
    <3>1. PICK a \in Attempts :
            /\ attempt[a].status = "PENDING"
            /\ req' = [req EXCEPT ![r] = [Idle EXCEPT !.pc = "fetch", !.a = a,
                                                      !.p = attempt[a].providerId]]
      BY <2>3 DEF ReadLatestAttempt
    <3>2. req'[r].pc = "fetch" /\ req'[r].a = a /\ attempt' = attempt
      BY <2>3, <3>1 DEF ReadLatestAttempt, Idle, Typing, TypeOK
    <3> QED
      BY <3>1, <3>2 DEF RequestBacked, Asking, Created
  <2>4. ASSUME NEW role \in Roles, ReadForCash(r, role)
        PROVE  RequestBacked(r)' /\ ~Asking(r)'
    BY <2>4 DEF ReadForCash, RequestBacked, Asking, Idle, Typing, TypeOK
  <2> QED
    BY <1>8, <2>1, <2>2, <2>3, <2>4 DEF Begin
<1> QED
  BY <1>1, <1>2, <1>3, <1>4, <1>5, <1>6, <1>7, <1>8 DEF StepOf, Continue

\* The steps of one request keep what every request relies on.
LEMMA RequestsBacked ==
  ASSUME Typing, Backing, [Next]_vars
  PROVE  /\ \A q \in Requests : RequestBacked(q)'
         /\ \A r, q \in Requests : Asking(r)' /\ Asking(q)' /\ req'[r].a = req'[q].a => r = q
<1>0. \A a \in Attempts : Created(a) => Created(a)' /\ attempt'[a].amount = attempt[a].amount
  BY RowsStep DEF RowKept
<1>1. ASSUME NEW q \in Requests, req'[q] = req[q],
             Asking(q) => Untouched(req[q].a)'
      PROVE  RequestBacked(q)'
  <2>1. PICK a, p : a = req[q].a /\ p = req[q].p
    OBVIOUS
  <2>2. req'[q].a = a /\ req'[q].p = p /\ RequestOK(q) /\ RequestBacked(q)
    BY <1>1, <2>1 DEF Typing, Backing
  <2>3. req[q].pc \in {"charge", "preference", "apply", "fetch"} => Created(a)'
    BY <1>0, <2>1, <2>2 DEF RequestOK, RequestBacked
  <2>4. ASSUME req[q].pc \in {"apply", "findById", "findByRef"}, req[q].st = "approved"
        PROVE  p \in PayIds /\ provider[p] = "approved" /\ provider'[p] = "approved"
    BY <2>1, <2>2, <2>4, ApprovalsStay DEF RequestOK, RequestBacked
  <2>5. ASSUME req[q].pc = "apply", req[q].st = "approved"
        PROVE  attempt'[p[1]].amount = attempt'[a].amount
    <3>1. p \in PayIds /\ p[1] \in Attempts /\ Created(p[1])
      BY <2>4, <2>5, PaidIsCreated
    <3>2. a \in Attempts /\ Created(a) /\ attempt[p[1]].amount = attempt[a].amount
      BY <2>1, <2>2, <2>5 DEF RequestOK, RequestBacked, AmountOf
    <3> QED
      BY <1>0, <3>1, <3>2
  <2>6. Asking(q)' => Asking(q)
    BY <1>1 DEF Asking
  <2>7. Asking(q)' => Untouched(req[q].a)'
    BY <1>1, <2>6
  <2> QED
    BY <1>1, <2>1, <2>2, <2>3, <2>4, <2>5, <2>7 DEF RequestBacked, AmountOf, Asking, Created,
       Untouched
<1>2. CASE UNCHANGED vars \/ Environment
  <2>1. req' = req
    BY <1>2 DEF vars, Environment, StartWorkIfAccepted, FinishWorkIfInProgress,
       CompleteIfPendingCustomerConfirmation, CancelIfActive, MoveEngagement,
       SetNegotiatedPrice, SetCommission, PayInCheckout, Settle
  <2>2. ASSUME NEW q \in Requests, Asking(q) PROVE Untouched(req[q].a)'
    <3>1. PICK a \in Attempts : a = req[q].a
      BY <2>2 DEF Asking, Typing, RequestOK
    <3>2. Untouched(a)'
      BY <1>2, <2>2, <3>1, OthersDoNotTouch DEF Backing, RequestBacked
    <3> QED
      BY <2>1, <3>1, <3>2 DEF Untouched
  <2> QED
    BY <1>1, <2>1, <2>2 DEF Backing, Asking
<1>3. ASSUME NEW r \in Requests, StepOf(r)
      PROVE  /\ \A q \in Requests : RequestBacked(q)'
             /\ \A q, s \in Requests :
                  Asking(q)' /\ Asking(s)' /\ req'[q].a = req'[s].a => q = s
  <2>1. \A q \in Requests \ {r} : req'[q] = req[q]
    <3>1. Next
      BY <1>3 DEF StepOf, Next
    <3>2. Shape(r)
      BY <1>3, <3>1, BeginShape, DigitalShape, ApplyShape, NotificationShape, CashShape
         DEF StepOf, Continue
    <3> QED
      BY <3>2 DEF Shape
  <2>2. RequestBacked(r)' /\ (Asking(r)' => \E a \in Attempts : a = req'[r].a /\ ~Created(a))
    BY <1>3, OwnStepBacked
  <2>3. ASSUME NEW q \in Requests \ {r}, Asking(q) PROVE Untouched(req[q].a)'
    <3>1. PICK a \in Attempts : a = req[q].a
      BY <2>3 DEF Asking, Typing, RequestOK
    <3>2. Asking(r) => req[r].a # a
      BY <2>3, <3>1 DEF Backing
    <3>3. Untouched(a)'
      BY <1>3, <2>3, <3>1, <3>2, OthersDoNotTouch DEF Backing, RequestBacked
    <3> QED
      BY <2>1, <2>3, <3>1, <3>3 DEF Untouched
  <2>4. \A q \in Requests \ {r} : RequestBacked(q)'
    BY <1>1, <2>1, <2>3
  <2>5. \A q \in Requests \ {r} : Asking(q)' => Asking(q) /\ Created(req'[q].a)
    BY <2>1 DEF Backing, RequestBacked, Asking
  <2>6. \A q \in Requests \ {r} : Asking(r)' /\ Asking(q)' => req'[q].a # req'[r].a
    BY <2>2, <2>5
  <2> QED
    BY <2>1, <2>2, <2>4, <2>5, <2>6 DEF Backing
<1> QED
  BY <1>2, <1>3 DEF Next, StepOf

\* An attempt becomes approved in two ways only: apply, or the second confirmation.
LEMMA TwoApprovals ==
  ASSUME Typing, [Next]_vars, NEW a \in Attempts,
         attempt[a].status # "APPROVED", attempt'[a].status = "APPROVED"
  PROVE  \E r \in Requests :
           \/ ApplyApproved(r) /\ a = req[r].a
           \/ /\ ConfirmBothParties(r) /\ CashTarget(a) /\ BothConfirmed(Stamped(r, a))
              /\ attempt' = [attempt EXCEPT ![a] = Resolved(Stamped(r, a), "APPROVED", NoPay)]
<1> USE DEF engVars, quoteVars, provVars
<1>1. attempt' # attempt
  OBVIOUS
<1>2. PICK r \in Requests : Continue(r)
  BY <1>1 DEF vars, Next, Environment, StartWorkIfAccepted, FinishWorkIfInProgress,
     CompleteIfPendingCustomerConfirmation, CancelIfActive, MoveEngagement,
     SetNegotiatedPrice, SetCommission, PayInCheckout, Settle,
     Begin, ReadForDigitalPayment, ReadNotified, ReadLatestAttempt, ReadForCash, Crash
<1>3. CASE CreatePending(r)
  BY <1>3 DEF CreatePending, NoRow, Typing, TypeOK
<1>4. CASE ApplyApproved(r)
  BY <1>4 DEF ApplyApproved, Typing, TypeOK
<1>5. CASE ApplyRejected(r)
  <2>1. attempt'[req[r].a].status = "REJECTED"
    BY <1>5, ResolvedFields DEF ApplyRejected, Typing, TypeOK, RequestOK
  <2> QED
    BY <1>5, <2>1 DEF ApplyRejected, Typing, TypeOK
<1>6. CASE ApplyPending(r)
  BY <1>6 DEF ApplyPending, Typing, TypeOK, AttemptRow
<1>7. CASE ConfirmOneParty(r)
  <2>1. PICK b \in Attempts : CashTarget(b) /\ attempt' = [attempt EXCEPT ![b] = Stamped(r, b)]
    BY <1>7 DEF ConfirmOneParty
  <2>2. a = b /\ attempt'[a] = Stamped(r, a) /\ attempt[a] \in AttemptRow
    BY <2>1 DEF Typing, TypeOK
  <2> QED
    BY <2>2 DEF Stamped, NoRow, AttemptRow
<1>8. CASE ConfirmBothParties(r)
  BY <1>8 DEF ConfirmBothParties, Typing, TypeOK
<1>9. CASE \/ CreatePendingConflict(r) \/ ChargeCardAnswered(r) \/ ChargeCardRefused(r)
           \/ ChargeCardUnknown(r) \/ CreatePreference(r) \/ CreatePreferenceFailed(r)
           \/ ApplyNothing(r) \/ FindById(r) \/ FindByRef(r) \/ FetchAndReconcile(r)
           \/ ConfirmRolledBack(r)
  BY <1>1, <1>9 DEF CreatePendingConflict, ChargeCardAnswered, ChargeCardRefused,
     ChargeCardUnknown, CreatePreference, CreatePreferenceFailed, ApplyNothing, FindById,
     FindByRef, FetchAndReconcile, ConfirmRolledBack
<1> QED
  BY <1>2, <1>3, <1>4, <1>5, <1>6, <1>7, <1>8, <1>9 DEF Continue, Apply

\* The evidence of an approval that was there before the step is still there.
LEMMA ApprovalKept ==
  ASSUME Typing, Book!BookInv, Backing, [Next]_vars, NEW a \in Approved
  PROVE  LET p == attempt'[a].providerId IN
         \/ /\ attempt'[a].method = "CASH" /\ attempt'[a].confirmed = Roles
            /\ ledger'[1].type = "CASH_COMMISSION_DEBT"
         \/ /\ p # NoPay /\ provider'[p] = "approved"
            /\ attempt'[p[1]].amount = attempt'[a].amount
            /\ ledger'[1] = [type |-> "CUSTOMER_CHARGE", amount |-> attempt'[a].amount]
<1>1. PICK p : p = attempt[a].providerId
  OBVIOUS
<1>2. a \in Attempts /\ attempt[a].status = "APPROVED" /\ p \in PayIds \cup {NoPay}
  BY <1>1 DEF Approved, Typing, TypeOK, AttemptRow
<1>3. /\ attempt'[a].method = attempt[a].method /\ attempt'[a].providerId = p
      /\ attempt[a].confirmed = Roles => attempt'[a].confirmed = Roles
      /\ attempt'[a].amount = attempt[a].amount
  BY <1>1, <1>2, RowsStep DEF RowKept, Created
<1>4. ledger' = ledger
  <2>1. ledger # <<>>
    BY ActiveMapped DEF Book!BookInv, Book!BookOK
  <2> QED
    BY <2>1, HistoryStep DEF HistoryKept
<1>5. p # NoPay /\ provider[p] = "approved" =>
        provider'[p] = "approved" /\ attempt'[p[1]].amount = AmountOf(p)
  BY <1>2, ApprovalsStay, PaidIsCreated, RowsStep DEF RowKept, AmountOf
<1> QED
  BY <1>1, <1>2, <1>3, <1>4, <1>5 DEF Backing, ApprovedIsBacked

\* A new approval has its evidence: what the request was told of is still so, or
\* both parties have confirmed; and it is the first entry in the books.
LEMMA NewApprovalBacked ==
  ASSUME Typing, Book!BookInv, Backing, [Next]_vars, NEW a \in Attempts,
         attempt[a].status # "APPROVED", attempt'[a].status = "APPROVED"
  PROVE  LET p == attempt'[a].providerId IN
         \/ /\ attempt'[a].method = "CASH" /\ attempt'[a].confirmed = Roles
            /\ ledger'[1].type = "CASH_COMMISSION_DEBT"
         \/ /\ p # NoPay /\ provider'[p] = "approved"
            /\ attempt'[p[1]].amount = attempt'[a].amount
            /\ ledger'[1] = [type |-> "CUSTOMER_CHARGE", amount |-> attempt'[a].amount]
<1>1. ASSUME attempt[a].status = "PENDING" PROVE ledger = <<>>
  <2>1. a \in Active /\ a \notin Approved
    BY <1>1 DEF Active, Approved
  <2>2. Approved = {}
    BY <2>1, ActiveMapped DEF Approved, Active
  <2> QED
    BY <2>2, ActiveMapped DEF Book!BookInv, Book!BookOK
<1>2. PICK r \in Requests :
        \/ ApplyApproved(r) /\ a = req[r].a
        \/ /\ ConfirmBothParties(r) /\ CashTarget(a) /\ BothConfirmed(Stamped(r, a))
           /\ attempt' = [attempt EXCEPT ![a] = Resolved(Stamped(r, a), "APPROVED", NoPay)]
  BY TwoApprovals
<1>3. CASE ApplyApproved(r) /\ a = req[r].a
  <2>1. PICK p : p = req[r].p
    OBVIOUS
  <2>2. p \in PayIds /\ provider[p] = "approved" /\ AmountOf(p) = attempt[a].amount
    BY <1>3, <2>1 DEF ApplyApproved, Typing, RequestOK, Backing, RequestBacked
  <2>3. p # NoPay /\ attempt'[a].providerId = p
    <3>1. attempt'[a] = Resolved(attempt[a], "APPROVED", p)
      BY <1>3, <2>1 DEF ApplyApproved, Typing, TypeOK
    <3> QED
      BY <2>2, <3>1, NoPayIsNone, ResolvedFields DEF Typing, TypeOK
  <2>4. provider'[p] = "approved" /\ attempt'[p[1]].amount = AmountOf(p)
    BY <2>2, ApprovalsStay, PaidIsCreated, RowsStep DEF RowKept, AmountOf
  <2>5. attempt[a].status = "PENDING" /\ attempt'[a].amount = attempt[a].amount
    BY <1>3, RowsStep DEF ApplyApproved, Resolvable, RowKept, Created
  <2>6. ledger'[1] = [type |-> "CUSTOMER_CHARGE", amount |-> attempt[a].amount]
    BY <1>1, <1>3, <2>5 DEF ApplyApproved
  <2> QED
    BY <2>2, <2>3, <2>4, <2>5, <2>6
<1>4. CASE /\ ConfirmBothParties(r) /\ CashTarget(a) /\ BothConfirmed(Stamped(r, a))
           /\ attempt' = [attempt EXCEPT ![a] = Resolved(Stamped(r, a), "APPROVED", NoPay)]
  <2>1. /\ attempt[a].status = "PENDING"
        /\ attempt'[a].method = "CASH" /\ attempt'[a].confirmed = Roles
    BY <1>4, SecondConfirmation
  <2>2. ledger'[1].type = "CASH_COMMISSION_DEBT"
    BY <1>1, <1>4, <2>1 DEF ConfirmBothParties
  <2> QED
    BY <2>1, <2>2
<1> QED
  BY <1>2, <1>3, <1>4

\* Backing is inductive on top of typing and the books.
LEMMA BackingStep == Typing /\ Book!BookInv /\ Backing /\ [Next]_vars => Backing'
<1> SUFFICES ASSUME Typing, Book!BookInv, Backing, [Next]_vars PROVE Backing'
  OBVIOUS
<1>1. ASSUME NEW a \in Attempts, ~Created(a)'
      PROVE  Untouched(a)' /\ attempt'[a].providerId = NoPay
  <2>1. ~Created(a) /\ attempt'[a].providerId = NoPay
    BY <1>1, RowsStep DEF RowKept
  <2>2. Untouched(a) /\ \A r \in Requests : Asking(r) => req[r].a # a
    BY <2>1 DEF Backing, RequestBacked, Asking
  <2>3. Untouched(a)'
    BY <2>2, OthersDoNotTouch DEF Next, StepOf
  <2> QED
    BY <2>1, <2>3
<1>2. ApprovedIsBacked'
  BY ApprovalKept, NewApprovalBacked DEF ApprovedIsBacked, Approved, AmountOf
<1> QED
  BY <1>1, <1>2, RequestsBacked DEF Backing

\* Nothing is approved at first.
LEMMA BackingInit == Init => Backing
  BY DEF Init, Backing, Created, Untouched, RequestBacked, Asking, ApprovedIsBacked, Approved,
         NoRow, Idle, PayIds

\* No phantom approval, whatever was lost, repeated or late on the way: every
\* APPROVED attempt has behind it the confirmation of both parties or a payment the
\* provider approved for exactly its amount, and the ledger says so.
THEOREM ApprovedIsBackedHolds == Spec => []ApprovedIsBacked
<1>1. Init => Typing /\ Book!BookInv /\ Backing
  BY TypingInit, InitSimulated, BookInit, BackingInit
<1>2. Typing /\ Book!BookInv /\ Backing /\ [Next]_vars => (Typing /\ Book!BookInv /\ Backing)'
  BY TypingStep, StepSimulated, BookStep, BackingStep
<1>3. Backing => ApprovedIsBacked
  BY DEF Backing
<1> QED
  BY <1>1, <1>2, <1>3, PTL DEF Spec
-----------------------------------------------------------------------------
(* The provider                                                            *)

\* What an answer says of a payment is true of it from then on.
Reflects(word, p) ==
  /\ word \in {"accredited", "approved"} => Paid(p)
  /\ word \in {"failed", "rejected"} => made[p] = word

\* Nothing was created, and nothing is on its way.
NothingTried == Nowhere /\ late = Blank /\ page = Blank

Creating(c) == calls[c].op = "create"

AskedOnce ==
  /\ ~ asked => NothingTried /\ heard = {} /\ \A c \in Callers : ~ Creating(c)
  /\ \A c, d \in Callers : Creating(c) /\ Creating(d) => c = d

\* The provider's side of the attempt is in one account.
OneAccount ==
  /\ \A p, q \in PaymentIds : made[p] # "none" /\ made[q] # "none" => p[1] = q[1]
  /\ late # Blank => Nowhere /\ means = "card"
  /\ page # Blank => means = "wallet" /\ \A p \in PaymentIds : made[p] # "none" => p[1] = page

\* Of one call: while it creates, nothing was created; what it brings back is true.
CallAgrees(c) ==
  /\ calls[c].op # "none" => calls[c].pc # "idle"
  /\ calls[c].pc # "answered" => calls[c].word = "none"
  /\ calls[c].op = "details" => asked
  /\ Creating(c) /\ calls[c].pc # "answered" => NothingTried
  /\ Creating(c) /\ calls[c].pc = "answered" =>
       IF means = "wallet" THEN NothingTried
       ELSE /\ Reflects(calls[c].word, <<calls[c].with, 1>>)
            /\ ChargeOutcome(calls[c].status, calls[c].word) = "refused" => NothingTried
  /\ calls[c].op \in {"read", "notice"} =>
       Reflects(calls[c].word, <<calls[c].with, calls[c].n>>)

\* Of one thing a caller was told.
TellsTrue(t) ==
  /\ t[2] = "approved" => \E a \in Accounts : Paid(<<a, t[1]>>)
  /\ t[2] = "rejected" => \E a \in Accounts : made[<<a, t[1]>>] \in {"failed", "rejected"}
  /\ t[2] = "refused" => NothingTried /\ \A c \in Callers : ~ Creating(c)
  /\ t[2] # "other"

AnswersInv ==
  /\ GatewayTypeOK /\ AskedOnce /\ OneAccount
  /\ \A c \in Callers : CallAgrees(c)
  /\ \A t \in heard : TellsTrue(t)

\* Of one notice: who sent it knows the payment; unless the credentials were mixed,
\* it is read with the sender's own.
NoticeAgrees(c) ==
  calls[c].op = "notice" =>
    /\ calls[c].from \in Accounts /\ made[<<calls[c].from, calls[c].n>>] # "none"
    /\ calls[c].pc # "secret" => mixed \/ credential.secret = calls[c].from
    /\ calls[c].pc \notin {"secret", "token"} => mixed \/ calls[c].with = calls[c].from
    /\ calls[c].status = "missing" => mixed

NoticesInv ==
  /\ Blank \in {credential.token, credential.secret} \/ credential.token = credential.secret \/ mixed
  /\ credential.token = Blank => NothingTried /\ \A c \in Callers : calls[c].with = Blank
  /\ \A c \in Callers : NoticeAgrees(c)
  /\ dropped => mixed

\* A call that was answered is one.
LEMMA AnsweredTyped ==
  ASSUME CallsOK, NEW c \in Callers, calls[c].pc = "sent", NEW status \in Replies,
         NEW word \in Words \cup {"none"}, AnsweredWith(c, status, word)
  PROVE  CallsOK'
<1>1. calls' \in [Callers -> Call]
  <2> DEFINE new == [calls[c] EXCEPT !.pc = "answered", !.status = status, !.word = word]
  <2>1. new \in Call
    <3>1. calls[c] \in Call
      BY DEF CallsOK
    <3> QED
      BY <3>1 DEF Call, Stages
  <2>2. calls' = [calls EXCEPT ![c] = new]
    BY DEF AnsweredWith, CallsOK
  <2> QED
    BY <2>1, <2>2 DEF CallsOK
<1>2. \A d \in Callers : calls'[d].pc \in {"idle", "secret", "token"} \/ calls'[d].with \in Accounts
  BY DEF AnsweredWith, CallsOK, Call
<1> QED
  BY <1>1, <1>2 DEF CallsOK

\* No call is one.
LEMMA NoCallTyped == NoCall \in Call
  BY GatewayAssumption DEF NoCall, Call, Stages, Replies

\* A call that times out is one.
LEMMA HangTyped ==
  ASSUME CallsOK, NEW c \in Callers, Hang(c)
  PROVE  CallsOK'
  BY NoCallTyped DEF Hang, CallsOK, NoCall

\* A call that goes on is one.
LEMMA GoTyped ==
  ASSUME CallsOK, NEW c \in Callers, NEW pc \in Stages, Go(c, pc),
         pc = "token" \/ calls[c].with \in Accounts
  PROVE  CallsOK'
<1>1. calls' \in [Callers -> Call]
  BY DEF Go, CallsOK, Call
<1>2. \A d \in Callers : calls'[d].pc \in {"idle", "secret", "token"} \/ calls'[d].with \in Accounts
  BY DEF Go, CallsOK, Call
<1> QED
  BY <1>1, <1>2 DEF CallsOK

\* A call that starts is one.
LEMMA StartTyped ==
  ASSUME CallsOK, NEW c \in Callers, NEW call \in Call, Start(c, call),
         call.pc \in {"secret", "token"}
  PROVE  CallsOK'
  BY DEF Start, CallsOK

\* A call that finds no credentials is one, and its caller hears something certain.
LEMMA NotConfiguredTyped ==
  ASSUME GatewayTypeOK, NEW c \in Callers, NotConfigured(c)
  PROVE  CallsOK' /\ heard' \subseteq Tries \X Certain
  BY HangTyped DEF NotConfigured, GatewayTypeOK, Say


\* Each step of the provider's calls keeps their types.
LEMMA GatewayTyped ==
  ASSUME GatewayTypeOK, [GatewayNext]_gatewayVars
  PROVE  GatewayTypeOK'
<1>0. CASE UNCHANGED gatewayVars
  BY <1>0 DEF gatewayVars, CallsOK, GatewayTypeOK, settingRows, world
<1>1. CASE RefuseInstalments
  BY <1>1, GatewayAssumption DEF RefuseInstalments, Say, CallsOK, GatewayTypeOK, settingRows, world
<1>2. CASE ProcessLateCharge
  <2>1. PICK word \in OrderWords : made' = [made EXCEPT ![<<late, 1>>] = word]
    BY <1>2 DEF ProcessLateCharge
  <2>2. made' \in [PaymentIds -> Words \cup {"none"}]
    BY <2>1 DEF GatewayTypeOK, settingRows, world, Words
  <2> QED
    BY <1>2, <2>2 DEF ProcessLateCharge, CallsOK, GatewayTypeOK, settingRows, world
<1>3. ASSUME NEW c \in Callers, StartCreate(c) PROVE GatewayTypeOK'
  <2>1. [NoCall EXCEPT !.op = "create", !.pc = "token"] \in Call
    BY NoCallTyped DEF NoCall, Call, Stages
  <2> QED
    BY <1>3, <2>1, StartTyped DEF StartCreate, NoCall, GatewayTypeOK, settingRows, world
<1>4. ASSUME NEW c \in Callers, NEW p \in PaymentIds, StartRead(c, p) PROVE GatewayTypeOK'
  <2>1. [NoCall EXCEPT !.op = "read", !.pc = "token", !.n = p[2]] \in Call
    BY NoCallTyped DEF NoCall, Call, Stages, PaymentIds
  <2> QED
    BY <1>4, <2>1, StartTyped DEF StartRead, NoCall, GatewayTypeOK, settingRows, world
<1>5. ASSUME NEW c \in Callers, NEW p \in PaymentIds, StartNotice(c, p) PROVE GatewayTypeOK'
  <2>1. [NoCall EXCEPT !.op = "notice", !.pc = "secret", !.n = p[2], !.from = p[1]] \in Call
    BY NoCallTyped DEF NoCall, Call, Stages, PaymentIds
  <2> QED
    BY <1>5, <2>1, StartTyped DEF StartNotice, NoCall, GatewayTypeOK, settingRows, world
<1>6. ASSUME NEW c \in Callers, NEW n \in Tries, StartDetails(c, n) PROVE GatewayTypeOK'
  <2>1. [NoCall EXCEPT !.op = "details", !.pc = "token", !.n = n] \in Call
    BY NoCallTyped DEF NoCall, Call, Stages, PaymentIds
  <2> QED
    BY <1>6, <2>1, StartTyped DEF StartDetails, NoCall, GatewayTypeOK, settingRows, world
<1>7. ASSUME NEW c \in Callers, CheckSignature(c) PROVE GatewayTypeOK'
  <2>1. CallsOK'
    BY <1>7, HangTyped, GoTyped DEF CheckSignature, GatewayTypeOK, Stages
  <2> QED
    BY <1>7, <2>1 DEF CheckSignature, GatewayTypeOK, settingRows, world
<1>8. ASSUME NEW c \in Callers, ReadToken(c) PROVE GatewayTypeOK'
  <2>1. CASE credential.token = Blank
    BY <1>8, <2>1, NotConfiguredTyped DEF ReadToken, GatewayTypeOK, settingRows, world
  <2>2. CASE credential.token # Blank
    <3>1. credential.token \in Accounts
      BY <2>2 DEF GatewayTypeOK
    <3>2. calls' = [calls EXCEPT ![c].pc = "environment", ![c].with = credential.token]
      BY <1>8, <2>2 DEF ReadToken
    <3>3. calls' \in [Callers -> Call]
      <4> DEFINE new == [calls[c] EXCEPT !.pc = "environment", !.with = credential.token]
      <4>1. calls[c] \in Call
        BY DEF GatewayTypeOK, CallsOK
      <4>2. new \in Call
        BY <3>1, <4>1 DEF Call, Stages
      <4>3. calls' = [calls EXCEPT ![c] = new]
        BY <3>2 DEF GatewayTypeOK, CallsOK
      <4> QED
        BY <4>2, <4>3 DEF GatewayTypeOK, CallsOK
    <3>4. \A d \in Callers : calls'[d].pc \in {"idle", "secret", "token"}
                             \/ calls'[d].with \in Accounts
      BY <3>1, <3>2 DEF GatewayTypeOK, CallsOK, Call
    <3> QED
      BY <1>8, <2>2, <3>3, <3>4 DEF ReadToken, CallsOK, GatewayTypeOK, settingRows, world
  <2> QED
    BY <2>1, <2>2
<1>9. ASSUME NEW c \in Callers, ReadEnvironment(c) PROVE GatewayTypeOK'
  <2>1. CASE "environment" \notin usable
    BY <1>9, <2>1, NotConfiguredTyped DEF ReadEnvironment, GatewayTypeOK, settingRows, world
  <2>2. CASE ~ ("environment" \notin usable)
    <3>1. calls[c].with \in Accounts
      BY <1>9 DEF ReadEnvironment, GatewayTypeOK, CallsOK
    <3>2. CallsOK'
      BY <1>9, <2>2, <3>1, GoTyped DEF ReadEnvironment, GatewayTypeOK, Stages
    <3> QED
      BY <1>9, <2>2, <3>2 DEF ReadEnvironment, GatewayTypeOK, settingRows, world
  <2> QED
    BY <2>1, <2>2
<1>10. ASSUME NEW c \in Callers, ReadUrls(c) PROVE GatewayTypeOK'
  <2>1. CASE "urls" \notin usable
    BY <1>10, <2>1, NotConfiguredTyped DEF ReadUrls, GatewayTypeOK, settingRows, world
  <2>2. CASE ~ ("urls" \notin usable)
    <3>1. calls[c].with \in Accounts
      BY <1>10 DEF ReadUrls, GatewayTypeOK, CallsOK
    <3>2. CallsOK'
      BY <1>10, <2>2, <3>1, GoTyped DEF ReadUrls, GatewayTypeOK, Stages
    <3> QED
      BY <1>10, <2>2, <3>2 DEF ReadUrls, GatewayTypeOK, settingRows, world
  <2> QED
    BY <2>1, <2>2
<1>11. ASSUME NEW c \in Callers, ProcessCharge(c) PROVE GatewayTypeOK'
  <2>1. PICK word \in OrderWords \cup {"none"} : \E status \in AnswersTo(word) :
          /\ made' = [made EXCEPT ![<<calls[c].with, 1>>] = word]
          /\ AnsweredWith(c, status, IF status \in {"ok", "declined"} THEN word ELSE "none")
    BY <1>11 DEF ProcessCharge
  <2>2. PICK status \in AnswersTo(word) :
          /\ made' = [made EXCEPT ![<<calls[c].with, 1>>] = word]
          /\ AnsweredWith(c, status, IF status \in {"ok", "declined"} THEN word ELSE "none")
    BY <2>1
  <2>3. status \in Replies /\ word \in Words \cup {"none"}
    BY DEF AnswersTo, Replies, Words
  <2>4. CallsOK'
    BY <1>11, <2>2, <2>3, AnsweredTyped DEF GatewayTypeOK, ProcessCharge, Sent
  <2>5. made' \in [PaymentIds -> Words \cup {"none"}]
    BY <2>2, <2>3 DEF GatewayTypeOK
  <2> QED
    BY <1>11, <2>4, <2>5 DEF ProcessCharge, GatewayTypeOK, settingRows, world
<1>12. ASSUME NEW c \in Callers, OutliveCharge(c) PROVE GatewayTypeOK'
  <2>1. CallsOK'
    BY <1>12, AnsweredTyped, HangTyped DEF OutliveCharge, Sent, GatewayTypeOK, Replies
  <2>2. late' \in Accounts \cup {Blank}
    BY <1>12 DEF OutliveCharge, Sent, GatewayTypeOK, CallsOK
  <2> QED
    BY <1>12, <2>1, <2>2 DEF OutliveCharge, GatewayTypeOK, settingRows, world
<1>13. ASSUME NEW c \in Callers, ProcessPreference(c) PROVE GatewayTypeOK'
  <2>1. CallsOK'
    BY <1>13, AnsweredTyped DEF ProcessPreference, Sent, GatewayTypeOK, Replies
  <2> QED
    BY <1>13, <2>1 DEF ProcessPreference, GatewayTypeOK, settingRows, world
<1>14. ASSUME NEW c \in Callers, ProcessRead(c) PROVE GatewayTypeOK'
  <2> DEFINE word == made[<<calls[c].with, calls[c].n>>]
  <2>1. calls[c].pc = "sent"
    BY <1>14 DEF ProcessRead, Sent
  <2>2. <<calls[c].with, calls[c].n>> \in PaymentIds
    BY <2>1 DEF GatewayTypeOK, CallsOK, Call, PaymentIds
  <2>3. word \in Words \cup {"none"}
    BY <2>2 DEF GatewayTypeOK
  <2>4. \E status \in Replies, w \in Words \cup {"none"} : AnsweredWith(c, status, w)
    BY <1>14, <2>3 DEF ProcessRead, Replies
  <2>5. CallsOK'
    BY <2>1, <2>4, AnsweredTyped DEF GatewayTypeOK
  <2> QED
    BY <1>14, <2>5 DEF ProcessRead, GatewayTypeOK, settingRows, world
<1>15. ASSUME NEW c \in Callers, ProcessDetails(c) PROVE GatewayTypeOK'
  <2>1. calls[c].pc = "sent"
    BY <1>15 DEF ProcessDetails, Sent
  <2>2. CASE \E status \in Replies : AnsweredWith(c, status, "none")
    BY <1>15, <2>1, <2>2, AnsweredTyped DEF ProcessDetails, GatewayTypeOK, settingRows, world
  <2>3. CASE calls' = [calls EXCEPT ![c].pc = "answered", ![c].status = "ok",
                            ![c].records = Records(calls[c].with, calls[c].n)]
    <3>1. Records(calls[c].with, calls[c].n) \in SUBSET {"own", "other"}
      BY DEF Records
    <3>2. calls' \in [Callers -> Call]
      <4> DEFINE new == [calls[c] EXCEPT !.pc = "answered", !.status = "ok",
                                   !.records = Records(calls[c].with, calls[c].n)]
      <4>1. calls[c] \in Call
        BY DEF GatewayTypeOK, CallsOK
      <4>2. new \in Call
        BY <3>1, <4>1 DEF Call, Stages, Replies
      <4>3. calls' = [calls EXCEPT ![c] = new]
        BY <2>3 DEF GatewayTypeOK, CallsOK
      <4> QED
        BY <4>2, <4>3 DEF GatewayTypeOK, CallsOK
    <3>3. \A d \in Callers : calls'[d].pc \in {"idle", "secret", "token"}
                             \/ calls'[d].with \in Accounts
      BY <2>1, <2>3 DEF GatewayTypeOK, CallsOK, Call
    <3> QED
      BY <1>15, <3>2, <3>3 DEF ProcessDetails, CallsOK, GatewayTypeOK, settingRows, world
  <2> QED
    BY <1>15, <2>2, <2>3 DEF ProcessDetails, Replies
<1>16. ASSUME NEW c \in Callers, AnswerCharge(c) PROVE GatewayTypeOK'
  BY <1>16, HangTyped DEF AnswerCharge, Say, GatewayTypeOK, settingRows, world
<1>17. ASSUME NEW c \in Callers, AnswerPreference(c) PROVE GatewayTypeOK'
  <2>1. calls[c].with \in Accounts
    BY <1>17 DEF AnswerPreference, GatewayTypeOK, CallsOK
  <2> QED
    BY <1>17, <2>1, HangTyped DEF AnswerPreference, Say, GatewayTypeOK, settingRows, world
<1>18. ASSUME NEW c \in Callers, AnswerRead(c) PROVE GatewayTypeOK'
  BY <1>18, HangTyped DEF AnswerRead, Say, GatewayTypeOK, settingRows, world
<1>19. ASSUME NEW c \in Callers, AnswerDetails(c) PROVE GatewayTypeOK'
  <2>1. calls[c].n \in Tries
    BY DEF GatewayTypeOK, CallsOK, Call
  <2>2. {calls[c].n} \X FindPaymentRecord(calls[c].records) \subseteq Tries \X Certain
    BY <2>1 DEF FindPaymentRecord, Certain
  <2> QED
    BY <1>19, <2>2, HangTyped DEF AnswerDetails, GatewayTypeOK, settingRows, world
<1>20. ASSUME NEW c \in Callers, CallDies(c) PROVE GatewayTypeOK'
  BY <1>20, HangTyped DEF CallDies, GatewayTypeOK, settingRows, world
<1>21. ASSUME NEW n \in Tries, PayOnPage(n) PROVE GatewayTypeOK'
  BY <1>21 DEF PayOnPage, CallsOK, Words, GatewayTypeOK, settingRows, world
<1>22. ASSUME NEW p \in PaymentIds, MoveOn(p) PROVE GatewayTypeOK'
  <2>1. PICK word \in Words : made' = [made EXCEPT ![p] = word]
    BY <1>22 DEF MoveOn, Words
  <2>2. made' \in [PaymentIds -> Words \cup {"none"}]
    BY <2>1 DEF GatewayTypeOK
  <2> QED
    BY <1>22, <2>2 DEF MoveOn, CallsOK, GatewayTypeOK, settingRows
<1>23. ASSUME NEW field \in {"token", "secret"}, NEW a \in Accounts, SaveCredential(field, a) PROVE GatewayTypeOK'
  BY <1>23 DEF SaveCredential, CallsOK, GatewayTypeOK, settingRows, world
<1>24. ASSUME NEW s \in OtherRows, SaveOther(s) PROVE GatewayTypeOK'
  BY <1>24 DEF SaveOther, CallsOK, GatewayTypeOK, settingRows, world
<1> QED
  BY <1>0, <1>1, <1>2, <1>3, <1>4, <1>5, <1>6, <1>7, <1>8, <1>9, <1>10, <1>11, <1>12, <1>13, <1>14, <1>15, <1>16, <1>17, <1>18, <1>19, <1>20, <1>21, <1>22, <1>23, <1>24 DEF GatewayNext

\* A step of one call that leaves the provider alone and says only what is true.
LEMMA CallStep ==
  ASSUME AnswersInv, GatewayTypeOK', NEW c \in Callers,
         UNCHANGED <<means, asked, world>>,
         \A d \in Callers : d # c => calls'[d] = calls[d],
         Creating(c)' => Creating(c),
         CallAgrees(c)',
         heard' # heard => asked,
         \A t \in heard' : t \in heard \/ TellsTrue(t)'
  PROVE  AnswersInv'
<1>1. AskedOnce'
  BY DEF AnswersInv, AskedOnce, NothingTried, Nowhere, Creating, world
<1>2. OneAccount'
  BY DEF AnswersInv, OneAccount, Nowhere, world
<1>3. ASSUME NEW d \in Callers PROVE CallAgrees(d)'
  <2>1. CASE d = c
    BY <2>1
  <2>2. CASE d # c
    <3>1. CallAgrees(d) /\ calls'[d] = calls[d]
      BY <2>2 DEF AnswersInv
    <3> QED
      BY <3>1 DEF CallAgrees, Creating, Reflects, Paid, NothingTried, Nowhere, world
  <2> QED
    BY <2>1, <2>2
<1>4. ASSUME NEW t \in heard' PROVE TellsTrue(t)'
  <2>1. CASE t \in heard
    <3>1. TellsTrue(t)
      BY <2>1 DEF AnswersInv
    <3>2. (\A d \in Callers : ~ Creating(d)) => \A d \in Callers : ~ Creating(d)'
      BY DEF Creating
    <3> QED
      BY <3>1, <3>2 DEF TellsTrue, Paid, NothingTried, Nowhere, world
  <2> QED
    BY <2>1
<1> QED
  BY <1>1, <1>2, <1>3, <1>4 DEF AnswersInv

\* A call that ends, and tells at most what is true.
LEMMA HangStep ==
  ASSUME AnswersInv, GatewayTypeOK', NEW c \in Callers, Hang(c),
         UNCHANGED <<means, asked, world>>,
         heard' # heard => asked,
         \A t \in heard' : t \in heard \/ TellsTrue(t)'
  PROVE  AnswersInv'
<1>1. calls'[c] = NoCall /\ \A d \in Callers : d # c => calls'[d] = calls[d]
  BY DEF Hang, AnswersInv, GatewayTypeOK, CallsOK
<1>2. CallAgrees(c)' /\ ~ Creating(c)'
  BY <1>1 DEF CallAgrees, Creating, NoCall
<1> QED
  BY <1>1, <1>2, CallStep

\* A call that cannot be configured: nothing was created for it.
LEMMA NotConfiguredStep ==
  ASSUME AnswersInv, GatewayTypeOK', NEW c \in Callers, NotConfigured(c),
         calls[c].pc # "answered", UNCHANGED <<means, asked, world>>
  PROVE  AnswersInv'
<1>1. Hang(c)
  BY DEF NotConfigured
<1>2. CASE ~ Creating(c)
  BY <1>1, <1>2, HangStep DEF NotConfigured, Creating
<1>3. CASE Creating(c)
  <2>1. NothingTried /\ asked
    BY <1>3 DEF AnswersInv, CallAgrees, AskedOnce
  <2>2. \A d \in Callers : ~ Creating(d)'
    BY <1>1, <1>3 DEF AnswersInv, AskedOnce, Creating, Hang, NoCall, GatewayTypeOK, CallsOK
  <2>3. \A t \in heard' : t \in heard \/ t = <<1, "refused">>
    BY <1>3 DEF NotConfigured, Creating, Say
  <2>4. TellsTrue(<<1, "refused">>)'
    BY <2>1, <2>2 DEF TellsTrue, NothingTried, Nowhere, world
  <2> QED
    BY <1>1, <2>1, <2>3, <2>4, HangStep
<1> QED
  BY <1>2, <1>3


\* An answer that says nothing of a payment, or something true of it.
LEMMA AnsweredStep ==
  ASSUME AnswersInv, GatewayTypeOK', NEW c \in Callers, calls[c].pc = "sent",
         calls[c].op # "create", UNCHANGED <<means, asked, world, heard>>,
         NEW status \in Replies, NEW word \in Words \cup {"none"},
         AnsweredWith(c, status, word), Reflects(word, <<calls[c].with, calls[c].n>>)
  PROVE  AnswersInv'
<1>1. /\ calls'[c].op = calls[c].op /\ calls'[c].pc = "answered"
      /\ calls'[c].word = word /\ calls'[c].with = calls[c].with /\ calls'[c].n = calls[c].n
      /\ \A d \in Callers : d # c => calls'[d] = calls[d]
  BY DEF AnsweredWith, AnswersInv, GatewayTypeOK, CallsOK, Call
<1>2. CallAgrees(c)' /\ ~ Creating(c)'
  BY <1>1 DEF AnswersInv, CallAgrees, Creating, Reflects, Paid, world
<1> QED
  BY <1>1, <1>2, CallStep

\* A call that goes on to its next read, or is sent.
LEMMA GoStep ==
  ASSUME AnswersInv, GatewayTypeOK', NEW c \in Callers, NEW pc \in Stages, Go(c, pc),
         pc \notin {"idle", "answered"}, calls[c].pc # "answered",
         UNCHANGED <<means, asked, world, heard>>
  PROVE  AnswersInv'
<1>1. /\ calls'[c].op = calls[c].op /\ calls'[c].pc = pc
      /\ calls'[c].word = calls[c].word
      /\ \A d \in Callers : d # c => calls'[d] = calls[d]
  BY DEF Go, AnswersInv, GatewayTypeOK, CallsOK, Call
<1>2. CallAgrees(c)' /\ (Creating(c)' => Creating(c))
  BY <1>1 DEF AnswersInv, CallAgrees, Creating, Reflects, Paid, NothingTried, Nowhere, world
<1> QED
  BY <1>1, <1>2, CallStep

\* A call other than the one that creates begins.
LEMMA StartStep ==
  ASSUME AnswersInv, GatewayTypeOK', NEW c \in Callers, NEW call \in Call, Start(c, call),
         call.op # "create", call.op = "details" => asked, call.pc \in {"secret", "token"}, call.word = "none",
         UNCHANGED <<means, asked, world, heard>>
  PROVE  AnswersInv'
<1>1. calls'[c] = call /\ \A d \in Callers : d # c => calls'[d] = calls[d]
  BY DEF Start, AnswersInv, GatewayTypeOK, CallsOK
<1>2. CallAgrees(c)' /\ ~ Creating(c)'
  BY <1>1 DEF CallAgrees, Creating, Reflects
<1> QED
  BY <1>1, <1>2, CallStep


\* The provider takes nothing back: what was collected stays collected or is given
\* back, what failed stays failed.
Kept ==
  \A p \in PaymentIds : /\ Paid(p) => Paid(p)'
                        /\ made[p] \in {"failed", "rejected"} => made'[p] = made[p]

\* A word that reflects a payment goes on doing so.
LEMMA ReflectsKept ==
  ASSUME Kept, NEW p \in PaymentIds, NEW word, Reflects(word, p)
  PROVE  Reflects(word, p)'
  BY DEF Kept, Reflects

\* A read that came back earlier is still true.
LEMMA ReadsKept ==
  ASSUME AnswersInv, Kept, NEW d \in Callers, calls'[d] = calls[d], ~ Creating(d),
         asked => asked'
  PROVE  CallAgrees(d)'
<1>1. CallAgrees(d)
  BY DEF AnswersInv
<1>2. CASE calls[d].word = "none"
  BY <1>1, <1>2 DEF CallAgrees, Creating, Reflects
<1>3. CASE calls[d].word # "none"
  <2>1. calls[d].pc = "answered"
    BY <1>1, <1>3 DEF CallAgrees
  <2>2. <<calls[d].with, calls[d].n>> \in PaymentIds
    BY <2>1 DEF AnswersInv, GatewayTypeOK, CallsOK, Call, PaymentIds
  <2>3. calls[d].op \in {"read", "notice"} =>
          Reflects(calls[d].word, <<calls[d].with, calls[d].n>>)'
    BY <1>1, <2>2, ReflectsKept DEF CallAgrees, Reflects, Paid
  <2> QED
    BY <1>1, <2>1, <2>3 DEF CallAgrees, Creating, Reflects, Paid
<1> QED
  BY <1>2, <1>3

\* A step of the provider once something of the attempt is there.
LEMMA ProviderStep ==
  ASSUME AnswersInv, GatewayTypeOK', ~ NothingTried, Kept, OneAccount',
         UNCHANGED <<means, asked, calls, heard>>
  PROVE  AnswersInv'
<1>1. AskedOnce'
  BY DEF AnswersInv, AskedOnce, Creating
<1>2. ASSUME NEW d \in Callers PROVE CallAgrees(d)'
  <2>1. CASE ~ Creating(d)
    BY <2>1, ReadsKept
  <2>2. CASE Creating(d)
    <3>1. CallAgrees(d) /\ calls[d].pc = "answered" /\ means # "wallet"
      BY <2>2 DEF AnswersInv, CallAgrees
    <3>2. <<calls[d].with, 1>> \in PaymentIds
      BY <3>1, GatewayAssumption DEF AnswersInv, GatewayTypeOK, CallsOK, PaymentIds
    <3>3. Reflects(calls[d].word, <<calls[d].with, 1>>)'
      BY <2>2, <3>1, <3>2, ReflectsKept DEF CallAgrees, Reflects, Paid
    <3>4. ChargeOutcome(calls[d].status, calls[d].word) # "refused"
      BY <2>2, <3>1 DEF CallAgrees
    <3>5. calls[d].op = "create"
      BY <2>2 DEF Creating
    <3> QED
      BY <3>1, <3>3, <3>4, <3>5 DEF CallAgrees, Creating, Reflects, Paid
  <2> QED
    BY <2>1, <2>2
<1>3. ASSUME NEW t \in heard' PROVE TellsTrue(t)'
  <2>1. t \in heard /\ TellsTrue(t) /\ t[1] \in Tries
    BY DEF AnswersInv, GatewayTypeOK
  <2>2. t[2] = "approved" => \E a \in Accounts : Paid(<<a, t[1]>>)'
    BY <2>1 DEF TellsTrue, Kept, PaymentIds
  <2>3. t[2] = "rejected" => \E a \in Accounts : made'[<<a, t[1]>>] \in {"failed", "rejected"}
    BY <2>1 DEF TellsTrue, Kept, PaymentIds
  <2> QED
    BY <2>1, <2>2, <2>3 DEF TellsTrue, Paid
<1> QED
  BY <1>1, <1>2, <1>3 DEF AnswersInv

\* The provider processes the charge of call c, or keeps it for later.
LEMMA ChargeStep ==
  ASSUME AnswersInv, GatewayTypeOK', NEW c \in Callers, Sent(c, "create"), Kept,
         UNCHANGED <<means, asked, heard>>, OneAccount',
         \A d \in Callers : d # c => calls'[d] = calls[d], CallAgrees(c)'
  PROVE  AnswersInv'
<1>1. Creating(c) /\ NothingTried /\ asked
  BY DEF AnswersInv, AskedOnce, CallAgrees, Creating, Sent
<1>2. AskedOnce'
  BY <1>1 DEF AnswersInv, AskedOnce, Creating
<1>3. ASSUME NEW d \in Callers PROVE CallAgrees(d)'
  BY <1>1, ReadsKept DEF AnswersInv, AskedOnce
<1>4. ASSUME NEW t \in heard' PROVE TellsTrue(t)'
  <2>1. t \in heard /\ TellsTrue(t) /\ t[1] \in Tries
    BY DEF AnswersInv, GatewayTypeOK
  <2>2. \A a \in Accounts : made[<<a, t[1]>>] = "none"
    BY <1>1, <2>1 DEF NothingTried, Nowhere, PaymentIds
  <2>3. t[2] \notin {"approved", "rejected", "refused", "other"}
    BY <1>1, <2>1, <2>2 DEF TellsTrue, Paid, Collected
  <2> QED
    BY <2>3 DEF TellsTrue
<1> QED
  BY <1>2, <1>3, <1>4 DEF AnswersInv


\* Each step keeps what a call in flight may still report.
LEMMA AnswersStep ==
  ASSUME AnswersInv, [GatewayNext]_gatewayVars
  PROVE  AnswersInv'
<1>t. GatewayTypeOK'
  BY GatewayTyped DEF AnswersInv
<1>0. CASE UNCHANGED gatewayVars
  BY <1>0, <1>t DEF gatewayVars, settingRows, world, AnswersInv, AskedOnce, OneAccount, CallAgrees,
                    TellsTrue, NothingTried, Nowhere, Creating, Reflects, Paid
<1>1. CASE RefuseInstalments
  <2>1. NothingTried /\ heard' = {<<1, "refused">>} /\ \A d \in Callers : ~ Creating(d)
    BY <1>1, GatewayAssumption DEF RefuseInstalments, AnswersInv, AskedOnce, Say, Certain
  <2>2. AskedOnce' /\ OneAccount'
    BY <1>1, <2>1 DEF RefuseInstalments, AnswersInv, AskedOnce, OneAccount, Creating, Nowhere, world
  <2>3. \A d \in Callers : CallAgrees(d)'
    BY <1>1, <2>1 DEF RefuseInstalments, AnswersInv, CallAgrees, Creating, Reflects, Paid, world
  <2>4. \A t \in heard' : TellsTrue(t)'
    BY <1>1, <2>1 DEF RefuseInstalments, TellsTrue, Creating, NothingTried, Nowhere, world
  <2> QED
    BY <1>t, <2>2, <2>3, <2>4 DEF AnswersInv
<1>2. CASE ProcessLateCharge
  <2>1. PICK word \in OrderWords : made' = [made EXCEPT ![<<late, 1>>] = word]
    BY <1>2 DEF ProcessLateCharge
  <2>2. late \in Accounts /\ Nowhere /\ page = Blank
    BY <1>2 DEF ProcessLateCharge, AnswersInv, GatewayTypeOK, OneAccount
  <2>3. <<late, 1>> \in PaymentIds
    BY <2>2, GatewayAssumption DEF PaymentIds
  <2>4. \A p \in PaymentIds : made'[p] = IF p = <<late, 1>> THEN word ELSE "none"
    BY <2>1, <2>2 DEF Nowhere, AnswersInv, GatewayTypeOK
  <2>5. Kept
    BY <2>2, <2>4 DEF Kept, Nowhere, Paid, Collected
  <2>6. OneAccount'
    BY <1>2, <2>2, <2>4 DEF ProcessLateCharge, OneAccount
  <2> QED
    BY <1>2, <1>t, <2>5, <2>6, ProviderStep DEF ProcessLateCharge, NothingTried
<1>3. ASSUME NEW c \in Callers, StartCreate(c) PROVE AnswersInv'
  <2>1. /\ calls'[c] = [NoCall EXCEPT !.op = "create", !.pc = "token"]
        /\ \A d \in Callers : d # c => calls'[d] = calls[d]
    BY <1>3 DEF StartCreate, Start, AnswersInv, GatewayTypeOK, CallsOK
  <2>2. NothingTried /\ heard' = {} /\ \A d \in Callers : ~ Creating(d)
    BY <1>3 DEF StartCreate, AnswersInv, AskedOnce
  <2>3. AskedOnce'
    BY <1>3, <2>1, <2>2 DEF StartCreate, AskedOnce, Creating
  <2>4. OneAccount'
    BY <1>3 DEF StartCreate, AnswersInv, OneAccount, Nowhere, world
  <2>5. CallAgrees(c)'
    BY <1>3, <2>1, <2>2 DEF StartCreate, CallAgrees, Creating, NothingTried, Nowhere, NoCall, world
  <2>6. ASSUME NEW d \in Callers, d # c PROVE CallAgrees(d)'
    <3>1. CallAgrees(d) /\ calls'[d] = calls[d] /\ ~ Creating(d)
      BY <2>1, <2>2, <2>6 DEF AnswersInv
    <3> QED
      BY <1>3, <3>1 DEF StartCreate, CallAgrees, Creating, Reflects, Paid, world
  <2> QED
    BY <1>t, <2>2, <2>3, <2>4, <2>5, <2>6 DEF AnswersInv
<1>4. ASSUME NEW c \in Callers, NEW p \in PaymentIds, StartRead(c, p) PROVE AnswersInv'
  <2>1. [NoCall EXCEPT !.op = "read", !.pc = "token", !.n = p[2]] \in Call
    BY NoCallTyped DEF NoCall, Call, Stages, PaymentIds
  <2> QED
    BY <1>4, <1>t, <2>1, StartStep DEF StartRead, NoCall
<1>5. ASSUME NEW c \in Callers, NEW p \in PaymentIds, StartNotice(c, p) PROVE AnswersInv'
  <2>1. [NoCall EXCEPT !.op = "notice", !.pc = "secret", !.n = p[2], !.from = p[1]] \in Call
    BY NoCallTyped DEF NoCall, Call, Stages, PaymentIds
  <2> QED
    BY <1>5, <1>t, <2>1, StartStep DEF StartNotice, NoCall
<1>6. ASSUME NEW c \in Callers, NEW n \in Tries, StartDetails(c, n) PROVE AnswersInv'
  <2>1. [NoCall EXCEPT !.op = "details", !.pc = "token", !.n = n] \in Call
    BY NoCallTyped DEF NoCall, Call, Stages, PaymentIds
  <2> QED
    BY <1>6, <1>t, <2>1, StartStep DEF StartDetails, NoCall, AnswersInv, AskedOnce
<1>7. ASSUME NEW c \in Callers, CheckSignature(c) PROVE AnswersInv'
  <2>1. CASE Go(c, "token")
    BY <1>7, <1>t, <2>1, GoStep DEF CheckSignature, Stages
  <2>2. CASE Hang(c)
    BY <1>7, <1>t, <2>2, HangStep DEF CheckSignature
  <2> QED
    BY <1>7, <2>1, <2>2 DEF CheckSignature
<1>8. ASSUME NEW c \in Callers, ReadToken(c) PROVE AnswersInv'
  <2>1. CASE credential.token = Blank
    BY <1>8, <1>t, <2>1, NotConfiguredStep DEF ReadToken
  <2>2. CASE credential.token # Blank
    <3>1. calls' = [calls EXCEPT ![c].pc = "environment", ![c].with = credential.token]
          /\ UNCHANGED <<means, asked, world, heard>>
      BY <1>8, <2>2 DEF ReadToken
    <3>2. /\ calls'[c].op = calls[c].op /\ calls'[c].pc = "environment"
          /\ calls'[c].word = calls[c].word
          /\ \A d \in Callers : d # c => calls'[d] = calls[d]
      BY <3>1 DEF AnswersInv, GatewayTypeOK, CallsOK, Call
    <3>3. calls[c].word = "none" /\ CallAgrees(c) /\ calls[c].pc = "token"
      BY <1>8 DEF ReadToken, AnswersInv, CallAgrees
    <3>4. CallAgrees(c)' /\ (Creating(c)' => Creating(c))
      BY <3>1, <3>2, <3>3 DEF CallAgrees, Creating, Reflects, NothingTried, Nowhere, world
    <3> QED
      BY <1>t, <3>1, <3>2, <3>4, CallStep
  <2> QED
    BY <2>1, <2>2
<1>9. ASSUME NEW c \in Callers, ReadEnvironment(c) PROVE AnswersInv'
  <2>1. CASE "environment" \notin usable
    BY <1>9, <1>t, <2>1, NotConfiguredStep DEF ReadEnvironment
  <2>2. CASE ~ ("environment" \notin usable)
    BY <1>9, <1>t, <2>2, GoStep DEF ReadEnvironment, Stages
  <2> QED
    BY <2>1, <2>2
<1>10. ASSUME NEW c \in Callers, ReadUrls(c) PROVE AnswersInv'
  <2>1. CASE "urls" \notin usable
    BY <1>10, <1>t, <2>1, NotConfiguredStep DEF ReadUrls
  <2>2. CASE ~ ("urls" \notin usable)
    BY <1>10, <1>t, <2>2, GoStep DEF ReadUrls, Stages
  <2> QED
    BY <2>1, <2>2
<1>11. ASSUME NEW c \in Callers, ProcessCharge(c) PROVE AnswersInv'
  <2>1. PICK word \in OrderWords \cup {"none"} : \E status \in AnswersTo(word) :
          /\ made' = [made EXCEPT ![<<calls[c].with, 1>>] = word]
          /\ AnsweredWith(c, status, IF status \in {"ok", "declined"} THEN word ELSE "none")
    BY <1>11 DEF ProcessCharge
  <2>2. PICK status \in AnswersTo(word) :
          /\ made' = [made EXCEPT ![<<calls[c].with, 1>>] = word]
          /\ AnsweredWith(c, status, IF status \in {"ok", "declined"} THEN word ELSE "none")
    BY <2>1
  <2> DEFINE told_ == IF status \in {"ok", "declined"} THEN word ELSE "none"
  <2>3. calls[c].with \in Accounts /\ NothingTried
    BY <1>11 DEF ProcessCharge, Sent, AnswersInv, GatewayTypeOK, CallsOK, CallAgrees, Creating
  <2>4. <<calls[c].with, 1>> \in PaymentIds
    BY <2>3, GatewayAssumption DEF PaymentIds
  <2>5. \A p \in PaymentIds : made'[p] = IF p = <<calls[c].with, 1>> THEN word ELSE "none"
    BY <2>2, <2>3 DEF NothingTried, Nowhere, AnswersInv, GatewayTypeOK
  <2>6. Kept
    BY <2>3, <2>5 DEF Kept, NothingTried, Nowhere, Paid, Collected
  <2>7. OneAccount'
    BY <1>11, <2>3, <2>5 DEF ProcessCharge, OneAccount, NothingTried
  <2>8. /\ calls'[c].op = "create" /\ calls'[c].pc = "answered" /\ calls'[c].status = status
        /\ calls'[c].word = told_ /\ calls'[c].with = calls[c].with
        /\ \A d \in Callers : d # c => calls'[d] = calls[d]
    BY <1>11, <2>2 DEF ProcessCharge, Sent, AnsweredWith, AnswersInv, GatewayTypeOK, CallsOK, Call
  <2>9. told_ \in {word, "none"}
    OBVIOUS
  <2>10. Reflects(calls[c].word, <<calls[c].with, 1>>)'
    BY <2>4, <2>5, <2>8, <2>9 DEF Reflects, Paid, Collected
  <2>11. ChargeOutcome(status, told_) = "refused" => word = "none"
    BY DEF ChargeOutcome, MapOrderStatus, AnswersTo, OrderWords
  <2>12. word = "none" => NothingTried'
    BY <1>11, <2>3, <2>5 DEF ProcessCharge, NothingTried, Nowhere
  <2>13. means' = "card"
    BY <1>11 DEF ProcessCharge
  <2> HIDE DEF told_
  <2>14. CallAgrees(c)'
    BY <2>8, <2>10, <2>11, <2>12, <2>13 DEF CallAgrees, Creating, Reflects, Paid
  <2> QED
    BY <1>11, <1>t, <2>6, <2>7, <2>8, <2>14, ChargeStep DEF ProcessCharge
<1>12. ASSUME NEW c \in Callers, OutliveCharge(c) PROVE AnswersInv'
  <2>1. calls[c].with \in Accounts /\ NothingTried /\ calls[c].op = "create"
    BY <1>12 DEF OutliveCharge, Sent, AnswersInv, GatewayTypeOK, CallsOK, CallAgrees, Creating
  <2>2. Kept
    BY <1>12 DEF OutliveCharge, Kept, Paid
  <2>3. OneAccount'
    BY <1>12, <2>1 DEF OutliveCharge, OneAccount, NothingTried, Nowhere
  <2>4. \A d \in Callers : d # c => calls'[d] = calls[d]
    BY <1>12 DEF OutliveCharge, AnsweredWith, Hang, AnswersInv, GatewayTypeOK, CallsOK
  <2>5. CASE AnsweredWith(c, "lost", "none")
    <3>1. /\ calls'[c].pc = "answered" /\ calls'[c].status = "lost" /\ calls'[c].word = "none"
          /\ calls'[c].op = "create"
      BY <2>1, <2>5 DEF AnsweredWith, AnswersInv, GatewayTypeOK, CallsOK, Call
    <3>2. CallAgrees(c)'
      BY <1>12, <3>1 DEF OutliveCharge, CallAgrees, Creating, Reflects, ChargeOutcome
    <3> QED
      BY <1>12, <1>t, <2>2, <2>3, <2>4, <3>2, ChargeStep DEF OutliveCharge
  <2>6. CASE Hang(c)
    <3>1. calls'[c] = NoCall
      BY <2>6 DEF Hang, AnswersInv, GatewayTypeOK, CallsOK
    <3>2. CallAgrees(c)'
      BY <3>1 DEF CallAgrees, Creating, NoCall
    <3> QED
      BY <1>12, <1>t, <2>2, <2>3, <2>4, <3>2, ChargeStep DEF OutliveCharge
  <2> QED
    BY <1>12, <2>5, <2>6 DEF OutliveCharge
<1>13. ASSUME NEW c \in Callers, ProcessPreference(c) PROVE AnswersInv'
  <2>1. PICK status \in {"ok", "bodyless", "unauthorized", "refused", "busy", "lost"} :
          AnsweredWith(c, status, "none")
    BY <1>13 DEF ProcessPreference
  <2>2. /\ calls'[c].op = "create" /\ calls'[c].pc = "answered" /\ calls'[c].word = "none"
        /\ \A d \in Callers : d # c => calls'[d] = calls[d]
    BY <1>13, <2>1 DEF ProcessPreference, Sent, AnsweredWith, AnswersInv, GatewayTypeOK, CallsOK, Call
  <2>3. NothingTried /\ Creating(c)
    BY <1>13 DEF ProcessPreference, Sent, AnswersInv, CallAgrees, Creating
  <2>4. CallAgrees(c)'
    BY <1>13, <2>2, <2>3 DEF ProcessPreference, CallAgrees, Creating, NothingTried, Nowhere, world
  <2> QED
    BY <1>13, <1>t, <2>2, <2>3, <2>4, CallStep DEF ProcessPreference
<1>14. ASSUME NEW c \in Callers, ProcessRead(c) PROVE AnswersInv'
  <2> DEFINE word == made[<<calls[c].with, calls[c].n>>]
  <2>1. calls[c].pc = "sent" /\ calls[c].op # "create"
    BY <1>14 DEF ProcessRead, Sent
  <2>2. <<calls[c].with, calls[c].n>> \in PaymentIds
    BY <2>1 DEF AnswersInv, GatewayTypeOK, CallsOK, Call, PaymentIds
  <2>3. word \in Words \cup {"none"}
    BY <2>2 DEF AnswersInv, GatewayTypeOK
  <2>4. Reflects("none", <<calls[c].with, calls[c].n>>)
        /\ Reflects(word, <<calls[c].with, calls[c].n>>)
    BY DEF Reflects, Paid, Collected
  <2>5. \E status \in Replies, w \in {word, "none"} : AnsweredWith(c, status, w)
    BY <1>14 DEF ProcessRead, Replies
  <2> HIDE DEF word
  <2> QED
    BY <1>14, <1>t, <2>1, <2>3, <2>4, <2>5, AnsweredStep DEF ProcessRead
<1>15. ASSUME NEW c \in Callers, ProcessDetails(c) PROVE AnswersInv'
  <2>1. calls[c].pc = "sent" /\ calls[c].op = "details"
    BY <1>15 DEF ProcessDetails, Sent
  <2>2. /\ calls'[c].op = calls[c].op /\ calls'[c].pc = "answered"
        /\ \A d \in Callers : d # c => calls'[d] = calls[d]
    BY <1>15 DEF ProcessDetails, AnsweredWith, AnswersInv, GatewayTypeOK, CallsOK, Call
  <2>3. CallAgrees(c)' /\ ~ Creating(c)'
    BY <1>15, <2>1, <2>2 DEF ProcessDetails, AnswersInv, CallAgrees, Creating
  <2> QED
    BY <1>15, <1>t, <2>2, <2>3, CallStep DEF ProcessDetails
<1>16. ASSUME NEW c \in Callers, AnswerCharge(c) PROVE AnswersInv'
  <2>0. PICK outcome : outcome = ChargeOutcome(calls[c].status, calls[c].word)
    OBVIOUS
  <2>1. Creating(c) /\ CallAgrees(c) /\ asked /\ calls[c].with \in Accounts
    BY <1>16 DEF AnswerCharge, Creating, AnswersInv, AskedOnce, GatewayTypeOK, CallsOK
  <2>2. Reflects(calls[c].word, <<calls[c].with, 1>>) /\ (outcome = "refused" => NothingTried)
    BY <1>16, <2>0, <2>1 DEF AnswerCharge, CallAgrees
  <2>3. \A d \in Callers : ~ Creating(d)'
    BY <1>16, <2>1 DEF AnswerCharge, AnswersInv, AskedOnce, Creating, Hang, NoCall, GatewayTypeOK, CallsOK
  <2>4. /\ outcome = "approved" => calls[c].word = "accredited"
        /\ outcome = "rejected" => calls[c].word = "failed"
        /\ outcome # "other"
    BY <2>0 DEF ChargeOutcome, MapOrderStatus
  <2>5. TellsTrue(<<1, outcome>>)'
    <3>1. outcome = "approved" => \E a \in Accounts : Paid(<<a, 1>>)'
      BY <1>16, <2>1, <2>2, <2>4 DEF AnswerCharge, Reflects, Paid, world
    <3>2. outcome = "rejected" => \E a \in Accounts : made'[<<a, 1>>] \in {"failed", "rejected"}
      BY <1>16, <2>1, <2>2, <2>4 DEF AnswerCharge, Reflects, world
    <3>3. outcome = "refused" => NothingTried'
      BY <1>16, <2>2 DEF AnswerCharge, NothingTried, Nowhere, world
    <3> QED
      BY <2>3, <2>4, <3>1, <3>2, <3>3 DEF TellsTrue, Paid
  <2>6. \A t \in heard' : t \in heard \/ t = <<1, outcome>>
    BY <1>16, <2>0 DEF AnswerCharge, Say
  <2> QED
    BY <1>16, <1>t, <2>1, <2>5, <2>6, HangStep DEF AnswerCharge
<1>17. ASSUME NEW c \in Callers, AnswerPreference(c) PROVE AnswersInv'
  <2>1. Creating(c) /\ NothingTried /\ asked /\ calls[c].with \in Accounts
    BY <1>17 DEF AnswerPreference, Creating, AnswersInv, CallAgrees, AskedOnce, GatewayTypeOK, CallsOK
  <2>2. /\ calls'[c] = NoCall /\ \A d \in Callers : d # c => calls'[d] = calls[d]
        /\ \A d \in Callers : ~ Creating(d)'
    BY <1>17, <2>1 DEF AnswerPreference, AnswersInv, AskedOnce, Creating, Hang, NoCall, GatewayTypeOK, CallsOK
  <2>3. CASE PreferenceOutcome(calls[c].status) # "redirect"
    <3>1. PreferenceOutcome(calls[c].status) = "refused"
      BY <2>3 DEF PreferenceOutcome
    <3>2. UNCHANGED world
      BY <1>17, <2>3 DEF AnswerPreference, world
    <3>3. TellsTrue(<<1, "refused">>)'
      BY <2>1, <2>2, <3>2 DEF TellsTrue, NothingTried, Nowhere, world
    <3>4. \A t \in heard' : t \in heard \/ t = <<1, "refused">>
      BY <1>17, <3>1 DEF AnswerPreference, Say
    <3> QED
      BY <1>17, <1>t, <2>1, <3>2, <3>3, <3>4, HangStep DEF AnswerPreference
  <2>4. CASE PreferenceOutcome(calls[c].status) = "redirect"
    <3>1. page' = calls[c].with /\ heard' = heard /\ means' = "wallet" /\ made' = made /\ late' = late
          /\ asked' = asked /\ means' = means
      BY <1>17, <2>4 DEF AnswerPreference, Say, Certain
    <3>2. AskedOnce'
      BY <2>1, <2>2, <3>1 DEF AskedOnce
    <3>3. OneAccount'
      BY <2>1, <3>1 DEF OneAccount, NothingTried, Nowhere
    <3>4. ASSUME NEW d \in Callers PROVE CallAgrees(d)'
      <4>1. CASE d = c
        BY <2>2, <4>1 DEF CallAgrees, Creating, NoCall
      <4>2. CASE d # c
        <5>1. CallAgrees(d) /\ calls'[d] = calls[d] /\ ~ Creating(d)
          BY <2>1, <2>2, <4>2 DEF AnswersInv, AskedOnce
        <5> QED
          BY <3>1, <5>1 DEF CallAgrees, Creating, Reflects, Paid
      <4> QED
        BY <4>1, <4>2
    <3>5. ASSUME NEW t \in heard' PROVE TellsTrue(t)'
      <4>1. t \in heard /\ TellsTrue(t) /\ t[2] # "refused"
        BY <2>1, <3>1 DEF AnswersInv, TellsTrue
      <4> QED
        BY <3>1, <4>1 DEF TellsTrue, Paid
    <3> QED
      BY <1>t, <3>2, <3>3, <3>4, <3>5 DEF AnswersInv
  <2> QED
    BY <2>3, <2>4
<1>18. ASSUME NEW c \in Callers, AnswerRead(c) PROVE AnswersInv'
  <2>0. PICK outcome, n : outcome = ReadOutcome(calls[c].status, calls[c].word) /\ n = calls[c].n
    OBVIOUS
  <2>1. CallAgrees(c) /\ calls[c].with \in Accounts /\ calls[c].n \in Tries
    BY <1>18 DEF AnswerRead, AnswersInv, GatewayTypeOK, CallsOK, Call
  <2>2. Reflects(calls[c].word, <<calls[c].with, calls[c].n>>)
    BY <1>18, <2>1 DEF AnswerRead, CallAgrees
  <2>3. /\ outcome = "approved" => calls[c].word \in {"accredited", "approved"}
        /\ outcome = "rejected" => calls[c].word \in {"failed", "rejected"}
        /\ outcome \notin {"other", "refused"}
    BY <2>0 DEF ReadOutcome, MapOrderStatus, MapPaymentRecordStatus
  <2>4. TellsTrue(<<n, outcome>>)'
    <3>1. outcome = "approved" => \E a \in Accounts : Paid(<<a, n>>)
      BY <2>0, <2>1, <2>2, <2>3 DEF Reflects
    <3>2. outcome = "rejected" => \E a \in Accounts : made[<<a, n>>] \in {"failed", "rejected"}
      BY <2>0, <2>1, <2>2, <2>3 DEF Reflects
    <3>3. UNCHANGED made
      BY <1>18 DEF AnswerRead, world
    <3> QED
      BY <2>3, <3>1, <3>2, <3>3 DEF TellsTrue, Paid
  <2>5. \A t \in heard' : t \in heard \/ t = <<n, outcome>>
    BY <1>18, <2>0 DEF AnswerRead, Say
  <2>6. heard' # heard => asked
    <3>1. heard' # heard => outcome \in {"approved", "rejected"}
      BY <1>18, <2>0, <2>3 DEF AnswerRead, Say, ReadOutcome, MapOrderStatus, MapPaymentRecordStatus, Certain
    <3>2. outcome \in {"approved", "rejected"} => made[<<calls[c].with, calls[c].n>>] # "none"
      BY <2>2, <2>3 DEF Reflects, Paid, Collected
    <3>3. <<calls[c].with, calls[c].n>> \in PaymentIds
      BY <2>1 DEF PaymentIds
    <3> QED
      BY <3>1, <3>2, <3>3 DEF AnswersInv, AskedOnce, NothingTried, Nowhere
  <2> QED
    BY <1>18, <1>t, <2>4, <2>5, <2>6, HangStep DEF AnswerRead
<1>19. ASSUME NEW c \in Callers, AnswerDetails(c) PROVE AnswersInv'
  <2>1. \A t \in heard' : t \in heard \/ t[2] = "own"
    BY <1>19 DEF AnswerDetails, FindPaymentRecord
  <2>2. \A t \in heard' : t \in heard \/ TellsTrue(t)'
    BY <2>1 DEF TellsTrue
  <2>3. asked
    BY <1>19 DEF AnswerDetails, AnswersInv, CallAgrees
  <2> QED
    BY <1>19, <1>t, <2>2, <2>3, HangStep DEF AnswerDetails
<1>20. ASSUME NEW c \in Callers, CallDies(c) PROVE AnswersInv'
  BY <1>20, <1>t, HangStep DEF CallDies
<1>21. ASSUME NEW n \in Tries, PayOnPage(n) PROVE AnswersInv'
  <2>1. PICK word \in RecordWords : made' = [made EXCEPT ![<<page, n>>] = word]
    BY <1>21 DEF PayOnPage
  <2>2. page \in Accounts /\ page # Blank /\ made[<<page, n>>] = "none"
    BY <1>21 DEF PayOnPage, AnswersInv, GatewayTypeOK
  <2>3. \A p \in PaymentIds : made'[p] = IF p = <<page, n>> THEN word ELSE made[p]
    BY <2>1 DEF AnswersInv, GatewayTypeOK
  <2>4. Kept
    BY <2>2, <2>3 DEF Kept, Paid, Collected
  <2>5. \A p \in PaymentIds : made[p] # "none" => p[1] = page
    BY <2>2 DEF AnswersInv, OneAccount
  <2>6. \A p \in PaymentIds : made'[p] # "none" => p[1] = page
    BY <2>3, <2>5
  <2>7. page # Blank /\ late = Blank
    BY <1>21 DEF PayOnPage, AnswersInv, OneAccount
  <2>8. OneAccount'
    BY <1>21, <2>6, <2>7 DEF PayOnPage, AnswersInv, OneAccount
  <2> QED
    BY <1>21, <1>t, <2>4, <2>7, <2>8, ProviderStep DEF PayOnPage, NothingTried
<1>22. ASSUME NEW p \in PaymentIds, MoveOn(p) PROVE AnswersInv'
  <2>1. PICK word \in Words : made' = [made EXCEPT ![p] = word]
    BY <1>22 DEF MoveOn, Words
  <2>2. made[p] \in Undecided \/ (made[p] \in {"accredited", "approved"} /\ made'[p] = "refunded")
    BY <1>22 DEF MoveOn, AnswersInv, GatewayTypeOK
  <2>3. \A q \in PaymentIds : made'[q] = IF q = p THEN word ELSE made[q]
    BY <2>1 DEF AnswersInv, GatewayTypeOK
  <2>4. Kept
    BY <2>2, <2>3 DEF Kept, Paid, Collected, Undecided
  <2>5. made[p] # "none"
    BY <2>2 DEF Undecided
  <2>6. ~ NothingTried /\ late = Blank
    BY <2>5 DEF AnswersInv, OneAccount, NothingTried, Nowhere
  <2>7. OneAccount'
    BY <1>22, <2>3, <2>5, <2>6 DEF MoveOn, AnswersInv, OneAccount
  <2> QED
    BY <1>22, <1>t, <2>4, <2>6, <2>7, ProviderStep DEF MoveOn
<1>23. ASSUME NEW field \in {"token", "secret"}, NEW a \in Accounts, SaveCredential(field, a) PROVE AnswersInv'
  BY <1>23, <1>t DEF SaveCredential, world, AnswersInv, AskedOnce, OneAccount, CallAgrees, TellsTrue, NothingTried,
                 Nowhere, Creating, Reflects, Paid
<1>24. ASSUME NEW s \in OtherRows, SaveOther(s) PROVE AnswersInv'
  BY <1>24, <1>t DEF SaveOther, world, AnswersInv, AskedOnce, OneAccount, CallAgrees, TellsTrue, NothingTried,
                 Nowhere, Creating, Reflects, Paid
<1> QED
  BY <1>0, <1>1, <1>2, <1>3, <1>4, <1>5, <1>6, <1>7, <1>8, <1>9, <1>10, <1>11, <1>12, <1>13, <1>14, <1>15, <1>16, <1>17, <1>18, <1>19, <1>20, <1>21, <1>22, <1>23, <1>24 DEF GatewayNext

\* Nothing has been asked yet.
LEMMA AnswersInit == GatewayInit => AnswersInv
<1> SUFFICES ASSUME GatewayInit PROVE AnswersInv
  OBVIOUS
<1>1. credential \in [token : Accounts \cup {Blank}, secret : Accounts \cup {Blank}]
  BY DEF GatewayInit
<1>2. GatewayTypeOK
  BY <1>1, NoCallTyped DEF GatewayInit, GatewayTypeOK, CallsOK, NoCall, PaymentIds
<1>3. NothingTried /\ heard = {} /\ \A c \in Callers : calls[c] = NoCall
  BY DEF GatewayInit, NothingTried, Nowhere
<1>4. AskedOnce /\ OneAccount
  BY <1>3 DEF AskedOnce, OneAccount, Creating, NoCall, NothingTried, Nowhere
<1>5. \A c \in Callers : CallAgrees(c)
  BY <1>3 DEF CallAgrees, Creating, Reflects, NoCall
<1> QED
  BY <1>2, <1>3, <1>4, <1>5 DEF AnswersInv

\* Calls may report only what holds, in every behaviour.
LEMMA AnswersAlways == GatewaySpec => []AnswersInv
<1>1. GatewayInit => AnswersInv
  BY AnswersInit
<1>2. AnswersInv /\ [GatewayNext]_gatewayVars => AnswersInv'
  BY AnswersStep
<1> QED
  BY <1>1, <1>2, PTL DEF GatewaySpec

\* What a caller was told for certain stays true, whatever credentials are entered,
\* however late a charge is processed and whichever calls die.
THEOREM AnswersAreKept == GatewaySpec => []AnswersHold
<1>1. AnswersInv => AnswersHold
  <2> SUFFICES ASSUME AnswersInv, NEW t \in heard
               PROVE  /\ t[2] = "approved" => \E a \in Accounts : Paid(<<a, t[1]>>)
                      /\ t[2] = "rejected" => \A a \in Accounts : ~ Paid(<<a, t[1]>>)
                      /\ t[2] = "refused" => \A p \in PaymentIds : ~ Paid(p)
                      /\ t[2] # "other"
    BY DEF AnswersHold
  <2>1. TellsTrue(t) /\ t[1] \in Tries /\ OneAccount
    BY DEF AnswersInv, GatewayTypeOK
  <2>2. ASSUME t[2] = "rejected", NEW a \in Accounts PROVE ~ Paid(<<a, t[1]>>)
    <3>1. PICK b \in Accounts : made[<<b, t[1]>>] \in {"failed", "rejected"}
      BY <2>1, <2>2 DEF TellsTrue
    <3>2. <<a, t[1]>> \in PaymentIds /\ <<b, t[1]>> \in PaymentIds
      BY <2>1 DEF PaymentIds
    <3>3. made[<<a, t[1]>>] # "none" => a = b
      BY <2>1, <3>1, <3>2 DEF OneAccount
    <3> QED
      BY <3>1, <3>3 DEF Paid, Collected
  <2>3. t[2] = "refused" => \A p \in PaymentIds : ~ Paid(p)
    BY <2>1 DEF TellsTrue, NothingTried, Nowhere, Paid, Collected
  <2> QED
    BY <2>1, <2>2, <2>3 DEF TellsTrue
<1> QED
  BY <1>1, AnswersAlways, PTL

\* The types of the gateway.
THEOREM GatewayTypeCorrect == GatewaySpec => []GatewayTypeOK
<1>1. AnswersInv => GatewayTypeOK
  BY DEF AnswersInv
<1> QED
  BY <1>1, AnswersAlways, PTL

\* A step that edits no credential: what it makes is made with a token, the calls it
\* leaves alone and the payments it keeps agree as before.
LEMMA NoticeStep ==
  ASSUME NoticesInv, GatewayTypeOK, UNCHANGED <<credential, mixed>>,
         \A p \in PaymentIds : made[p] # "none" => made'[p] # "none",
         credential.token = Blank => UNCHANGED world,
         \A d \in Callers : \/ calls'[d] = calls[d]
                            \/ calls'[d] = NoCall
                            \/ NoticeAgrees(d)' /\ (credential.token = Blank => calls'[d].with = Blank),
         dropped' => dropped \/ mixed
  PROVE  NoticesInv'
<1>1. credential.token = Blank => NothingTried'
  BY DEF NoticesInv, NothingTried, Nowhere, world
<1>2. credential.token = Blank => \A d \in Callers : calls'[d].with = Blank
  BY DEF NoticesInv, NoCall
<1>3. ASSUME NEW d \in Callers PROVE NoticeAgrees(d)'
  <2>1. CASE calls'[d] = calls[d]
    <3>1. NoticeAgrees(d) /\ calls[d].n \in Tries
      BY DEF NoticesInv, GatewayTypeOK, CallsOK, Call
    <3>2. calls[d].from \in Accounts => <<calls[d].from, calls[d].n>> \in PaymentIds
      BY <3>1 DEF PaymentIds
    <3> QED
      BY <2>1, <3>1, <3>2 DEF NoticeAgrees
  <2>2. CASE calls'[d] = NoCall
    BY <2>2 DEF NoticeAgrees, NoCall
  <2> QED
    BY <2>1, <2>2
<1> QED
  BY <1>1, <1>2, <1>3 DEF NoticesInv

\* Each step keeps the account a notice came from.
LEMMA NoticesStep ==
  ASSUME NoticesInv, AnswersInv, [GatewayNext]_gatewayVars
  PROVE  NoticesInv'
<1>t. GatewayTypeOK
  BY DEF AnswersInv
<1>f. calls \in [Callers -> Call] /\ \A c \in Callers : calls[c].n \in Tries
  BY <1>t DEF GatewayTypeOK, CallsOK, Call
<1>0. CASE UNCHANGED gatewayVars
  BY <1>0, <1>t, NoticeStep DEF gatewayVars, settingRows, world
<1>1. CASE RefuseInstalments
  BY <1>1, <1>t, NoticeStep DEF RefuseInstalments, settingRows, world
<1>2. CASE ProcessLateCharge
  <2>1. late \in Accounts /\ Nowhere
    BY <1>2 DEF ProcessLateCharge, AnswersInv, OneAccount, GatewayTypeOK
  <2>2. credential.token # Blank
    BY <1>2 DEF ProcessLateCharge, NoticesInv, NothingTried
  <2>3. \A p \in PaymentIds : made[p] # "none" => made'[p] # "none"
    BY <2>1 DEF Nowhere
  <2> QED
    BY <1>2, <1>t, <2>2, <2>3, NoticeStep DEF ProcessLateCharge, settingRows, world
<1>3. ASSUME NEW c \in Callers, StartCreate(c) PROVE NoticesInv'
  <2>1. /\ calls'[c] = [NoCall EXCEPT !.op = "create", !.pc = "token"]
        /\ \A d \in Callers : d # c => calls'[d] = calls[d]
    BY <1>3, <1>f DEF StartCreate, Start
  <2>2. NoticeAgrees(c)' /\ calls'[c].with = Blank
    BY <2>1 DEF NoticeAgrees, NoCall
  <2> QED
    BY <1>3, <1>t, <2>1, <2>2, NoticeStep DEF StartCreate, settingRows, world
<1>4. ASSUME NEW c \in Callers, NEW p \in PaymentIds, StartRead(c, p) PROVE NoticesInv'
  <2>1. /\ calls'[c] = [NoCall EXCEPT !.op = "read", !.pc = "token", !.n = p[2]]
        /\ \A d \in Callers : d # c => calls'[d] = calls[d]
    BY <1>4, <1>f DEF StartRead, Start
  <2>2. NoticeAgrees(c)' /\ calls'[c].with = Blank
    BY <1>4, <2>1 DEF StartRead, NoticeAgrees, NoCall, PaymentIds, world
  <2> QED
    BY <1>4, <1>t, <2>1, <2>2, NoticeStep DEF StartRead, settingRows, world
<1>5. ASSUME NEW c \in Callers, NEW p \in PaymentIds, StartNotice(c, p) PROVE NoticesInv'
  <2>1. /\ calls'[c] = [NoCall EXCEPT !.op = "notice", !.pc = "secret", !.n = p[2], !.from = p[1]]
        /\ \A d \in Callers : d # c => calls'[d] = calls[d]
    BY <1>5, <1>f DEF StartNotice, Start
  <2>2. NoticeAgrees(c)' /\ calls'[c].with = Blank
    BY <1>5, <2>1 DEF StartNotice, NoticeAgrees, NoCall, PaymentIds, world
  <2> QED
    BY <1>5, <1>t, <2>1, <2>2, NoticeStep DEF StartNotice, settingRows, world
<1>6. ASSUME NEW c \in Callers, NEW n \in Tries, StartDetails(c, n) PROVE NoticesInv'
  <2>1. /\ calls'[c] = [NoCall EXCEPT !.op = "details", !.pc = "token", !.n = n]
        /\ \A d \in Callers : d # c => calls'[d] = calls[d]
    BY <1>6, <1>f DEF StartDetails, Start
  <2>2. NoticeAgrees(c)' /\ calls'[c].with = Blank
    BY <1>6, <2>1 DEF StartDetails, NoticeAgrees, NoCall, PaymentIds, world
  <2> QED
    BY <1>6, <1>t, <2>1, <2>2, NoticeStep DEF StartDetails, settingRows, world
<1>7. ASSUME NEW c \in Callers, CheckSignature(c) PROVE NoticesInv'
  <2>1. CASE credential.secret = calls[c].from
    <3>1. /\ calls'[c] = [calls[c] EXCEPT !.pc = "token"]
          /\ \A d \in Callers : d # c => calls'[d] = calls[d]
      BY <1>7, <1>f, <2>1 DEF CheckSignature, Go
    <3>2. calls'[c].op = calls[c].op /\ calls'[c].pc = "token" /\ calls'[c].from = calls[c].from
          /\ calls'[c].n = calls[c].n /\ calls'[c].status = calls[c].status
          /\ calls'[c].with = calls[c].with
      BY <1>f, <3>1 DEF Call
    <3>3. NoticeAgrees(c)' /\ (credential.token = Blank => calls'[c].with = Blank)
      BY <1>7, <2>1, <3>2 DEF CheckSignature, NoticesInv, NoticeAgrees, settingRows, world
    <3> QED
      BY <1>7, <1>t, <3>1, <3>3, NoticeStep DEF CheckSignature, settingRows, world
  <2>2. CASE credential.secret # calls[c].from
    <3>1. calls'[c] = NoCall /\ \A d \in Callers : d # c => calls'[d] = calls[d]
      BY <1>7, <1>f, <2>2 DEF CheckSignature, Hang
    <3> QED
      BY <1>7, <1>t, <3>1, NoticeStep DEF CheckSignature, settingRows, world
  <2> QED
    BY <2>1, <2>2
<1>8. ASSUME NEW c \in Callers, ReadToken(c) PROVE NoticesInv'
  <2>1. CASE credential.token = Blank
    <3>1. calls'[c] = NoCall /\ \A d \in Callers : d # c => calls'[d] = calls[d]
      BY <1>8, <1>f, <2>1 DEF ReadToken, NotConfigured, Hang
    <3> QED
      BY <1>8, <1>t, <3>1, NoticeStep DEF ReadToken, settingRows, world
  <2>2. CASE credential.token # Blank
    <3>1. /\ calls'[c] = [calls[c] EXCEPT !.pc = "environment", !.with = credential.token]
          /\ \A d \in Callers : d # c => calls'[d] = calls[d]
      BY <1>8, <1>f, <2>2 DEF ReadToken
    <3>2. calls'[c].op = calls[c].op /\ calls'[c].pc = "environment" /\ calls'[c].from = calls[c].from
          /\ calls'[c].n = calls[c].n /\ calls'[c].status = calls[c].status
          /\ calls'[c].with = credential.token
      BY <1>f, <3>1 DEF Call
    <3>3. calls[c].pc = "token" /\ NoticeAgrees(c)
      BY <1>8 DEF ReadToken, NoticesInv
    <3>4. calls[c].op = "notice" => mixed \/ credential.token = calls[c].from
      BY <2>2, <3>3, GatewayAssumption DEF NoticeAgrees, NoticesInv
    <3>5. NoticeAgrees(c)'
      BY <1>8, <3>2, <3>3, <3>4 DEF ReadToken, NoticeAgrees, settingRows, world
    <3> QED
      BY <1>8, <1>t, <2>2, <3>1, <3>5, NoticeStep DEF ReadToken, settingRows, world
  <2> QED
    BY <2>1, <2>2
<1>9. ASSUME NEW c \in Callers, ReadEnvironment(c) PROVE NoticesInv'
  <2>1. CASE "environment" \notin usable
    <3>1. calls'[c] = NoCall /\ \A d \in Callers : d # c => calls'[d] = calls[d]
      BY <1>9, <1>f, <2>1 DEF ReadEnvironment, NotConfigured, Hang
    <3> QED
      BY <1>9, <1>t, <3>1, NoticeStep DEF ReadEnvironment, settingRows, world
  <2>2. CASE ~ ("environment" \notin usable)
    <3>1. PICK pc \in {"urls", "sent"} : Go(c, pc)
      BY <1>9, <2>2 DEF ReadEnvironment
    <3>2. calls'[c].op = calls[c].op /\ calls'[c].pc = pc /\ calls'[c].from = calls[c].from
          /\ calls'[c].n = calls[c].n /\ calls'[c].status = calls[c].status
          /\ calls'[c].with = calls[c].with /\ \A d \in Callers : d # c => calls'[d] = calls[d]
      BY <1>f, <3>1 DEF Go, Call
    <3>3. NoticeAgrees(c)' /\ (credential.token = Blank => calls'[c].with = Blank)
      BY <1>9, <3>2 DEF ReadEnvironment, NoticesInv, NoticeAgrees, settingRows, world
    <3> QED
      BY <1>9, <1>t, <3>2, <3>3, NoticeStep DEF ReadEnvironment, settingRows, world
  <2> QED
    BY <2>1, <2>2
<1>10. ASSUME NEW c \in Callers, ReadUrls(c) PROVE NoticesInv'
  <2>1. CASE "urls" \notin usable
    <3>1. calls'[c] = NoCall /\ \A d \in Callers : d # c => calls'[d] = calls[d]
      BY <1>10, <1>f, <2>1 DEF ReadUrls, NotConfigured, Hang
    <3> QED
      BY <1>10, <1>t, <3>1, NoticeStep DEF ReadUrls, settingRows, world
  <2>2. CASE ~ ("urls" \notin usable)
    <3>1. PICK pc \in {"urls", "sent"} : Go(c, pc)
      BY <1>10, <2>2 DEF ReadUrls
    <3>2. calls'[c].op = calls[c].op /\ calls'[c].pc = pc /\ calls'[c].from = calls[c].from
          /\ calls'[c].n = calls[c].n /\ calls'[c].status = calls[c].status
          /\ calls'[c].with = calls[c].with /\ \A d \in Callers : d # c => calls'[d] = calls[d]
      BY <1>f, <3>1 DEF Go, Call
    <3>3. NoticeAgrees(c)' /\ (credential.token = Blank => calls'[c].with = Blank)
      BY <1>10, <3>2 DEF ReadUrls, NoticesInv, NoticeAgrees, settingRows, world
    <3> QED
      BY <1>10, <1>t, <3>2, <3>3, NoticeStep DEF ReadUrls, settingRows, world
  <2> QED
    BY <2>1, <2>2
<1>11. ASSUME NEW c \in Callers, ProcessCharge(c) PROVE NoticesInv'
  <2>1. calls[c].with \in Accounts /\ NothingTried
    BY <1>11 DEF ProcessCharge, Sent, AnswersInv, GatewayTypeOK, CallsOK, CallAgrees, Creating
  <2>2. credential.token # Blank
    BY <2>1, GatewayAssumption DEF NoticesInv
  <2>3. /\ calls'[c].op = "create" /\ calls'[c].with = calls[c].with
        /\ \A d \in Callers : d # c => calls'[d] = calls[d]
    BY <1>11, <1>f DEF ProcessCharge, Sent, AnsweredWith, Call
  <2>4. \A p \in PaymentIds : made[p] # "none" => made'[p] # "none"
    BY <2>1 DEF NothingTried, Nowhere
  <2>5. NoticeAgrees(c)'
    BY <2>3 DEF NoticeAgrees
  <2> QED
    BY <1>11, <1>t, <2>2, <2>3, <2>4, <2>5, NoticeStep DEF ProcessCharge, settingRows, world
<1>12. ASSUME NEW c \in Callers, OutliveCharge(c) PROVE NoticesInv'
  <2>1. calls[c].with \in Accounts
    BY <1>12 DEF OutliveCharge, Sent, AnswersInv, GatewayTypeOK, CallsOK
  <2>2. credential.token # Blank
    BY <2>1, GatewayAssumption DEF NoticesInv
  <2>3. /\ calls'[c] = NoCall \/ calls'[c].op = "create"
        /\ \A d \in Callers : d # c => calls'[d] = calls[d]
    BY <1>12, <1>f DEF OutliveCharge, Sent, AnsweredWith, Hang, Call
  <2>4. NoticeAgrees(c)'
    BY <2>3 DEF NoticeAgrees, NoCall
  <2> QED
    BY <1>12, <1>t, <2>2, <2>3, <2>4, NoticeStep DEF OutliveCharge, settingRows, world
<1>13. ASSUME NEW c \in Callers, ProcessPreference(c) PROVE NoticesInv'
  <2>1. /\ calls'[c].op = "create" /\ calls'[c].with = calls[c].with
        /\ \A d \in Callers : d # c => calls'[d] = calls[d]
    BY <1>13, <1>f DEF ProcessPreference, Sent, AnsweredWith, Call
  <2>2. NoticeAgrees(c)' /\ (credential.token = Blank => calls'[c].with = Blank)
    BY <2>1 DEF NoticeAgrees, NoticesInv
  <2> QED
    BY <1>13, <1>t, <2>1, <2>2, NoticeStep DEF ProcessPreference, settingRows, world
<1>14. ASSUME NEW c \in Callers, ProcessDetails(c) PROVE NoticesInv'
  <2>1. /\ calls'[c].op = "details" /\ calls'[c].with = calls[c].with
        /\ \A d \in Callers : d # c => calls'[d] = calls[d]
    BY <1>14, <1>f DEF ProcessDetails, Sent, AnsweredWith, Call
  <2>2. NoticeAgrees(c)' /\ (credential.token = Blank => calls'[c].with = Blank)
    BY <2>1 DEF NoticeAgrees, NoticesInv
  <2> QED
    BY <1>14, <1>t, <2>1, <2>2, NoticeStep DEF ProcessDetails, settingRows, world
<1>15. ASSUME NEW c \in Callers, ProcessRead(c) PROVE NoticesInv'
  <2> DEFINE word == made[<<calls[c].with, calls[c].n>>]
  <2>1. \E status \in Replies, w \in {word, "none"} :
          AnsweredWith(c, status, w) /\ (status = "missing" => word = "none")
    BY <1>15 DEF ProcessRead, Replies
  <2>2. PICK status \in Replies, w \in {word, "none"} :
          AnsweredWith(c, status, w) /\ (status = "missing" => word = "none")
    BY <2>1
  <2>3. /\ calls'[c].op = calls[c].op /\ calls'[c].pc = "answered" /\ calls'[c].from = calls[c].from
        /\ calls'[c].n = calls[c].n /\ calls'[c].status = status /\ calls'[c].with = calls[c].with
        /\ \A d \in Callers : d # c => calls'[d] = calls[d]
    BY <2>2, <1>f DEF AnsweredWith, Call
  <2>4. NoticeAgrees(c) /\ calls[c].pc = "sent"
    BY <1>15 DEF ProcessRead, Sent, NoticesInv
  <2>5. calls[c].op = "notice" /\ status = "missing" => mixed
    BY <2>2, <2>4 DEF NoticeAgrees
  <2>6. NoticeAgrees(c)' /\ (credential.token = Blank => calls'[c].with = Blank)
    BY <1>15, <2>3, <2>4, <2>5 DEF ProcessRead, NoticeAgrees, NoticesInv, settingRows, world
  <2> QED
    BY <1>15, <1>t, <2>3, <2>6, NoticeStep DEF ProcessRead, settingRows, world
<1>16. ASSUME NEW c \in Callers, AnswerCharge(c) PROVE NoticesInv'
  <2>1. calls'[c] = NoCall /\ \A d \in Callers : d # c => calls'[d] = calls[d]
    BY <1>16, <1>f DEF AnswerCharge, Hang
  <2> QED
    BY <1>16, <1>t, <2>1, NoticeStep DEF AnswerCharge, settingRows, world
<1>17. ASSUME NEW c \in Callers, AnswerDetails(c) PROVE NoticesInv'
  <2>1. calls'[c] = NoCall /\ \A d \in Callers : d # c => calls'[d] = calls[d]
    BY <1>17, <1>f DEF AnswerDetails, Hang
  <2> QED
    BY <1>17, <1>t, <2>1, NoticeStep DEF AnswerDetails, settingRows, world
<1>18. ASSUME NEW c \in Callers, CallDies(c) PROVE NoticesInv'
  <2>1. calls'[c] = NoCall /\ \A d \in Callers : d # c => calls'[d] = calls[d]
    BY <1>18, <1>f DEF CallDies, Hang
  <2> QED
    BY <1>18, <1>t, <2>1, NoticeStep DEF CallDies, settingRows, world
<1>19. ASSUME NEW c \in Callers, AnswerPreference(c) PROVE NoticesInv'
  <2>1. calls'[c] = NoCall /\ \A d \in Callers : d # c => calls'[d] = calls[d]
    BY <1>19, <1>f DEF AnswerPreference, Hang
  <2>2. calls[c].with \in Accounts
    BY <1>19, <1>t DEF AnswerPreference, GatewayTypeOK, CallsOK
  <2>3. credential.token # Blank
    BY <2>2, GatewayAssumption DEF NoticesInv
  <2> QED
    BY <1>19, <1>t, <2>1, <2>3, NoticeStep DEF AnswerPreference, settingRows
<1>20. ASSUME NEW c \in Callers, AnswerRead(c) PROVE NoticesInv'
  <2>1. calls'[c] = NoCall /\ \A d \in Callers : d # c => calls'[d] = calls[d]
    BY <1>20, <1>f DEF AnswerRead, Hang
  <2>2. ReadOutcome(calls[c].status, calls[c].word) = "nothing" => calls[c].status = "missing"
    BY DEF ReadOutcome, MapOrderStatus, MapPaymentRecordStatus
  <2>3. NoticeAgrees(c)
    BY DEF NoticesInv
  <2>4. dropped' => dropped \/ mixed
    BY <1>20, <2>2, <2>3 DEF AnswerRead, NoticeAgrees
  <2> QED
    BY <1>20, <1>t, <2>1, <2>4, NoticeStep DEF AnswerRead, settingRows, world
<1>21. ASSUME NEW n \in Tries, PayOnPage(n) PROVE NoticesInv'
  <2>1. credential.token # Blank
    BY <1>21 DEF PayOnPage, NoticesInv, NothingTried
  <2>2. PICK word \in RecordWords : made' = [made EXCEPT ![<<page, n>>] = word]
    BY <1>21 DEF PayOnPage
  <2>3. \A p \in PaymentIds : made[p] # "none" => made'[p] # "none"
    BY <2>2, <1>t DEF RecordWords, GatewayTypeOK
  <2> QED
    BY <1>21, <1>t, <2>1, <2>3, NoticeStep DEF PayOnPage, settingRows, world
<1>22. ASSUME NEW p \in PaymentIds, MoveOn(p) PROVE NoticesInv'
  <2>1. made[p] # "none"
    BY <1>22 DEF MoveOn, Undecided
  <2>2. credential.token # Blank
    BY <2>1 DEF NoticesInv, NothingTried, Nowhere
  <2>3. PICK word \in Words : made' = [made EXCEPT ![p] = word]
    BY <1>22 DEF MoveOn, Words
  <2>4. \A q \in PaymentIds : made[q] # "none" => made'[q] # "none"
    BY <2>3, <1>t DEF Words, OrderWords, RecordWords, GatewayTypeOK
  <2> QED
    BY <1>22, <1>t, <2>2, <2>4, NoticeStep DEF MoveOn, settingRows, world
<1>23. ASSUME NEW field \in {"token", "secret"}, NEW a \in Accounts, SaveCredential(field, a) PROVE NoticesInv'
  <2>1. /\ credential'.token = IF field = "token" THEN a ELSE credential.token
        /\ credential'.secret = IF field = "secret" THEN a ELSE credential.secret
    BY <1>23, <1>t DEF SaveCredential, GatewayTypeOK
  <2>2. UNCHANGED <<made, late, page, calls, dropped>>
    BY <1>23 DEF SaveCredential, world
  <2>3. mixed' = (mixed \/ (/\ Blank \notin {credential'.token, credential'.secret}
                            /\ credential'.token # credential'.secret))
    BY <1>23 DEF SaveCredential
  <2>4. credential'.token = Blank => NothingTried' /\ \A c \in Callers : calls'[c].with = Blank
    BY <2>1, <2>2, GatewayAssumption DEF NoticesInv, NothingTried, Nowhere
  <2>5. ASSUME NEW c \in Callers PROVE NoticeAgrees(c)'
    <3>1. NoticeAgrees(c)
      BY DEF NoticesInv
    <3>2. ASSUME calls[c].op = "notice", calls[c].pc # "secret", ~ mixed'
          PROVE  credential'.secret = calls[c].from
      <4>1. calls[c].from \in Accounts /\ credential.secret = calls[c].from /\ ~ NothingTried
        <5>1. calls[c].from \in Accounts /\ credential.secret = calls[c].from
              /\ made[<<calls[c].from, calls[c].n>>] # "none"
          BY <2>3, <3>1, <3>2 DEF NoticeAgrees
        <5>2. <<calls[c].from, calls[c].n>> \in PaymentIds
          BY <1>f, <5>1 DEF PaymentIds
        <5> QED
          BY <5>1, <5>2 DEF NothingTried, Nowhere
      <4>2. credential.token = calls[c].from
        BY <4>1, <2>3, <3>2, GatewayAssumption DEF NoticesInv
      <4> QED
        BY <2>1, <2>3, <3>2, <4>1, <4>2, GatewayAssumption
    <3> QED
      BY <2>2, <2>3, <3>1, <3>2 DEF NoticeAgrees
  <2> QED
    BY <2>2, <2>3, <2>4, <2>5 DEF NoticesInv
<1>24. ASSUME NEW s \in OtherRows, SaveOther(s) PROVE NoticesInv'
  BY <1>24, <1>t, NoticeStep DEF SaveOther, world
<1> QED
  BY <1>0, <1>1, <1>2, <1>3, <1>4, <1>5, <1>6, <1>7, <1>8, <1>9, <1>10, <1>11, <1>12, <1>13, <1>14, <1>15, <1>16, <1>17, <1>18, <1>19, <1>20, <1>21, <1>22, <1>23, <1>24 DEF GatewayNext

\* A notice is acknowledged without its payment only if the token and the secret once
\* belonged to two accounts.
THEOREM NoNoticeIsLost == GatewaySpec => []NoticeIsNotLost
<1>1. GatewayInit => AnswersInv /\ NoticesInv
  <2> SUFFICES ASSUME GatewayInit PROVE NoticesInv
    BY AnswersInit
  <2>1. \A c \in Callers : calls[c] = NoCall
    BY DEF GatewayInit
  <2>2. PICK a \in Accounts : credential \in [token : {a, Blank}, secret : {a, Blank}]
    BY DEF GatewayInit
  <2>3. \A c \in Callers : NoticeAgrees(c) /\ calls[c].with = Blank
    BY <2>1 DEF NoticeAgrees, NoCall
  <2> QED
    BY <2>2, <2>3 DEF GatewayInit, NoticesInv, NothingTried, Nowhere
<1>2. (AnswersInv /\ NoticesInv) /\ [GatewayNext]_gatewayVars => (AnswersInv /\ NoticesInv)'
  BY AnswersStep, NoticesStep
<1>3. AnswersInv /\ NoticesInv => NoticeIsNotLost
  BY DEF NoticesInv, NoticeIsNotLost
<1> QED
  BY <1>1, <1>2, <1>3, PTL DEF GatewaySpec
=============================================================================
