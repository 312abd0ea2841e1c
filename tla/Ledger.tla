-------------------------------- MODULE Ledger --------------------------------
(***************************************************************************)
(* The books: what every payment and cancellation writes into LedgerEntry, *)
(* and what balances, summaries and the administrators' list read there.   *)
(*                                                                         *)
(* A handler reads the price and the status of its Engagement, and writes  *)
(* in a later transaction.  A price can still be renegotiated in between   *)
(* and after, and so can the commission be set again.  The rules for       *)
(* opening and resolving attempts are those of PaymentBook, with a         *)
(* cash payment taken at its second confirmation.                          *)
(* A row is stamped by the process that writes it: the stamps of rows that *)
(* commit together can be a tick late, and several events can share one.   *)
(***************************************************************************)
EXTENDS Integers, FiniteSets, FiniteSetsExt

CONSTANTS Engagements, Professionals,
          Prices, Percents,   \* what can be agreed and what can be configured
          Bookers,            \* handlers that read first and write later
          Nil,                \* no row, no setting, nobody
          Cap,                \* ADMIN_PAYMENT_SUMMARY_RAW_FETCH_CAP
          MaxNow,             \* bound: ticks of the clock
          MaxChanges          \* bound: changes of prices and of the percentage

ASSUME LedgerAssumption ==
  /\ Prices \subseteq Nat \ {0} /\ Percents \subseteq Int
  /\ Cap \in Nat \ {0} /\ MaxNow \in Nat /\ MaxChanges \in Nat
  /\ Nil \notin Professionals \cup Engagements \cup Percents
  /\ IsFiniteSet(Professionals)

VARIABLES job,         \* the Engagements, with what was agreed and what is being paid
          commission,  \* payments.general-settings.commission.percent
          ledger,      \* the LedgerEntry rows
          now,
          changes,     \* how often prices and the percentage have changed
          booking          \* handlers in hand

ledgerVars == <<job, commission, ledger, now, changes, booking>>

\* COMPLETED is work marked finished, confirmed or not: it cannot be cancelled.
JobStatuses == {"ACCEPTED", "IN_PROGRESS", "COMPLETED", "CANCELLED"}
Job == [status : JobStatuses, price : Prices, professional : Professionals,
        charge : Prices \cup {0}, paid : {"NO", "CARD", "CASH"}]

Types == {"CUSTOMER_CHARGE", "CUSTOMER_CANCELLATION_FEE", "PLATFORM_COMMISSION",
          "PROFESSIONAL_NET_CREDIT", "REFUND", "CASH_COMMISSION_DEBT"}
EventKinds == {"DIGITAL_PAYMENT", "CUSTOMER_CANCELLATION", "PROFESSIONAL_CANCELLATION", "CASH_PAYMENT"}

\* A row; "by" is the transaction that wrote it, which the table does not keep.
Entry == [type : Types, e : Engagements, professional : Professionals \cup {Nil},
          amount : Int, at : 0..MaxNow, by : EventKinds]

\* What a handler carries: what it read of its Engagement, or the balance it is
\* adding up, from the credits or from the debts.  "before" and "after" are the
\* rows there were when it read the first sum and when it read the other.
BookingPcs == {"idle", "cash", "byCustomer", "byProfessional", "credits", "debts", "balance"}
Booking == [pc : BookingPcs, e : Engagements \cup {Nil}, p : Professionals \cup {Nil},
            price : Prices \cup {0}, status : JobStatuses \cup {Nil},
            sum : Int, before : SUBSET Entry, after : SUBSET Entry]
NotBooking == [pc |-> "idle", e |-> Nil, p |-> Nil, price |-> 0, status |-> Nil,
               sum |-> 0, before |-> {}, after |-> {}]

------------------------------------------------------------------------------
(* The split                                                               *)

\* Math.round(amount * percent / 100): halves go up.
Percent(amount, percent) == (2 * amount * percent + 100) \div 200

\* computeCommission; the variant rounds both parts.
NetRounded(amount, percent) == Percent(amount, 100 - percent)
Net(amount, percent) == amount - Percent(amount, percent)

------------------------------------------------------------------------------
(* The readers                                                             *)

Amount(S) == MapThenSumSet(LAMBDA r : r.amount, S)

OfType(rows, t, p) == {r \in rows : r.type = t /\ r.professional = p}
SumCashCommissionDebt(rows, p) == Amount(OfType(rows, "CASH_COMMISSION_DEBT", p))
Credited(rows, p) == Amount(OfType(rows, "PROFESSIONAL_NET_CREDIT", p))
Balance(rows, p) == Credited(rows, p) - SumCashCommissionDebt(rows, p)
SumPlatformBalance ==
  Amount({r \in ledger : r.type \in {"PLATFORM_COMMISSION", "CASH_COMMISSION_DEBT"}})

\* findByType(rows, t)?.amount ?? 0.
AmountOf(rows, t) ==
  IF \E r \in rows : r.type = t THEN (CHOOSE r \in rows : r.type = t).amount ELSE 0
Has(rows, t) == \E r \in rows : r.type = t

\* classifyLedgerEventRows: the first kind that has its row, a card payment when
\* none has.
Kind(rows) == IF Has(rows, "CASH_COMMISSION_DEBT") THEN "CASH_PAYMENT"
              ELSE IF Has(rows, "CUSTOMER_CANCELLATION_FEE") THEN "CUSTOMER_CANCELLATION"
              ELSE IF Has(rows, "REFUND") THEN "PROFESSIONAL_CANCELLATION"
              ELSE "DIGITAL_PAYMENT"

\* Math.abs of the customer's row: the fee of a negative percentage is a credit,
\* and is shown as if it was paid.
Abs(n) == IF n < 0 THEN - n ELSE n
ReadSplit(rows, leg) == [paid |-> Abs(leg), platform |-> AmountOf(rows, "PLATFORM_COMMISSION"),
                         net |-> AmountOf(rows, "PROFESSIONAL_NET_CREDIT"), debt |-> 0]
Classified(rows, quotedPrice) ==
  LET debt == AmountOf(rows, "CASH_COMMISSION_DEBT") IN
  CASE Kind(rows) = "CASH_PAYMENT" ->
         [paid |-> quotedPrice, platform |-> debt, net |-> quotedPrice - debt, debt |-> debt]
    [] Kind(rows) = "CUSTOMER_CANCELLATION" -> ReadSplit(rows, AmountOf(rows, "CUSTOMER_CANCELLATION_FEE"))
    [] Kind(rows) = "PROFESSIONAL_CANCELLATION" -> [paid |-> 0, platform |-> 0, net |-> 0, debt |-> 0]
    [] OTHER -> ReadSplit(rows, AmountOf(rows, "CUSTOMER_CHARGE"))

\* findManyByEngagementId and selectMostRecentLedgerEventRows.
RowsOf(e) == {r \in ledger : r.e = e}
LastEvent(e) == {r \in RowsOf(e) : \A s \in RowsOf(e) : s.at <= r.at}

\* getEngagementFinancialSummary: what the customer and the professional are shown.
CustomerModel == [work : Nat, platformFee : Int, cancellationFee : Nat, refund : Nat, total : Nat]
ProfessionalModel == [gross : Nat, platform : Int, net : Int, debt : Int, wallet : Int]
CustomerView(e) ==
  LET rows == LastEvent(e)
      figures == Classified(rows, job[e].price)
      fee == Kind(rows) = "CUSTOMER_CANCELLATION"
  IN  IF rows = {}
      THEN [work |-> job[e].price, platformFee |-> 0, cancellationFee |-> 0, refund |-> 0, total |-> 0]
      ELSE [work |-> job[e].price,
            platformFee |-> IF fee THEN figures.platform ELSE 0,
            cancellationFee |-> IF fee THEN figures.paid ELSE 0,
            refund |-> IF Kind(rows) = "PROFESSIONAL_CANCELLATION" THEN AmountOf(rows, "REFUND") ELSE 0,
            total |-> figures.paid]
ProfessionalView(e) ==
  LET rows == LastEvent(e)
      figures == Classified(rows, job[e].price)
  IN  IF rows = {}
      THEN [gross |-> job[e].price, platform |-> 0, net |-> 0, debt |-> 0, wallet |-> 0]
      ELSE [gross |-> figures.paid, platform |-> figures.platform, net |-> figures.net, debt |-> figures.debt,
            wallet |-> IF Kind(rows) \in {"CASH_PAYMENT", "CUSTOMER_CANCELLATION"} THEN figures.net ELSE 0]

\* findManyForAdminPaymentSummaries: the latest rows, in any order where stamps
\* are equal, so that a fetch that reaches the cap can end within an event.
Size == Cardinality(ledger)
At(t) == {r \in ledger : r.at = t}
After(t) == {r \in ledger : r.at > t}
Fetches ==
  IF Size <= Cap THEN {ledger}
  ELSE LET cut == CHOOSE t \in 0..MaxNow :
                    Cardinality(After(t)) < Cap /\ Cardinality(After(t) \cup At(t)) >= Cap
       IN  {After(cut) \cup S : S \in kSubset(Cap - Cardinality(After(cut)), At(cut))}

\* groupIntoEvents: one line for each Engagement and stamp; the variant has one
\* for each Engagement.
GroupByEngagement(S, r) == {s \in S : s.e = r.e}
Group(S, r) == {s \in S : s.e = r.e /\ s.at = r.at}

\* The types of the books and of what is read from them.
LedgerTypeOK ==
  /\ job \in [Engagements -> Job]
  /\ commission \in Percents \cup {Nil}
  /\ \A r \in ledger : r \in Entry
  /\ now \in 0..MaxNow /\ changes \in 0..MaxChanges
  /\ \A r \in Bookers : booking[r] \in Booking
  /\ \A e \in Engagements : CustomerView(e) \in CustomerModel /\ ProfessionalView(e) \in ProfessionalModel

------------------------------------------------------------------------------
(* Helpers                                                                 *)

\* A handler that has read an Engagement, or one of the sums of a professional and
\* waits for the rest.
Reading(pc, e) ==
  [pc |-> pc, e |-> e, p |-> Nil, price |-> job[e].price, status |-> job[e].status,
   sum |-> 0, before |-> {}, after |-> {}]
Adding(rest, p, sum) ==
  [pc |-> rest, e |-> Nil, p |-> p, price |-> 0, status |-> Nil,
   sum |-> sum, before |-> ledger, after |-> {}]
FinishBooking(r) == [booking EXCEPT ![r] = NotBooking]

\* The rows of one transaction.
Stamp(t) == t \in 0..now /\ t + 1 >= now
Record(rows, rest) == ledger' = ledger \cup rows /\ booking' = rest

EntryOf(e, type, amount, t, by) ==
  [type |-> type, e |-> e, professional |-> IF type = "REFUND" THEN Nil ELSE job[e].professional,
   amount |-> amount, at |-> t, by |-> by]

\* The three rows of a charge or of a fee: what the customer pays, and its parts.
Split(e, type, amount, t, by) ==
  {EntryOf(e, type, - amount, t, by),
   EntryOf(e, "PLATFORM_COMMISSION", Percent(amount, commission), t, by),
   EntryOf(e, "PROFESSIONAL_NET_CREDIT", Net(amount, commission), t, by)}

LedgerInit ==
  /\ \E price \in [Engagements -> Prices], professional \in [Engagements -> Professionals] :
       job = [e \in Engagements |-> [status |-> "ACCEPTED", price |-> price[e], professional |-> professional[e],
                                     charge |-> 0, paid |-> "NO"]]
  /\ commission = Nil
  /\ ledger = {}
  /\ now = 0 /\ changes = 0
  /\ booking = [r \in Bookers |-> NotBooking]

------------------------------------------------------------------------------
(* Payments                                                                *)

Payable(e) == job[e].status \in {"IN_PROGRESS", "COMPLETED"}

\* A card or wallet attempt, for the price of the moment.
CreatePending(e) ==
  /\ Payable(e)
  /\ job[e].paid = "NO" /\ job[e].charge = 0
  /\ job' = [job EXCEPT ![e].charge = job[e].price]
  /\ UNCHANGED <<commission, ledger, now, changes, booking>>

Reject(e) ==
  /\ job[e].charge # 0 /\ job[e].paid = "NO"
  /\ job' = [job EXCEPT ![e].charge = 0]
  /\ UNCHANGED <<commission, ledger, now, changes, booking>>

\* The approval of the attempt, whenever it comes: the amount is the attempt's.
RecordDigitalPayment(e, t) ==
  /\ job[e].charge # 0 /\ job[e].paid = "NO"
  /\ commission # Nil
  /\ Stamp(t)
  /\ job' = [job EXCEPT ![e].paid = "CARD"]
  /\ Record(Split(e, "CUSTOMER_CHARGE", job[e].charge, t, "DIGITAL_PAYMENT"), booking)
  /\ UNCHANGED <<commission, now, changes>>

\* The reads before a transaction: the Engagement's price and status.
ReadBilling(r, pc, e) ==
  /\ booking[r].pc = "idle"
  /\ IF pc = "cash" THEN Payable(e) ELSE job[e].status \in {"ACCEPTED", "IN_PROGRESS"}
  /\ booking' = [booking EXCEPT ![r] = Reading(pc, e)]
  /\ UNCHANGED <<job, commission, ledger, now, changes>>

\* The confirmation that completes a cash payment.
RecordCommissionDebt(r, t) ==
  LET e == booking[r].e IN
  /\ booking[r].pc = "cash"
  /\ job[e].paid = "NO" /\ job[e].charge = 0
  /\ commission # Nil
  /\ Stamp(t)
  /\ job' = [job EXCEPT ![e].paid = "CASH"]
  /\ Record({EntryOf(e, "CASH_COMMISSION_DEBT", Percent(booking[r].price, commission), t, "CASH_PAYMENT")},
            FinishBooking(r))
  /\ UNCHANGED <<commission, now, changes>>

------------------------------------------------------------------------------
(* Cancellations                                                           *)

Cancellable(e) == job[e].status \in {"ACCEPTED", "IN_PROGRESS"}

\* recordIfApplicable: a fee only for work that was in progress when it was read,
\* the commission's part of the price.
CancelByCustomer(r, t) ==
  LET e == booking[r].e
      fee == Percent(booking[r].price, commission)
  IN
  /\ booking[r].pc = "byCustomer"
  /\ Cancellable(e)
  /\ Stamp(t)
  /\ job' = [job EXCEPT ![e].status = "CANCELLED"]
  /\ IF booking[r].status = "IN_PROGRESS"
     THEN /\ commission # Nil
          /\ Record(Split(e, "CUSTOMER_CANCELLATION_FEE", fee, t, "CUSTOMER_CANCELLATION"), FinishBooking(r))
     ELSE Record({}, FinishBooking(r))
  /\ UNCHANGED <<commission, now, changes>>

\* A full refund, whatever was paid.
CancelByProfessional(r, t) ==
  LET e == booking[r].e IN
  /\ booking[r].pc = "byProfessional"
  /\ Cancellable(e)
  /\ Stamp(t)
  /\ job' = [job EXCEPT ![e].status = "CANCELLED"]
  /\ Record({EntryOf(e, "REFUND", booking[r].price, t, "PROFESSIONAL_CANCELLATION")}, FinishBooking(r))
  /\ UNCHANGED <<commission, now, changes>>

------------------------------------------------------------------------------
(* A balance: two aggregates, asked for at once, each a statement of its   *)
(* own: either can be the first that reads.                                *)

ReadFirstSum(r, p) ==
  /\ booking[r].pc = "idle"
  /\ \E h \in {Adding("debts", p, Credited(ledger, p)),
               Adding("credits", p, SumCashCommissionDebt(ledger, p))} :
       booking' = [booking EXCEPT ![r] = h]
  /\ UNCHANGED <<job, commission, ledger, now, changes>>

\* The variant returns the credits alone.
CreditedOnly(credited, debt) == credited
Less(credited, debt) == credited - debt
Answering(h) ==
  [h EXCEPT !.pc = "balance", !.after = ledger,
            !.sum = IF h.pc = "debts" THEN Less(@, SumCashCommissionDebt(ledger, h.p))
                                      ELSE Less(Credited(ledger, h.p), @)]
ReadOtherSum(r) ==
  /\ booking[r].pc \in {"credits", "debts"}
  /\ booking' = [booking EXCEPT ![r] = Answering(@)]
  /\ UNCHANGED <<job, commission, ledger, now, changes>>

\* The answer was given, the transaction was refused, or the process died.
Drop(r) ==
  /\ booking[r].pc # "idle"
  /\ booking' = FinishBooking(r)
  /\ UNCHANGED <<job, commission, ledger, now, changes>>

------------------------------------------------------------------------------
(* What the books depend on                                                *)

\* The professional starts and finishes, the customer confirms.
Work(e) ==
  /\ \E step \in {<<"ACCEPTED", "IN_PROGRESS">>, <<"IN_PROGRESS", "COMPLETED">>} :
       job[e].status = step[1] /\ job' = [job EXCEPT ![e].status = step[2]]
  /\ UNCHANGED <<commission, ledger, now, changes, booking>>

Change == changes < MaxChanges /\ changes' = changes + 1

\* A proposal on the accepted quote is approved.
Renegotiate(e, price) ==
  /\ price # job[e].price
  /\ Change
  /\ job' = [job EXCEPT ![e].price = price]
  /\ UNCHANGED <<commission, ledger, now, booking>>

\* Any finite number is accepted as the percentage.  A fraction is no better than
\* none: commissionPercentApplied is an Int, and the rows of the event are refused.
SetCommission(percent) ==
  /\ percent # commission
  /\ Change
  /\ commission' = percent
  /\ UNCHANGED <<job, ledger, now, booking>>

Tick ==
  /\ now < MaxNow
  /\ now' = now + 1
  /\ UNCHANGED <<job, commission, ledger, changes, booking>>

LedgerNext ==
  \/ \E e \in Engagements : CreatePending(e) \/ Reject(e) \/ Work(e)
  \/ \E e \in Engagements, t \in 0..MaxNow : RecordDigitalPayment(e, t)
  \/ \E e \in Engagements, price \in Prices : Renegotiate(e, price)
  \/ \E r \in Bookers :
       \/ \E e \in Engagements, pc \in {"cash", "byCustomer", "byProfessional"} : ReadBilling(r, pc, e)
       \/ \E t \in 0..MaxNow : RecordCommissionDebt(r, t) \/ CancelByCustomer(r, t) \/ CancelByProfessional(r, t)
       \/ \E p \in Professionals : ReadFirstSum(r, p)
       \/ ReadOtherSum(r) \/ Drop(r)
  \/ \E percent \in Percents \cup {Nil} : SetCommission(percent)
  \/ Tick

LedgerSpec == LedgerInit /\ [][LedgerNext]_ledgerVars

------------------------------------------------------------------------------
(* Properties                                                              *)

\* What customers paid by card and in fees is all there is: it is what the
\* platform and the professionals have together, through every rounding, every
\* change of the percentage and every cash debt (computeCommission,
\* sumProfessionalBalance, sumPlatformBalance).
BooksBalance ==
  LET paid == {r \in ledger : r.type \in {"CUSTOMER_CHARGE", "CUSTOMER_CANCELLATION_FEE"}}
  IN  SumPlatformBalance + MapThenSumSet(LAMBDA p : Balance(ledger, p), Professionals) + Amount(paid) = 0

\* A line of the administrators' list, and the summary of an Engagement, is one
\* event that happened, whole, and its figures add up: unless two events of that
\* Engagement share a stamp, or the line is where the fetch was cut
\* (groupIntoEvents, selectMostRecentLedgerEventRows).  What was paid is what the
\* platform and the professional get; only a cancellation can owe it instead.
IsEvent(rows) == \E r \in rows :
  LET figures == Classified(rows, job[r.e].price)
      shared == figures.platform + figures.net
  IN
  /\ rows = {s \in RowsOf(r.e) : s.by = r.by}
  /\ Kind(rows) = r.by
  /\ figures.paid = Abs(shared)
  /\ shared < 0 => r.by = "CUSTOMER_CANCELLATION"
Tied(rows) == \E r \in rows : \E s \in RowsOf(r.e) : s.at = r.at /\ s.by # r.by
BeforeTheCut(S, r) == Size <= Cap \/ \E s \in S : s.at < r.at
LinesAreEvents ==
  /\ \A S \in Fetches : \A r \in S : BeforeTheCut(S, r) => LET rows == Group(S, r) IN IsEvent(rows) \/ Tied(rows)
  /\ \A e \in Engagements : LET rows == LastEvent(e) IN
       rows # {} /\ ~ Tied(rows) =>
         /\ IsEvent(rows)
         /\ CustomerView(e).total = ProfessionalView(e).gross
         /\ CustomerView(e).refund > 0 <=> Kind(rows) = "PROFESSIONAL_CANCELLATION"

\* A balance that is answered is that of books that could have been: they hold
\* every event there was when the first sum was read, nothing that came after the
\* other, and each event as a whole (sumProfessionalBalance).
IsWhole(rows, among) == \A r \in rows, s \in among : r.e = s.e /\ r.by = s.by => s \in rows
BalanceIsOfWholeEvents ==
  \A r \in Bookers : LET h == booking[r] IN
    h.pc = "balance" =>
      \E late \in SUBSET (h.after \ h.before) :
        LET rows == h.before \cup late IN IsWhole(rows, h.after) /\ Balance(rows, h.p) = h.sum
=============================================================================
