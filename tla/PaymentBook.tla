------------------------------ MODULE PaymentBook ------------------------------
(***************************************************************************)
(* What the payments component promises about the books of one Engagement, *)
(* without requests, providers or races: attempts are opened one at a      *)
(* time, each is resolved once, and the one approval, the entry in the     *)
(* ledger and the Engagement's method are written in one step.             *)
(***************************************************************************)
EXTENDS Integers, Sequences

CONSTANTS Attempts, Amounts

VARIABLES row,    \* method, status and amount of every attempt
          books,  \* the payment events of the ledger
          method  \* the Engagement's payment method, "NONE" while unset

vars == <<row, books, method>>

Methods == {"MERCADOPAGO", "CASH"}
Unused == [method |-> "NONE", status |-> "NONE", amount |-> 0]
AttemptRows == [method : Methods, status : {"PENDING", "APPROVED", "REJECTED"}, amount : Amounts]
Events == [type : {"CUSTOMER_CHARGE", "CASH_COMMISSION_DEBT"}, amount : Amounts]

Active == {a \in Attempts : row[a].status \in {"PENDING", "APPROVED"}}
Approved == {a \in Attempts : row[a].status = "APPROVED"}

Init == /\ row = [a \in Attempts |-> Unused]
        /\ books = <<>>
        /\ method = "NONE"

\* An attempt is opened only while none is active; opening a cash attempt fixes
\* the Engagement's method.
Open(a) ==
  /\ Active = {} /\ row[a] = Unused
  /\ \E m \in Methods, amount \in Amounts :
       /\ row' = [row EXCEPT ![a] = [method |-> m, status |-> "PENDING", amount |-> amount]]
       /\ method' = IF m = "CASH" /\ method = "NONE" THEN "CASH" ELSE method
  /\ UNCHANGED books

Reject(a) ==
  /\ row[a].status = "PENDING"
  /\ row' = [row EXCEPT ![a].status = "REJECTED"]
  /\ UNCHANGED <<books, method>>

\* What is entered for an approved attempt: the charge of its amount, or the debt
\* of the commission on a cash payment.
Entry(a, e) ==
  \/ e = [type |-> "CUSTOMER_CHARGE", amount |-> row[a].amount]
  \/ row[a].method = "CASH" /\ e.type = "CASH_COMMISSION_DEBT"

\* The approval of an attempt and its one event in the ledger are inseparable.
Approve(a) ==
  /\ row[a].status = "PENDING"
  /\ row' = [row EXCEPT ![a].status = "APPROVED"]
  /\ \E e \in Events : Entry(a, e) /\ books' = Append(books, e)
  /\ method' = IF method = "NONE" THEN row[a].method ELSE method

Next == \E a \in Attempts : Open(a) \/ Reject(a) \/ Approve(a)

Spec == Init /\ [][Next]_vars

-----------------------------------------------------------------------------
BookTypeOK ==
  /\ row \in [Attempts -> AttemptRows \cup {Unused}]
  /\ books \in Seq(Events)
  /\ method \in Methods \cup {"NONE"}

\* One active attempt; one event in the books exactly when an attempt is approved;
\* and the method agrees with the attempts.
BookOK ==
  /\ \A a, b \in Active : a = b
  /\ (Approved # {}) <=> (books # <<>>)
  /\ Len(books) <= 1
  /\ method = "CASH" <=> \E a \in Attempts : row[a].method = "CASH"
  /\ method = "MERCADOPAGO" => \E a \in Approved : row[a].method = "MERCADOPAGO"
  /\ Approved # {} => method # "NONE"
  /\ \A a \in Approved : Entry(a, books[1])

BookInv == BookTypeOK /\ BookOK
=============================================================================
