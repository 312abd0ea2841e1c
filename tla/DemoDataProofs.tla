---------------------------- MODULE DemoDataProofs ----------------------------
(***************************************************************************)
(* Theorems about DemoData: what the scripts leave in the database however *)
(* often each is started, wherever it dies and whatever an administrator   *)
(* edits in between.  The scripts are lists of statements; what is used of *)
(* them is the order of the statements (Fits), and the invariant says what *)
(* is behind a script before each of its steps (Before).                   *)
(***************************************************************************)
EXTENDS DemoData, SequenceTheorems, FiniteSetTheorems, NaturalsInduction, WellFoundedInduction, TLAPS

------------------------------------------------------------------------------
(* The invariant                                                           *)

\* The deals, and where their scripts make them, close them, choose their method
\* and cancel their Engagement.
Deals == {"sr1", "sr2", "sr3", "sr4", "sr5", "sr6", "patio", "garden", "sockets",
          "paid", "halfC", "halfP", "fee", "refund"}
MadeAt(d) == CASE d = "sr1" -> 33 [] d = "sr2" -> 37 [] d = "sr3" -> 40 [] d = "sr4" -> 44
               [] d = "sr5" -> 47 [] d = "sr6" -> 49
               [] d = "patio" -> 7 [] d = "garden" -> 13 [] d = "sockets" -> 20
               [] d = "paid" -> 10 [] d = "halfC" -> 17 [] d = "halfP" -> 21 [] d = "fee" -> 25
               [] OTHER -> 28
ClosedAt(d) == CASE d = "sr3" -> 43 [] d = "sr4" -> 46 [] d = "sr5" -> 48
                 [] d = "patio" -> 12 [] d = "garden" -> 18 [] d = "sockets" -> 26 [] OTHER -> 63
MethodAt(d) == CASE d = "paid" -> 12 [] d = "halfC" -> 19 [] d = "halfP" -> 23 [] OTHER -> 30
FeeAt(d) == CASE d = "fee" -> 27 [] d = "refund" -> 29 [] OTHER -> 30

\* The deals whose price is haggled over, and who asks for it.
Haggled == {"sr1", "sr2", "sr6", "patio", "garden", "sockets"}
Asker(d) == IF d = "sockets" THEN "CUSTOMER" ELSE "PROFESSIONAL"

\* What the last scripts look for, and where they find and complete it.
Negotiated == {"patio", "garden", "sockets"}
FoundBy(s) == CASE s \in {"chat", "appointments"} -> Negotiated
                [] s = "reviews" -> Negotiated \cup {"painting", "carpentry"}
                [] OTHER -> {}
FindAt(d) == CASE d = "patio" -> 2 [] d = "garden" -> 3 [] d = "sockets" -> 4 [] d = "painting" -> 5
               [] OTHER -> 6
CompleteAt(d) == CASE d = "patio" -> 7 [] d = "garden" -> 10 [] d = "sockets" -> 12 [] d = "painting" -> 16
                   [] OTHER -> 20
ChatFrom(d) == CASE d = "patio" -> 5 [] d = "garden" -> 9 [] OTHER -> 13

\* The types of a deal.
DemoProposal == [quote : Nat, by : Sides, status : {"PENDING", "ACCEPTED", "REJECTED", "SUPERSEDED"},
                 resolvedBy : Sides \cup {"none"}]
QuoteStates == {"SENT", "WITHDRAWN", "REJECTED", "ACCEPTED"}
VisitStates == {"PENDING", "CONFIRMED", "CANCELLED"}
ReviewStates == {"none", "rated", "PENDING", "APPROVED", "REJECTED"}
DemoEntries == {"CASH_COMMISSION_DEBT", "CUSTOMER_CANCELLATION_FEE", "PLATFORM_COMMISSION",
                "PROFESSIONAL_NET_CREDIT", "REFUND"}
DemoJob ==
  [of : Deals, request : {"OPEN", "CANCELLED", "ENGAGED"},
   quote : Seq(QuoteStates), agreed : SUBSET Nat,
   asked : Seq(DemoProposal), eng : {"NONE", "ACCEPTED", "IN_PROGRESS", "COMPLETED", "CANCELLED"},
   method : {"NONE", "CASH"}, stamps : SUBSET Sides, attempt : {"NONE", "PENDING", "APPROVED"},
   ledger : SUBSET DemoEntries, chat : Nat, marked : BOOLEAN,
   visit : Seq(VisitStates), review : [Sides -> ReviewStates]]
Fees == {"CUSTOMER_CANCELLATION_FEE", "REFUND"}

\* The number of statements of a script.
EndOf(s) == CASE s = "seed" -> 10 [] s = "demo" -> 62 [] s = "negotiation" -> 26 [] s = "chat" -> 16
              [] s = "appointments" -> 10 [] s = "reviews" -> 21 [] OTHER -> 29
DemoTypes ==
  /\ row = [k \in Keys |-> row[k]]
  /\ job \in Seq(DemoJob)
  /\ run = NoScript \/ \E s \in Scripts : \E p \in 1..EndOf(s) : run = [script |-> s, pc |-> p]
  /\ runs \in [Scripts -> Nat] /\ done \in [Scripts -> Nat]

\* The rules of DealOK without cardinalities, and what makes them inductive: all
\* proposals of a deal are by one party, and only the payments script leaves an
\* Engagement under way or cancelled.
QuoteRules(j) ==
  /\ j.request = "ENGAGED" <=> j.eng # "NONE"
  /\ j.request = "ENGAGED" => /\ \E n \in DOMAIN j.quote : \A m \in DOMAIN j.quote : j.quote[m] = "ACCEPTED" <=> m = n
                              /\ \A m \in DOMAIN j.quote : j.quote[m] # "SENT"
  /\ j.request # "ENGAGED" => \A m \in DOMAIN j.quote : j.quote[m] # "ACCEPTED"
  /\ \A n \in DOMAIN j.quote : j.quote[n] = "ACCEPTED" => PendingOn(j, n) = {}
PriceRules(j) ==
  /\ \A n \in Nat : \A k, l \in PendingOn(j, n) : k = l
  /\ \A n \in Nat : n \in j.agreed <=> \E k \in DOMAIN j.asked : j.asked[k].quote = n /\ j.asked[k].status = "ACCEPTED"
  /\ \A k \in DOMAIN j.asked : /\ j.of \in Haggled
                               /\ j.asked[k].by = Asker(j.of)
                               /\ j.asked[k].resolvedBy \in {"none", OtherSide(Asker(j.of))}
WorkRules(j) ==
  /\ j.attempt = "APPROVED" <=> "CASH_COMMISSION_DEBT" \in j.ledger
  /\ j.attempt = "APPROVED" => j.stamps = Sides
  /\ j.stamps # {} => j.method = "CASH"
  /\ (\E q \in Sides : j.review[q] # "none") => j.eng = "COMPLETED"
  /\ j.ledger \cap Fees # {} => j.of \in {"fee", "refund"}
  /\ IF MadeBy(j.of) = "payments" THEN j.request = "ENGAGED" ELSE j.eng \in {"NONE", "ACCEPTED", "COMPLETED"}

\* How far script s has brought a deal of its own before step p.
Progress(j, s, p) ==
  MadeBy(j.of) = s =>
    /\ MadeAt(j.of) < p
    /\ s # "payments" => /\ j.request # "OPEN" => ClosedAt(j.of) < p
                         /\ j.of # "sr5" /\ MadeAt(j.of) + 1 < p => Len(j.quote) >= 1
                         /\ j.of = "sr4" /\ 46 < p => j.eng # "NONE"
    /\ s = "payments" => /\ MethodAt(j.of) < p => j.method = "CASH"
                         /\ j.of = "paid" /\ 13 < p => "CUSTOMER" \in j.stamps
                         /\ j.of = "paid" /\ 15 < p => "PROFESSIONAL" \in j.stamps
                         /\ j.ledger \cap Fees # {} => FeeAt(j.of) < p
                         /\ \A q \in Sides : j.review[q] = "none"

HasCancelledVisit(j) == \E n \in DOMAIN j.visit : j.visit[n] = "CANCELLED"

\* What a following script has done to one deal it found.
Followed(j, s, p) ==
  /\ s = "chat" /\ "chat" \notin cut /\ j.of \in Negotiated => j.chat = 0 \/ j.chat + ChatFrom(j.of) <= p
  /\ s = "appointments" =>
       /\ p <= 9 => ~ HasCancelledVisit(j)
       /\ j.of = "sockets" /\ 8 < p => j.visit # <<>>
       /\ "appointments" \notin cut =>
            /\ j.of = "patio" /\ p <= 5 => j.visit = <<>>
            /\ j.of = "garden" /\ p <= 7 => j.visit = <<>>
            /\ j.of = "sockets" /\ p <= 8 => j.visit = <<>>
            /\ j.of = "sockets" /\ p <= 10 => Len(j.visit) <= 1

\* What holds of each deal before step p of script s.
JobOK(j, s, p) ==
  /\ QuoteRules(j) /\ PriceRules(j) /\ WorkRules(j)
  /\ MadeBy(j.of) = "demo" => "maria" \in users
  /\ "demo" \notin cut /\ j.ledger \cap Fees # {} => j.eng = "CANCELLED"
  /\ "chat" \notin cut => j.chat <= 4
  /\ "appointments" \notin cut => Len(j.visit) <= 2
  /\ Progress(j, s, p)
  /\ Followed(j, s, p)

EngagedCarpentry(i) == job[i].of = "sr4" /\ job[i].eng # "NONE"

\* What holds between the deals.
Together ==
  /\ \A i, k \in DOMAIN job : job[i].of = job[k].of => i = k
  /\ \A i \in DOMAIN job : job[i].of \in {"garden", "sockets"} => \E k \in DOMAIN job : job[k].of = "patio"
  /\ "demo" \notin cut => \A i \in DOMAIN job :
       job[i].of = "fee" => \E k \in DOMAIN job : k < i /\ EngagedCarpentry(k)

\* What the scripts other than s have left, if none was cut short.
Left(s) ==
  /\ profiles # {} /\ "demo" \notin cut /\ s # "demo" => \E k \in DOMAIN job : EngagedCarpentry(k)
  /\ "chat" \notin cut /\ s # "chat" /\ (\A i \in DOMAIN job : ~ job[i].marked) =>
       \A i \in DOMAIN job : job[i].chat = 0
  /\ "appointments" \notin cut /\ s # "appointments" /\ (\A i \in DOMAIN job : ~ HasCancelledVisit(job[i])) =>
       \A i \in DOMAIN job : job[i].visit = <<>>

\* What script s has behind it before step p: the deals and rows it made ...
Made(s, p) ==
  /\ \A d \in Deals : MadeBy(d) = s /\ MadeAt(d) < p => \E i \in DOMAIN job : job[i].of = d
  /\ \A d \in FoundBy(s) : FindAt(d) < p => Matches(d) # {}
  /\ s = "demo" /\ 2 < p => "maria" \in users
  /\ s = "payments" /\ 1 < p => profiles # {}
  /\ s = "chat" /\ 8 < p => \E i \in DOMAIN job : job[i].marked
  /\ s = "appointments" /\ 9 < p => \E i \in DOMAIN job : HasCancelledVisit(job[i])
\* ... and the work it completed and the reviews that wait for a decision.
Reviewed(s, p) ==
  s = "reviews" =>
    /\ \A d \in FoundBy(s) : CompleteAt(d) < p => job[Oldest(d)].eng = "COMPLETED"
    /\ 13 < p => job[Oldest("sockets")].review["CUSTOMER"] \notin {"none", "rated"}
    /\ 17 < p => job[Oldest("painting")].review["PROFESSIONAL"] \notin {"none", "rated"}

\* What holds before step p of script s.
Before(s, p) == /\ \A i \in DOMAIN job : JobOK(job[i], s, p)
                /\ Together /\ Left(s) /\ Made(s, p) /\ Reviewed(s, p)

\* What came to its end is not started again.
EndsOnce ==
  /\ \A s \in Scripts \ {"seed"} : done[s] <= 1 /\ (done[s] = 1 => AlreadySeeded(s))
  /\ run # NoScript /\ run.script # "seed" => done[run.script] = 0

DemoInv == DemoTypes /\ EndsOnce /\ Before(run.script, run.pc)

------------------------------------------------------------------------------
(* The order of the statements                                             *)

\* What the statement t at step p of script s is about, and what is therefore
\* behind it: who makes which deal and where ...
MakeFit(s, p, t) ==
  /\ \A d \in Deals : MadeBy(d) = s /\ p = MadeAt(d) => t.op \in {"ask", "engage"} /\ t.deal = d
  /\ t.op \in {"ask", "engage"} => /\ t.deal \in Deals /\ MadeBy(t.deal) = s /\ p = MadeAt(t.deal)
                                   /\ t.op = "engage" <=> s = "payments"
\* ... which deal a statement writes to ...
Touching == {"quote", "withdraw", "accept", "cancel", "propose", "agree", "refuse", "start", "method", "cash",
             "debt", "cancelByCustomer", "cancelByProfessional"}
TouchFit(s, p, t) ==
  t.op \in Touching => t.deal \in Deals /\ MadeBy(t.deal) = s /\ MadeAt(t.deal) < p
\* ... quotes and prices come before the decision ...
HaggleFit(s, p, t) ==
  /\ t.op \in {"quote", "propose"} => s # "payments" /\ p < ClosedAt(t.deal)
  /\ t.op \in {"withdraw", "agree", "refuse"} => s # "payments"
  /\ t.op \in {"accept", "cancel"} => s # "payments" /\ p = ClosedAt(t.deal)
  /\ t.op = "accept" => /\ t.n = 1 /\ t.deal # "sr5" /\ MadeAt(t.deal) + 1 < p
                        /\ s # "negotiation" => t.deal \in {"sr3", "sr4"}
  /\ t.op = "cancel" => t.deal = "sr5"
  /\ t.op \in {"propose", "agree", "refuse"} => t.n \in Nat /\ t.deal \in Haggled
  /\ t.op = "propose" => t.by = Asker(t.deal)
  /\ t.op \in {"agree", "refuse"} => t.by = OtherSide(Asker(t.deal))
  /\ s \in {"demo", "negotiation"} => \A d \in Deals \ {"sr5"} :
       MadeBy(d) = s /\ p = MadeAt(d) + 1 => t.op = "quote" /\ t.deal = d
  /\ s = "demo" /\ p = 46 => t.op = "accept" /\ t.deal = "sr4"
\* ... a confirmation in cash after its method, a debt after both ...
PayFit(s, p, t) ==
  /\ t.op \in {"start", "method", "cash", "debt", "cancelByCustomer", "cancelByProfessional"} => s = "payments"
  /\ t.op = "start" => p < FeeAt(t.deal)
  /\ t.op = "cash" => t.by \in Sides /\ MethodAt(t.deal) < p
  /\ t.op = "debt" => t.deal = "paid" /\ 15 < p
  /\ t.op \in {"cancelByCustomer", "cancelByProfessional"} => t.deal \in {"fee", "refund"} /\ p = FeeAt(t.deal)
  /\ s = "payments" =>
       /\ p = 1 => t.op = "look"
       /\ \A d \in Deals : MadeBy(d) = s /\ p = MethodAt(d) => t.op = "method" /\ t.deal = d
       /\ p = 13 => t.op = "cash" /\ t.deal = "paid" /\ t.by = "CUSTOMER"
       /\ p = 15 => t.op = "cash" /\ t.deal = "paid" /\ t.by = "PROFESSIONAL"
\* ... and what the last scripts write to is found first ...
Following == {"chat", "chatMarker", "visit", "confirm", "cancelVisit", "complete", "review", "comment",
              "commentMarker", "moderate"}
FindFit(s, p, t) ==
  /\ t.op \in Following => t.deal \in FoundBy(s) /\ FindAt(t.deal) < p
  /\ \A d \in FoundBy(s) : p = FindAt(d) => t.op = "find" /\ t.deal = d
  /\ t.op \in {"chat", "chatMarker"} => s = "chat" /\ ChatFrom(t.deal) <= p /\ p < ChatFrom(t.deal) + 4
  /\ s = "chat" /\ p = 8 => t.op = "chatMarker"
\* ... visits are made in order ...
VisitFit(s, p, t) ==
  /\ t.op \in {"visit", "confirm", "cancelVisit"} => s = "appointments"
  /\ t.op = "visit" => \/ t.deal = "patio" /\ p = 5 
                       \/ t.deal = "garden" /\ p = 7
                       \/ t.deal = "sockets" /\ (p = 8 \/ p = 10)
  /\ t.op = "confirm" => p = 6
  /\ t.op = "cancelVisit" => p = 9 /\ t.deal = "sockets"
  /\ s = "appointments" => /\ p = 8 => t.op = "visit" /\ t.deal = "sockets"
                           /\ p = 9 => t.op = "cancelVisit" /\ t.deal = "sockets"
\* ... and reviews after the work.
ReviewFit(s, p, t) ==
  /\ t.op \in {"complete", "review", "comment", "commentMarker", "moderate"} => s = "reviews"
  /\ t.op = "complete" => p = CompleteAt(t.deal)
  /\ t.op \in {"review", "comment", "commentMarker", "moderate"} => t.by \in Sides /\ CompleteAt(t.deal) < p
  /\ t.op = "moderate" => \/ t.deal = "sockets" /\ t.by = "CUSTOMER" /\ 13 < p
                          \/ t.deal = "painting" /\ t.by = "PROFESSIONAL" /\ 17 < p
  /\ s = "reviews" =>
       /\ \A d \in FoundBy(s) : p = CompleteAt(d) => t.op = "complete" /\ t.deal = d
       /\ p = 13 => t.op = "commentMarker" /\ t.deal = "sockets" /\ t.by = "CUSTOMER"
       /\ p = 17 => t.op = "comment" /\ t.deal = "painting" /\ t.by = "PROFESSIONAL"
\* ... and rows and people are written by the scripts that announce them.
RowFit(s, p, t) ==
  /\ t.op = "upsert" => s = "seed" /\ t.deal \in Keys
  /\ t.op \in {"user", "profile"} => s = "demo"
  /\ s = "demo" /\ p = 2 => t.op = "user" /\ t.deal = "maria"
  /\ t.op \in {"enable", "enableOrCreate"} => t = On(t.op, t.deal)
Fits(s, p, t) == /\ MakeFit(s, p, t) /\ TouchFit(s, p, t) /\ HaggleFit(s, p, t)
                 /\ PayFit(s, p, t) /\ RowFit(s, p, t) /\ FindFit(s, p, t)
                 /\ VisitFit(s, p, t) /\ ReviewFit(s, p, t)

\* The m statements of the list c, which come after n others of the script s.
FitAfter(s, n, c, m) == /\ c = [i \in 1..m |-> c[i]]
                        /\ \A i \in 1..m : Fits(s, n + i, c[i])

\* What is built from n entries is a sequence of them.
LEMMA BuiltFromEntries ==
  ASSUME NEW S, NEW n \in Nat, NEW q, \A m \in 1..n : q[m] \in S, q = [m \in 1..n |-> q[m]]
  PROVE  q \in Seq(S) /\ Len(q) = n
<1>1. PICK c : c = q
  OBVIOUS
<1>2. c = [m \in 1..n |-> c[m]] /\ \A m \in 1..n : c[m] \in S
  BY <1>1
<1>3. c \in Seq(S) /\ Len(c) = n
  BY <1>2
<1> QED BY <1>1, <1>3

\* Two lists one after the other.
LEMMA Joined == ASSUME NEW s, NEW k \in Nat, NEW m \in Nat, NEW a, NEW b,
                       FitAfter(s, 0, a, k), FitAfter(s, k, b, m)
                PROVE  FitAfter(s, 0, a \o b, k + m)
<1> DEFINE S == {a[i] : i \in 1..k} \cup {b[i] : i \in 1..m}
<1>1. (\A i \in 1..k : a[i] \in S) /\ (\A i \in 1..m : b[i] \in S)
  OBVIOUS
<1> HIDE DEF S
<1>2. /\ a \in Seq(S) /\ Len(a) = k
      /\ b \in Seq(S) /\ Len(b) = m
  <2>1. a = [i \in 1..k |-> a[i]] /\ b = [i \in 1..m |-> b[i]]
    BY DEF FitAfter
  <2>2. a \in Seq(S) /\ Len(a) = k
    BY <1>1, <2>1, BuiltFromEntries
  <2>3. b \in Seq(S) /\ Len(b) = m
    BY <1>1, <2>1, BuiltFromEntries
  <2> QED BY <2>2, <2>3
<1> DEFINE c == a \o b
<1>3. /\ c \in Seq(S) /\ Len(c) = k + m
      /\ \A i \in 1 .. k + m : c[i] = IF i <= k THEN a[i] ELSE b[i - k]
  BY <1>2, ConcatProperties
<1> HIDE DEF c
<1>4. c = [i \in 1..(k + m) |-> c[i]]
  BY <1>3
<1>5. ASSUME NEW i \in 1..(k + m) PROVE Fits(s, 0 + i, c[i])
  <2>1. CASE i <= k
    <3>1. i \in 1..k /\ c[i] = a[i]
      BY <1>3, <2>1
    <3> QED BY <3>1 DEF FitAfter
  <2>2. CASE ~ (i <= k)
    <3>1. i - k \in 1..m /\ c[i] = b[i - k]
      BY <1>3, <2>2
    <3>2. Fits(s, k + (i - k), b[i - k])
      BY <3>1 DEF FitAfter
    <3> QED BY <3>1, <3>2
  <2> QED BY <2>1, <2>2
<1>6. FitAfter(s, 0, c, k + m)
  BY <1>4, <1>5 DEF FitAfter
<1> QED BY <1>6 DEF c

\* What the statements of the scripts are about is spelled out in these lemmas.
USE DEF Deals, MadeBy, MadeAt, ClosedAt, MethodAt, FeeAt, Touching, Haggled, Asker, OtherSide, Sides, Following, FoundBy,
        FindAt, ChatFrom, CompleteAt, Negotiated, Keys, Categories, Switches, On, By, Step

\* The statements of the script demo are in order.
LEMMA DemoFits == FitAfter("demo", 0, Steps["demo"], 62)
<1>1. FitAfter("demo", 0, DemoCustomers, 7)
  <2> USE DEF DemoCustomers, Person, Profile
  <2>1. DemoCustomers = [i \in 1..7 |-> DemoCustomers[i]]
    OBVIOUS
  <2>2. ASSUME NEW i \in 1..7 PROVE Fits("demo", 0 + i, DemoCustomers[i])
    <3>1. \/ i = 1 \/ i = 2 \/ i = 3 \/ i = 4 \/ i = 5 \/ i = 6 \/ i = 7
      OBVIOUS
    <3>2. MakeFit("demo", 0 + i, DemoCustomers[i]) /\ TouchFit("demo", 0 + i, DemoCustomers[i])
      <4>1. MakeFit("demo", 0 + i, DemoCustomers[i])
        BY <3>1 DEF MakeFit
      <4>2. TouchFit("demo", 0 + i, DemoCustomers[i])
        BY <3>1 DEF TouchFit
      <4> QED BY <4>1, <4>2
    <3>3. HaggleFit("demo", 0 + i, DemoCustomers[i])
      BY <3>1 DEF HaggleFit
    <3>4. PayFit("demo", 0 + i, DemoCustomers[i]) /\ RowFit("demo", 0 + i, DemoCustomers[i])
      BY <3>1 DEF PayFit, RowFit
    <3>5. FindFit("demo", 0 + i, DemoCustomers[i]) /\ VisitFit("demo", 0 + i, DemoCustomers[i])
      BY <3>1 DEF FindFit, VisitFit
    <3>6. ReviewFit("demo", 0 + i, DemoCustomers[i])
      BY <3>1 DEF ReviewFit
    <3> QED BY <3>2, <3>3, <3>4, <3>5, <3>6 DEF Fits
  <2> QED BY <2>1, <2>2 DEF FitAfter
<1>2. FitAfter("demo", 7, DemoProfessionals, 14)
  <2> USE DEF DemoProfessionals, Person, Profile, Skill
  <2>1. DemoProfessionals = [i \in 1..14 |-> DemoProfessionals[i]]
    OBVIOUS
  <2>2. ASSUME NEW i \in 1..14 PROVE Fits("demo", 7 + i, DemoProfessionals[i])
    <3>1. \/ i = 1 \/ i = 2 \/ i = 3 \/ i = 4 \/ i = 5 \/ i = 6 \/ i = 7 \/ i = 8 \/ i = 9
           \/ i = 10 \/ i = 11 \/ i = 12 \/ i = 13 \/ i = 14
      OBVIOUS
    <3>2. MakeFit("demo", 7 + i, DemoProfessionals[i]) /\ TouchFit("demo", 7 + i, DemoProfessionals[i])
      <4>1. MakeFit("demo", 7 + i, DemoProfessionals[i])
        BY <3>1 DEF MakeFit
      <4>2. TouchFit("demo", 7 + i, DemoProfessionals[i])
        BY <3>1 DEF TouchFit
      <4> QED BY <4>1, <4>2
    <3>3. HaggleFit("demo", 7 + i, DemoProfessionals[i])
      <4> DEFINE t == DemoProfessionals[i]
      <4>1. t.op \notin {"propose", "agree", "refuse"}
        BY <3>1
      <4>2. /\ t.op = "quote" => 7 + i < ClosedAt(t.deal)
            /\ t.op \in {"accept", "cancel"} => 7 + i = ClosedAt(t.deal)
        BY <3>1
      <4>3. /\ t.op = "accept" => t.n = 1 /\ t.deal # "sr5" /\ MadeAt(t.deal) + 1 < 7 + i /\ t.deal \in {"sr3", "sr4"}
            /\ t.op = "cancel" => t.deal = "sr5"
        <5>1. t.op = "accept" => t.n = 1 /\ t.deal \in {"sr3", "sr4"}
          BY <3>1
        <5>2. t.op = "accept" => MadeAt(t.deal) + 1 < 7 + i
          BY <3>1
        <5>3. t.op = "cancel" => t.deal = "sr5"
          BY <3>1
        <5> HIDE DEF t
        <5> QED BY <5>1, <5>2, <5>3
      <4>4. ASSUME NEW d \in Deals \ {"sr5"}, MadeBy(d) = "demo", 7 + i = MadeAt(d) + 1
            PROVE  t.op = "quote" /\ t.deal = d
        BY <3>1, <4>4
      <4>5. 7 + i = 46 => t.op = "accept" /\ t.deal = "sr4"
        BY <3>1
      <4> HIDE DEF t, DemoProfessionals, Person, Profile, Skill, Step, On, By, Deals, MadeBy, MadeAt, ClosedAt, Haggled, Asker, OtherSide, Sides
      <4>6. HaggleFit("demo", 7 + i, t)
        BY <4>1, <4>2, <4>3, <4>4, <4>5 DEF HaggleFit
      <4> QED BY <4>6 DEF t
    <3>4. PayFit("demo", 7 + i, DemoProfessionals[i]) /\ RowFit("demo", 7 + i, DemoProfessionals[i])
      BY <3>1 DEF PayFit, RowFit
    <3>5. FindFit("demo", 7 + i, DemoProfessionals[i]) /\ VisitFit("demo", 7 + i, DemoProfessionals[i])
      BY <3>1 DEF FindFit, VisitFit
    <3>6. ReviewFit("demo", 7 + i, DemoProfessionals[i])
      BY <3>1 DEF ReviewFit
    <3> QED BY <3>2, <3>3, <3>4, <3>5, <3>6 DEF Fits
  <2> QED BY <2>1, <2>2 DEF FitAfter
<1>3. FitAfter("demo", 21, DemoOthers, 11)
  <2> USE DEF DemoOthers, Person, Profile, Skill
  <2>1. DemoOthers = [i \in 1..11 |-> DemoOthers[i]]
    OBVIOUS
  <2>2. ASSUME NEW i \in 1..11 PROVE Fits("demo", 21 + i, DemoOthers[i])
    <3>1. \/ i = 1 \/ i = 2 \/ i = 3 \/ i = 4 \/ i = 5 \/ i = 6 \/ i = 7 \/ i = 8 \/ i = 9
           \/ i = 10 \/ i = 11
      OBVIOUS
    <3>2. MakeFit("demo", 21 + i, DemoOthers[i]) /\ TouchFit("demo", 21 + i, DemoOthers[i])
      <4>1. MakeFit("demo", 21 + i, DemoOthers[i])
        BY <3>1 DEF MakeFit
      <4>2. TouchFit("demo", 21 + i, DemoOthers[i])
        BY <3>1 DEF TouchFit
      <4> QED BY <4>1, <4>2
    <3>3. HaggleFit("demo", 21 + i, DemoOthers[i])
      BY <3>1 DEF HaggleFit
    <3>4. PayFit("demo", 21 + i, DemoOthers[i]) /\ RowFit("demo", 21 + i, DemoOthers[i])
      BY <3>1 DEF PayFit, RowFit
    <3>5. FindFit("demo", 21 + i, DemoOthers[i]) /\ VisitFit("demo", 21 + i, DemoOthers[i])
      BY <3>1 DEF FindFit, VisitFit
    <3>6. ReviewFit("demo", 21 + i, DemoOthers[i])
      BY <3>1 DEF ReviewFit
    <3> QED BY <3>2, <3>3, <3>4, <3>5, <3>6 DEF Fits
  <2> QED BY <2>1, <2>2 DEF FitAfter
<1>4. FitAfter("demo", 32, DemoRequests, 18)
  <2> USE DEF DemoRequests, Quoted
  <2>1. DemoRequests = [i \in 1..18 |-> DemoRequests[i]]
    OBVIOUS
  <2>2. ASSUME NEW i \in 1..18 PROVE Fits("demo", 32 + i, DemoRequests[i])
    <3>1. \/ i = 1 \/ i = 2 \/ i = 3 \/ i = 4 \/ i = 5 \/ i = 6 \/ i = 7 \/ i = 8 \/ i = 9
           \/ i = 10 \/ i = 11 \/ i = 12 \/ i = 13 \/ i = 14 \/ i = 15 \/ i = 16 \/ i = 17
           \/ i = 18
      OBVIOUS
    <3>2. MakeFit("demo", 32 + i, DemoRequests[i]) /\ TouchFit("demo", 32 + i, DemoRequests[i])
      <4>1. MakeFit("demo", 32 + i, DemoRequests[i])
        BY <3>1 DEF MakeFit
      <4>2. TouchFit("demo", 32 + i, DemoRequests[i])
        BY <3>1 DEF TouchFit
      <4> QED BY <4>1, <4>2
    <3>3. HaggleFit("demo", 32 + i, DemoRequests[i])
      <4> DEFINE t == DemoRequests[i]
      <4>1. t.op \notin {"propose", "agree", "refuse"}
        BY <3>1
      <4>2. /\ t.op = "quote" => 32 + i < ClosedAt(t.deal)
            /\ t.op \in {"accept", "cancel"} => 32 + i = ClosedAt(t.deal)
        BY <3>1
      <4>3. /\ t.op = "accept" => t.n = 1 /\ t.deal # "sr5" /\ MadeAt(t.deal) + 1 < 32 + i /\ t.deal \in {"sr3", "sr4"}
            /\ t.op = "cancel" => t.deal = "sr5"
        <5>1. t.op = "accept" => t.n = 1 /\ t.deal \in {"sr3", "sr4"}
          BY <3>1
        <5>2. t.op = "accept" => MadeAt(t.deal) + 1 < 32 + i
          BY <3>1
        <5>3. t.op = "cancel" => t.deal = "sr5"
          BY <3>1
        <5> HIDE DEF t
        <5> QED BY <5>1, <5>2, <5>3
      <4>4. ASSUME NEW d \in Deals \ {"sr5"}, MadeBy(d) = "demo", 32 + i = MadeAt(d) + 1
            PROVE  t.op = "quote" /\ t.deal = d
        BY <3>1, <4>4
      <4>5. 32 + i = 46 => t.op = "accept" /\ t.deal = "sr4"
        BY <3>1
      <4> HIDE DEF t, DemoRequests, Quoted, Step, On, By, Deals, MadeBy, MadeAt, ClosedAt, Haggled, Asker, OtherSide, Sides
      <4>6. HaggleFit("demo", 32 + i, t)
        BY <4>1, <4>2, <4>3, <4>4, <4>5 DEF HaggleFit
      <4> QED BY <4>6 DEF t
    <3>4. PayFit("demo", 32 + i, DemoRequests[i]) /\ RowFit("demo", 32 + i, DemoRequests[i])
      BY <3>1 DEF PayFit, RowFit
    <3>5. FindFit("demo", 32 + i, DemoRequests[i]) /\ VisitFit("demo", 32 + i, DemoRequests[i])
      BY <3>1 DEF FindFit, VisitFit
    <3>6. ReviewFit("demo", 32 + i, DemoRequests[i])
      BY <3>1 DEF ReviewFit
    <3> QED BY <3>2, <3>3, <3>4, <3>5, <3>6 DEF Fits
  <2> QED BY <2>1, <2>2 DEF FitAfter
<1>5. FitAfter("demo", 50, DemoTalks, 12)
  <2> USE DEF DemoTalks, Says, Proposes
  <2>1. DemoTalks = [i \in 1..12 |-> DemoTalks[i]]
    OBVIOUS
  <2>2. ASSUME NEW i \in 1..12 PROVE Fits("demo", 50 + i, DemoTalks[i])
    <3>1. \/ i = 1 \/ i = 2 \/ i = 3 \/ i = 4 \/ i = 5 \/ i = 6 \/ i = 7 \/ i = 8 \/ i = 9
           \/ i = 10 \/ i = 11 \/ i = 12
      OBVIOUS
    <3>2. MakeFit("demo", 50 + i, DemoTalks[i]) /\ TouchFit("demo", 50 + i, DemoTalks[i])
      <4>1. MakeFit("demo", 50 + i, DemoTalks[i])
        BY <3>1 DEF MakeFit
      <4>2. TouchFit("demo", 50 + i, DemoTalks[i])
        BY <3>1 DEF TouchFit
      <4> QED BY <4>1, <4>2
    <3>3. HaggleFit("demo", 50 + i, DemoTalks[i])
      BY <3>1 DEF HaggleFit
    <3>4. PayFit("demo", 50 + i, DemoTalks[i]) /\ RowFit("demo", 50 + i, DemoTalks[i])
      BY <3>1 DEF PayFit, RowFit
    <3>5. FindFit("demo", 50 + i, DemoTalks[i]) /\ VisitFit("demo", 50 + i, DemoTalks[i])
      BY <3>1 DEF FindFit, VisitFit
    <3>6. ReviewFit("demo", 50 + i, DemoTalks[i])
      BY <3>1 DEF ReviewFit
    <3> QED BY <3>2, <3>3, <3>4, <3>5, <3>6 DEF Fits
  <2> QED BY <2>1, <2>2 DEF FitAfter
<1> DEFINE J1 == DemoCustomers \o DemoProfessionals
<1>6. FitAfter("demo", 0, J1, 21)
  BY <1>1, <1>2, Joined
<1> HIDE DEF J1
<1> DEFINE J2 == J1 \o DemoOthers
<1>7. FitAfter("demo", 0, J2, 32)
  BY <1>6, <1>3, Joined
<1> HIDE DEF J2
<1> DEFINE J3 == J2 \o DemoRequests
<1>8. FitAfter("demo", 0, J3, 50)
  BY <1>7, <1>4, Joined
<1> HIDE DEF J3
<1>9. FitAfter("demo", 0, J3 \o DemoTalks, 62)
  BY <1>8, <1>5, Joined
<1> QED BY <1>9 DEF Steps, Scripts, J1, J2, J3

\* The statements of the script negotiation are in order.
LEMMA NegotiationFits == FitAfter("negotiation", 0, Steps["negotiation"], 26)
<1>1. FitAfter("negotiation", 0, NegotiatedPatio, 12)
  <2> USE DEF NegotiatedPatio, Look, Says, Proposes, Quoted
  <2>1. NegotiatedPatio = [i \in 1..12 |-> NegotiatedPatio[i]]
    OBVIOUS
  <2>2. ASSUME NEW i \in 1..12 PROVE Fits("negotiation", 0 + i, NegotiatedPatio[i])
    <3>1. \/ i = 1 \/ i = 2 \/ i = 3 \/ i = 4 \/ i = 5 \/ i = 6 \/ i = 7 \/ i = 8 \/ i = 9
           \/ i = 10 \/ i = 11 \/ i = 12
      OBVIOUS
    <3>2. MakeFit("negotiation", 0 + i, NegotiatedPatio[i]) /\ TouchFit("negotiation", 0 + i, NegotiatedPatio[i])
      <4>1. MakeFit("negotiation", 0 + i, NegotiatedPatio[i])
        BY <3>1 DEF MakeFit
      <4>2. TouchFit("negotiation", 0 + i, NegotiatedPatio[i])
        BY <3>1 DEF TouchFit
      <4> QED BY <4>1, <4>2
    <3>3. HaggleFit("negotiation", 0 + i, NegotiatedPatio[i])
      BY <3>1 DEF HaggleFit
    <3>4. PayFit("negotiation", 0 + i, NegotiatedPatio[i]) /\ RowFit("negotiation", 0 + i, NegotiatedPatio[i])
      BY <3>1 DEF PayFit, RowFit
    <3>5. FindFit("negotiation", 0 + i, NegotiatedPatio[i]) /\ VisitFit("negotiation", 0 + i, NegotiatedPatio[i])
      BY <3>1 DEF FindFit, VisitFit
    <3>6. ReviewFit("negotiation", 0 + i, NegotiatedPatio[i])
      BY <3>1 DEF ReviewFit
    <3> QED BY <3>2, <3>3, <3>4, <3>5, <3>6 DEF Fits
  <2> QED BY <2>1, <2>2 DEF FitAfter
<1>2. FitAfter("negotiation", 12, NegotiatedGarden, 6)
  <2> USE DEF NegotiatedGarden, Says, Proposes, Quoted
  <2>1. NegotiatedGarden = [i \in 1..6 |-> NegotiatedGarden[i]]
    OBVIOUS
  <2>2. ASSUME NEW i \in 1..6 PROVE Fits("negotiation", 12 + i, NegotiatedGarden[i])
    <3>1. \/ i = 1 \/ i = 2 \/ i = 3 \/ i = 4 \/ i = 5 \/ i = 6
      OBVIOUS
    <3>2. MakeFit("negotiation", 12 + i, NegotiatedGarden[i]) /\ TouchFit("negotiation", 12 + i, NegotiatedGarden[i])
      <4>1. MakeFit("negotiation", 12 + i, NegotiatedGarden[i])
        BY <3>1 DEF MakeFit
      <4>2. TouchFit("negotiation", 12 + i, NegotiatedGarden[i])
        BY <3>1 DEF TouchFit
      <4> QED BY <4>1, <4>2
    <3>3. HaggleFit("negotiation", 12 + i, NegotiatedGarden[i])
      BY <3>1 DEF HaggleFit
    <3>4. PayFit("negotiation", 12 + i, NegotiatedGarden[i]) /\ RowFit("negotiation", 12 + i, NegotiatedGarden[i])
      BY <3>1 DEF PayFit, RowFit
    <3>5. FindFit("negotiation", 12 + i, NegotiatedGarden[i]) /\ VisitFit("negotiation", 12 + i, NegotiatedGarden[i])
      BY <3>1 DEF FindFit, VisitFit
    <3>6. ReviewFit("negotiation", 12 + i, NegotiatedGarden[i])
      BY <3>1 DEF ReviewFit
    <3> QED BY <3>2, <3>3, <3>4, <3>5, <3>6 DEF Fits
  <2> QED BY <2>1, <2>2 DEF FitAfter
<1>3. FitAfter("negotiation", 18, NegotiatedSockets, 8)
  <2> USE DEF NegotiatedSockets, Says, Proposes, Quoted
  <2>1. NegotiatedSockets = [i \in 1..8 |-> NegotiatedSockets[i]]
    OBVIOUS
  <2>2. ASSUME NEW i \in 1..8 PROVE Fits("negotiation", 18 + i, NegotiatedSockets[i])
    <3>1. \/ i = 1 \/ i = 2 \/ i = 3 \/ i = 4 \/ i = 5 \/ i = 6 \/ i = 7 \/ i = 8
      OBVIOUS
    <3>2. MakeFit("negotiation", 18 + i, NegotiatedSockets[i]) /\ TouchFit("negotiation", 18 + i, NegotiatedSockets[i])
      <4>1. MakeFit("negotiation", 18 + i, NegotiatedSockets[i])
        BY <3>1 DEF MakeFit
      <4>2. TouchFit("negotiation", 18 + i, NegotiatedSockets[i])
        BY <3>1 DEF TouchFit
      <4> QED BY <4>1, <4>2
    <3>3. HaggleFit("negotiation", 18 + i, NegotiatedSockets[i])
      BY <3>1 DEF HaggleFit
    <3>4. PayFit("negotiation", 18 + i, NegotiatedSockets[i]) /\ RowFit("negotiation", 18 + i, NegotiatedSockets[i])
      BY <3>1 DEF PayFit, RowFit
    <3>5. FindFit("negotiation", 18 + i, NegotiatedSockets[i]) /\ VisitFit("negotiation", 18 + i, NegotiatedSockets[i])
      BY <3>1 DEF FindFit, VisitFit
    <3>6. ReviewFit("negotiation", 18 + i, NegotiatedSockets[i])
      BY <3>1 DEF ReviewFit
    <3> QED BY <3>2, <3>3, <3>4, <3>5, <3>6 DEF Fits
  <2> QED BY <2>1, <2>2 DEF FitAfter
<1> DEFINE J1 == NegotiatedPatio \o NegotiatedGarden
<1>4. FitAfter("negotiation", 0, J1, 18)
  BY <1>1, <1>2, Joined
<1> HIDE DEF J1
<1>5. FitAfter("negotiation", 0, J1 \o NegotiatedSockets, 26)
  BY <1>4, <1>3, Joined
<1> QED BY <1>5 DEF Steps, Scripts, J1

\* The statements of the script chat are in order.
LEMMA ChatFits == FitAfter("chat", 0, Steps["chat"], 16)
<1>1. FitAfter("chat", 0, ChatSteps, 8)
  <2> USE DEF ChatSteps
  <2>1. ChatSteps = [i \in 1..8 |-> ChatSteps[i]]
    OBVIOUS
  <2>2. ASSUME NEW i \in 1..8 PROVE Fits("chat", 0 + i, ChatSteps[i])
    <3>1. \/ i = 1 \/ i = 2 \/ i = 3 \/ i = 4 \/ i = 5 \/ i = 6 \/ i = 7 \/ i = 8
      OBVIOUS
    <3>2. MakeFit("chat", 0 + i, ChatSteps[i]) /\ TouchFit("chat", 0 + i, ChatSteps[i])
      <4>1. MakeFit("chat", 0 + i, ChatSteps[i])
        BY <3>1 DEF MakeFit
      <4>2. TouchFit("chat", 0 + i, ChatSteps[i])
        BY <3>1 DEF TouchFit
      <4> QED BY <4>1, <4>2
    <3>3. HaggleFit("chat", 0 + i, ChatSteps[i])
      BY <3>1 DEF HaggleFit
    <3>4. PayFit("chat", 0 + i, ChatSteps[i]) /\ RowFit("chat", 0 + i, ChatSteps[i])
      BY <3>1 DEF PayFit, RowFit
    <3>5. FindFit("chat", 0 + i, ChatSteps[i]) /\ VisitFit("chat", 0 + i, ChatSteps[i])
      BY <3>1 DEF FindFit, VisitFit
    <3>6. ReviewFit("chat", 0 + i, ChatSteps[i])
      BY <3>1 DEF ReviewFit
    <3> QED BY <3>2, <3>3, <3>4, <3>5, <3>6 DEF Fits
  <2> QED BY <2>1, <2>2 DEF FitAfter
<1>2. FitAfter("chat", 8, ChatFollowUps, 8)
  <2> USE DEF ChatFollowUps
  <2>1. ChatFollowUps = [i \in 1..8 |-> ChatFollowUps[i]]
    OBVIOUS
  <2>2. ASSUME NEW i \in 1..8 PROVE Fits("chat", 8 + i, ChatFollowUps[i])
    <3>1. \/ i = 1 \/ i = 2 \/ i = 3 \/ i = 4 \/ i = 5 \/ i = 6 \/ i = 7 \/ i = 8
      OBVIOUS
    <3>2. MakeFit("chat", 8 + i, ChatFollowUps[i]) /\ TouchFit("chat", 8 + i, ChatFollowUps[i])
      <4>1. MakeFit("chat", 8 + i, ChatFollowUps[i])
        BY <3>1 DEF MakeFit
      <4>2. TouchFit("chat", 8 + i, ChatFollowUps[i])
        BY <3>1 DEF TouchFit
      <4> QED BY <4>1, <4>2
    <3>3. HaggleFit("chat", 8 + i, ChatFollowUps[i])
      BY <3>1 DEF HaggleFit
    <3>4. PayFit("chat", 8 + i, ChatFollowUps[i]) /\ RowFit("chat", 8 + i, ChatFollowUps[i])
      BY <3>1 DEF PayFit, RowFit
    <3>5. FindFit("chat", 8 + i, ChatFollowUps[i]) /\ VisitFit("chat", 8 + i, ChatFollowUps[i])
      BY <3>1 DEF FindFit, VisitFit
    <3>6. ReviewFit("chat", 8 + i, ChatFollowUps[i])
      BY <3>1 DEF ReviewFit
    <3> QED BY <3>2, <3>3, <3>4, <3>5, <3>6 DEF Fits
  <2> QED BY <2>1, <2>2 DEF FitAfter
<1>3. FitAfter("chat", 0, ChatSteps \o ChatFollowUps, 16)
  BY <1>1, <1>2, Joined
<1> QED BY <1>3 DEF Steps, Scripts

\* The statements of the script appointments are in order.
LEMMA AppointmentsFits == FitAfter("appointments", 0, Steps["appointments"], 10)
<1>1. FitAfter("appointments", 0, AppointmentSteps, 10)
  <2> USE DEF AppointmentSteps
  <2>1. AppointmentSteps = [i \in 1..10 |-> AppointmentSteps[i]]
    OBVIOUS
  <2>2. ASSUME NEW i \in 1..10 PROVE Fits("appointments", 0 + i, AppointmentSteps[i])
    <3>1. \/ i = 1 \/ i = 2 \/ i = 3 \/ i = 4 \/ i = 5 \/ i = 6 \/ i = 7 \/ i = 8 \/ i = 9
           \/ i = 10
      OBVIOUS
    <3>2. MakeFit("appointments", 0 + i, AppointmentSteps[i]) /\ TouchFit("appointments", 0 + i, AppointmentSteps[i])
      <4>1. MakeFit("appointments", 0 + i, AppointmentSteps[i])
        BY <3>1 DEF MakeFit
      <4>2. TouchFit("appointments", 0 + i, AppointmentSteps[i])
        BY <3>1 DEF TouchFit
      <4> QED BY <4>1, <4>2
    <3>3. HaggleFit("appointments", 0 + i, AppointmentSteps[i])
      BY <3>1 DEF HaggleFit
    <3>4. PayFit("appointments", 0 + i, AppointmentSteps[i]) /\ RowFit("appointments", 0 + i, AppointmentSteps[i])
      BY <3>1 DEF PayFit, RowFit
    <3>5. FindFit("appointments", 0 + i, AppointmentSteps[i]) /\ VisitFit("appointments", 0 + i, AppointmentSteps[i])
      BY <3>1 DEF FindFit, VisitFit
    <3>6. ReviewFit("appointments", 0 + i, AppointmentSteps[i])
      BY <3>1 DEF ReviewFit
    <3> QED BY <3>2, <3>3, <3>4, <3>5, <3>6 DEF Fits
  <2> QED BY <2>1, <2>2 DEF FitAfter
<1> QED BY <1>1 DEF Steps, Scripts

\* The statements of the script reviews are in order.
LEMMA ReviewsFits == FitAfter("reviews", 0, Steps["reviews"], 21)
<1>1. FitAfter("reviews", 0, ReviewLookups, 6)
  <2> USE DEF ReviewLookups
  <2>1. ReviewLookups = [i \in 1..6 |-> ReviewLookups[i]]
    OBVIOUS
  <2>2. ASSUME NEW i \in 1..6 PROVE Fits("reviews", 0 + i, ReviewLookups[i])
    <3>1. \/ i = 1 \/ i = 2 \/ i = 3 \/ i = 4 \/ i = 5 \/ i = 6
      OBVIOUS
    <3>2. MakeFit("reviews", 0 + i, ReviewLookups[i]) /\ TouchFit("reviews", 0 + i, ReviewLookups[i])
      <4>1. MakeFit("reviews", 0 + i, ReviewLookups[i])
        BY <3>1 DEF MakeFit
      <4>2. TouchFit("reviews", 0 + i, ReviewLookups[i])
        BY <3>1 DEF TouchFit
      <4> QED BY <4>1, <4>2
    <3>3. HaggleFit("reviews", 0 + i, ReviewLookups[i])
      BY <3>1 DEF HaggleFit
    <3>4. PayFit("reviews", 0 + i, ReviewLookups[i]) /\ RowFit("reviews", 0 + i, ReviewLookups[i])
      BY <3>1 DEF PayFit, RowFit
    <3>5. FindFit("reviews", 0 + i, ReviewLookups[i]) /\ VisitFit("reviews", 0 + i, ReviewLookups[i])
      BY <3>1 DEF FindFit, VisitFit
    <3>6. ReviewFit("reviews", 0 + i, ReviewLookups[i])
      BY <3>1 DEF ReviewFit
    <3> QED BY <3>2, <3>3, <3>4, <3>5, <3>6 DEF Fits
  <2> QED BY <2>1, <2>2 DEF FitAfter
<1>2. FitAfter("reviews", 6, ReviewsOfNegotiated, 9)
  <2> USE DEF ReviewsOfNegotiated
  <2>1. ReviewsOfNegotiated = [i \in 1..9 |-> ReviewsOfNegotiated[i]]
    OBVIOUS
  <2>2. ASSUME NEW i \in 1..9 PROVE Fits("reviews", 6 + i, ReviewsOfNegotiated[i])
    <3>1. \/ i = 1 \/ i = 2 \/ i = 3 \/ i = 4 \/ i = 5 \/ i = 6 \/ i = 7 \/ i = 8 \/ i = 9
      OBVIOUS
    <3>2. MakeFit("reviews", 6 + i, ReviewsOfNegotiated[i]) /\ TouchFit("reviews", 6 + i, ReviewsOfNegotiated[i])
      <4>1. MakeFit("reviews", 6 + i, ReviewsOfNegotiated[i])
        BY <3>1 DEF MakeFit
      <4>2. TouchFit("reviews", 6 + i, ReviewsOfNegotiated[i])
        BY <3>1 DEF TouchFit
      <4> QED BY <4>1, <4>2
    <3>3. HaggleFit("reviews", 6 + i, ReviewsOfNegotiated[i])
      BY <3>1 DEF HaggleFit
    <3>4. PayFit("reviews", 6 + i, ReviewsOfNegotiated[i]) /\ RowFit("reviews", 6 + i, ReviewsOfNegotiated[i])
      BY <3>1 DEF PayFit, RowFit
    <3>5. FindFit("reviews", 6 + i, ReviewsOfNegotiated[i]) /\ VisitFit("reviews", 6 + i, ReviewsOfNegotiated[i])
      BY <3>1 DEF FindFit, VisitFit
    <3>6. ReviewFit("reviews", 6 + i, ReviewsOfNegotiated[i])
      BY <3>1 DEF ReviewFit
    <3> QED BY <3>2, <3>3, <3>4, <3>5, <3>6 DEF Fits
  <2> QED BY <2>1, <2>2 DEF FitAfter
<1>3. FitAfter("reviews", 15, ReviewsOfDemo, 6)
  <2> USE DEF ReviewsOfDemo
  <2>1. ReviewsOfDemo = [i \in 1..6 |-> ReviewsOfDemo[i]]
    OBVIOUS
  <2>2. ASSUME NEW i \in 1..6 PROVE Fits("reviews", 15 + i, ReviewsOfDemo[i])
    <3>1. \/ i = 1 \/ i = 2 \/ i = 3 \/ i = 4 \/ i = 5 \/ i = 6
      OBVIOUS
    <3>2. MakeFit("reviews", 15 + i, ReviewsOfDemo[i]) /\ TouchFit("reviews", 15 + i, ReviewsOfDemo[i])
      <4>1. MakeFit("reviews", 15 + i, ReviewsOfDemo[i])
        BY <3>1 DEF MakeFit
      <4>2. TouchFit("reviews", 15 + i, ReviewsOfDemo[i])
        BY <3>1 DEF TouchFit
      <4> QED BY <4>1, <4>2
    <3>3. HaggleFit("reviews", 15 + i, ReviewsOfDemo[i])
      BY <3>1 DEF HaggleFit
    <3>4. PayFit("reviews", 15 + i, ReviewsOfDemo[i]) /\ RowFit("reviews", 15 + i, ReviewsOfDemo[i])
      BY <3>1 DEF PayFit, RowFit
    <3>5. FindFit("reviews", 15 + i, ReviewsOfDemo[i]) /\ VisitFit("reviews", 15 + i, ReviewsOfDemo[i])
      BY <3>1 DEF FindFit, VisitFit
    <3>6. ReviewFit("reviews", 15 + i, ReviewsOfDemo[i])
      BY <3>1 DEF ReviewFit
    <3> QED BY <3>2, <3>3, <3>4, <3>5, <3>6 DEF Fits
  <2> QED BY <2>1, <2>2 DEF FitAfter
<1> DEFINE J1 == ReviewLookups \o ReviewsOfNegotiated
<1>4. FitAfter("reviews", 0, J1, 15)
  BY <1>1, <1>2, Joined
<1> HIDE DEF J1
<1>5. FitAfter("reviews", 0, J1 \o ReviewsOfDemo, 21)
  BY <1>4, <1>3, Joined
<1> QED BY <1>5 DEF Steps, Scripts, J1

\* The statements of the script payments are in order.
LEMMA PaymentsFits == FitAfter("payments", 0, Steps["payments"], 29)
<1>1. FitAfter("payments", 0, PaymentLookups, 9)
  <2> USE DEF PaymentLookups, Look
  <2>1. PaymentLookups = [i \in 1..9 |-> PaymentLookups[i]]
    OBVIOUS
  <2>2. ASSUME NEW i \in 1..9 PROVE Fits("payments", 0 + i, PaymentLookups[i])
    <3>1. \/ i = 1 \/ i = 2 \/ i = 3 \/ i = 4 \/ i = 5 \/ i = 6 \/ i = 7 \/ i = 8 \/ i = 9
      OBVIOUS
    <3>2. MakeFit("payments", 0 + i, PaymentLookups[i]) /\ TouchFit("payments", 0 + i, PaymentLookups[i])
      <4>1. MakeFit("payments", 0 + i, PaymentLookups[i])
        BY <3>1 DEF MakeFit
      <4>2. TouchFit("payments", 0 + i, PaymentLookups[i])
        BY <3>1 DEF TouchFit
      <4> QED BY <4>1, <4>2
    <3>3. HaggleFit("payments", 0 + i, PaymentLookups[i])
      BY <3>1 DEF HaggleFit
    <3>4. PayFit("payments", 0 + i, PaymentLookups[i]) /\ RowFit("payments", 0 + i, PaymentLookups[i])
      BY <3>1 DEF PayFit, RowFit
    <3>5. FindFit("payments", 0 + i, PaymentLookups[i]) /\ VisitFit("payments", 0 + i, PaymentLookups[i])
      BY <3>1 DEF FindFit, VisitFit
    <3>6. ReviewFit("payments", 0 + i, PaymentLookups[i])
      BY <3>1 DEF ReviewFit
    <3> QED BY <3>2, <3>3, <3>4, <3>5, <3>6 DEF Fits
  <2> QED BY <2>1, <2>2 DEF FitAfter
<1>2. FitAfter("payments", 9, CashScenarios, 15)
  <2> USE DEF CashScenarios
  <2>1. CashScenarios = [i \in 1..15 |-> CashScenarios[i]]
    OBVIOUS
  <2>2. ASSUME NEW i \in 1..15 PROVE Fits("payments", 9 + i, CashScenarios[i])
    <3>1. \/ i = 1 \/ i = 2 \/ i = 3 \/ i = 4 \/ i = 5 \/ i = 6 \/ i = 7 \/ i = 8 \/ i = 9
           \/ i = 10 \/ i = 11 \/ i = 12 \/ i = 13 \/ i = 14 \/ i = 15
      OBVIOUS
    <3>2. MakeFit("payments", 9 + i, CashScenarios[i]) /\ TouchFit("payments", 9 + i, CashScenarios[i])
      <4>1. MakeFit("payments", 9 + i, CashScenarios[i])
        BY <3>1 DEF MakeFit
      <4>2. TouchFit("payments", 9 + i, CashScenarios[i])
        BY <3>1 DEF TouchFit
      <4> QED BY <4>1, <4>2
    <3>3. HaggleFit("payments", 9 + i, CashScenarios[i])
      BY <3>1 DEF HaggleFit
    <3>4. PayFit("payments", 9 + i, CashScenarios[i]) /\ RowFit("payments", 9 + i, CashScenarios[i])
      BY <3>1 DEF PayFit, RowFit
    <3>5. FindFit("payments", 9 + i, CashScenarios[i]) /\ VisitFit("payments", 9 + i, CashScenarios[i])
      BY <3>1 DEF FindFit, VisitFit
    <3>6. ReviewFit("payments", 9 + i, CashScenarios[i])
      BY <3>1 DEF ReviewFit
    <3> QED BY <3>2, <3>3, <3>4, <3>5, <3>6 DEF Fits
  <2> QED BY <2>1, <2>2 DEF FitAfter
<1>3. FitAfter("payments", 24, CancellationScenarios, 5)
  <2> USE DEF CancellationScenarios
  <2>1. CancellationScenarios = [i \in 1..5 |-> CancellationScenarios[i]]
    OBVIOUS
  <2>2. ASSUME NEW i \in 1..5 PROVE Fits("payments", 24 + i, CancellationScenarios[i])
    <3>1. \/ i = 1 \/ i = 2 \/ i = 3 \/ i = 4 \/ i = 5
      OBVIOUS
    <3>2. MakeFit("payments", 24 + i, CancellationScenarios[i]) /\ TouchFit("payments", 24 + i, CancellationScenarios[i])
      <4>1. MakeFit("payments", 24 + i, CancellationScenarios[i])
        BY <3>1 DEF MakeFit
      <4>2. TouchFit("payments", 24 + i, CancellationScenarios[i])
        BY <3>1 DEF TouchFit
      <4> QED BY <4>1, <4>2
    <3>3. HaggleFit("payments", 24 + i, CancellationScenarios[i])
      BY <3>1 DEF HaggleFit
    <3>4. PayFit("payments", 24 + i, CancellationScenarios[i]) /\ RowFit("payments", 24 + i, CancellationScenarios[i])
      BY <3>1 DEF PayFit, RowFit
    <3>5. FindFit("payments", 24 + i, CancellationScenarios[i]) /\ VisitFit("payments", 24 + i, CancellationScenarios[i])
      BY <3>1 DEF FindFit, VisitFit
    <3>6. ReviewFit("payments", 24 + i, CancellationScenarios[i])
      BY <3>1 DEF ReviewFit
    <3> QED BY <3>2, <3>3, <3>4, <3>5, <3>6 DEF Fits
  <2> QED BY <2>1, <2>2 DEF FitAfter
<1> DEFINE J1 == PaymentLookups \o CashScenarios
<1>4. FitAfter("payments", 0, J1, 24)
  BY <1>1, <1>2, Joined
<1> HIDE DEF J1
<1>5. FitAfter("payments", 0, J1 \o CancellationScenarios, 29)
  BY <1>4, <1>3, Joined
<1> QED BY <1>5 DEF Steps, Scripts, J1

\* The statements of the script seed are in order.
LEMMA SeedFits == FitAfter("seed", 0, Steps["seed"], 10)
<1>1. FitAfter("seed", 0, SeedCatalog, 5)
  <2> USE DEF SeedCatalog, Upsert
  <2>1. SeedCatalog = [i \in 1..5 |-> SeedCatalog[i]]
    OBVIOUS
  <2>2. ASSUME NEW i \in 1..5 PROVE Fits("seed", 0 + i, SeedCatalog[i])
    <3>1. \/ i = 1 \/ i = 2 \/ i = 3 \/ i = 4 \/ i = 5
      OBVIOUS
    <3>2. MakeFit("seed", 0 + i, SeedCatalog[i]) /\ TouchFit("seed", 0 + i, SeedCatalog[i])
      <4>1. MakeFit("seed", 0 + i, SeedCatalog[i])
        BY <3>1 DEF MakeFit
      <4>2. TouchFit("seed", 0 + i, SeedCatalog[i])
        BY <3>1 DEF TouchFit
      <4> QED BY <4>1, <4>2
    <3>3. HaggleFit("seed", 0 + i, SeedCatalog[i])
      BY <3>1 DEF HaggleFit
    <3>4. PayFit("seed", 0 + i, SeedCatalog[i]) /\ RowFit("seed", 0 + i, SeedCatalog[i])
      BY <3>1 DEF PayFit, RowFit
    <3>5. FindFit("seed", 0 + i, SeedCatalog[i]) /\ VisitFit("seed", 0 + i, SeedCatalog[i])
      BY <3>1 DEF FindFit, VisitFit
    <3>6. ReviewFit("seed", 0 + i, SeedCatalog[i])
      BY <3>1 DEF ReviewFit
    <3> QED BY <3>2, <3>3, <3>4, <3>5, <3>6 DEF Fits
  <2> QED BY <2>1, <2>2 DEF FitAfter
<1>2. FitAfter("seed", 5, SeedSwitches, 3)
  <2> USE DEF SeedSwitches, Upsert
  <2>1. SeedSwitches = [i \in 1..3 |-> SeedSwitches[i]]
    OBVIOUS
  <2>2. ASSUME NEW i \in 1..3 PROVE Fits("seed", 5 + i, SeedSwitches[i])
    <3>1. \/ i = 1 \/ i = 2 \/ i = 3
      OBVIOUS
    <3>2. MakeFit("seed", 5 + i, SeedSwitches[i]) /\ TouchFit("seed", 5 + i, SeedSwitches[i])
      <4>1. MakeFit("seed", 5 + i, SeedSwitches[i])
        BY <3>1 DEF MakeFit
      <4>2. TouchFit("seed", 5 + i, SeedSwitches[i])
        BY <3>1 DEF TouchFit
      <4> QED BY <4>1, <4>2
    <3>3. HaggleFit("seed", 5 + i, SeedSwitches[i])
      BY <3>1 DEF HaggleFit
    <3>4. PayFit("seed", 5 + i, SeedSwitches[i]) /\ RowFit("seed", 5 + i, SeedSwitches[i])
      BY <3>1 DEF PayFit, RowFit
    <3>5. FindFit("seed", 5 + i, SeedSwitches[i]) /\ VisitFit("seed", 5 + i, SeedSwitches[i])
      BY <3>1 DEF FindFit, VisitFit
    <3>6. ReviewFit("seed", 5 + i, SeedSwitches[i])
      BY <3>1 DEF ReviewFit
    <3> QED BY <3>2, <3>3, <3>4, <3>5, <3>6 DEF Fits
  <2> QED BY <2>1, <2>2 DEF FitAfter
<1>3. FitAfter("seed", 8, SeedMail, 2)
  <2> USE DEF SeedMail, Upsert
  <2>1. SeedMail = [i \in 1..2 |-> SeedMail[i]]
    OBVIOUS
  <2>2. ASSUME NEW i \in 1..2 PROVE Fits("seed", 8 + i, SeedMail[i])
    <3>1. \/ i = 1 \/ i = 2
      OBVIOUS
    <3>2. MakeFit("seed", 8 + i, SeedMail[i]) /\ TouchFit("seed", 8 + i, SeedMail[i])
      <4>1. MakeFit("seed", 8 + i, SeedMail[i])
        BY <3>1 DEF MakeFit
      <4>2. TouchFit("seed", 8 + i, SeedMail[i])
        BY <3>1 DEF TouchFit
      <4> QED BY <4>1, <4>2
    <3>3. HaggleFit("seed", 8 + i, SeedMail[i])
      BY <3>1 DEF HaggleFit
    <3>4. PayFit("seed", 8 + i, SeedMail[i]) /\ RowFit("seed", 8 + i, SeedMail[i])
      BY <3>1 DEF PayFit, RowFit
    <3>5. FindFit("seed", 8 + i, SeedMail[i]) /\ VisitFit("seed", 8 + i, SeedMail[i])
      BY <3>1 DEF FindFit, VisitFit
    <3>6. ReviewFit("seed", 8 + i, SeedMail[i])
      BY <3>1 DEF ReviewFit
    <3> QED BY <3>2, <3>3, <3>4, <3>5, <3>6 DEF Fits
  <2> QED BY <2>1, <2>2 DEF FitAfter
<1> DEFINE J1 == SeedCatalog \o SeedSwitches
<1>4. FitAfter("seed", 0, J1, 8)
  BY <1>1, <1>2, Joined
<1> HIDE DEF J1
<1>5. FitAfter("seed", 0, J1 \o SeedMail, 10)
  BY <1>4, <1>3, Joined
<1> QED BY <1>5 DEF Steps, Scripts, J1

HIDE DEF Deals, MadeBy, MadeAt, ClosedAt, MethodAt, FeeAt, Touching, Haggled, Asker, OtherSide, Sides, Following, FoundBy,
         FindAt, ChatFrom, CompleteAt, Negotiated, Keys, Categories, Switches, On, By, Step

------------------------------------------------------------------------------
(* The step a script is at, and the deal it is about                       *)

\* A list that fits has its length.
LEMMA FitLength ==
  ASSUME NEW s, NEW c, NEW m \in Nat, FitAfter(s, 0, c, m)
  PROVE  Len(c) = m /\ \A i \in 1..m : Fits(s, i, c[i])
<1>1. c = [i \in 1..m |-> c[i]]
  BY DEF FitAfter
<1>2. Len(c) = m
  BY <1>1
<1>3. ASSUME NEW i \in 1..m PROVE Fits(s, i, c[i])
  <2>1. Fits(s, 0 + i, c[i]) /\ 0 + i = i
    BY DEF FitAfter
  <2> QED BY <2>1
<1> QED BY <1>2, <1>3

\* Every statement of every script is in order.
LEMMA AllFit ==
  ASSUME NEW s \in Scripts
  PROVE  Len(Steps[s]) = EndOf(s) /\ \A p \in 1..EndOf(s) : Fits(s, p, Steps[s][p])
<1>1. FitAfter(s, 0, Steps[s], EndOf(s))
  BY DemoFits, NegotiationFits, ChatFits, AppointmentsFits, ReviewsFits, PaymentsFits, SeedFits
  DEF Scripts, EndOf
<1>2. EndOf(s) \in Nat
  BY DEF EndOf
<1> QED BY <1>1, <1>2, FitLength

\* The statement that is next fits where it is.
LEMMA NowFits ==
  ASSUME DemoTypes, run # NoScript
  PROVE  /\ run.script \in Scripts /\ run.pc \in Nat /\ run.pc <= EndOf(run.script)
         /\ run = [script |-> run.script, pc |-> run.pc]
         /\ Len(Steps[run.script]) = EndOf(run.script)
         /\ Fits(run.script, run.pc, Now)
<1>1. PICK s \in Scripts : \E p \in 1..EndOf(s) : run = [script |-> s, pc |-> p]
  BY DEF DemoTypes
<1>2. PICK p \in 1..EndOf(s) : run = [script |-> s, pc |-> p]
  BY <1>1
<1>3. EndOf(s) \in Nat
  BY DEF EndOf
<1>4. run.script = s /\ run.pc = p
  BY <1>2
<1> QED BY <1>2, <1>3, <1>4, AllFit DEF Now

\* A set of numbers that is not empty has a smallest one.
LEMMA SmallestNumber ==
  ASSUME NEW T \in SUBSET Nat, T # {}
  PROVE  \E x \in T : \A y \in T : x <= y
<1>0. PICK R : R = {ss \in Nat \X Nat : ss[1] < ss[2]}
  OBVIOUS
<1>1. \E x \in T : \A y \in T : ~ (<<y, x>> \in R)
  <2>1. IsWellFoundedOn(R, Nat)
    BY <1>0, NatLessThanWellFounded DEF OpToRel
  <2> QED BY <2>1, WFMin
<1>2. \A x, y \in Nat : y < x => <<y, x>> \in R
  BY <1>0
<1>3. PICK x \in T : \A y \in T : ~ (<<y, x>> \in R)
  BY <1>1
<1>4. ASSUME NEW y \in T
      PROVE  x <= y
  <2>1. x \in Nat /\ y \in Nat /\ ~ (y < x)
    BY <1>2, <1>3
  <2> QED BY <2>1
<1> QED BY <1>4

\* The oldest of the deals that match is one of them.
LEMMA TheOldest ==
  ASSUME job \in Seq(DemoJob), NEW d, Matches(d) # {}
  PROVE  Oldest(d) \in Matches(d) /\ \A k \in Matches(d) : Oldest(d) <= k
<1>1. Matches(d) \in SUBSET Nat
  BY DEF Matches
<1>2. \E i \in Matches(d) : \A k \in Matches(d) : i <= k
  BY <1>1, SmallestNumber
<1> QED BY <1>2 DEF Oldest

\* What a script looks for is what it says, but for the two deals in carpentry.
LEMMA WhatIsFound ==
  ASSUME job \in Seq(DemoJob), NEW s, NEW d \in FoundBy(s), NEW i \in Matches(d)
  PROVE  /\ i \in DOMAIN job /\ job[i] \in DemoJob /\ job[i].eng # "NONE"
         /\ s \in {"chat", "appointments"} => d \in Negotiated
         /\ d \in Negotiated => job[i].of = d
         /\ d = "painting" => job[i].of = "sr3"
         /\ d = "carpentry" => job[i].of \in {"sr4", "fee"}
<1>1. i \in DOMAIN job /\ job[i] \in DemoJob /\ About(job[i].of) = d /\ job[i].eng # "NONE"
  BY DEF Matches
<1>2. job[i].of \in Deals
  BY <1>1 DEF DemoJob
<1> QED BY <1>1, <1>2 DEF About, FoundBy, Negotiated, Deals

\* And after the next step.
LEMMA NextOldest ==
  ASSUME job' \in Seq(DemoJob), NEW d, Matches(d)' # {}
  PROVE  Oldest(d)' \in Matches(d)' /\ \A k \in Matches(d)' : Oldest(d)' <= k
<1>1. Matches(d)' \in SUBSET Nat
  BY DEF Matches
<1>2. \E i \in Matches(d)' : \A k \in Matches(d)' : i <= k
  BY <1>1, SmallestNumber
<1> QED BY <1>2 DEF Oldest

\* A statement about a deal of the script is about the one row of that deal.
LEMMA ItIsTheDeal ==
  ASSUME DemoInv, run # NoScript, Now.op \in Touching
  PROVE  It \in DOMAIN job /\ job[It].of = Now.deal
<1>1. /\ Now.deal \in Deals /\ MadeBy(Now.deal) = run.script /\ MadeAt(Now.deal) < run.pc
      /\ job \in Seq(DemoJob)
  BY NowFits DEF DemoInv, Fits, TouchFit, DemoTypes
<1>2. PICK i \in DOMAIN job : job[i].of = Now.deal
  BY <1>1 DEF DemoInv, Before, Made
<1>3. \A k \in DOMAIN job : job[k].of = Now.deal => k = i
  BY <1>2 DEF DemoInv, Before, Together
<1>4. run.script \in Creators
  BY <1>1 DEF MadeBy, Creators
<1>5. It = Newest(Now.deal)
  BY <1>4 DEF It
<1>6. i \in Nat
  BY <1>1
<1>7. Newest(Now.deal) = i
  BY <1>2, <1>3, <1>6 DEF Newest
<1> QED BY <1>2, <1>5, <1>7

\* A statement about a deal of another script is about the oldest that it found.
LEMMA ItIsTheOldest ==
  ASSUME DemoInv, run # NoScript, Now.op \in Following
  PROVE  /\ It = Oldest(Now.deal) /\ It \in Matches(Now.deal)
         /\ \A k \in Matches(Now.deal) : It <= k
         /\ Now.deal \in FoundBy(run.script)
<1>1. /\ Now.deal \in FoundBy(run.script) /\ FindAt(Now.deal) < run.pc
      /\ job \in Seq(DemoJob)
  BY NowFits DEF DemoInv, Fits, FindFit, DemoTypes
<1>2. Matches(Now.deal) # {}
  BY <1>1 DEF DemoInv, Before, Made
<1>3. run.script \notin Creators
  BY <1>1 DEF FoundBy, Creators
<1> QED BY <1>1, <1>2, <1>3, TheOldest DEF It

------------------------------------------------------------------------------
(* From one statement to the next                                          *)

\* What a statement never takes back from a deal.
Grows(j, r) ==
  /\ r.of = j.of
  /\ j.eng # "NONE" => r.eng # "NONE"
  /\ j.marked => r.marked
  /\ HasCancelledVisit(j) => HasCancelledVisit(r)
  /\ \A q \in Sides : j.review[q] # "none" => r.review[q] # "none"
Kept == \A i \in DOMAIN job : i \in DOMAIN job' /\ Grows(job[i], job'[i])

\* So a marker that is there stays.
LEMMA StillSeeded ==
  ASSUME job \in Seq(DemoJob), Kept, users \subseteq users', NEW x \in Scripts, AlreadySeeded(x)
  PROVE  AlreadySeeded(x)'
<1>1. \A i \in DOMAIN job : /\ i \in DOMAIN job' /\ job'[i].of = job[i].of /\ (job[i].marked => job'[i].marked)
                            /\ HasCancelledVisit(job[i]) => HasCancelledVisit(job'[i])
                            /\ job[i].review["CUSTOMER"] # "none" => job'[i].review["CUSTOMER"] # "none"
  BY DEF Kept, Grows, Sides
<1>2. CASE x \in {"demo", "seed"}
  BY <1>2 DEF AlreadySeeded
<1>3. CASE x \in {"negotiation", "payments"}
  BY <1>1, <1>3 DEF AlreadySeeded
<1>4. CASE x = "chat"
  BY <1>1, <1>4 DEF AlreadySeeded
<1>5. CASE x = "appointments"
  BY <1>1, <1>5 DEF AlreadySeeded, HasCancelledVisit
<1>6. CASE x = "reviews"
  BY <1>1, <1>6 DEF AlreadySeeded
<1> QED BY <1>2, <1>3, <1>4, <1>5, <1>6 DEF Scripts

\* A deal whose script is at another thing is as far as it should be.
LEMMA ProgressOn ==
  ASSUME NEW s \in Scripts, NEW p \in Nat, NEW t, Fits(s, p, t), NEW j \in DemoJob, Progress(j, s, p),
         t.op \notin {"quote", "accept", "method", "cash"} \/ j.of # t.deal
  PROVE  Progress(j, s, p + 1)
<1>1. j.of \in Deals /\ Len(j.quote) \in Nat
  BY DEF DemoJob
<1> SUFFICES ASSUME MadeBy(j.of) = s PROVE Progress(j, s, p + 1)
  BY DEF Progress
<1>2. MadeAt(j.of) \in Nat /\ ClosedAt(j.of) \in Nat /\ MethodAt(j.of) \in Nat /\ FeeAt(j.of) \in Nat
  BY DEF MadeAt, ClosedAt, MethodAt, FeeAt
<1>3. CASE s # "payments"
  <2>1. s \in {"demo", "negotiation"}
    BY <1>3 DEF MadeBy
  <2>2. j.of # "sr5" => p # MadeAt(j.of) + 1
    BY <1>1, <2>1 DEF Fits, HaggleFit
  <2>3. j.of = "sr4" => p # 46
    BY <2>1 DEF Fits, HaggleFit, MadeBy
  <2> QED BY <1>1, <1>2, <1>3, <2>2, <2>3 DEF Progress
<1>4. CASE s = "payments"
  <2>1. p # MethodAt(j.of)
    BY <1>1, <1>4 DEF Fits, PayFit
  <2>2. j.of = "paid" => p # 13 /\ p # 15
    BY <1>4 DEF Fits, PayFit
  <2> QED BY <1>1, <1>2, <1>4, <2>1, <2>2 DEF Progress
<1> QED BY <1>3, <1>4

\* A deal that the next statement is not about is, after it, as far as it should be.
LEMMA Elsewhere ==
  ASSUME NEW s \in Scripts, NEW p \in Nat, NEW t, Fits(s, p, t), NEW j \in DemoJob, JobOK(j, s, p),
         users \subseteq users', cut' = cut,
         t.op \notin Touching \cup Following \/ j.of # t.deal
  PROVE  JobOK(j, s, p + 1)'
<1>1. j.of \in Deals /\ j.chat \in Nat /\ Len(j.quote) \in Nat
  BY DEF DemoJob
<1>2. Progress(j, s, p + 1)
  <2>1. Progress(j, s, p)
    BY DEF JobOK
  <2>2. t.op \notin {"quote", "accept", "method", "cash"} \/ j.of # t.deal
    BY DEF Touching
  <2> QED BY <2>1, <2>2, ProgressOn
<1>3. Followed(j, s, p + 1)
  <2>1. ChatFrom(j.of) \in Nat
    BY DEF ChatFrom
  <2>2. s = "appointments" /\ j.of = "sockets" => p # 8
    BY DEF Fits, VisitFit, Following
  <2> QED BY <1>1, <2>1, <2>2 DEF Followed, JobOK
<1> QED BY <1>2, <1>3 DEF JobOK, Followed, Progress

\* The oldest deals stay what they are while nothing is engaged or added.
LEMMA OldestStays ==
  ASSUME job \in Seq(DemoJob), DOMAIN job' = DOMAIN job, NEW d,
         \A k \in DOMAIN job : job'[k].of = job[k].of /\ (job'[k].eng # "NONE" <=> job[k].eng # "NONE")
  PROVE  Matches(d)' = Matches(d) /\ Oldest(d)' = Oldest(d)
<1>1. Matches(d)' = Matches(d)
  BY DEF Matches
<1> QED BY <1>1 DEF Oldest

\* What a script leaves alone in a deal of another one.
LeavesTheRest(j, r) ==
  /\ r.request = j.request /\ r.quote = j.quote /\ r.agreed = j.agreed /\ r.asked = j.asked
  /\ r.method = j.method /\ r.stamps = j.stamps /\ r.attempt = j.attempt /\ r.ledger = j.ledger
  /\ r.eng # j.eng => j.eng = "ACCEPTED" \/ "demo" \in cut
  /\ \A q \in Sides : j.review[q] = "rated" => r.review[q] = "rated"

\* What a statement has to do to the one deal i it is about: r is that deal after it.
RightStep(i, r, s, p) ==
  /\ r \in DemoJob /\ Grows(job[i], r) /\ JobOK(r, s, p + 1)'
  /\ s # "chat" => r.chat = job[i].chat
  /\ s # "appointments" => r.visit = job[i].visit
  /\ Now.op = "chatMarker" => r.marked
  /\ Now.op = "cancelVisit" => HasCancelledVisit(r)
  /\ Now.op = "complete" => r.eng = "COMPLETED"
  /\ Now.op \in {"comment", "commentMarker"} => r.review[Now.by] = "PENDING"
  /\ Now.op \in Following =>
       /\ LeavesTheRest(job[i], r)
       /\ job[i].eng = "COMPLETED" => r.eng = "COMPLETED"
       /\ \A q \in Sides : job[i].review[q] \notin {"none", "rated"} => r.review[q] \notin {"none", "rated"}

\* A statement that does so is behind the script after it.
LEMMA Written ==
  ASSUME DemoInv, run # NoScript, NEW s, NEW p, s = run.script, p = run.pc,
         Now.op \in Touching \cup Following, NEW r, RightStep(It, r, s, p),
         WithJob(r), cut' = cut
  PROVE  job' \in Seq(DemoJob) /\ Kept /\ Before(s, p + 1)'
<1>1. /\ s \in Scripts /\ p \in Nat /\ Fits(s, p, Now) /\ job \in Seq(DemoJob)
      /\ \A k \in DOMAIN job : JobOK(job[k], s, p)
      /\ Together /\ Left(s) /\ Made(s, p) /\ Reviewed(s, p)
  BY NowFits DEF DemoInv, DemoTypes, Before
<1>2. PICK i : i = It
  OBVIOUS
<1>3. /\ i \in DOMAIN job
      /\ Now.op \in Touching => job[i].of = Now.deal
      /\ Now.op \in Following => /\ i = Oldest(Now.deal) /\ i \in Matches(Now.deal)
                                 /\ Now.deal \in FoundBy(s)
  BY <1>2, ItIsTheDeal, ItIsTheOldest DEF Matches
<1>4. /\ job' = [job EXCEPT ![i] = r] /\ UNCHANGED <<users, profiles>>
      /\ RightStep(i, r, s, p)
  BY <1>2 DEF WithJob
<1>5. /\ job' \in Seq(DemoJob) /\ DOMAIN job' = DOMAIN job /\ job'[i] = r
      /\ \A k \in DOMAIN job : k # i => job'[k] = job[k]
  BY <1>1, <1>3, <1>4 DEF RightStep
<1>6. Kept
  BY <1>4, <1>5 DEF Kept, RightStep, Grows
<1>7. \A k \in DOMAIN job : /\ job'[k].of = job[k].of /\ (job[k].eng # "NONE" => job'[k].eng # "NONE")
                            /\ (job[k].marked => job'[k].marked)
                            /\ (HasCancelledVisit(job[k]) => HasCancelledVisit(job'[k]))
  BY <1>5, <1>6 DEF Kept, Grows
<1>8. ASSUME NEW k \in DOMAIN job, k # i PROVE job[k].of # Now.deal /\ job[k] \in DemoJob
  <2>0. job[k].of # job[i].of
    BY <1>1, <1>3, <1>8 DEF Together
  <2>1. job[k] \in DemoJob
    BY <1>1
  <2>2. job[k].of \in Deals
    BY <2>1 DEF DemoJob
  <2>3. CASE Now.op \in Touching
    BY <1>3, <2>0, <2>1, <2>3
  <2>4. CASE Now.op \in Following
    <3>1. Now.deal \in Negotiated => job[i].of = Now.deal
      BY <1>1, <1>3, <2>4, WhatIsFound
    <3>2. Now.deal \in Negotiated \cup {"painting", "carpentry"}
      BY <1>3, <2>4 DEF FoundBy
    <3> QED BY <2>0, <2>1, <2>2, <3>1, <3>2 DEF Deals, Negotiated
  <2> QED BY <2>3, <2>4
<1>9. (\A k \in DOMAIN job : JobOK(job[k], s, p + 1))'
  <2> SUFFICES ASSUME NEW k \in DOMAIN job' PROVE JobOK(job[k], s, p + 1)'
    OBVIOUS
  <2>1. PICK j : j = job'[k]
    OBVIOUS
  <2>2. JobOK(j, s, p + 1)'
    <3>1. CASE k = i
      BY <1>4, <1>5, <2>1, <3>1 DEF RightStep
    <3>2. CASE k # i
      <4>1. j = job[k] /\ j \in DemoJob /\ j.of # Now.deal /\ JobOK(j, s, p)
        BY <1>1, <1>5, <1>8, <2>1, <3>2
      <4> QED BY <1>1, <1>4, <4>1, Elsewhere
    <3> QED BY <3>1, <3>2
  <2> QED BY <2>1, <2>2 DEF JobOK, QuoteRules, PriceRules, WorkRules, Progress, Followed, PendingOn, HasCancelledVisit
<1>10. Together'
  <2>1. DOMAIN job' = DOMAIN job
    BY <1>5
  <2>2. \A k \in DOMAIN job : job'[k].of = job[k].of
    BY <1>7
  <2>3. \A k \in DOMAIN job : EngagedCarpentry(k) => EngagedCarpentry(k)'
    BY <1>7 DEF EngagedCarpentry
  <2>4. (\A k, l \in DOMAIN job : job[k].of = job[l].of => k = l)'
    BY <1>1, <2>1, <2>2 DEF Together
  <2>5. (\A k \in DOMAIN job : job[k].of \in {"garden", "sockets"} => \E l \in DOMAIN job : job[l].of = "patio")'
    BY <1>1, <2>1, <2>2 DEF Together
  <2>6. ASSUME "demo" \notin cut, NEW k \in DOMAIN job', job'[k].of = "fee"
        PROVE  \E l \in DOMAIN job' : l < k /\ EngagedCarpentry(l)'
    <3>1. k \in DOMAIN job /\ job[k].of = "fee"
      BY <2>1, <2>2, <2>6
    <3>2. PICK l \in DOMAIN job : l < k /\ EngagedCarpentry(l)
      BY <1>1, <2>6, <3>1 DEF Together
    <3> QED BY <2>1, <2>3, <3>2
  <2> QED BY <2>4, <2>5, <2>6 DEF Together
<1>11. Left(s)'
  <2>1. \A k \in DOMAIN job : /\ s # "chat" => job'[k].chat = job[k].chat
                              /\ s # "appointments" => job'[k].visit = job[k].visit
    BY <1>4, <1>5 DEF RightStep
  <2> QED BY <1>1, <1>4, <1>5, <1>7, <2>1 DEF Left, EngagedCarpentry
<1>12. Made(s, p + 1)'
  <2>1. Now.op \notin {"ask", "engage", "find", "user", "look"}
    BY DEF Touching, Following
  <2>2. ASSUME NEW d \in Deals, MadeBy(d) = s, MadeAt(d) < p + 1
        PROVE  \E k \in DOMAIN job' : job'[k].of = d
    <3>1. p # MadeAt(d)
      BY <1>1, <2>1, <2>2 DEF Fits, MakeFit
    <3>2. MadeAt(d) < p
      BY <1>1, <2>2, <3>1 DEF MadeAt
    <3>3. \E k \in DOMAIN job : job[k].of = d
      BY <1>1, <2>2, <3>2 DEF Made
    <3> QED BY <1>5, <1>7, <3>3
  <2>3. ASSUME NEW d \in FoundBy(s), FindAt(d) < p + 1
        PROVE  Matches(d)' # {}
    <3>1. p # FindAt(d)
      BY <1>1, <2>1 DEF Fits, FindFit
    <3>2. FindAt(d) < p
      BY <1>1, <2>3, <3>1 DEF FindAt
    <3>3. Matches(d) # {}
      BY <1>1, <3>2 DEF Made
    <3> QED BY <1>5, <1>7, <3>3 DEF Matches
  <2>4. s = "demo" => p # 2
    BY <1>1, <2>1 DEF Fits, RowFit
  <2>5. s = "payments" => p # 1
    BY <1>1, <2>1 DEF Fits, PayFit
  <2>6. s = "chat" /\ 8 < p + 1 => \E k \in DOMAIN job' : job'[k].marked
    <3>1. s = "chat" /\ p = 8 => Now.op = "chatMarker"
      BY <1>1 DEF Fits, FindFit
    <3>2. s = "chat" /\ 8 < p => \E k \in DOMAIN job : job[k].marked
      BY <1>1 DEF Made
    <3>3. Now.op = "chatMarker" => job'[i].marked
      BY <1>4, <1>5 DEF RightStep
    <3> QED BY <1>1, <1>3, <1>5, <1>7, <3>1, <3>2, <3>3
  <2>7. s = "appointments" /\ 9 < p + 1 => \E k \in DOMAIN job' : HasCancelledVisit(job'[k])
    <3>1. s = "appointments" /\ p = 9 => Now.op = "cancelVisit"
      BY <1>1 DEF Fits, VisitFit
    <3>2. s = "appointments" /\ 9 < p => \E k \in DOMAIN job : HasCancelledVisit(job[k])
      BY <1>1 DEF Made
    <3>3. Now.op = "cancelVisit" => HasCancelledVisit(job'[i])
      BY <1>4, <1>5 DEF RightStep
    <3> QED BY <1>1, <1>3, <1>5, <1>7, <3>1, <3>2, <3>3
  <2>8. /\ s = "demo" /\ 2 < p + 1 => "maria" \in users'
        /\ s = "payments" /\ 1 < p + 1 => profiles' # {}
    BY <1>1, <1>4, <2>4, <2>5 DEF Made
  <2>9. HasCancelledVisit(job[i])' <=> HasCancelledVisit(job'[i])
    BY DEF HasCancelledVisit
  <2> QED BY <2>2, <2>3, <2>6, <2>7, <2>8 DEF Made
<1>13. Reviewed(s, p + 1)'
  <2> SUFFICES ASSUME s = "reviews" PROVE Reviewed(s, p + 1)'
    BY DEF Reviewed
  <2>1. Now.op \in Following
    BY <1>1 DEF Fits, TouchFit, MadeBy
  <2>2. \A k \in DOMAIN job : job'[k].eng # "NONE" <=> job[k].eng # "NONE"
    BY <1>3, <1>5, <1>7, <2>1 DEF Matches
  <2>3. \A d : Matches(d)' = Matches(d) /\ Oldest(d)' = Oldest(d)
    BY <1>1, <1>5, <1>7, <2>2, OldestStays
  <2>4. \A d \in FoundBy(s) : FindAt(d) < p => Oldest(d) \in DOMAIN job
    BY <1>1, TheOldest DEF Made, Matches
  <2>5. \A k \in DOMAIN job : job[k].eng = "COMPLETED" => job'[k].eng = "COMPLETED"
    BY <1>4, <1>5, <2>1 DEF RightStep
  <2>6. \A k \in DOMAIN job : \A q \in Sides :
          job[k].review[q] \notin {"none", "rated"} => job'[k].review[q] \notin {"none", "rated"}
    BY <1>4, <1>5, <2>1 DEF RightStep
  <2>7. ASSUME NEW d \in FoundBy(s), CompleteAt(d) < p + 1
        PROVE  job'[Oldest(d)].eng = "COMPLETED"
    <3>1. CASE p = CompleteAt(d)
      <4>1. Now.op = "complete" /\ Now.deal = d
        BY <1>1, <3>1 DEF Fits, ReviewFit
      <4> QED BY <1>3, <1>4, <1>5, <2>1, <4>1 DEF RightStep
    <3>2. CASE p # CompleteAt(d)
      <4>1. CompleteAt(d) < p /\ FindAt(d) < p
        BY <1>1, <2>7, <3>2 DEF CompleteAt, FindAt
      <4>2. job[Oldest(d)].eng = "COMPLETED"
        BY <1>1, <4>1 DEF Reviewed
      <4> QED BY <2>4, <2>5, <4>1, <4>2
    <3> QED BY <3>1, <3>2
  <2>8. "sockets" \in FoundBy(s) /\ "painting" \in FoundBy(s)
    BY DEF FoundBy, Negotiated
  <2>9. 13 < p + 1 => job'[Oldest("sockets")].review["CUSTOMER"] \notin {"none", "rated"}
    <3>1. p = 13 => Now.op = "commentMarker" /\ Now.deal = "sockets" /\ Now.by = "CUSTOMER"
      BY <1>1 DEF Fits, ReviewFit
    <3>2. p = 13 => job'[Oldest("sockets")].review["CUSTOMER"] = "PENDING"
      BY <1>3, <1>4, <1>5, <2>1, <3>1 DEF RightStep
    <3>3. 13 < p => Oldest("sockets") \in DOMAIN job
      BY <1>1, <2>4, <2>8 DEF FindAt
    <3>4. 13 < p => job'[Oldest("sockets")].review["CUSTOMER"] \notin {"none", "rated"}
      BY <1>1, <2>6, <3>3 DEF Reviewed, Sides
    <3> QED BY <1>1, <3>2, <3>4
  <2>10. 17 < p + 1 => job'[Oldest("painting")].review["PROFESSIONAL"] \notin {"none", "rated"}
    <3>1. p = 17 => Now.op = "comment" /\ Now.deal = "painting" /\ Now.by = "PROFESSIONAL"
      BY <1>1 DEF Fits, ReviewFit
    <3>2. p = 17 => job'[Oldest("painting")].review["PROFESSIONAL"] = "PENDING"
      BY <1>3, <1>4, <1>5, <2>1, <3>1 DEF RightStep
    <3>3. 17 < p => Oldest("painting") \in DOMAIN job
      BY <1>1, <2>4, <2>8 DEF FindAt
    <3>4. 17 < p => job'[Oldest("painting")].review["PROFESSIONAL"] \notin {"none", "rated"}
      BY <1>1, <2>6, <3>3 DEF Reviewed, Sides
    <3> QED BY <1>1, <3>2, <3>4
  <2> QED BY <2>3, <2>7, <2>9, <2>10 DEF Reviewed
<1> QED BY <1>5, <1>6, <1>9, <1>10, <1>11, <1>12, <1>13 DEF Before

\* A statement that leaves the deals alone.
LEMMA NothingWritten ==
  ASSUME DemoInv, run # NoScript, NEW s, NEW p, s = run.script, p = run.pc,
         Now.op \notin Touching \cup Following \cup {"ask", "engage"},
         job' = job, cut' = cut, users \subseteq users', profiles \subseteq profiles',
         s # "demo" => profiles' = profiles,
         Now.op = "user" => Now.deal \in users',
         Now.op = "look" => profiles # {},
         Now.op = "find" => Matches(Now.deal) # {}
  PROVE  job' \in Seq(DemoJob) /\ Kept /\ Before(s, p + 1)'
<1>1. /\ s \in Scripts /\ p \in Nat /\ Fits(s, p, Now) /\ job \in Seq(DemoJob)
      /\ \A k \in DOMAIN job : JobOK(job[k], s, p)
      /\ Together /\ Left(s) /\ Made(s, p) /\ Reviewed(s, p)
  BY NowFits DEF DemoInv, DemoTypes, Before
<1>2. job' \in Seq(DemoJob) /\ Kept
  BY <1>1 DEF Kept, Grows
<1>3. (\A k \in DOMAIN job : JobOK(job[k], s, p + 1))'
  <2> SUFFICES ASSUME NEW k \in DOMAIN job' PROVE JobOK(job[k], s, p + 1)'
    OBVIOUS
  <2>1. PICK j : j = job[k]
    OBVIOUS
  <2>2. j \in DemoJob /\ JobOK(j, s, p)
    BY <1>1, <2>1
  <2>3. JobOK(j, s, p + 1)'
    BY <1>1, <2>2, Elsewhere
  <2> QED BY <2>1, <2>3 DEF JobOK, QuoteRules, PriceRules, WorkRules, Progress, Followed, PendingOn, HasCancelledVisit
<1>4. Together' /\ Left(s)'
  BY <1>1 DEF Together, Left, EngagedCarpentry
<1>5. Made(s, p + 1)'
  <2>1. Now.op \notin {"ask", "engage", "quote", "chatMarker", "cancelVisit"}
    BY DEF Touching, Following
  <2>2. ASSUME NEW d \in Deals, MadeBy(d) = s, MadeAt(d) < p + 1
        PROVE  \E k \in DOMAIN job : job[k].of = d
    <3>1. p # MadeAt(d)
      BY <1>1, <2>1, <2>2 DEF Fits, MakeFit
    <3>2. MadeAt(d) < p
      BY <1>1, <2>2, <3>1 DEF MadeAt
    <3> QED BY <1>1, <2>2, <3>2 DEF Made
  <2>3. ASSUME NEW d \in FoundBy(s), FindAt(d) < p + 1
        PROVE  Matches(d) # {}
    <3>1. p = FindAt(d) => Now.op = "find" /\ Now.deal = d
      BY <1>1 DEF Fits, FindFit
    <3>2. p # FindAt(d) => FindAt(d) < p
      BY <1>1, <2>3 DEF FindAt
    <3> QED BY <1>1, <3>1, <3>2 DEF Made
  <2>4. \A d : Matches(d)' = Matches(d)
    BY DEF Matches
  <2>5. s = "demo" /\ p = 2 => "maria" \in users'
    BY <1>1 DEF Fits, RowFit
  <2>6. s = "payments" /\ p = 1 => profiles # {}
    BY <1>1 DEF Fits, PayFit
  <2>7. (s = "chat" => p # 8) /\ (s = "appointments" => p # 9)
    BY <1>1, <2>1 DEF Fits, FindFit, VisitFit
  <2> QED BY <1>1, <2>2, <2>3, <2>4, <2>5, <2>6, <2>7 DEF Made
<1>6. Reviewed(s, p + 1)'
  <2> SUFFICES ASSUME s = "reviews" PROVE Reviewed(s, p + 1)'
    BY DEF Reviewed
  <2>1. Now.op \notin {"complete", "comment", "commentMarker"}
    BY DEF Following
  <2>2. \A d \in FoundBy(s) : p # CompleteAt(d)
    BY <1>1, <2>1 DEF Fits, ReviewFit
  <2>3. p # 13 /\ p # 17
    BY <1>1, <2>1 DEF Fits, ReviewFit
  <2>4. \A d : Oldest(d)' = Oldest(d)
    BY DEF Oldest, Matches
  <2>5. \A d : CompleteAt(d) \in Nat
    BY DEF CompleteAt
  <2> QED BY <1>1, <2>2, <2>3, <2>4, <2>5 DEF Reviewed
<1> QED BY <1>2, <1>3, <1>4, <1>5, <1>6 DEF Before

\* A statement that adds the deal it makes.
LEMMA DealAdded ==
  ASSUME DemoInv, run # NoScript, NEW s, NEW p, s = run.script, p = run.pc,
         Now.op \in {"ask", "engage"}, NEW r \in DemoJob, r.of = Now.deal, r.visit = <<>>, r.chat = 0,
         r.marked = FALSE, JobOK(r, s, p + 1)',
         job' = Append(job, r), UNCHANGED <<users, profiles, cut>>
  PROVE  job' \in Seq(DemoJob) /\ Kept /\ Before(s, p + 1)'
<1>1. /\ s \in Scripts /\ p \in Nat /\ Fits(s, p, Now) /\ job \in Seq(DemoJob)
      /\ \A k \in DOMAIN job : JobOK(job[k], s, p)
      /\ Together /\ Left(s) /\ Made(s, p) /\ Reviewed(s, p)
  BY NowFits DEF DemoInv, DemoTypes, Before
<1>2. PICK n \in Nat : n = Len(job) + 1
  BY <1>1
<1>3. /\ job' \in Seq(DemoJob) /\ DOMAIN job' = DOMAIN job \cup {n} /\ n \notin DOMAIN job
      /\ job'[n] = r
      /\ \A k \in DOMAIN job : job'[k] = job[k] /\ k < n /\ k \in Nat
  BY <1>1, <1>2, AppendProperties
<1>4. Kept
  BY <1>3 DEF Kept, Grows
<1>5. /\ Now.deal \in Deals /\ MadeBy(Now.deal) = s /\ p = MadeAt(Now.deal)
      /\ Now.op = "engage" <=> s = "payments"
  BY <1>1 DEF Fits, MakeFit
<1>6. ASSUME NEW k \in DOMAIN job PROVE job[k] \in DemoJob /\ job[k].of # Now.deal
  <2>1. job[k] \in DemoJob
    BY <1>1
  <2>2. Progress(job[k], s, p)
    BY <1>1 DEF JobOK
  <2>3. MadeAt(Now.deal) \in Nat
    BY DEF MadeAt
  <2> QED BY <1>1, <1>5, <2>1, <2>2, <2>3 DEF Progress
<1>7. (\A k \in DOMAIN job : JobOK(job[k], s, p + 1))'
  <2> SUFFICES ASSUME NEW k \in DOMAIN job' PROVE JobOK(job[k], s, p + 1)'
    OBVIOUS
  <2>1. PICK j : j = job'[k]
    OBVIOUS
  <2>2. JobOK(j, s, p + 1)'
    <3>1. CASE k = n
      BY <1>3, <2>1, <3>1
    <3>2. CASE k # n
      <4>1. j = job[k] /\ j \in DemoJob /\ JobOK(j, s, p) /\ j.of # Now.deal
        BY <1>1, <1>3, <1>6, <2>1, <3>2
      <4> QED BY <1>1, <4>1, Elsewhere
    <3> QED BY <3>1, <3>2
  <2> QED BY <2>1, <2>2 DEF JobOK, QuoteRules, PriceRules, WorkRules, Progress, Followed, PendingOn, HasCancelledVisit
<1>8. Together'
  <2>1. (\A i, k \in DOMAIN job : job[i].of = job[k].of => i = k)'
    BY <1>1, <1>3, <1>6 DEF Together
  <2>2. r.of \in {"garden", "sockets"} => \E k \in DOMAIN job : job[k].of = "patio"
    <3>1. r.of \in {"garden", "sockets"} => MadeBy("patio") = s /\ MadeAt("patio") < p
      BY <1>5 DEF MadeBy, MadeAt
    <3>2. "patio" \in Deals
      BY DEF Deals
    <3> QED BY <1>1, <3>1, <3>2 DEF Made
  <2>3. r.of = "fee" /\ "demo" \notin cut => \E k \in DOMAIN job : EngagedCarpentry(k)
    <3>1. r.of = "fee" => s = "payments" /\ 1 < p
      BY <1>5 DEF MadeBy, MadeAt
    <3>2. r.of = "fee" => profiles # {}
      BY <1>1, <3>1 DEF Made
    <3> QED BY <1>1, <3>1, <3>2 DEF Left
  <2>4. (\A i \in DOMAIN job : job[i].of \in {"garden", "sockets"} => \E k \in DOMAIN job : job[k].of = "patio")'
    BY <1>1, <1>3, <2>2 DEF Together
  <2>5. ("demo" \notin cut => \A i \in DOMAIN job :
          job[i].of = "fee" => \E k \in DOMAIN job : k < i /\ EngagedCarpentry(k))'
    <3> SUFFICES ASSUME "demo" \notin cut, NEW i \in DOMAIN job', job'[i].of = "fee"
                 PROVE  \E k \in DOMAIN job' : k < i /\ EngagedCarpentry(k)'
      OBVIOUS
    <3>1. CASE i = n
      BY <1>3, <2>3, <3>1 DEF EngagedCarpentry
    <3>2. CASE i # n
      BY <1>1, <1>3, <3>2 DEF Together, EngagedCarpentry
    <3> QED BY <3>1, <3>2
  <2> QED BY <2>1, <2>4, <2>5 DEF Together
<1>9. Left(s)'
  <2>1. (\A k \in DOMAIN job : ~ job[k].marked)' => \A k \in DOMAIN job : ~ job[k].marked
    BY <1>3
  <2>2. (\A k \in DOMAIN job : ~ HasCancelledVisit(job[k]))' => \A k \in DOMAIN job : ~ HasCancelledVisit(job[k])
    BY <1>3 DEF HasCancelledVisit
  <2>3. (\A k \in DOMAIN job : job[k].chat = 0) => (\A k \in DOMAIN job : job[k].chat = 0)'
    BY <1>3
  <2>4. (\A k \in DOMAIN job : job[k].visit = <<>>) => (\A k \in DOMAIN job : job[k].visit = <<>>)'
    BY <1>3
  <2>5. (\E k \in DOMAIN job : EngagedCarpentry(k)) => (\E k \in DOMAIN job : EngagedCarpentry(k))'
    BY <1>3 DEF EngagedCarpentry
  <2> QED BY <1>1, <2>1, <2>2, <2>3, <2>4, <2>5 DEF Left
<1>10. Made(s, p + 1)'
  <2>1. ASSUME NEW d \in Deals, MadeBy(d) = s, MadeAt(d) < p + 1
        PROVE  \E k \in DOMAIN job' : job'[k].of = d
    <3>1. CASE p = MadeAt(d)
      <4>1. Now.deal = d
        BY <1>1, <2>1, <3>1 DEF Fits, MakeFit
      <4> QED BY <1>3, <4>1
    <3>2. CASE p # MadeAt(d)
      <4>1. MadeAt(d) \in Int /\ p \in Int
        BY <1>1 DEF MadeAt
      <4>2. MadeAt(d) < p
        BY <2>1, <3>2, <4>1
      <4>3. \E k \in DOMAIN job : job[k].of = d
        BY <1>1, <2>1, <4>2 DEF Made
      <4> QED BY <1>3, <4>3
    <3> QED BY <3>1, <3>2
  <2>2. FoundBy(s) = {} /\ s \notin {"chat", "appointments"}
    BY <1>5 DEF FoundBy, MadeBy
  <2>3. (s = "demo" => p # 2) /\ (s = "payments" => p # 1)
    BY <1>1 DEF Fits, RowFit, PayFit
  <2> QED BY <1>1, <2>1, <2>2, <2>3 DEF Made
<1>11. Reviewed(s, p + 1)'
  BY <1>5 DEF Reviewed, MadeBy
<1> QED BY <1>3, <1>4, <1>7, <1>8, <1>9, <1>10, <1>11 DEF Before

------------------------------------------------------------------------------
(* The ends of a script                                                    *)

\* A script that comes to its end leaves its marker, and what holds when none runs.
LEMMA ComesToItsEnd ==
  ASSUME job' \in Seq(DemoJob), NEW s \in Scripts, Before(s, EndOf(s) + 1)'
  PROVE  Before("none", 0)' /\ (s # "seed" => AlreadySeeded(s)')
<1>0. EndOf(s) = 10 \/ EndOf(s) = 62 \/ EndOf(s) = 26 \/ EndOf(s) = 16 \/ EndOf(s) = 21 \/ EndOf(s) = 29
  BY DEF EndOf
<1>1. /\ (\A i \in DOMAIN job : JobOK(job[i], s, EndOf(s) + 1))'
      /\ Together' /\ Left(s)' /\ Made(s, EndOf(s) + 1)' /\ Reviewed(s, EndOf(s) + 1)'
  BY DEF Before
<1>2. s # "seed" => AlreadySeeded(s)'
  <2>1. CASE s = "demo"
    <3>1. "maria" \in users'
      BY <1>1, <2>1 DEF Made, EndOf
    <3> QED BY <2>1, <3>1 DEF AlreadySeeded
  <2>2. CASE s = "negotiation"
    <3>1. \E i \in DOMAIN job' : job'[i].of = "patio"
      BY <1>1, <2>2 DEF Made, EndOf, Deals, MadeBy, MadeAt
    <3> QED BY <2>2, <3>1 DEF AlreadySeeded
  <2>3. CASE s = "chat"
    <3>1. \E i \in DOMAIN job' : job'[i].marked
      BY <1>1, <2>3 DEF Made, EndOf
    <3> QED BY <2>3, <3>1 DEF AlreadySeeded
  <2>4. CASE s = "appointments"
    <3>1. (\E i \in DOMAIN job : HasCancelledVisit(job[i]))'
      BY <1>1, <2>4 DEF Made, EndOf
    <3> QED BY <2>4, <3>1 DEF AlreadySeeded, HasCancelledVisit
  <2>5. CASE s = "reviews"
    <3>1. Matches("sockets")' # {}
      BY <1>1, <2>5 DEF Made, EndOf, FoundBy, FindAt, Negotiated
    <3>2. Oldest("sockets")' \in Matches("sockets")'
      BY <3>1, NextOldest
    <3>3. Oldest("sockets")' \in DOMAIN job' /\ job'[Oldest("sockets")'].of = "sockets"
      <4>1. Oldest("sockets")' \in DOMAIN job' /\ About(job'[Oldest("sockets")'].of) = "sockets"
        BY <3>2 DEF Matches
      <4> QED BY <4>1 DEF About
    <3>4. job'[Oldest("sockets")'].review["CUSTOMER"] # "none"
      BY <1>1, <2>5 DEF Reviewed, EndOf
    <3> QED BY <2>5, <3>3, <3>4 DEF AlreadySeeded
  <2>6. CASE s = "payments"
    <3>1. \E i \in DOMAIN job' : job'[i].of = "paid"
      BY <1>1, <2>6 DEF Made, EndOf, Deals, MadeBy, MadeAt
    <3>2. MadeBy("paid") = "payments"
      BY DEF MadeBy
    <3> QED BY <2>6, <3>1, <3>2 DEF AlreadySeeded
  <2> QED BY <2>1, <2>2, <2>3, <2>4, <2>5, <2>6 DEF Scripts
<1>3. (\A i \in DOMAIN job : JobOK(job[i], "none", 0))'
  BY <1>1 DEF JobOK, Progress, Followed, MadeBy
<1>4. Left("none")'
  <2>1. s = "demo" => (\E k \in DOMAIN job : EngagedCarpentry(k))'
    <3> SUFFICES ASSUME s = "demo" PROVE (\E k \in DOMAIN job : EngagedCarpentry(k))'
      OBVIOUS
    <3>1. PICK k \in DOMAIN job' : job'[k].of = "sr4"
      BY <1>1 DEF Made, EndOf, Deals, MadeBy, MadeAt
    <3>2. JobOK(job[k], s, EndOf(s) + 1)'
      BY <1>1
    <3>3. job'[k].eng # "NONE"
      BY <3>1, <3>2 DEF JobOK, Progress, EndOf, MadeBy
    <3> QED BY <3>1, <3>3 DEF EngagedCarpentry
  <2>2. s = "chat" => ~ (\A i \in DOMAIN job : ~ job[i].marked)'
    BY <1>1 DEF Made, EndOf
  <2>3. s = "appointments" => ~ (\A i \in DOMAIN job : ~ HasCancelledVisit(job[i]))'
    BY <1>1 DEF Made, EndOf
  <2> QED BY <1>1, <2>1, <2>2, <2>3 DEF Left
<1>5. Made("none", 0)' /\ Reviewed("none", 0)'
  BY DEF Made, Reviewed, MadeBy, FoundBy
<1> QED BY <1>1, <1>2, <1>3, <1>4, <1>5 DEF Before

\* After a statement the script is at the next one, or at its end.
LEMMA Advanced ==
  ASSUME DemoInv, run # NoScript, NEW s, NEW p, s = run.script, p = run.pc, Advance,
         job' \in Seq(DemoJob), Kept, Before(s, p + 1)',
         users \subseteq users', row' = [k \in Keys |-> row'[k]]
  PROVE  DemoInv'
<1>1. /\ s \in Scripts /\ p \in Nat /\ p <= EndOf(s) /\ run = [script |-> s, pc |-> p]
      /\ Len(Steps[s]) = EndOf(s) /\ job \in Seq(DemoJob) /\ EndsOnce
      /\ done \in [Scripts -> Nat] /\ runs' = runs /\ runs \in [Scripts -> Nat]
  BY NowFits DEF DemoInv, DemoTypes, Advance
<1>2. EndOf(s) \in Nat
  BY DEF EndOf
<1>3. \A x \in Scripts : AlreadySeeded(x) => AlreadySeeded(x)'
  BY <1>1, StillSeeded
<1>4. s # "none"
  BY <1>1 DEF Scripts
<1>5. CASE p = EndOf(s)
  <2>1. run' = NoScript /\ done' = [done EXCEPT ![s] = @ + 1]
    BY <1>1, <1>5 DEF Advance
  <2>2. Before("none", 0)' /\ (s # "seed" => AlreadySeeded(s)')
    BY <1>1, <1>5, ComesToItsEnd
  <2>3. s # "seed" => done[s] = 0
    BY <1>1 DEF EndsOnce
  <2>4. DemoTypes'
    BY <1>1, <2>1 DEF DemoTypes
  <2>5. EndsOnce'
    <3>1. ASSUME NEW x \in Scripts \ {"seed"}
          PROVE  done'[x] <= 1 /\ (done'[x] = 1 => AlreadySeeded(x)')
      <4>1. CASE x = s
        BY <1>1, <2>1, <2>2, <2>3, <4>1
      <4>2. CASE x # s
        BY <1>1, <1>3, <2>1, <4>2 DEF EndsOnce
      <4> QED BY <4>1, <4>2
    <3> QED BY <2>1, <3>1 DEF EndsOnce
  <2>6. Before(run.script, run.pc)'
    BY <2>1, <2>2 DEF NoScript, Before, JobOK, Progress, Followed, Left, Made, Reviewed
  <2> QED BY <2>4, <2>5, <2>6 DEF DemoInv
<1>6. CASE p # EndOf(s)
  <2>1. run' = [script |-> s, pc |-> p + 1] /\ done' = done
    BY <1>1, <1>6 DEF Advance
  <2>2. p + 1 \in 1..EndOf(s)
    BY <1>1, <1>2, <1>6
  <2>3. DemoTypes'
    BY <1>1, <2>1, <2>2 DEF DemoTypes
  <2>4. EndsOnce'
    BY <1>1, <1>3, <2>1 DEF EndsOnce
  <2>5. run'.script = s /\ run'.pc = p + 1
    BY <2>1
  <2>6. Before(run.script, run.pc)'
    BY <2>5 DEF Before, JobOK, Progress, Followed, Left, Made, Reviewed
  <2> QED BY <2>3, <2>4, <2>6 DEF DemoInv
<1> QED BY <1>5, <1>6

\* What no deal, person or script notices.
LEMMA DealsUntouched ==
  ASSUME DemoInv, UNCHANGED <<users, profiles, job, run, runs, done, cut>>, row' = [k \in Keys |-> row'[k]]
  PROVE  DemoInv'
<1>1. DemoTypes'
  BY DEF DemoInv, DemoTypes
<1>2. EndsOnce'
  <2>1. \A x \in Scripts : AlreadySeeded(x)' <=> AlreadySeeded(x)
    BY DEF AlreadySeeded
  <2> QED BY <2>1 DEF DemoInv, EndsOnce
<1>3. Before(run.script, run.pc)'
  <2>1. (\A i \in DOMAIN job : JobOK(job[i], run.script, run.pc))'
    BY DEF DemoInv, Before, JobOK, Progress, Followed
  <2>2. Together' /\ Left(run.script)'
    BY DEF DemoInv, Before, Together, Left, EngagedCarpentry
  <2>3. \A d : Matches(d)' = Matches(d) /\ Oldest(d)' = Oldest(d)
    BY DEF Matches, Oldest
  <2>4. Made(run.script, run.pc)'
    BY <2>3 DEF DemoInv, Before, Made
  <2>5. Reviewed(run.script, run.pc)'
    BY <2>3 DEF DemoInv, Before, Reviewed
  <2> QED BY <2>1, <2>2, <2>4, <2>5 DEF Before
<1> QED BY <1>1, <1>2, <1>3 DEF DemoInv

\* A script starts where nothing of its own is found.
LEMMA Begins ==
  ASSUME DemoInv, NEW s \in Scripts, DemoBegin(s)
  PROVE  DemoInv'
<1>1. /\ run = NoScript /\ ~ AlreadySeeded(s) /\ run' = [script |-> s, pc |-> 1]
      /\ runs' = [runs EXCEPT ![s] = @ + 1] /\ UNCHANGED <<dbVars, done, cut, mishaps>>
  BY DEF DemoBegin
<1>2. UNCHANGED <<row, users, profiles, job>>
  BY <1>1 DEF dbVars
<1>3. /\ DemoTypes /\ EndsOnce /\ job \in Seq(DemoJob) /\ Together /\ Left("none")
      /\ \A i \in DOMAIN job : JobOK(job[i], "none", 0)
  BY <1>1 DEF DemoInv, DemoTypes, Before, NoScript
<1>4. ASSUME NEW i \in DOMAIN job PROVE MadeBy(job[i].of) # s
  <2>1. job[i] \in DemoJob
    BY <1>3
  <2>2. job[i].of \in Deals
    BY <2>1 DEF DemoJob
  <2>3. CASE s = "demo"
    BY <1>1, <1>3, <2>3 DEF AlreadySeeded, JobOK
  <2>4. CASE s = "payments"
    BY <1>1, <2>4 DEF AlreadySeeded
  <2>5. CASE s = "negotiation"
    <3>1. \A k \in DOMAIN job : job[k].of # "patio"
      BY <1>1, <2>5 DEF AlreadySeeded
    <3> QED BY <1>3, <2>5, <3>1 DEF Together, MadeBy
  <2>6. CASE s \notin {"demo", "payments", "negotiation"}
    BY <2>6 DEF MadeBy
  <2> QED BY <2>3, <2>4, <2>5, <2>6
<1>5. ASSUME NEW i \in DOMAIN job PROVE JobOK(job[i], s, 1)
  <2>1. Progress(job[i], s, 1)
    BY <1>4 DEF Progress
  <2>2. s = "chat" /\ "chat" \notin cut => job[i].chat = 0
    BY <1>1, <1>3 DEF AlreadySeeded, Left
  <2>3. s = "appointments" => ~ HasCancelledVisit(job[i])
    BY <1>1 DEF AlreadySeeded, HasCancelledVisit
  <2>4. s = "appointments" /\ "appointments" \notin cut => job[i].visit = <<>>
    BY <1>1, <1>3 DEF AlreadySeeded, Left, HasCancelledVisit
  <2>5. Followed(job[i], s, 1)
    BY <2>2, <2>3, <2>4 DEF Followed
  <2> QED BY <1>3, <2>1, <2>5 DEF JobOK
<1>6. /\ \A d : MadeAt(d) \in Nat /\ ~ (MadeAt(d) < 1)
      /\ \A d : FindAt(d) \in Nat /\ ~ (FindAt(d) < 1)
      /\ \A d : CompleteAt(d) \in Nat /\ ~ (CompleteAt(d) < 1)
  BY DEF MadeAt, FindAt, CompleteAt
<1>7. run'.script = s /\ run'.pc = 1
  BY <1>1
<1>8. Before(run.script, run.pc)'
  <2>1. (\A i \in DOMAIN job : JobOK(job[i], run.script, run.pc))'
    BY <1>1, <1>2, <1>5, <1>7 DEF JobOK, Progress, Followed
  <2>2. Together' /\ Left(run.script)'
    BY <1>1, <1>2, <1>3, <1>7 DEF Together, Left, EngagedCarpentry
  <2>3. Made(run.script, run.pc)' /\ Reviewed(run.script, run.pc)'
    BY <1>6, <1>7 DEF Made, Reviewed
  <2> QED BY <2>1, <2>2, <2>3 DEF Before
<1>9. DemoTypes'
  <2>1. 1 \in 1..EndOf(s)
    BY DEF EndOf
  <2>2. \E q \in 1..EndOf(s) : run' = [script |-> s, pc |-> q]
    BY <1>1, <2>1
  <2>3. runs' \in [Scripts -> Nat]
    BY <1>1, <1>3 DEF DemoTypes
  <2> QED BY <1>1, <1>2, <1>3, <2>2, <2>3 DEF DemoTypes
<1>10. EndsOnce'
  <2>1. \A x \in Scripts : AlreadySeeded(x)' <=> AlreadySeeded(x)
    BY <1>2 DEF AlreadySeeded
  <2>2. s # "seed" => done[s] = 0
    BY <1>1, <1>3 DEF EndsOnce, DemoTypes
  <2> QED BY <1>1, <1>3, <1>7, <2>1, <2>2 DEF EndsOnce
<1> QED BY <1>8, <1>9, <1>10 DEF DemoInv

\* A script that ends early is one of those that were cut.
LEMMA EndsEarly ==
  ASSUME DemoInv, run # NoScript, EndEarly
  PROVE  DemoInv'
<1>1. /\ run' = NoScript /\ cut' = cut \cup {run.script} /\ runs' = runs /\ done' = done
      /\ UNCHANGED <<row, users, profiles, job>>
  BY DEF EndEarly, dbVars
<1>2. DemoTypes'
  BY <1>1 DEF DemoInv, DemoTypes
<1>3. EndsOnce'
  <2>1. \A x \in Scripts : AlreadySeeded(x)' <=> AlreadySeeded(x)
    BY <1>1 DEF AlreadySeeded
  <2> QED BY <1>1, <2>1 DEF DemoInv, EndsOnce
<1>4. run'.script = "none" /\ run'.pc = 0
  BY <1>1 DEF NoScript
<1>5. Before(run.script, run.pc)'
  <2>1. (\A i \in DOMAIN job : JobOK(job[i], run.script, run.pc))'
    BY <1>1, <1>4 DEF DemoInv, Before, JobOK, Progress, Followed, MadeBy
  <2>2. Together'
    BY <1>1 DEF DemoInv, Before, Together, EngagedCarpentry
  <2>3. Left(run.script)'
    BY <1>1, <1>4 DEF DemoInv, Before, Left, EngagedCarpentry
  <2>4. Made(run.script, run.pc)' /\ Reviewed(run.script, run.pc)'
    BY <1>4 DEF Made, Reviewed, MadeBy, FoundBy
  <2> QED BY <2>1, <2>2, <2>3, <2>4 DEF Before
<1> QED BY <1>2, <1>3, <1>5 DEF DemoInv

\* Nothing is seeded at first.
LEMMA InitDemo == DemoInit => DemoInv
<1> SUFFICES ASSUME DemoInit PROVE DemoInv
  OBVIOUS
<1>1. /\ row = [k \in Keys |-> row[k]] /\ job = <<>> /\ run = NoScript /\ users = {} /\ profiles = {}
      /\ runs \in [Scripts -> Nat] /\ done = [x \in Scripts |-> 0]
  BY DEF DemoInit
<1>2. job \in Seq(DemoJob) /\ DOMAIN job = {}
  BY <1>1
<1>3. DemoTypes /\ EndsOnce
  BY <1>1, <1>2 DEF DemoTypes, EndsOnce
<1>4. Before("none", 0)
  BY <1>1, <1>2 DEF Before, Together, Left, Made, Reviewed, MadeBy, FoundBy
<1>5. run.script = "none" /\ run.pc = 0
  BY <1>1 DEF NoScript
<1> QED BY <1>3, <1>4, <1>5 DEF DemoInv

------------------------------------------------------------------------------
(* The statements                                                          *)

\* The deal a script of its own is at.
LEMMA DealAtHand ==
  ASSUME DemoInv, run # NoScript, Now.op \in Touching, NEW s, NEW p, s = run.script, p = run.pc
  PROVE  /\ job[It] \in DemoJob /\ JobOK(job[It], s, p) /\ Now.deal \in Deals
         /\ job[It].of = Now.deal /\ MadeBy(Now.deal) = s /\ MadeAt(Now.deal) < p
         /\ s \in {"demo", "negotiation", "payments"} /\ p \in Nat /\ Fits(s, p, Now)
<1>1. s \in Scripts /\ p \in Nat /\ Fits(s, p, Now) /\ job \in Seq(DemoJob)
  BY NowFits DEF DemoInv, DemoTypes
<1>2. It \in DOMAIN job /\ job[It].of = Now.deal
  BY ItIsTheDeal
<1>3. job[It] \in DemoJob /\ JobOK(job[It], s, p)
  BY <1>1, <1>2 DEF DemoInv, Before
<1>4. Now.deal \in Deals /\ MadeBy(Now.deal) = s /\ MadeAt(Now.deal) < p
  BY <1>1 DEF Fits, TouchFit
<1>5. s \in {"demo", "negotiation", "payments"}
  BY <1>4 DEF MadeBy
<1> QED BY <1>1, <1>2, <1>3, <1>4, <1>5

\* The deal of another script a script is at.
LEMMA DealThatWasFound ==
  ASSUME DemoInv, run # NoScript, Now.op \in Following, NEW s, NEW p, s = run.script, p = run.pc
  PROVE  /\ job[It] \in DemoJob /\ JobOK(job[It], s, p) /\ job[It].eng # "NONE"
         /\ Now.deal \in FoundBy(s) /\ It = Oldest(Now.deal)
         /\ s \in {"chat", "appointments"} => job[It].of = Now.deal /\ Now.deal \in Negotiated
         /\ job[It].of = "sockets" <=> Now.deal = "sockets"
         /\ job[It].of \in {"patio", "garden", "sockets", "sr3", "sr4", "fee"}
         /\ job[It].of = "fee" => "demo" \in cut
         /\ s \in {"chat", "appointments", "reviews"} /\ p \in Nat /\ Fits(s, p, Now)
<1>1. /\ s \in Scripts /\ p \in Nat /\ Fits(s, p, Now) /\ job \in Seq(DemoJob)
      /\ \A k \in DOMAIN job : JobOK(job[k], s, p)
      /\ Together
  BY NowFits DEF DemoInv, DemoTypes, Before
<1>2. /\ Now.deal \in FoundBy(s) /\ It \in Matches(Now.deal) /\ It = Oldest(Now.deal)
      /\ \A k \in Matches(Now.deal) : It <= k
  BY ItIsTheOldest
<1>3. /\ It \in DOMAIN job /\ job[It] \in DemoJob /\ job[It].eng # "NONE"
      /\ s \in {"chat", "appointments"} => Now.deal \in Negotiated
      /\ Now.deal \in Negotiated => job[It].of = Now.deal
      /\ Now.deal = "painting" => job[It].of = "sr3"
      /\ Now.deal = "carpentry" => job[It].of \in {"sr4", "fee"}
  BY <1>1, <1>2, WhatIsFound
<1>4. Now.deal \in {"patio", "garden", "sockets", "painting", "carpentry"} /\ s \in {"chat", "appointments", "reviews"}
  BY <1>2 DEF FoundBy, Negotiated
<1>5. job[It].of = "fee" => "demo" \in cut
  <2> SUFFICES ASSUME job[It].of = "fee", "demo" \notin cut PROVE FALSE
    OBVIOUS
  <2>1. Now.deal = "carpentry"
    BY <1>3, <1>4 DEF Negotiated
  <2>2. PICK k \in DOMAIN job : k < It /\ EngagedCarpentry(k)
    BY <1>1, <1>3 DEF Together
  <2>3. k \in Matches("carpentry")
    BY <2>2 DEF Matches, About, EngagedCarpentry
  <2>4. k \in Nat /\ It \in Nat /\ It <= k
    BY <1>1, <1>2, <1>3, <2>1, <2>3
  <2> QED BY <2>2, <2>4
<1> QED BY <1>1, <1>2, <1>3, <1>4, <1>5 DEF Negotiated

\* What holds of a deal holds of it after a step that changes no row it depends on.
LEMMA JobOKAfter ==
  ASSUME NEW r, NEW s, NEW p, JobOK(r, s, p), UNCHANGED <<users, cut>>
  PROVE  JobOK(r, s, p)'
BY DEF JobOK, Progress, Followed

\* Where the bids of a deal are as they were, their rules hold as before.
LEMMA BidsKept ==
  ASSUME NEW j, NEW r, QuoteRules(j), PriceRules(j), r.eng # "NONE" <=> j.eng # "NONE",
         r.of = j.of, r.request = j.request, r.quote = j.quote, r.agreed = j.agreed, r.asked = j.asked
  PROVE  QuoteRules(r) /\ PriceRules(r)
<1>1. \A n : PendingOn(r, n) = PendingOn(j, n)
  BY DEF PendingOn
<1> QED BY <1>1 DEF QuoteRules, PriceRules

\* All but the bids of a deal, and whether it is closed, is as it was.
OnlyBids(j, r) ==
  /\ r.of = j.of /\ r.method = j.method /\ r.stamps = j.stamps /\ r.attempt = j.attempt
  /\ r.ledger = j.ledger /\ r.chat = j.chat /\ r.marked = j.marked /\ r.visit = j.visit /\ r.review = j.review
  /\ r.eng = j.eng \/ (j.eng = "NONE" /\ r.eng = "ACCEPTED")
Bidding == {"quote", "withdraw", "accept", "cancel", "propose", "agree", "refuse"}

\* The deal before such a statement.
LEMMA BidAtHand ==
  ASSUME DemoInv, run # NoScript, Now.op \in Bidding, NEW s, NEW p, s = run.script, p = run.pc
  PROVE  /\ job[It] \in DemoJob /\ JobOK(job[It], s, p) /\ job[It].of = Now.deal /\ Now.deal \in Deals
         /\ MadeBy(Now.deal) = s /\ s \in {"demo", "negotiation"} /\ p \in Nat /\ Fits(s, p, Now)
         /\ ClosedAt(Now.deal) \in Nat /\ MadeAt(Now.deal) \in Nat
         /\ job[It].request # "OPEN" => ClosedAt(Now.deal) < p
<1>1. Now.op \in Touching
  BY DEF Bidding, Touching
<1>2. /\ job[It] \in DemoJob /\ JobOK(job[It], s, p) /\ Now.deal \in Deals
      /\ job[It].of = Now.deal /\ MadeBy(Now.deal) = s
      /\ s \in {"demo", "negotiation", "payments"} /\ p \in Nat /\ Fits(s, p, Now)
  BY <1>1, DealAtHand
<1>3. s # "payments"
  BY <1>2 DEF Bidding, Fits, HaggleFit
<1>4. ClosedAt(Now.deal) \in Nat /\ MadeAt(Now.deal) \in Nat
  BY DEF ClosedAt, MadeAt
<1>5. Progress(job[It], s, p)
  BY <1>2 DEF JobOK
<1> QED BY <1>2, <1>3, <1>4, <1>5 DEF Progress

\* Such a statement has to keep the rules of the bids and get on.
LEMMA BidIsRight ==
  ASSUME DemoInv, run # NoScript, NEW s, NEW p, s = run.script, p = run.pc, Now.op \in Bidding,
         cut' = cut, NEW r \in DemoJob, WithJob(r), OnlyBids(job[It], r),
         QuoteRules(r), PriceRules(r), Progress(r, s, p + 1)
  PROVE  RightStep(It, r, s, p)
<1>1. Now.op \notin Following /\ Now.op \notin {"chatMarker", "cancelVisit", "complete", "comment", "commentMarker"}
  BY DEF Bidding, Following
<1>2. PICK j : j = job[It]
  OBVIOUS
<1>3. /\ j \in DemoJob /\ JobOK(j, s, p) /\ MadeBy(j.of) = s
      /\ s \in {"demo", "negotiation"} /\ OnlyBids(j, r)
  BY <1>2, BidAtHand
<1>4. r.of = j.of /\ r.chat = j.chat /\ r.marked = j.marked /\ r.visit = j.visit /\ r.review = j.review /\ r.ledger = j.ledger
  BY <1>3 DEF OnlyBids
<1>5. WorkRules(j) /\ WorkRules(r)
  <2>1. WorkRules(j)
    BY <1>3 DEF JobOK
  <2> QED BY <1>3, <2>1 DEF OnlyBids, WorkRules
<1>6. Followed(r, s, p + 1)
  BY <1>3 DEF Followed
<1>7. r.ledger \cap Fees = {}
  BY <1>3, <1>4, <1>5 DEF WorkRules, MadeBy
<1>8. JobOK(r, s, p + 1)
  BY <1>3, <1>4, <1>5, <1>6, <1>7 DEF JobOK
<1>9. JobOK(r, s, p + 1)'
  BY <1>8, JobOKAfter DEF WithJob
<1>10. Grows(job[It], r)
  BY <1>2, <1>3 DEF Grows, OnlyBids, HasCancelledVisit
<1> QED BY <1>1, <1>2, <1>4, <1>9, <1>10 DEF RightStep

\* A quote is sent while the request is open.
LEMMA QuoteIsRight ==
  ASSUME DemoInv, run # NoScript, NEW s, NEW p, s = run.script, p = run.pc, CreateQuote, cut' = cut
  PROVE  Now.op \in Bidding /\ \E r : RightStep(It, r, s, p) /\ WithJob(r)
<1>1. Now.op = "quote" /\ Now.op \in Bidding
  BY DEF CreateQuote, Ready, Bidding
<1>2. PICK j : j = job[It]
  OBVIOUS
<1>3. /\ j \in DemoJob /\ JobOK(j, s, p) /\ j.of = Now.deal /\ MadeBy(j.of) = s
      /\ s \in {"demo", "negotiation"} /\ p \in Nat /\ Fits(s, p, Now)
      /\ ClosedAt(j.of) \in Nat /\ MadeAt(j.of) \in Nat /\ (j.request # "OPEN" => ClosedAt(j.of) < p)
  BY <1>1, <1>2, BidAtHand
<1>4. p < ClosedAt(j.of) /\ j.request = "OPEN"
  BY <1>1, <1>3 DEF Fits, HaggleFit
<1>5. PICK q : q = Append(j.quote, "SENT")
  OBVIOUS
<1>6. /\ q \in Seq(QuoteStates) /\ DOMAIN q = 1..(Len(j.quote) + 1) /\ Len(q) = Len(j.quote) + 1
      /\ Len(j.quote) \in Nat
      /\ \A m \in DOMAIN q : q[m] = "SENT" \/ (m \in DOMAIN j.quote /\ q[m] = j.quote[m])
  <2>1. j.quote \in Seq(QuoteStates) /\ "SENT" \in QuoteStates
    BY <1>3 DEF DemoJob, QuoteStates
  <2> QED BY <1>5, <2>1
<1>7. PICK r : r = [j EXCEPT !.quote = q]
  OBVIOUS
<1>8. WithJob(r)
  BY <1>2, <1>5, <1>7 DEF CreateQuote
<1>9. /\ r \in DemoJob /\ OnlyBids(j, r) /\ r.of = j.of /\ r.request = j.request
      /\ r.eng = j.eng /\ r.quote = q /\ r.agreed = j.agreed /\ r.asked = j.asked
  <2>1. j \in DemoJob /\ q \in Seq(QuoteStates)
    BY <1>3, <1>6
  <2> QED BY <1>7, <2>1 DEF DemoJob, OnlyBids
<1>10. QuoteRules(r)
  <2>1. QuoteRules(j)
    BY <1>3 DEF JobOK
  <2> QED BY <1>4, <1>6, <1>9, <2>1 DEF QuoteRules, PendingOn
<1>11. PriceRules(r)
  <2>1. PriceRules(j)
    BY <1>3 DEF JobOK
  <2> QED BY <1>9, <2>1 DEF PriceRules, PendingOn
<1>12. Progress(r, s, p + 1)
  <2>1. j.of = "sr4" => ~ (46 < p + 1)
    BY <1>3, <1>4 DEF ClosedAt
  <2>2. MadeAt(j.of) < p
    BY <1>3 DEF JobOK, Progress
  <2> QED BY <1>3, <1>4, <1>6, <1>9, <2>1, <2>2 DEF Progress
<1> QED BY <1>1, <1>2, <1>8, <1>9, <1>10, <1>11, <1>12, BidIsRight

\* What an edited quote of a deal is.
LEMMA QuotesTyped ==
  ASSUME NEW c \in Seq(QuoteStates), NEW q, DOMAIN q = DOMAIN c, q = [m \in DOMAIN c |-> q[m]],
         \A m \in DOMAIN c : q[m] \in QuoteStates
  PROVE  q \in Seq(QuoteStates) /\ Len(q) = Len(c)
<1>1. q \in [1..Len(c) -> QuoteStates] /\ Len(c) \in Nat
  OBVIOUS
<1> QED BY <1>1

\* A quote that is open is withdrawn.
LEMMA WithdrawIsRight ==
  ASSUME DemoInv, run # NoScript, NEW s, NEW p, s = run.script, p = run.pc, DemoWithdrawQuote, cut' = cut
  PROVE  Now.op \in Bidding /\ \E r : RightStep(It, r, s, p) /\ WithJob(r)
<1>1. Now.op = "withdraw" /\ Now.op \in Bidding
  BY DEF DemoWithdrawQuote, Ready, Bidding
<1>2. PICK j : j = job[It]
  OBVIOUS
<1>3. /\ j \in DemoJob /\ JobOK(j, s, p) /\ j.of = Now.deal /\ MadeBy(j.of) = s
      /\ s \in {"demo", "negotiation"} /\ p \in Nat /\ Fits(s, p, Now)
  BY <1>1, <1>2, BidAtHand
<1>4. PICK n : n = Now.n
  OBVIOUS
<1>5. PICK q : q = [j.quote EXCEPT ![n] = "WITHDRAWN"]
  OBVIOUS
<1>6. /\ q \in Seq(QuoteStates) /\ DOMAIN q = DOMAIN j.quote /\ Len(q) = Len(j.quote)
      /\ \A m \in DOMAIN q : (m = n /\ q[m] = "WITHDRAWN") \/ (m # n /\ q[m] = j.quote[m])
  <2>1. j.quote \in Seq(QuoteStates)
    BY <1>3 DEF DemoJob
  <2>2. \A m \in DOMAIN j.quote : j.quote[m] \in QuoteStates
    BY <2>1
  <2>3. DOMAIN q = DOMAIN j.quote /\ q = [m \in DOMAIN j.quote |-> q[m]]
    BY <1>5
  <2>4. \A m \in DOMAIN q : (m = n /\ q[m] = "WITHDRAWN") \/ (m # n /\ q[m] = j.quote[m])
    BY <1>5
  <2>5. \A m \in DOMAIN q : q[m] \in QuoteStates
    BY <2>2, <2>3, <2>4 DEF QuoteStates
  <2> QED BY <2>1, <2>3, <2>4, <2>5, QuotesTyped
<1>7. PICK r : r = [j EXCEPT !.quote = q]
  OBVIOUS
<1>8. WithJob(r) /\ j.quote[n] = "SENT"
  <2>1. WithJob([j EXCEPT !.quote[n] = "WITHDRAWN"]) /\ j.quote[n] = "SENT"
    BY <1>2, <1>4 DEF DemoWithdrawQuote
  <2>2. r = [j EXCEPT !.quote[n] = "WITHDRAWN"]
    BY <1>5, <1>7
  <2> QED BY <2>1, <2>2
<1>9. /\ r \in DemoJob /\ OnlyBids(j, r) /\ r.of = j.of /\ r.request = j.request
      /\ r.eng = j.eng /\ r.quote = q /\ r.agreed = j.agreed /\ r.asked = j.asked
  <2>1. j \in DemoJob /\ q \in Seq(QuoteStates)
    BY <1>3, <1>6
  <2> QED BY <1>7, <2>1 DEF DemoJob, OnlyBids
<1>10. QuoteRules(r)
  <2>1. QuoteRules(j)
    BY <1>3 DEF JobOK
  <2>2. CASE n \in DOMAIN j.quote
    <3>1. j.request # "ENGAGED"
      BY <1>8, <2>1, <2>2 DEF QuoteRules
    <3>2. \A m \in DOMAIN q : q[m] # "ACCEPTED"
      BY <1>6, <2>1, <3>1 DEF QuoteRules
    <3> QED BY <1>9, <2>1, <3>1, <3>2 DEF QuoteRules
  <2>3. CASE n \notin DOMAIN j.quote
    <3>1. \A m \in DOMAIN q : q[m] = j.quote[m]
      BY <1>6, <2>3
    <3> QED BY <1>6, <1>9, <2>1, <3>1 DEF QuoteRules, PendingOn
  <2> QED BY <2>2, <2>3
<1>11. PriceRules(r)
  <2>1. PriceRules(j)
    BY <1>3 DEF JobOK
  <2> QED BY <1>9, <2>1 DEF PriceRules, PendingOn
<1>12. Progress(r, s, p + 1)
  <2>1. Progress(j, s, p)
    BY <1>3 DEF JobOK
  <2>2. Progress(j, s, p + 1)
    BY <1>1, <1>3, <2>1, ProgressOn DEF Scripts
  <2> QED BY <1>3, <1>6, <1>9, <2>2 DEF Progress
<1> QED BY <1>1, <1>2, <1>8, <1>9, <1>10, <1>11, <1>12, BidIsRight

\* A request that is open and has its first quote is engaged to it.
LEMMA AcceptIsRight ==
  ASSUME DemoInv, run # NoScript, NEW s, NEW p, s = run.script, p = run.pc, DemoAcceptQuote, cut' = cut
  PROVE  Now.op \in Bidding /\ \E r : RightStep(It, r, s, p) /\ WithJob(r)
<1>1. Now.op = "accept" /\ Now.op \in Bidding
  BY DEF DemoAcceptQuote, Ready, Bidding
<1>2. PICK j : j = job[It]
  OBVIOUS
<1>3. /\ j \in DemoJob /\ JobOK(j, s, p) /\ j.of = Now.deal /\ MadeBy(j.of) = s
      /\ s \in {"demo", "negotiation"} /\ p \in Nat /\ Fits(s, p, Now)
      /\ QuoteRules(j) /\ PriceRules(j) /\ Progress(j, s, p) /\ MadeAt(j.of) \in Nat
  <2>1. j \in DemoJob /\ JobOK(j, s, p)
    BY <1>1, <1>2, BidAtHand
  <2> QED BY <1>1, <1>2, <2>1, BidAtHand DEF JobOK
<1>4. /\ Now.n = 1 /\ j.of # "sr5" /\ MadeAt(j.of) + 1 < p /\ p = ClosedAt(j.of)
      /\ s # "negotiation" => j.of \in {"sr3", "sr4"}
  BY <1>1, <1>3 DEF Fits, HaggleFit
<1>5. /\ j.request = "OPEN" /\ j.quote[1] = "SENT" /\ (s = "negotiation" => PendingOn(j, 1) = {})
      /\ WithJob([j EXCEPT !.request = "ENGAGED", !.quote = Decided(j, 1), !.eng = "ACCEPTED"])
  BY <1>2, <1>4 DEF DemoAcceptQuote
<1>6. PendingOn(j, 1) = {}
  <2>1. s # "negotiation" => DOMAIN j.asked = {}
    BY <1>3, <1>4 DEF PriceRules, Haggled
  <2> QED BY <1>5, <2>1 DEF PendingOn
<1>7. j.quote \in Seq(QuoteStates) /\ Len(j.quote) \in Nat /\ Len(j.quote) >= 1 /\ 1 \in DOMAIN j.quote
  <2>1. j.quote \in Seq(QuoteStates)
    BY <1>3 DEF DemoJob
  <2>2. Len(j.quote) >= 1
    BY <1>3, <1>4 DEF Progress
  <2> QED BY <2>1, <2>2
<1>8. PICK q : q = Decided(j, 1)
  OBVIOUS
<1>9. /\ q \in Seq(QuoteStates) /\ DOMAIN q = DOMAIN j.quote /\ Len(q) = Len(j.quote)
      /\ \A m \in DOMAIN q : q[m] = IF m = 1 THEN "ACCEPTED" ELSE IF j.quote[m] = "SENT" THEN "REJECTED" ELSE j.quote[m]
  <2>1. \A m \in DOMAIN j.quote : j.quote[m] \in QuoteStates
    BY <1>7
  <2>2. DOMAIN q = DOMAIN j.quote /\ q = [m \in DOMAIN j.quote |-> q[m]]
    BY <1>8 DEF Decided
  <2>3. \A m \in DOMAIN q : q[m] = IF m = 1 THEN "ACCEPTED" ELSE IF j.quote[m] = "SENT" THEN "REJECTED" ELSE j.quote[m]
    BY <1>8 DEF Decided
  <2>4. \A m \in DOMAIN q : q[m] \in QuoteStates
    BY <2>1, <2>2, <2>3 DEF QuoteStates
  <2> QED BY <1>7, <2>2, <2>3, <2>4, QuotesTyped
<1>10. PICK r : r = [j EXCEPT !.request = "ENGAGED", !.quote = q, !.eng = "ACCEPTED"]
  OBVIOUS
<1>11. WithJob(r)
  BY <1>5, <1>8, <1>10
<1>12. j.eng = "NONE" /\ \A m \in DOMAIN j.quote : j.quote[m] # "ACCEPTED"
  BY <1>3, <1>5 DEF QuoteRules
<1>13. /\ r \in DemoJob /\ OnlyBids(j, r) /\ r.of = j.of /\ r.request = "ENGAGED"
       /\ r.eng = "ACCEPTED" /\ r.quote = q /\ r.agreed = j.agreed /\ r.asked = j.asked
  <2>1. j \in DemoJob /\ q \in Seq(QuoteStates) /\ j.eng = "NONE"
    BY <1>3, <1>9, <1>12
  <2> QED BY <1>10, <2>1 DEF DemoJob, OnlyBids
<1>14. QuoteRules(r)
  <2>1. \A m \in DOMAIN q : (q[m] = "ACCEPTED" <=> m = 1) /\ q[m] # "SENT"
    BY <1>9, <1>12
  <2>2. PendingOn(r, 1) = {}
    BY <1>6, <1>13 DEF PendingOn
  <2>3. 1 \in DOMAIN q
    BY <1>7, <1>9
  <2> QED BY <1>13, <2>1, <2>2, <2>3 DEF QuoteRules
<1>15. PriceRules(r)
  BY <1>3, <1>13 DEF PriceRules, PendingOn
<1>16. Progress(r, s, p + 1)
  BY <1>3, <1>4, <1>7, <1>9, <1>13 DEF Progress
<1> QED BY <1>1, <1>2, <1>11, <1>13, <1>14, <1>15, <1>16, BidIsRight

\* A request that is open and nobody was engaged for is cancelled.
LEMMA CancelIsRight ==
  ASSUME DemoInv, run # NoScript, NEW s, NEW p, s = run.script, p = run.pc, DemoCancelServiceRequest,
         cut' = cut
  PROVE  Now.op \in Bidding /\ \E r : RightStep(It, r, s, p) /\ WithJob(r)
<1>1. Now.op = "cancel" /\ Now.op \in Bidding
  BY DEF DemoCancelServiceRequest, Ready, Bidding
<1>2. PICK j : j = job[It]
  OBVIOUS
<1>3. /\ j \in DemoJob /\ JobOK(j, s, p) /\ j.of = Now.deal /\ MadeBy(j.of) = s
      /\ s \in {"demo", "negotiation"} /\ p \in Nat /\ Fits(s, p, Now)
  BY <1>1, <1>2, BidAtHand
<1>4. QuoteRules(j) /\ PriceRules(j) /\ Progress(j, s, p)
  BY <1>3 DEF JobOK
<1>5. j.of = "sr5" /\ p = ClosedAt(j.of)
  BY <1>1, <1>3 DEF Fits, HaggleFit
<1>6. PICK r : r = [j EXCEPT !.request = "CANCELLED"]
  OBVIOUS
<1>7. j.request = "OPEN" /\ WithJob(r)
  BY <1>2, <1>6 DEF DemoCancelServiceRequest
<1>8. /\ r \in DemoJob /\ OnlyBids(j, r) /\ r.of = j.of /\ r.request = "CANCELLED"
      /\ r.eng = j.eng /\ r.quote = j.quote /\ r.agreed = j.agreed /\ r.asked = j.asked
  <2>1. j \in DemoJob
    BY <1>3
  <2> QED BY <1>6, <2>1 DEF DemoJob, OnlyBids
<1>9. QuoteRules(r)
  BY <1>4, <1>7, <1>8 DEF QuoteRules
<1>10. PriceRules(r)
  BY <1>4, <1>8 DEF PriceRules, PendingOn
<1>11. Progress(r, s, p + 1)
  BY <1>3, <1>4, <1>5, <1>8 DEF Progress, MadeAt
<1> QED BY <1>1, <1>2, <1>7, <1>8, <1>9, <1>10, <1>11, BidIsRight

\* The prices on a quote before a statement about them.
LEMMA PriceAtHand ==
  ASSUME DemoInv, run # NoScript, Now.op \in {"propose", "agree", "refuse"}, NEW s, NEW p, s = run.script, p = run.pc
  PROVE  /\ Now.op \in Bidding /\ job[It] \in DemoJob /\ Now.n \in Nat /\ job[It].of \in Haggled
         /\ QuoteRules(job[It]) /\ PriceRules(job[It]) /\ Progress(job[It], s, p + 1)
         /\ Now.op = "propose" => Now.by = Asker(job[It].of) /\ job[It].request = "OPEN"
         /\ Now.op # "propose" => Now.by = OtherSide(Asker(job[It].of))
         /\ job[It].asked \in Seq(DemoProposal)
<1>1. Now.op \in Bidding
  BY DEF Bidding
<1>2. PICK j : j = job[It]
  OBVIOUS
<1>3. /\ j \in DemoJob /\ JobOK(j, s, p) /\ j.of = Now.deal
      /\ s \in {"demo", "negotiation"} /\ p \in Nat /\ Fits(s, p, Now)
      /\ ClosedAt(j.of) \in Nat /\ (j.request # "OPEN" => ClosedAt(j.of) < p)
  BY <1>1, <1>2, BidAtHand
<1>4. QuoteRules(j) /\ PriceRules(j) /\ Progress(j, s, p)
  BY <1>3 DEF JobOK
<1>5. Progress(j, s, p + 1)
  BY <1>3, <1>4, ProgressOn DEF Scripts
<1>6. /\ Now.n \in Nat /\ j.of \in Haggled
      /\ Now.op = "propose" => Now.by = Asker(j.of) /\ p < ClosedAt(j.of)
      /\ Now.op # "propose" => Now.by = OtherSide(Asker(j.of))
  BY <1>3 DEF Fits, HaggleFit
<1>7. j.asked \in Seq(DemoProposal)
  BY <1>3 DEF DemoJob
<1>8. Now.op = "propose" => j.request = "OPEN"
  BY <1>3, <1>6
<1> QED BY <1>1, <1>2, <1>3, <1>4, <1>5, <1>6, <1>7, <1>8

\* Who is party to a deal is one of two.
LEMMA TwoSides ==
  ASSUME NEW d
  PROVE  Asker(d) \in Sides /\ OtherSide(Asker(d)) \in Sides /\ "none" \notin Sides
<1>1. \E x \in Sides : x # Asker(d)
  BY DEF Asker, Sides
<1> QED BY <1>1 DEF Asker, Sides, OtherSide

\* Where only the prices of a deal changed, and none became pending on another
\* quote, its quotes follow their rules.
LEMMA PriceIsRight ==
  ASSUME DemoInv, run # NoScript, NEW s, NEW p, s = run.script, p = run.pc,
         Now.op \in {"propose", "agree", "refuse"}, cut' = cut,
         NEW q \in Seq(DemoProposal), NEW g \in SUBSET Nat, NEW r,
         r = [job[It] EXCEPT !.asked = q, !.agreed = g], WithJob(r), PriceRules(r),
         \A m \in DOMAIN job[It].quote :
           job[It].quote[m] = "ACCEPTED" /\ PendingOn(job[It], m) = {} => PendingOn(r, m) = {}
  PROVE  RightStep(It, r, s, p)
<1>1. PICK j : j = job[It]
  OBVIOUS
<1>2. /\ Now.op \in Bidding /\ j \in DemoJob /\ QuoteRules(j) /\ Progress(j, s, p + 1)
  BY <1>1, PriceAtHand
<1>3. r = [j EXCEPT !.asked = q, !.agreed = g]
  BY <1>1
<1>4. r \in DemoJob /\ OnlyBids(j, r) /\ r.of = j.of /\ r.request = j.request /\ r.eng = j.eng /\ r.quote = j.quote
  BY <1>2, <1>3 DEF DemoJob, OnlyBids
<1>5. QuoteRules(r)
  <2>1. \A m \in DOMAIN j.quote : j.quote[m] = "ACCEPTED" /\ PendingOn(j, m) = {} => PendingOn(r, m) = {}
    BY <1>1
  <2> QED BY <1>2, <1>4, <2>1 DEF QuoteRules
<1>6. Progress(r, s, p + 1)
  <2>1. OnlyBids(j, r)
    BY <1>4
  <2> QED BY <1>2, <1>4, <2>1 DEF Progress, OnlyBids
<1> QED BY <1>1, <1>2, <1>4, <1>5, <1>6, BidIsRight

\* A price supersedes what was pending on its quote.
LEMMA ProposeIsRight ==
  ASSUME DemoInv, run # NoScript, NEW s, NEW p, s = run.script, p = run.pc, PostProposal, cut' = cut
  PROVE  Now.op \in Bidding /\ \E r : RightStep(It, r, s, p) /\ WithJob(r)
<1>1. Now.op = "propose"
  BY DEF PostProposal, Ready
<1>2. PICK j : j = job[It]
  OBVIOUS
<1>3. PICK n : n = Now.n
  OBVIOUS
<1>4. /\ Now.op \in Bidding /\ j \in DemoJob /\ n \in Nat /\ j.of \in Haggled /\ QuoteRules(j) /\ PriceRules(j)
      /\ Now.by = Asker(j.of) /\ j.request = "OPEN" /\ j.asked \in Seq(DemoProposal)
  BY <1>1, <1>2, <1>3, PriceAtHand
<1>5. PICK old : old = [k \in DOMAIN j.asked |->
                          IF k \in PendingOn(j, n) THEN [j.asked[k] EXCEPT !.status = "SUPERSEDED"] ELSE j.asked[k]]
  OBVIOUS
<1>6. PICK new : new = [quote |-> n, by |-> Now.by, status |-> "PENDING", resolvedBy |-> "none"]
  OBVIOUS
<1>7. /\ DOMAIN old = DOMAIN j.asked
      /\ \A k \in DOMAIN old : /\ old[k] \in DemoProposal
                               /\ old[k].quote = j.asked[k].quote /\ old[k].by = j.asked[k].by
                               /\ old[k].resolvedBy = j.asked[k].resolvedBy
                               /\ old[k].status = IF k \in PendingOn(j, n) THEN "SUPERSEDED" ELSE j.asked[k].status
  <2>1. \A k \in DOMAIN j.asked : j.asked[k] \in DemoProposal
    BY <1>4
  <2>2. DOMAIN old = DOMAIN j.asked
    BY <1>5
  <2>3. ASSUME NEW k \in DOMAIN j.asked
        PROVE  /\ old[k] \in DemoProposal
               /\ old[k].quote = j.asked[k].quote /\ old[k].by = j.asked[k].by
               /\ old[k].resolvedBy = j.asked[k].resolvedBy
               /\ old[k].status = IF k \in PendingOn(j, n) THEN "SUPERSEDED" ELSE j.asked[k].status
    <3>1. old[k] = IF k \in PendingOn(j, n) THEN [j.asked[k] EXCEPT !.status = "SUPERSEDED"] ELSE j.asked[k]
      BY <1>5
    <3>2. j.asked[k] \in DemoProposal
      BY <2>1
    <3> QED BY <3>1, <3>2 DEF DemoProposal
  <2> QED BY <2>2, <2>3
<1>8. old \in Seq(DemoProposal) /\ Len(old) = Len(j.asked) /\ Len(j.asked) \in Nat
  <2>1. old = [k \in 1..Len(j.asked) |-> old[k]]
    BY <1>4, <1>5
  <2>2. \A k \in 1..Len(j.asked) : old[k] \in DemoProposal
    BY <1>4, <1>7
  <2>3. Len(j.asked) \in Nat
    BY <1>4
  <2> QED BY <2>1, <2>2, <2>3
<1>9. new \in DemoProposal
  BY <1>4, <1>6, TwoSides DEF DemoProposal
<1>10. PICK q : q = Append(old, new)
  OBVIOUS
<1>11. PICK l \in Nat : l = Len(j.asked) + 1
  BY <1>8
<1>12. /\ q \in Seq(DemoProposal) /\ DOMAIN q = DOMAIN j.asked \cup {l} /\ l \notin DOMAIN j.asked /\ q[l] = new
       /\ \A k \in DOMAIN j.asked : q[k] = old[k]
  BY <1>4, <1>8, <1>9, <1>10, <1>11, AppendProperties
<1>13. PICK r : r = [j EXCEPT !.asked = q, !.agreed = j.agreed]
  OBVIOUS
<1>14. WithJob(r)
  <2>1. WithJob([j EXCEPT !.asked = q])
    BY <1>2, <1>3, <1>5, <1>6, <1>10 DEF PostProposal
  <2>2. r = [j EXCEPT !.asked = q]
    BY <1>4, <1>13 DEF DemoJob
  <2> QED BY <2>1, <2>2
<1>15. r.asked = q /\ r.agreed = j.agreed /\ r.of = j.of /\ j.agreed \in SUBSET Nat
  BY <1>4, <1>13 DEF DemoJob
<1>16. \A m \in Nat : PendingOn(r, m) = IF m = n THEN {l} ELSE PendingOn(j, m)
  <2>1. ASSUME NEW m \in Nat, NEW k
        PROVE  k \in PendingOn(r, m) <=> (m = n /\ k = l) \/ (m # n /\ k \in PendingOn(j, m))
    <3>1. CASE k = l
      BY <1>6, <1>12, <1>15, <3>1 DEF PendingOn
    <3>2. CASE k \in DOMAIN j.asked
      <4>1. q[k] = old[k] /\ k \in DOMAIN q /\ k # l /\ k \in DOMAIN old
        BY <1>7, <1>12, <3>2
      <4>2. /\ q[k].quote = j.asked[k].quote
            /\ q[k].status = IF k \in PendingOn(j, n) THEN "SUPERSEDED" ELSE j.asked[k].status
        BY <1>7, <4>1
      <4> QED BY <1>15, <3>2, <4>1, <4>2 DEF PendingOn
    <3>3. CASE k # l /\ k \notin DOMAIN j.asked
      BY <1>12, <1>15, <3>3 DEF PendingOn
    <3> QED BY <3>1, <3>2, <3>3
  <2>2. ASSUME NEW m \in Nat PROVE PendingOn(r, m) = IF m = n THEN {l} ELSE PendingOn(j, m)
    <3>1. \A k : k \in PendingOn(r, m) <=> (m = n /\ k = l) \/ (m # n /\ k \in PendingOn(j, m))
      BY <2>1
    <3>2. CASE m = n
      BY <3>1, <3>2
    <3>3. CASE m # n
      <4>1. \A k : k \in PendingOn(r, m) <=> k \in PendingOn(j, m)
        BY <3>1, <3>3
      <4> QED BY <3>3, <4>1
    <3> QED BY <3>2, <3>3
  <2> QED BY <2>2
<1>17. PriceRules(r)
  <2>1. \A m \in Nat : \A k, i \in PendingOn(r, m) : k = i
    BY <1>4, <1>16 DEF PriceRules
  <2>2. ASSUME NEW m \in Nat
        PROVE  m \in r.agreed <=> \E k \in DOMAIN r.asked : r.asked[k].quote = m /\ r.asked[k].status = "ACCEPTED"
    <3>1. \A k \in DOMAIN j.asked : q[k].quote = j.asked[k].quote /\ (q[k].status = "ACCEPTED" <=> j.asked[k].status = "ACCEPTED")
      BY <1>7, <1>12 DEF PendingOn
    <3>2. q[l].status # "ACCEPTED"
      BY <1>6, <1>12
    <3>3. m \in j.agreed <=> \E k \in DOMAIN j.asked : j.asked[k].quote = m /\ j.asked[k].status = "ACCEPTED"
      BY <1>4 DEF PriceRules
    <3> QED BY <1>12, <1>15, <3>1, <3>2, <3>3
  <2>3. ASSUME NEW k \in DOMAIN r.asked
        PROVE  /\ r.of \in Haggled /\ r.asked[k].by = Asker(r.of)
               /\ r.asked[k].resolvedBy \in {"none", OtherSide(Asker(r.of))}
    <3>1. CASE k = l
      BY <1>4, <1>6, <1>12, <1>15, <3>1
    <3>2. CASE k # l
      <4>1. k \in DOMAIN j.asked /\ q[k] = old[k] /\ k \in DOMAIN old
        BY <1>7, <1>12, <1>15, <3>2
      <4>2. q[k].by = j.asked[k].by /\ q[k].resolvedBy = j.asked[k].resolvedBy
        BY <1>7, <4>1
      <4> QED BY <1>4, <1>15, <4>1, <4>2 DEF PriceRules
    <3> QED BY <3>1, <3>2
  <2> QED BY <2>1, <2>2, <2>3 DEF PriceRules
<1>18. \A m \in DOMAIN j.quote : j.quote[m] = "ACCEPTED" /\ PendingOn(j, m) = {} => PendingOn(r, m) = {}
  BY <1>4 DEF QuoteRules
<1>19. r = [job[It] EXCEPT !.asked = q, !.agreed = j.agreed]
  BY <1>2, <1>13
<1>20. \A m \in DOMAIN job[It].quote :
         job[It].quote[m] = "ACCEPTED" /\ PendingOn(job[It], m) = {} => PendingOn(r, m) = {}
  BY <1>2, <1>18
<1>21. RightStep(It, r, s, p)
  BY <1>1, <1>12, <1>14, <1>15, <1>17, <1>19, <1>20, PriceIsRight
<1> QED BY <1>4, <1>14, <1>21

\* To accept or reject the price that is pending leaves none on its quote.
LEMMA ResolvedPrice ==
  ASSUME NEW j \in DemoJob, PriceRules(j), NEW n \in Nat, n = Now.n, PendingOn(j, n) # {},
         Now.by = OtherSide(Asker(j.of)), j.of \in Haggled,
         NEW status \in {"ACCEPTED", "REJECTED"},
         NEW g, g = IF status = "ACCEPTED" THEN j.agreed \cup {n} ELSE j.agreed,
         NEW q, q = Resolved(j, status), NEW r, r.asked = q, r.agreed = g, r.of = j.of
  PROVE  /\ q \in Seq(DemoProposal) /\ g \in SUBSET Nat /\ PriceRules(r)
         /\ \A m \in Nat : PendingOn(r, m) \subseteq PendingOn(j, m)
<1>1. PICK k : k = CHOOSE l \in PendingOn(j, n) : TRUE
  OBVIOUS
<1>2. k \in PendingOn(j, n) /\ \A l \in PendingOn(j, n) : l = k
  BY <1>1 DEF PriceRules
<1>4. q = [j.asked EXCEPT ![k].status = status, ![k].resolvedBy = Now.by]
  BY <1>1 DEF Resolved
<1>5. /\ j.asked \in Seq(DemoProposal) /\ j.agreed \in SUBSET Nat /\ k \in DOMAIN j.asked
      /\ j.asked[k].quote = n /\ j.asked[k].status = "PENDING"
  BY <1>2 DEF DemoJob, PendingOn
<1>6. \A l \in DOMAIN j.asked : j.asked[l] \in DemoProposal
  BY <1>5
<1>7. /\ DOMAIN q = DOMAIN j.asked /\ \A l \in DOMAIN j.asked : l # k => q[l] = j.asked[l]
      /\ q[k] = [j.asked[k] EXCEPT !.status = status, !.resolvedBy = Now.by]
  BY <1>4, <1>5
<1>8. /\ q[k] \in DemoProposal /\ q[k].quote = n /\ q[k].status = status /\ q[k].resolvedBy = Now.by
      /\ q[k].by = j.asked[k].by
  <2>1. j.asked[k] \in DemoProposal /\ Now.by \in Sides
    BY <1>5, <1>6, TwoSides
  <2> QED BY <1>5, <1>7, <2>1 DEF DemoProposal
<1>9. q \in Seq(DemoProposal)
  <2>0. DOMAIN j.asked = 1..Len(j.asked) /\ Len(j.asked) \in Nat
    BY <1>5
  <2>1. q = [l \in 1..Len(j.asked) |-> q[l]]
    <3>1. \E f, x : q = [f EXCEPT ![k] = x]
      BY <1>4
    <3>2. PICK f, x : q = [f EXCEPT ![k] = x]
      BY <3>1
    <3>3. q = [l \in DOMAIN q |-> q[l]]
      BY <3>2, Zenon
    <3> QED BY <1>7, <2>0, <3>3
  <2>2. \A l \in 1..Len(j.asked) : q[l] \in DemoProposal
    BY <1>5, <1>6, <1>7, <1>8
  <2> QED BY <2>0, <2>1, <2>2
<1>10. r.asked = q /\ r.agreed = g /\ r.of = j.of
  OBVIOUS
<1>11. ASSUME NEW m \in Nat PROVE PendingOn(r, m) \subseteq PendingOn(j, m) /\ k \notin PendingOn(r, m)
  <2>1. k \notin PendingOn(r, m)
    <3>1. q[k].status # "PENDING"
      BY <1>8
    <3> QED BY <1>10, <3>1 DEF PendingOn
  <2>2. ASSUME NEW l \in PendingOn(r, m) PROVE l \in PendingOn(j, m)
    <3>1. l \in DOMAIN q /\ q[l].quote = m /\ q[l].status = "PENDING"
      BY <1>10, <2>2 DEF PendingOn
    <3>2. l # k
      BY <1>8, <3>1
    <3>3. l \in DOMAIN j.asked /\ q[l] = j.asked[l]
      BY <1>7, <3>1, <3>2
    <3> QED BY <3>1, <3>3 DEF PendingOn
  <2> QED BY <2>1, <2>2
<1>12. PriceRules(r)
  <2>1. \A m \in Nat : \A l, i \in PendingOn(r, m) : l = i
    BY <1>11 DEF PriceRules
  <2>2. ASSUME NEW m \in Nat
        PROVE  m \in r.agreed <=> \E l \in DOMAIN r.asked : r.asked[l].quote = m /\ r.asked[l].status = "ACCEPTED"
    <3>1. m \in j.agreed <=> \E l \in DOMAIN j.asked : j.asked[l].quote = m /\ j.asked[l].status = "ACCEPTED"
      BY DEF PriceRules
    <3>2. (\E l \in DOMAIN q : q[l].quote = m /\ q[l].status = "ACCEPTED")
            <=> (m = n /\ status = "ACCEPTED") \/ \E l \in DOMAIN j.asked : j.asked[l].quote = m /\ j.asked[l].status = "ACCEPTED"
      <4>1. \A l \in DOMAIN j.asked : l # k => (q[l].quote = m /\ q[l].status = "ACCEPTED"
                                               <=> j.asked[l].quote = m /\ j.asked[l].status = "ACCEPTED")
        BY <1>7
      <4>2. q[k].quote = m /\ q[k].status = "ACCEPTED" <=> m = n /\ status = "ACCEPTED"
        BY <1>8
      <4>3. j.asked[k].status # "ACCEPTED"
        BY <1>5
      <4>4. k \in DOMAIN j.asked /\ DOMAIN q = DOMAIN j.asked
        BY <1>5, <1>7
      <4> QED BY <4>1, <4>2, <4>3, <4>4
    <3>3. m \in g <=> (m = n /\ status = "ACCEPTED") \/ m \in j.agreed
      OBVIOUS
    <3> QED BY <1>10, <3>1, <3>2, <3>3
  <2>3. ASSUME NEW l \in DOMAIN r.asked
        PROVE  /\ r.of \in Haggled /\ r.asked[l].by = Asker(r.of)
               /\ r.asked[l].resolvedBy \in {"none", OtherSide(Asker(r.of))}
    <3>1. l \in DOMAIN j.asked
      BY <1>7, <1>10, <2>3
    <3>2. j.asked[l].by = Asker(j.of) /\ j.asked[l].resolvedBy \in {"none", OtherSide(Asker(j.of))} /\ j.of \in Haggled
      BY <3>1 DEF PriceRules
    <3>3. CASE l = k
      BY <1>8, <1>10, <3>2, <3>3
    <3>4. CASE l # k
      BY <1>7, <1>10, <3>1, <3>2, <3>4
    <3> QED BY <3>3, <3>4
  <2> QED BY <2>1, <2>2, <2>3 DEF PriceRules
<1> QED BY <1>5, <1>9, <1>11, <1>12

\* A price that is pending is accepted or rejected by the other party.
LEMMA AnswerIsRight ==
  ASSUME DemoInv, run # NoScript, NEW s, NEW p, s = run.script, p = run.pc,
         DemoAcceptProposal \/ DemoRejectProposal, cut' = cut
  PROVE  Now.op \in Bidding /\ \E r : RightStep(It, r, s, p) /\ WithJob(r)
<1>1. Now.op \in {"agree", "refuse"}
  BY DEF DemoAcceptProposal, DemoRejectProposal, Ready
<1>2. PICK j : j = job[It]
  OBVIOUS
<1>3. PICK n : n = Now.n
  OBVIOUS
<1>4. /\ Now.op \in Bidding /\ j \in DemoJob /\ n \in Nat /\ j.of \in Haggled /\ QuoteRules(j) /\ PriceRules(j)
      /\ Now.by = OtherSide(Asker(j.of))
  BY <1>1, <1>2, <1>3, PriceAtHand
<1>5. PICK status : status = IF Now.op = "agree" THEN "ACCEPTED" ELSE "REJECTED"
  OBVIOUS
<1>6. PICK g : g = IF status = "ACCEPTED" THEN j.agreed \cup {n} ELSE j.agreed
  OBVIOUS
<1>7. PICK q : q = Resolved(j, status)
  OBVIOUS
<1>8. PICK r : r = [j EXCEPT !.asked = q, !.agreed = g]
  OBVIOUS
<1>9. PendingOn(j, n) # {} /\ WithJob(r)
  <2>1. CASE Now.op = "agree"
    <3>1. PendingOn(j, n) # {} /\ WithJob([j EXCEPT !.asked = Resolved(j, "ACCEPTED"), !.agreed = @ \cup {n}])
      BY <1>2, <1>3, <2>1 DEF DemoAcceptProposal, DemoRejectProposal, Ready
    <3>2. r = [j EXCEPT !.asked = Resolved(j, "ACCEPTED"), !.agreed = @ \cup {n}]
      BY <1>5, <1>6, <1>7, <1>8, <2>1
    <3> QED BY <3>1, <3>2
  <2>2. CASE Now.op = "refuse"
    <3>1. PendingOn(j, n) # {} /\ WithJob([j EXCEPT !.asked = Resolved(j, "REJECTED")])
      BY <1>2, <1>3, <2>2 DEF DemoAcceptProposal, DemoRejectProposal, Ready
    <3>2. q = Resolved(j, "REJECTED") /\ g = j.agreed
      BY <1>5, <1>6, <1>7, <2>2
    <3>3. r = [j EXCEPT !.asked = q]
      BY <1>4, <1>8, <3>2 DEF DemoJob
    <3> QED BY <3>1, <3>2, <3>3
  <2> QED BY <1>1, <2>1, <2>2
<1>10. /\ q \in Seq(DemoProposal) /\ g \in SUBSET Nat /\ PriceRules(r)
       /\ \A m \in Nat : PendingOn(r, m) \subseteq PendingOn(j, m)
  <2>1. status \in {"ACCEPTED", "REJECTED"} /\ PendingOn(j, n) # {}
    BY <1>5, <1>9
  <2>2. r.asked = q /\ r.agreed = g /\ r.of = j.of
    BY <1>4, <1>8 DEF DemoJob
  <2> QED BY <1>3, <1>4, <1>6, <1>7, <2>1, <2>2, ResolvedPrice
<1>11. r = [job[It] EXCEPT !.asked = q, !.agreed = g]
  BY <1>2, <1>8
<1>12. \A m \in DOMAIN job[It].quote :
         job[It].quote[m] = "ACCEPTED" /\ PendingOn(job[It], m) = {} => PendingOn(r, m) = {}
  <2>1. \A m \in DOMAIN j.quote : m \in Nat
    BY <1>4 DEF DemoJob
  <2> QED BY <1>2, <1>10, <2>1
<1>13. RightStep(It, r, s, p)
  BY <1>1, <1>9, <1>10, <1>11, <1>12, PriceIsRight
<1> QED BY <1>4, <1>9, <1>13

\* The statements about a payment, and what they leave alone in a deal.
Paying == {"start", "method", "cash", "debt", "cancelByCustomer", "cancelByProfessional"}
OnlyWork(j, r) ==
  /\ r.of = j.of /\ r.request = j.request /\ r.quote = j.quote /\ r.agreed = j.agreed /\ r.asked = j.asked
  /\ r.chat = j.chat /\ r.marked = j.marked /\ r.visit = j.visit /\ r.review = j.review

\* The deal before such a statement.
LEMMA PaymentAtHand ==
  ASSUME DemoInv, run # NoScript, Now.op \in Paying, NEW s, NEW p, s = run.script, p = run.pc
  PROVE  /\ job[It] \in DemoJob /\ JobOK(job[It], s, p) /\ job[It].of = Now.deal /\ job[It].of \in Deals
         /\ MadeBy(job[It].of) = s /\ s = "payments" /\ s \in Scripts /\ p \in Nat /\ Fits(s, p, Now) /\ PayFit(s, p, Now)
         /\ job[It].eng # "NONE" /\ WorkRules(job[It]) /\ Progress(job[It], s, p)
         /\ MethodAt(job[It].of) \in Nat /\ FeeAt(job[It].of) \in Nat
<1>1. Now.op \in Touching
  BY DEF Paying, Touching
<1>2. PICK j : j = job[It]
  OBVIOUS
<1>3. /\ j \in DemoJob /\ JobOK(j, s, p) /\ j.of = Now.deal /\ j.of \in Deals
      /\ MadeBy(j.of) = s /\ s \in {"demo", "negotiation", "payments"} /\ p \in Nat /\ Fits(s, p, Now)
  BY <1>1, <1>2, DealAtHand
<1>4. PayFit(s, p, Now) /\ s = "payments"
  BY <1>3 DEF Fits, PayFit, Paying
<1>5. QuoteRules(j) /\ WorkRules(j) /\ Progress(j, s, p)
  BY <1>3 DEF JobOK
<1>6. j.eng # "NONE"
  BY <1>3, <1>4, <1>5 DEF QuoteRules, WorkRules
<1>7. MethodAt(j.of) \in Nat /\ FeeAt(j.of) \in Nat
  BY DEF MethodAt, FeeAt
<1> QED BY <1>2, <1>3, <1>4, <1>5, <1>6, <1>7 DEF Scripts

\* Such a statement has to keep the rules of the work and get on.
LEMMA PayIsRight ==
  ASSUME DemoInv, run # NoScript, NEW s, NEW p, s = run.script, p = run.pc, Now.op \in Paying,
         cut' = cut, NEW r \in DemoJob, WithJob(r), OnlyWork(job[It], r), r.eng # "NONE",
         WorkRules(r), Progress(r, s, p + 1), "demo" \notin cut /\ r.ledger \cap Fees # {} => r.eng = "CANCELLED"
  PROVE  RightStep(It, r, s, p)
<1>1. Now.op \notin Following /\ Now.op \notin {"chatMarker", "cancelVisit", "complete", "comment", "commentMarker"}
  BY DEF Paying, Following
<1>2. PICK j : j = job[It]
  OBVIOUS
<1>3. /\ j \in DemoJob /\ JobOK(j, s, p) /\ MadeBy(j.of) = s /\ s = "payments" /\ j.eng # "NONE" /\ OnlyWork(j, r)
  BY <1>2, PaymentAtHand
<1>4. r.of = j.of /\ r.chat = j.chat /\ r.marked = j.marked /\ r.visit = j.visit /\ r.review = j.review
  BY <1>3 DEF OnlyWork
<1>5. QuoteRules(r) /\ PriceRules(r)
  <2>1. QuoteRules(j) /\ PriceRules(j)
    BY <1>3 DEF JobOK
  <2> QED BY <1>3, <2>1, BidsKept DEF OnlyWork
<1>6. Followed(r, s, p + 1)
  BY <1>3 DEF Followed
<1>7. JobOK(r, s, p + 1)
  BY <1>3, <1>4, <1>5, <1>6 DEF JobOK
<1>8. JobOK(r, s, p + 1)'
  BY <1>7, JobOKAfter DEF WithJob
<1>9. Grows(job[It], r)
  BY <1>2, <1>3, <1>4 DEF Grows, HasCancelledVisit
<1> QED BY <1>1, <1>2, <1>3, <1>4, <1>8, <1>9 DEF RightStep

\* Where only the Engagement and the ledger of a deal changed, it is as far as it
\* was.
LEMMA NoPaymentMade ==
  ASSUME DemoInv, run # NoScript, Now.op \in Paying \ {"method", "cash"}, NEW s, NEW p, s = run.script, p = run.pc,
         NEW r, r.of = job[It].of, r.method = job[It].method, r.stamps = job[It].stamps,
         r.review = job[It].review, r.ledger \cap Fees # {} => FeeAt(job[It].of) < p + 1
  PROVE  Progress(r, s, p + 1)
<1>1. PICK j : j = job[It]
  OBVIOUS
<1>2. /\ j \in DemoJob /\ s \in Scripts /\ s = "payments" /\ p \in Nat /\ Fits(s, p, Now) /\ Progress(j, s, p)
      /\ MadeBy(j.of) = s
  BY <1>1, PaymentAtHand DEF Paying
<1>3. Now.op \notin {"quote", "accept", "method", "cash"}
  BY DEF Paying
<1>4. Progress(j, s, p + 1)
  BY <1>2, <1>3, ProgressOn
<1> QED BY <1>1, <1>2, <1>4 DEF Progress

\* Work starts before any fee.
LEMMA StartIsRight ==
  ASSUME DemoInv, run # NoScript, NEW s, NEW p, s = run.script, p = run.pc, AdvanceToInProgress, cut' = cut
  PROVE  Now.op \in Paying /\ \E r : RightStep(It, r, s, p) /\ WithJob(r)
<1>1. Now.op = "start" /\ Now.op \in Paying
  BY DEF AdvanceToInProgress, Ready, Paying
<1>2. PICK j : j = job[It]
  OBVIOUS
<1>3. /\ j \in DemoJob /\ j.of = Now.deal /\ MadeBy(j.of) = s /\ s = "payments" /\ p \in Nat /\ PayFit(s, p, Now)
      /\ WorkRules(j) /\ Progress(j, s, p) /\ FeeAt(j.of) \in Nat
  BY <1>1, <1>2, PaymentAtHand
<1>4. PICK r : r = [j EXCEPT !.eng = "IN_PROGRESS"]
  OBVIOUS
<1>5. WithJob(r)
  BY <1>2, <1>4 DEF AdvanceToInProgress
<1>6. /\ r \in DemoJob /\ OnlyWork(j, r) /\ r.eng = "IN_PROGRESS" /\ r.of = j.of /\ r.request = j.request
      /\ r.method = j.method /\ r.stamps = j.stamps /\ r.attempt = j.attempt /\ r.ledger = j.ledger
      /\ r.review = j.review
  <2>1. j \in DemoJob
    BY <1>3
  <2> QED BY <1>4, <2>1 DEF DemoJob, OnlyWork
<1>7. r.ledger \cap Fees = {} /\ \A q \in Sides : r.review[q] = "none"
  <2>1. p < FeeAt(j.of)
    BY <1>1, <1>3 DEF PayFit
  <2> QED BY <1>3, <1>6, <2>1 DEF Progress
<1>8. WorkRules(r)
  BY <1>3, <1>6, <1>7 DEF WorkRules
<1>9. Progress(r, s, p + 1)
  <2>1. Now.op \in Paying \ {"method", "cash"}
    BY <1>1
  <2> QED BY <1>2, <1>6, <1>7, <2>1, NoPaymentMade
<1> QED BY <1>1, <1>2, <1>5, <1>6, <1>7, <1>8, <1>9, PayIsRight

\* The method is chosen before a confirmation.
LEMMA MethodIsRight ==
  ASSUME DemoInv, run # NoScript, NEW s, NEW p, s = run.script, p = run.pc, SetMethod, cut' = cut
  PROVE  Now.op \in Paying /\ \E r : RightStep(It, r, s, p) /\ WithJob(r)
<1>1. Now.op = "method" /\ Now.op \in Paying
  BY DEF SetMethod, Ready, Paying
<1>2. PICK j : j = job[It]
  OBVIOUS
<1>3. /\ j \in DemoJob /\ JobOK(j, s, p) /\ MadeBy(j.of) = s /\ s = "payments" /\ p \in Nat /\ PayFit(s, p, Now)
      /\ j.eng # "NONE" /\ WorkRules(j) /\ Progress(j, s, p) /\ FeeAt(j.of) \in Nat /\ MethodAt(j.of) \in Nat
  BY <1>1, <1>2, PaymentAtHand
<1>4. PICK x : x = IF j.method = "NONE" THEN "CASH" ELSE j.method
  OBVIOUS
<1>5. x = "CASH"
  BY <1>3, <1>4 DEF DemoJob
<1>6. PICK r : r = [j EXCEPT !.method = x]
  OBVIOUS
<1>7. WithJob(r)
  BY <1>2, <1>4, <1>6 DEF SetMethod
<1>8. /\ r \in DemoJob /\ OnlyWork(j, r) /\ r.eng = j.eng /\ r.of = j.of /\ r.request = j.request
      /\ r.method = "CASH" /\ r.stamps = j.stamps /\ r.attempt = j.attempt /\ r.ledger = j.ledger
      /\ r.review = j.review
  <2>1. j \in DemoJob
    BY <1>3
  <2> QED BY <1>5, <1>6, <2>1 DEF DemoJob, OnlyWork
<1>9. WorkRules(r)
  BY <1>3, <1>8 DEF WorkRules
<1>10. Progress(r, s, p + 1)
  <2>1. p # 13 /\ p # 15
    BY <1>1, <1>3 DEF PayFit
  <2>2. MadeAt(j.of) \in Nat
    BY DEF MadeAt
  <2> QED BY <1>3, <1>8, <2>1, <2>2 DEF Progress
<1>11. "demo" \notin cut /\ r.ledger \cap Fees # {} => r.eng = "CANCELLED"
  BY <1>3, <1>8 DEF JobOK
<1> QED BY <1>1, <1>2, <1>3, <1>7, <1>8, <1>9, <1>10, <1>11, PayIsRight

\* A party confirms the cash.
LEMMA CashIsRight ==
  ASSUME DemoInv, run # NoScript, NEW s, NEW p, s = run.script, p = run.pc, StampCash, cut' = cut
  PROVE  Now.op \in Paying /\ \E r : RightStep(It, r, s, p) /\ WithJob(r)
<1>1. Now.op = "cash" /\ Now.op \in Paying
  BY DEF StampCash, Ready, Paying
<1>2. PICK j : j = job[It]
  OBVIOUS
<1>3. /\ j \in DemoJob /\ JobOK(j, s, p) /\ j.of = Now.deal /\ MadeBy(j.of) = s /\ s = "payments"
      /\ p \in Nat /\ PayFit(s, p, Now) /\ j.of \in Deals
      /\ j.eng # "NONE" /\ WorkRules(j) /\ Progress(j, s, p) /\ FeeAt(j.of) \in Nat /\ MethodAt(j.of) \in Nat
  BY <1>1, <1>2, PaymentAtHand
<1>4. PICK x : x = j.stamps \cup {Now.by}
  OBVIOUS
<1>5. PICK y : y = IF j.attempt = "NONE" THEN "PENDING" ELSE j.attempt
  OBVIOUS
<1>6. Now.by \in Sides /\ MethodAt(j.of) < p
  BY <1>1, <1>3 DEF PayFit
<1>7. x \in SUBSET Sides /\ y \in {"NONE", "PENDING", "APPROVED"} /\ (y = "APPROVED" <=> j.attempt = "APPROVED")
  <2>1. j.stamps \in SUBSET Sides /\ j.attempt \in {"NONE", "PENDING", "APPROVED"}
    BY <1>3 DEF DemoJob
  <2> QED BY <1>4, <1>5, <1>6, <2>1
<1>8. PICK r : r = [j EXCEPT !.stamps = x, !.attempt = y]
  OBVIOUS
<1>9. WithJob(r)
  BY <1>2, <1>4, <1>5, <1>8 DEF StampCash
<1>10. /\ r \in DemoJob /\ OnlyWork(j, r) /\ r.eng = j.eng /\ r.of = j.of /\ r.request = j.request
       /\ r.method = j.method /\ r.stamps = x /\ r.attempt = y /\ r.ledger = j.ledger
       /\ r.review = j.review
  <2>1. j \in DemoJob /\ x \in SUBSET Sides /\ y \in {"NONE", "PENDING", "APPROVED"}
    BY <1>3, <1>7
  <2> QED BY <1>8, <2>1 DEF DemoJob, OnlyWork
<1>11. j.method = "CASH" /\ (j.stamps = Sides => x = Sides) /\ Now.by \in x /\ j.stamps \subseteq x
  BY <1>3, <1>4, <1>6, <1>7 DEF Progress
<1>12. WorkRules(r)
  BY <1>3, <1>7, <1>10, <1>11 DEF WorkRules
<1>13. Progress(r, s, p + 1)
  <2>1. (p = 13 => Now.by = "CUSTOMER") /\ (p = 15 => Now.by = "PROFESSIONAL")
    BY <1>3 DEF PayFit
  <2>2. MadeAt(j.of) \in Nat
    BY DEF MadeAt
  <2> QED BY <1>3, <1>10, <1>11, <2>1, <2>2 DEF Progress
<1>14. "demo" \notin cut /\ r.ledger \cap Fees # {} => r.eng = "CANCELLED"
  BY <1>3, <1>10 DEF JobOK
<1> QED BY <1>1, <1>2, <1>3, <1>9, <1>10, <1>12, <1>13, <1>14, PayIsRight

\* The debt is recorded when both have.
LEMMA DebtIsRight ==
  ASSUME DemoInv, run # NoScript, NEW s, NEW p, s = run.script, p = run.pc, RecordDebt, cut' = cut
  PROVE  Now.op \in Paying /\ \E r : RightStep(It, r, s, p) /\ WithJob(r)
<1>1. Now.op = "debt" /\ Now.op \in Paying
  BY DEF RecordDebt, Ready, Paying
<1>2. PICK j : j = job[It]
  OBVIOUS
<1>3. /\ j \in DemoJob /\ JobOK(j, s, p) /\ j.of = Now.deal /\ MadeBy(j.of) = s /\ s = "payments"
      /\ p \in Nat /\ PayFit(s, p, Now)
      /\ j.eng # "NONE" /\ WorkRules(j) /\ Progress(j, s, p) /\ FeeAt(j.of) \in Nat
  BY <1>1, <1>2, PaymentAtHand
<1>4. PICK x : x = j.ledger \cup {"CASH_COMMISSION_DEBT"}
  OBVIOUS
<1>5. x \in SUBSET DemoEntries /\ "CASH_COMMISSION_DEBT" \in x /\ x \cap Fees = j.ledger \cap Fees
  <2>1. j.ledger \in SUBSET DemoEntries
    BY <1>3 DEF DemoJob
  <2>2. \A e : e \in x <=> e \in j.ledger \/ e = "CASH_COMMISSION_DEBT"
    BY <1>4
  <2>3. "CASH_COMMISSION_DEBT" \in DemoEntries /\ "CASH_COMMISSION_DEBT" \notin Fees
    BY DEF Fees, DemoEntries
  <2>4. \A e : e \in x \cap Fees <=> e \in j.ledger \cap Fees
    BY <2>2, <2>3
  <2> QED BY <2>1, <2>2, <2>3, <2>4
<1>6. PICK r : r = [j EXCEPT !.attempt = "APPROVED", !.ledger = x]
  OBVIOUS
<1>7. WithJob(r)
  BY <1>2, <1>4, <1>6 DEF RecordDebt
<1>8. /\ r \in DemoJob /\ OnlyWork(j, r) /\ r.eng = j.eng /\ r.of = j.of /\ r.request = j.request
      /\ r.method = j.method /\ r.stamps = j.stamps /\ r.attempt = "APPROVED" /\ r.ledger = x
      /\ r.review = j.review
  <2>1. j \in DemoJob /\ x \in SUBSET DemoEntries
    BY <1>3, <1>5
  <2> QED BY <1>6, <2>1 DEF DemoJob, OnlyWork
<1>9. j.stamps = Sides
  <2>1. j.of = "paid" /\ 15 < p
    BY <1>1, <1>3 DEF PayFit
  <2>2. "CUSTOMER" \in j.stamps /\ "PROFESSIONAL" \in j.stamps
    BY <1>3, <2>1 DEF Progress
  <2>3. j.stamps \in SUBSET Sides
    BY <1>3 DEF DemoJob
  <2> QED BY <2>2, <2>3 DEF Sides
<1>10. WorkRules(r)
  BY <1>3, <1>5, <1>8, <1>9 DEF WorkRules
<1>11. Progress(r, s, p + 1)
  <2>1. Now.op \in Paying \ {"method", "cash"}
    BY <1>1
  <2>2. r.ledger \cap Fees # {} => FeeAt(j.of) < p + 1
    BY <1>3, <1>5, <1>8 DEF Progress
  <2> QED BY <1>2, <1>8, <2>1, <2>2, NoPaymentMade
<1>12. "demo" \notin cut /\ r.ledger \cap Fees # {} => r.eng = "CANCELLED"
  BY <1>3, <1>5, <1>8 DEF JobOK
<1> QED BY <1>1, <1>2, <1>3, <1>7, <1>8, <1>10, <1>11, <1>12, PayIsRight

\* A deal that is cancelled has its entries.
LEMMA FeeIsRight ==
  ASSUME DemoInv, run # NoScript, NEW s, NEW p, s = run.script, p = run.pc,
         CancelByCustomer \/ CancelByProfessional, cut' = cut
  PROVE  Now.op \in Paying /\ \E r : RightStep(It, r, s, p) /\ WithJob(r)
<1>1. Now.op \in {"cancelByCustomer", "cancelByProfessional"} /\ Now.op \in Paying
  BY DEF CancelByCustomer, CancelByProfessional, Ready, Paying
<1>2. PICK j : j = job[It]
  OBVIOUS
<1>3. /\ j \in DemoJob /\ j.of = Now.deal /\ MadeBy(j.of) = s /\ s = "payments" /\ p \in Nat /\ PayFit(s, p, Now)
      /\ WorkRules(j) /\ Progress(j, s, p) /\ FeeAt(j.of) \in Nat
  BY <1>1, <1>2, PaymentAtHand
<1>4. PICK x : x = IF CancelByCustomer
                   THEN j.ledger \cup {"CUSTOMER_CANCELLATION_FEE", "PLATFORM_COMMISSION", "PROFESSIONAL_NET_CREDIT"}
                   ELSE j.ledger \cup {"REFUND"}
  OBVIOUS
<1>5. x \in SUBSET DemoEntries /\ ("CASH_COMMISSION_DEBT" \in x <=> "CASH_COMMISSION_DEBT" \in j.ledger)
  <2>1. j.ledger \in SUBSET DemoEntries
    BY <1>3 DEF DemoJob
  <2>2. \/ x = j.ledger \cup {"CUSTOMER_CANCELLATION_FEE", "PLATFORM_COMMISSION", "PROFESSIONAL_NET_CREDIT"}
        \/ x = j.ledger \cup {"REFUND"}
    BY <1>4
  <2>3. CASE x = j.ledger \cup {"CUSTOMER_CANCELLATION_FEE", "PLATFORM_COMMISSION", "PROFESSIONAL_NET_CREDIT"}
    <3>1. {"CUSTOMER_CANCELLATION_FEE", "PLATFORM_COMMISSION", "PROFESSIONAL_NET_CREDIT"} \subseteq DemoEntries
      BY DEF DemoEntries
    <3>2. x \in SUBSET DemoEntries
      BY <2>1, <2>3, <3>1
    <3>3. "CASH_COMMISSION_DEBT" \in x <=> "CASH_COMMISSION_DEBT" \in j.ledger
      BY <2>3
    <3> QED BY <3>2, <3>3
  <2>4. CASE x = j.ledger \cup {"REFUND"}
    <3>1. {"REFUND"} \subseteq DemoEntries
      BY DEF DemoEntries
    <3>2. x \in SUBSET DemoEntries
      BY <2>1, <2>4, <3>1
    <3>3. "CASH_COMMISSION_DEBT" \in x <=> "CASH_COMMISSION_DEBT" \in j.ledger
      BY <2>4
    <3> QED BY <3>2, <3>3
  <2> QED BY <2>2, <2>3, <2>4
<1>6. PICK r : r = [j EXCEPT !.eng = "CANCELLED", !.ledger = x]
  OBVIOUS
<1>7. WithJob(r)
  BY <1>2, <1>4, <1>6 DEF CancelByCustomer, CancelByProfessional
<1>8. /\ r \in DemoJob /\ OnlyWork(j, r) /\ r.eng = "CANCELLED" /\ r.of = j.of /\ r.request = j.request
      /\ r.method = j.method /\ r.stamps = j.stamps /\ r.attempt = j.attempt /\ r.ledger = x
      /\ r.review = j.review
  <2>1. j \in DemoJob /\ x \in SUBSET DemoEntries
    BY <1>3, <1>5
  <2> QED BY <1>6, <2>1 DEF DemoJob, OnlyWork
<1>9. j.of \in {"fee", "refund"} /\ p = FeeAt(j.of) /\ \A q \in Sides : j.review[q] = "none"
  BY <1>1, <1>3 DEF PayFit, Progress
<1>10. WorkRules(r)
  BY <1>3, <1>5, <1>8, <1>9 DEF WorkRules
<1>11. Progress(r, s, p + 1)
  <2>1. Now.op \in Paying \ {"method", "cash"}
    BY <1>1
  <2>2. FeeAt(j.of) < p + 1
    BY <1>3, <1>9
  <2> QED BY <1>2, <1>8, <2>1, <2>2, NoPaymentMade
<1> QED BY <1>1, <1>2, <1>7, <1>8, <1>10, <1>11, PayIsRight

\* What a script does to a deal of another one.
OnlyFollowUp(j, r) ==
  /\ r.of = j.of /\ r.request = j.request /\ r.quote = j.quote /\ r.agreed = j.agreed /\ r.asked = j.asked
  /\ r.method = j.method /\ r.stamps = j.stamps /\ r.attempt = j.attempt /\ r.ledger = j.ledger
  /\ r.eng = j.eng \/ r.eng = "COMPLETED"
  /\ r.review = j.review \/ r.eng = "COMPLETED"
  /\ \A q \in Sides : \/ r.review[q] = j.review[q]
                      \/ j.review[q] = "none"
                      \/ j.review[q] \notin {"none", "rated"} /\ r.review[q] \notin {"none", "rated"}
  /\ j.marked => r.marked
  /\ HasCancelledVisit(j) => HasCancelledVisit(r)

\* Such a statement has to add no message and no visit too many.
LEMMA FollowUpIsRight ==
  ASSUME DemoInv, run # NoScript, NEW s, NEW p, s = run.script, p = run.pc, Now.op \in Following,
         cut' = cut, NEW r \in DemoJob, WithJob(r), OnlyFollowUp(job[It], r),
         s # "chat" => r.chat = job[It].chat, s # "appointments" => r.visit = job[It].visit,
         "chat" \notin cut => r.chat <= 4, "appointments" \notin cut => Len(r.visit) <= 2,
         Followed(r, s, p + 1),
         Now.op = "chatMarker" => r.marked, Now.op = "cancelVisit" => HasCancelledVisit(r),
         Now.op = "complete" => r.eng = "COMPLETED",
         Now.op \in {"comment", "commentMarker"} => r.review[Now.by] = "PENDING",
         \A q \in Sides : job[It].review[q] = "none" \/ r.review[q] # "none"
  PROVE  RightStep(It, r, s, p)
<1>1. PICK j : j = job[It]
  OBVIOUS
<1>2. /\ j \in DemoJob /\ JobOK(j, s, p) /\ j.eng # "NONE" /\ s \in {"chat", "appointments", "reviews"}
      /\ j.of \in {"patio", "garden", "sockets", "sr3", "sr4", "fee"}
      /\ j.of = "fee" => "demo" \in cut
  BY <1>1, DealThatWasFound
<1>3. OnlyFollowUp(j, r)
  BY <1>1
<1>4. QuoteRules(j) /\ PriceRules(j) /\ WorkRules(j)
  BY <1>2 DEF JobOK
<1>5. /\ r.of = j.of /\ r.request = j.request /\ r.quote = j.quote /\ r.agreed = j.agreed /\ r.asked = j.asked
      /\ r.ledger = j.ledger /\ r.eng # "NONE"
  BY <1>2, <1>3 DEF OnlyFollowUp
<1>6. QuoteRules(r) /\ PriceRules(r)
  BY <1>2, <1>4, <1>5, BidsKept
<1>7. MadeBy(j.of) # s /\ (MadeBy(j.of) = "payments" <=> j.of = "fee")
  BY <1>2 DEF MadeBy
<1>8. WorkRules(r)
  BY <1>3, <1>4 DEF WorkRules, OnlyFollowUp
<1>9. "demo" \notin cut => r.ledger \cap Fees = {}
  BY <1>2, <1>4, <1>5 DEF WorkRules
<1>10. JobOK(r, s, p + 1)
  <2>1. Progress(r, s, p + 1)
    BY <1>5, <1>7 DEF Progress
  <2>2. MadeBy(r.of) = "demo" => "maria" \in users
    BY <1>2, <1>5 DEF JobOK
  <2> QED BY <1>6, <1>8, <1>9, <2>1, <2>2 DEF JobOK
<1>11. JobOK(r, s, p + 1)'
  BY <1>10, JobOKAfter DEF WithJob
<1>12. Grows(job[It], r)
  BY <1>1, <1>3, <1>5 DEF Grows, OnlyFollowUp
<1>13. LeavesTheRest(job[It], r)
  <2>1. r.eng # j.eng => j.eng = "ACCEPTED" \/ "demo" \in cut
    BY <1>2, <1>3, <1>4, <1>7 DEF WorkRules, OnlyFollowUp
  <2> QED BY <1>1, <1>3, <2>1 DEF LeavesTheRest, OnlyFollowUp
<1>14. /\ j.eng = "COMPLETED" => r.eng = "COMPLETED"
       /\ \A q \in Sides : j.review[q] \notin {"none", "rated"} => r.review[q] \notin {"none", "rated"}
  BY <1>3 DEF OnlyFollowUp
<1> QED BY <1>1, <1>11, <1>12, <1>13, <1>14 DEF RightStep

\* A message is the next of four.
LEMMA MessageIsRight ==
  ASSUME DemoInv, run # NoScript, NEW s, NEW p, s = run.script, p = run.pc, PostMessage, cut' = cut
  PROVE  Now.op \in Following /\ \E r : RightStep(It, r, s, p) /\ WithJob(r)
<1>1. Now.op \in {"chat", "chatMarker"} /\ Now.op \in Following
  BY DEF PostMessage, Ready, Following
<1>2. PICK j : j = job[It]
  OBVIOUS
<1>3. /\ j \in DemoJob /\ JobOK(j, s, p) /\ p \in Nat /\ Fits(s, p, Now)
      /\ s \in {"chat", "appointments"} => j.of = Now.deal /\ Now.deal \in Negotiated
  BY <1>1, <1>2, DealThatWasFound
<1>4. s = "chat" /\ ChatFrom(j.of) <= p /\ p < ChatFrom(j.of) + 4 /\ ChatFrom(j.of) \in Nat
  BY <1>1, <1>3 DEF Fits, FindFit, ChatFrom
<1>5. PICK c : c = j.chat + 1
  OBVIOUS
<1>6. PICK m : m = (j.marked \/ Now.op = "chatMarker")
  OBVIOUS
<1>7. j.chat \in Nat /\ c \in Nat /\ m \in BOOLEAN
  BY <1>3, <1>5, <1>6 DEF DemoJob
<1>8. PICK r : r = [j EXCEPT !.chat = c, !.marked = m]
  OBVIOUS
<1>9. WithJob(r)
  BY <1>2, <1>5, <1>6, <1>8 DEF PostMessage
<1>10. r \in DemoJob /\ r.chat = c /\ r.marked = m /\ r.visit = j.visit /\ r.of = j.of /\ r.review = j.review
  <2>1. j \in DemoJob /\ c \in Nat /\ m \in BOOLEAN
    BY <1>3, <1>7
  <2> QED BY <1>8, <2>1 DEF DemoJob
<1>11. OnlyFollowUp(j, r)
  <2>1. j \in DemoJob /\ (j.marked => m)
    BY <1>3, <1>6
  <2> QED BY <1>8, <2>1 DEF DemoJob, OnlyFollowUp, HasCancelledVisit
<1>12. "chat" \notin cut => c + ChatFrom(j.of) <= p + 1 /\ c <= 4
  BY <1>3, <1>4, <1>5, <1>7 DEF JobOK, Followed
<1>13. Followed(r, s, p + 1)
  BY <1>4, <1>10, <1>12 DEF Followed
<1>14. "appointments" \notin cut => Len(r.visit) <= 2
  BY <1>3, <1>10 DEF JobOK
<1>15. Now.op = "chatMarker" => r.marked
  BY <1>6, <1>10
<1>16. OnlyFollowUp(job[It], r) /\ r.visit = job[It].visit /\ r.review = job[It].review
  BY <1>2, <1>10, <1>11
<1>17. Now.op \notin {"cancelVisit", "complete", "comment", "commentMarker"}
  BY <1>1
<1> QED BY <1>1, <1>4, <1>9, <1>10, <1>12, <1>13, <1>14, <1>15, <1>16, <1>17, FollowUpIsRight

\* What a statement about the visits of a deal has to respect.
LEMMA VisitIsRight ==
  ASSUME DemoInv, run # NoScript, NEW s, NEW p, s = run.script, p = run.pc,
         Now.op \in {"visit", "confirm", "cancelVisit"}, cut' = cut,
         NEW q \in Seq(VisitStates), NEW r, r = [job[It] EXCEPT !.visit = q], WithJob(r),
         HasCancelledVisit(job[It]) => HasCancelledVisit(r),
         "appointments" \notin cut => Len(q) <= 2,
         Followed(r, s, p + 1), Now.op = "cancelVisit" => HasCancelledVisit(r)
  PROVE  RightStep(It, r, s, p)
<1>1. Now.op \in Following /\ Now.op \notin {"chatMarker", "complete", "comment", "commentMarker"}
  BY DEF Following
<1>2. PICK j : j = job[It]
  OBVIOUS
<1>3. j \in DemoJob /\ JobOK(j, s, p) /\ Fits(s, p, Now)
  BY <1>1, <1>2, DealThatWasFound
<1>4. s = "appointments"
  BY <1>3 DEF Fits, VisitFit
<1>5. r = [j EXCEPT !.visit = q]
  BY <1>2
<1>6. r \in DemoJob /\ r.chat = j.chat /\ r.review = j.review /\ r.visit = q
  <2>1. j \in DemoJob
    BY <1>3
  <2> QED BY <1>5, <2>1 DEF DemoJob
<1>7. OnlyFollowUp(j, r)
  <2>1. j \in DemoJob /\ (HasCancelledVisit(j) => HasCancelledVisit(r))
    BY <1>2, <1>3
  <2> QED BY <1>5, <2>1 DEF DemoJob, OnlyFollowUp
<1>8. "chat" \notin cut => r.chat <= 4
  BY <1>3, <1>6 DEF JobOK
<1>9. OnlyFollowUp(job[It], r) /\ r.chat = job[It].chat /\ r.review = job[It].review
  BY <1>2, <1>6, <1>7
<1> QED BY <1>1, <1>4, <1>6, <1>8, <1>9, FollowUpIsRight

\* The visits before such a statement.
LEMMA VisitAtHand ==
  ASSUME DemoInv, run # NoScript, NEW s, NEW p, s = run.script, p = run.pc,
         Now.op \in {"visit", "confirm", "cancelVisit"}
  PROVE  /\ job[It] \in DemoJob /\ JobOK(job[It], s, p) /\ p \in Nat /\ s = "appointments" /\ VisitFit(s, p, Now)
         /\ job[It].of = Now.deal /\ job[It].visit \in Seq(VisitStates) /\ Followed(job[It], s, p)
         /\ p <= 9 => ~ HasCancelledVisit(job[It])
<1>1. Now.op \in Following
  BY DEF Following
<1>2. PICK j : j = job[It]
  OBVIOUS
<1>3. /\ j \in DemoJob /\ JobOK(j, s, p) /\ p \in Nat /\ Fits(s, p, Now)
      /\ s \in {"chat", "appointments"} => j.of = Now.deal
  BY <1>1, <1>2, DealThatWasFound
<1>4. s = "appointments" /\ VisitFit(s, p, Now)
  BY <1>3 DEF Fits, VisitFit
<1>5. Followed(j, s, p) /\ j.visit \in Seq(VisitStates)
  BY <1>3 DEF JobOK, DemoJob
<1>6. p <= 9 => ~ HasCancelledVisit(j)
  BY <1>4, <1>5 DEF Followed
<1> QED BY <1>2, <1>3, <1>4, <1>5, <1>6

\* A visit is proposed.
LEMMA NewVisitIsRight ==
  ASSUME DemoInv, run # NoScript, NEW s, NEW p, s = run.script, p = run.pc, ProposeVisit, cut' = cut
  PROVE  Now.op \in Following /\ \E r : RightStep(It, r, s, p) /\ WithJob(r)
<1>1. Now.op = "visit" /\ Now.op \in Following
  BY DEF ProposeVisit, Ready, Following
<1>2. PICK j : j = job[It]
  OBVIOUS
<1>3. /\ j \in DemoJob /\ JobOK(j, s, p) /\ p \in Nat /\ s = "appointments" /\ VisitFit(s, p, Now)
      /\ j.of = Now.deal /\ j.visit \in Seq(VisitStates) /\ Followed(j, s, p)
      /\ p <= 9 => ~ HasCancelledVisit(j)
  BY <1>1, <1>2, VisitAtHand
<1>4. PICK q : q = Append(j.visit, "PENDING")
  OBVIOUS
<1>5. /\ q \in Seq(VisitStates) /\ Len(q) = Len(j.visit) + 1 /\ Len(j.visit) \in Nat
      /\ \A m \in DOMAIN j.visit : m \in DOMAIN q /\ q[m] = j.visit[m]
      /\ \A m \in DOMAIN q : q[m] = "PENDING" \/ (m \in DOMAIN j.visit /\ q[m] = j.visit[m])
  <2>1. "PENDING" \in VisitStates
    BY DEF VisitStates
  <2> QED BY <1>3, <1>4, <2>1
<1>6. PICK r : r = [j EXCEPT !.visit = q]
  OBVIOUS
<1>7. WithJob(r)
  BY <1>2, <1>4, <1>6 DEF ProposeVisit
<1>8. r.visit = q /\ r.of = j.of
  BY <1>3, <1>6 DEF DemoJob
<1>9. HasCancelledVisit(r) <=> HasCancelledVisit(j)
  BY <1>5, <1>8 DEF HasCancelledVisit
<1>10. q # <<>> /\ (j.visit = <<>> => Len(q) = 1)
  <2>1. Len(<<>>) = 0
    OBVIOUS
  <2> QED BY <1>5, <2>1
<1>11. \/ j.of = "patio" /\ p = 5
       \/ j.of = "garden" /\ p = 7
       \/ j.of = "sockets" /\ (p = 8 \/ p = 10)
  BY <1>1, <1>3 DEF VisitFit
<1>12. "appointments" \notin cut => /\ Len(q) <= 2
                                    /\ j.of = "sockets" /\ p = 8 => Len(q) <= 1
  BY <1>3, <1>5, <1>10, <1>11 DEF Followed
<1>13. Followed(r, s, p + 1)
  BY <1>3, <1>8, <1>9, <1>10, <1>11, <1>12 DEF Followed
<1> QED BY <1>1, <1>2, <1>5, <1>6, <1>7, <1>9, <1>12, <1>13, VisitIsRight

\* The last visit of a deal gets another state.
LEMMA LastVisit ==
  ASSUME NEW v \in Seq(VisitStates), NEW x \in VisitStates, NEW q, q = [v EXCEPT ![Len(v)] = x]
  PROVE  /\ q \in Seq(VisitStates) /\ Len(q) = Len(v) /\ DOMAIN q = DOMAIN v /\ (q = <<>> <=> v = <<>>)
         /\ \A m \in DOMAIN v : m # Len(v) => q[m] = v[m]
         /\ v # <<>> => Len(v) \in DOMAIN q /\ q[Len(v)] = x
<1>1. /\ Len(v) \in Nat /\ DOMAIN v = 1..Len(v)
      /\ \A m \in DOMAIN v : v[m] \in VisitStates
  OBVIOUS
<1>2. /\ DOMAIN q = DOMAIN v /\ \A m \in DOMAIN v : q[m] = IF m = Len(v) THEN x ELSE v[m]
  OBVIOUS
<1>3. q = [m \in DOMAIN q |-> q[m]]
  BY Zenon
<1>4. PICK c, n : c = q /\ n = Len(v)
  OBVIOUS
<1>5. c = [m \in 1..n |-> c[m]] /\ n \in Nat /\ \A m \in 1..n : c[m] \in VisitStates
  BY <1>1, <1>2, <1>3, <1>4
<1>6. q \in Seq(VisitStates) /\ Len(q) = Len(v)
  <2>1. c \in Seq(VisitStates) /\ Len(c) = n
    BY <1>5, BuiltFromEntries
  <2> QED BY <1>4, <2>1
<1>7. q = <<>> <=> v = <<>>
  BY <1>6
<1> QED BY <1>1, <1>2, <1>6, <1>7

\* A visit is confirmed before any is cancelled.
LEMMA ConfirmIsRight ==
  ASSUME DemoInv, run # NoScript, NEW s, NEW p, s = run.script, p = run.pc, ConfirmVisit, cut' = cut
  PROVE  Now.op \in Following /\ \E r : RightStep(It, r, s, p) /\ WithJob(r)
<1>1. Now.op = "confirm" /\ Now.op \in Following
  BY DEF ConfirmVisit, Ready, Following
<1>2. PICK j : j = job[It]
  OBVIOUS
<1>3. /\ j \in DemoJob /\ JobOK(j, s, p) /\ p \in Nat /\ s = "appointments" /\ VisitFit(s, p, Now)
      /\ j.visit \in Seq(VisitStates) /\ Followed(j, s, p)
      /\ p <= 9 => ~ HasCancelledVisit(j)
  BY <1>1, <1>2, VisitAtHand
<1>4. PICK q : q = [j.visit EXCEPT ![Len(j.visit)] = "CONFIRMED"]
  OBVIOUS
<1>5. /\ q \in Seq(VisitStates) /\ Len(q) = Len(j.visit) /\ DOMAIN q = DOMAIN j.visit /\ (q = <<>> <=> j.visit = <<>>)
      /\ \A m \in DOMAIN q : q[m] = "CONFIRMED" \/ q[m] = j.visit[m]
  <2>1. "CONFIRMED" \in VisitStates
    BY DEF VisitStates
  <2>2. PICK v : v = j.visit
    OBVIOUS
  <2>3. v \in Seq(VisitStates) /\ q = [v EXCEPT ![Len(v)] = "CONFIRMED"]
    BY <1>3, <1>4, <2>2
  <2>4. /\ q \in Seq(VisitStates) /\ Len(q) = Len(v) /\ DOMAIN q = DOMAIN v /\ (q = <<>> <=> v = <<>>)
        /\ v # <<>> => Len(v) \in DOMAIN q /\ q[Len(v)] = "CONFIRMED"
    BY <2>1, <2>3, LastVisit
  <2>5. ASSUME NEW m \in DOMAIN v, m # Len(v) PROVE q[m] = v[m]
    BY <2>1, <2>3, <2>5, LastVisit
  <2>6. v = <<>> => DOMAIN q = {}
    BY <2>4
  <2> QED BY <2>2, <2>4, <2>5, <2>6
<1>6. PICK r : r = [j EXCEPT !.visit = q]
  OBVIOUS
<1>7. WithJob(r)
  <2>1. WithJob([j EXCEPT !.visit[Len(j.visit)] = "CONFIRMED"])
    BY <1>2 DEF ConfirmVisit
  <2>2. r = [j EXCEPT !.visit[Len(j.visit)] = "CONFIRMED"]
    BY <1>3, <1>4, <1>6 DEF DemoJob
  <2> QED BY <2>1, <2>2
<1>8. r.visit = q /\ r.of = j.of
  BY <1>3, <1>6 DEF DemoJob
<1>9. p = 6
  BY <1>1, <1>3 DEF VisitFit
<1>10. ~ HasCancelledVisit(j) /\ ~ HasCancelledVisit(r)
  <2>1. ~ HasCancelledVisit(j)
    BY <1>3, <1>9
  <2> QED BY <1>5, <1>8, <2>1 DEF HasCancelledVisit
<1>11. Followed(r, s, p + 1)
  BY <1>3, <1>5, <1>8, <1>9, <1>10 DEF Followed
<1>12. "appointments" \notin cut => Len(q) <= 2
  BY <1>3, <1>5 DEF JobOK
<1> QED BY <1>1, <1>2, <1>5, <1>6, <1>7, <1>10, <1>11, <1>12, VisitIsRight

\* One visit is cancelled.
LEMMA CancelledVisitIsRight ==
  ASSUME DemoInv, run # NoScript, NEW s, NEW p, s = run.script, p = run.pc, CancelVisit, cut' = cut
  PROVE  Now.op \in Following /\ \E r : RightStep(It, r, s, p) /\ WithJob(r)
<1>1. Now.op = "cancelVisit" /\ Now.op \in Following
  BY DEF CancelVisit, Ready, Following
<1>2. PICK j : j = job[It]
  OBVIOUS
<1>3. /\ j \in DemoJob /\ JobOK(j, s, p) /\ p \in Nat /\ s = "appointments" /\ VisitFit(s, p, Now)
      /\ j.of = Now.deal /\ j.visit \in Seq(VisitStates) /\ Followed(j, s, p)
  BY <1>1, <1>2, VisitAtHand
<1>4. PICK q : q = [j.visit EXCEPT ![Len(j.visit)] = "CANCELLED"]
  OBVIOUS
<1>5. p = 9 /\ j.of = "sockets" /\ j.visit # <<>>
  BY <1>1, <1>3 DEF VisitFit, Followed
<1>6. /\ q \in Seq(VisitStates) /\ Len(q) = Len(j.visit) /\ q # <<>> /\ Len(j.visit) \in DOMAIN q
      /\ q[Len(j.visit)] = "CANCELLED"
  <2>1. "CANCELLED" \in VisitStates
    BY DEF VisitStates
  <2> QED BY <1>3, <1>4, <1>5, <2>1, LastVisit
<1>7. PICK r : r = [j EXCEPT !.visit = q]
  OBVIOUS
<1>8. WithJob(r)
  <2>1. WithJob([j EXCEPT !.visit[Len(j.visit)] = "CANCELLED"])
    BY <1>2 DEF CancelVisit
  <2>2. r = [j EXCEPT !.visit[Len(j.visit)] = "CANCELLED"]
    BY <1>3, <1>4, <1>7 DEF DemoJob
  <2> QED BY <2>1, <2>2
<1>9. r.visit = q /\ r.of = j.of
  BY <1>3, <1>7 DEF DemoJob
<1>10. HasCancelledVisit(r)
  BY <1>6, <1>9 DEF HasCancelledVisit
<1>11. Followed(r, s, p + 1)
  BY <1>3, <1>5, <1>6, <1>9 DEF Followed
<1>12. "appointments" \notin cut => Len(q) <= 2
  BY <1>3, <1>6 DEF JobOK
<1> QED BY <1>1, <1>2, <1>6, <1>7, <1>8, <1>10, <1>11, <1>12, VisitIsRight

\* The deal before a statement of the last script about one.
LEMMA ReviewAtHand ==
  ASSUME DemoInv, run # NoScript, NEW s, NEW p, s = run.script, p = run.pc,
         Now.op \in {"complete", "review", "comment", "commentMarker", "moderate"}
  PROVE  /\ Now.op \in Following /\ job[It] \in DemoJob /\ s = "reviews" /\ ReviewFit(s, p, Now)
         /\ It = Oldest(Now.deal)
         /\ "chat" \notin cut => job[It].chat <= 4
         /\ "appointments" \notin cut => Len(job[It].visit) <= 2
         /\ Now.op # "complete" => Now.by \in Sides /\ job[It].eng = "COMPLETED"
         /\ Now.op = "moderate" => job[It].review[Now.by] \notin {"none", "rated"}
<1>1. Now.op \in Following
  BY DEF Following
<1>2. PICK j : j = job[It]
  OBVIOUS
<1>3. /\ j \in DemoJob /\ JobOK(j, s, p) /\ Fits(s, p, Now) /\ Now.deal \in FoundBy(s) /\ It = Oldest(Now.deal)
  BY <1>1, <1>2, DealThatWasFound
<1>4. s = "reviews" /\ ReviewFit(s, p, Now)
  BY <1>3 DEF Fits, ReviewFit
<1>5. Reviewed(s, p)
  BY DEF DemoInv, Before
<1>6. Now.op # "complete" => Now.by \in Sides /\ j.eng = "COMPLETED"
  BY <1>2, <1>3, <1>4, <1>5 DEF ReviewFit, Reviewed
<1>7. Now.op = "moderate" => j.review[Now.by] \notin {"none", "rated"}
  BY <1>2, <1>3, <1>4, <1>5 DEF ReviewFit, Reviewed
<1>8. ("chat" \notin cut => j.chat <= 4) /\ ("appointments" \notin cut => Len(j.visit) <= 2)
  BY <1>3 DEF JobOK
<1> QED BY <1>1, <1>2, <1>3, <1>4, <1>6, <1>7, <1>8

\* The work is completed.
LEMMA CompleteIsRight ==
  ASSUME DemoInv, run # NoScript, NEW s, NEW p, s = run.script, p = run.pc, CompleteEngagement, cut' = cut
  PROVE  Now.op \in Following /\ \E r : RightStep(It, r, s, p) /\ WithJob(r)
<1>1. Now.op = "complete"
  BY DEF CompleteEngagement, Ready
<1>2. PICK j : j = job[It]
  OBVIOUS
<1>3. /\ Now.op \in Following /\ j \in DemoJob /\ s = "reviews"
      /\ "chat" \notin cut => j.chat <= 4
      /\ "appointments" \notin cut => Len(j.visit) <= 2
  BY <1>1, <1>2, ReviewAtHand
<1>4. PICK r : r = [j EXCEPT !.eng = "COMPLETED"]
  OBVIOUS
<1>5. WithJob(r)
  BY <1>2, <1>4 DEF CompleteEngagement
<1>6. /\ r \in DemoJob /\ OnlyFollowUp(j, r) /\ r.chat = j.chat /\ r.visit = j.visit /\ r.review = j.review
      /\ r.eng = "COMPLETED"
  <2>1. j \in DemoJob
    BY <1>3
  <2> QED BY <1>4, <2>1 DEF DemoJob, OnlyFollowUp, HasCancelledVisit
<1>7. Followed(r, s, p + 1)
  BY <1>3 DEF Followed
<1>8. /\ "chat" \notin cut => r.chat <= 4
      /\ "appointments" \notin cut => Len(r.visit) <= 2
  BY <1>3, <1>6
<1>9. OnlyFollowUp(job[It], r) /\ r.chat = job[It].chat /\ r.visit = job[It].visit /\ r.review = job[It].review
  BY <1>2, <1>6
<1> QED BY <1>1, <1>3, <1>5, <1>6, <1>7, <1>8, <1>9, FollowUpIsRight

\* What a statement about a review has to respect.
LEMMA ReviewIsRight ==
  ASSUME DemoInv, run # NoScript, NEW s, NEW p, s = run.script, p = run.pc,
         Now.op \in {"review", "comment", "commentMarker", "moderate"}, cut' = cut,
         NEW x \in ReviewStates \ {"none"}, NEW r, r = [job[It] EXCEPT !.review[Now.by] = x], WithJob(r),
         \/ job[It].review[Now.by] = "none"
         \/ job[It].review[Now.by] # "rated" /\ x # "rated",
         Now.op \in {"comment", "commentMarker"} => x = "PENDING"
  PROVE  RightStep(It, r, s, p)
<1>1. PICK j : j = job[It]
  OBVIOUS
<1>2. /\ Now.op \in Following /\ j \in DemoJob /\ s = "reviews" /\ Now.by \in Sides /\ j.eng = "COMPLETED"
      /\ "chat" \notin cut => j.chat <= 4
      /\ "appointments" \notin cut => Len(j.visit) <= 2
  BY <1>1, ReviewAtHand
<1>3. PICK v : v = [j.review EXCEPT ![Now.by] = x]
  OBVIOUS
<1>4. /\ v \in [Sides -> ReviewStates] /\ v[Now.by] = x
      /\ \A q \in Sides : q # Now.by => v[q] = j.review[q]
  <2>1. j.review \in [Sides -> ReviewStates]
    BY <1>2 DEF DemoJob
  <2> QED BY <1>2, <1>3, <2>1
<1>5. r = [j EXCEPT !.review = v]
  BY <1>1, <1>2, <1>3 DEF DemoJob
<1>6. /\ r \in DemoJob /\ r.review = v /\ r.eng = "COMPLETED" /\ r.chat = j.chat /\ r.visit = j.visit
  <2>1. j \in DemoJob /\ v \in [Sides -> ReviewStates]
    BY <1>2, <1>4
  <2>2. r \in DemoJob /\ r.review = v /\ r.eng = j.eng /\ r.chat = j.chat /\ r.visit = j.visit
    BY <1>5, <2>1 DEF DemoJob
  <2> QED BY <1>2, <2>2
<1>7. \A q \in Sides : \/ v[q] = j.review[q]
                       \/ j.review[q] = "none"
                       \/ j.review[q] \notin {"none", "rated"} /\ v[q] \notin {"none", "rated"}
  <2>1. j.review[Now.by] = "none" \/ (j.review[Now.by] # "rated" /\ x # "rated")
    BY <1>1
  <2> QED BY <1>4, <2>1
<1>8. OnlyFollowUp(j, r)
  <2>1. j \in DemoJob
    BY <1>2
  <2>2. /\ r.of = j.of /\ r.request = j.request /\ r.quote = j.quote /\ r.agreed = j.agreed /\ r.asked = j.asked
        /\ r.method = j.method /\ r.stamps = j.stamps /\ r.attempt = j.attempt /\ r.ledger = j.ledger
        /\ r.marked = j.marked /\ r.visit = j.visit
    BY <1>5, <2>1 DEF DemoJob
  <2> QED BY <1>6, <1>7, <2>2 DEF OnlyFollowUp, HasCancelledVisit
<1>9. Followed(r, s, p + 1)
  BY <1>2 DEF Followed
<1>10. /\ "chat" \notin cut => r.chat <= 4
       /\ "appointments" \notin cut => Len(r.visit) <= 2
       /\ Now.op \in {"comment", "commentMarker"} => r.review[Now.by] = "PENDING"
  BY <1>2, <1>4, <1>6
<1>11. \A q \in Sides : j.review[q] = "none" \/ r.review[q] # "none"
  BY <1>4, <1>6, <1>7
<1>12. /\ OnlyFollowUp(job[It], r) /\ r.chat = job[It].chat /\ r.visit = job[It].visit
       /\ \A q \in Sides : job[It].review[q] = "none" \/ r.review[q] # "none"
  BY <1>1, <1>6, <1>8, <1>11
<1>13. Now.op \notin {"chatMarker", "cancelVisit", "complete"}
  OBVIOUS
<1> QED BY <1>2, <1>6, <1>9, <1>10, <1>12, <1>13, FollowUpIsRight

\* A party is reviewed once ...
LEMMA RatingIsRight ==
  ASSUME DemoInv, run # NoScript, NEW s, NEW p, s = run.script, p = run.pc, SubmitReview, cut' = cut
  PROVE  Now.op \in Following /\ \E r : RightStep(It, r, s, p) /\ WithJob(r)
<1>1. Now.op \in {"review", "comment", "commentMarker"} /\ Now.op \in Following
  BY DEF SubmitReview, Ready, Following
<1>2. job[It].review[Now.by] = "none"
  BY <1>1 DEF SubmitReview, Refused
<1>3. PICK x : x = IF Now.op = "review" THEN "rated" ELSE "PENDING"
  OBVIOUS
<1>4. PICK r : r = [job[It] EXCEPT !.review[Now.by] = x]
  OBVIOUS
<1>5. WithJob(r)
  BY <1>3, <1>4 DEF SubmitReview
<1>6. x \in ReviewStates \ {"none"} /\ (Now.op \in {"comment", "commentMarker"} => x = "PENDING")
  BY <1>3 DEF ReviewStates
<1> QED BY <1>1, <1>2, <1>4, <1>5, <1>6, ReviewIsRight

\* ... and only a comment is moderated.
LEMMA ModerationIsRight ==
  ASSUME DemoInv, run # NoScript, NEW s, NEW p, s = run.script, p = run.pc, ModerateReview, cut' = cut
  PROVE  Now.op \in Following /\ \E r : RightStep(It, r, s, p) /\ WithJob(r)
<1>1. Now.op = "moderate" /\ Now.op \in Following
  BY DEF ModerateReview, Ready, Following
<1>2. job[It].review[Now.by] \notin {"none", "rated"}
  BY <1>1, ReviewAtHand
<1>3. PICK x : x = IF Now.deal = "sockets" THEN "APPROVED" ELSE "REJECTED"
  OBVIOUS
<1>4. PICK r : r = [job[It] EXCEPT !.review[Now.by] = x]
  OBVIOUS
<1>5. WithJob(r)
  BY <1>3, <1>4 DEF ModerateReview
<1>6. x \in ReviewStates \ {"none"} /\ x # "rated"
  BY <1>3 DEF ReviewStates
<1> QED BY <1>1, <1>2, <1>4, <1>5, <1>6, ReviewIsRight

\* The statement that makes a deal makes it as a service would.
LEMMA DealAtItsMaking ==
  ASSUME DemoInv, run # NoScript, NEW s, NEW p, s = run.script, p = run.pc, Now.op \in {"ask", "engage"}
  PROVE  /\ Now.deal \in Deals /\ MadeBy(Now.deal) = s /\ p = MadeAt(Now.deal) /\ p \in Nat
         /\ Now.op = "engage" <=> s = "payments"
         /\ s \in {"demo", "negotiation", "payments"}
         /\ s = "demo" => "maria" \in users
<1>1. p \in Nat /\ Fits(s, p, Now) /\ Made(s, p)
  BY NowFits DEF DemoInv, Before
<1>2. /\ Now.deal \in Deals /\ MadeBy(Now.deal) = s /\ p = MadeAt(Now.deal)
      /\ Now.op = "engage" <=> s = "payments"
  BY <1>1 DEF Fits, MakeFit
<1>3. s \in {"demo", "negotiation", "payments"}
  BY <1>2 DEF MadeBy
<1>4. s = "demo" => 2 < p
  BY <1>2 DEF MadeBy, MadeAt
<1> QED BY <1>1, <1>2, <1>3, <1>4 DEF Made

\* A new request.
LEMMA AskIsRight ==
  ASSUME DemoInv, run # NoScript, NEW s, NEW p, s = run.script, p = run.pc, CreateServiceRequest, cut' = cut
  PROVE  job' \in Seq(DemoJob) /\ Kept /\ Before(s, p + 1)'
<1>1. Now.op = "ask" /\ UNCHANGED <<users, profiles, cut>>
  BY DEF CreateServiceRequest, Ready
<1>2. /\ Now.deal \in Deals /\ MadeBy(Now.deal) = s /\ p = MadeAt(Now.deal) /\ p \in Nat
      /\ s \in {"demo", "negotiation"} /\ (s = "demo" => "maria" \in users)
  BY <1>1, DealAtItsMaking
<1>3. PICK d : d = Now.deal
  OBVIOUS
<1>4. PICK r : r = NewJob(d)
  OBVIOUS
<1>5. /\ r \in DemoJob /\ r.of = d /\ r.request = "OPEN" /\ r.eng = "NONE" /\ r.quote = <<>> /\ r.asked = <<>>
      /\ r.agreed = {} /\ r.visit = <<>> /\ r.chat = 0 /\ r.marked = FALSE
      /\ r.stamps = {} /\ r.attempt = "NONE" /\ r.ledger = {} /\ \A q \in Sides : r.review[q] = "none"
  <2>1. <<>> \in Seq(QuoteStates) /\ <<>> \in Seq(DemoProposal) /\ <<>> \in Seq(VisitStates)
    OBVIOUS
  <2>2. [q \in Sides |-> "none"] \in [Sides -> ReviewStates]
    BY DEF ReviewStates
  <2>3. d \in Deals
    BY <1>2, <1>3
  <2> QED BY <1>4, <2>1, <2>2, <2>3 DEF NewJob, DemoJob
<1>6. QuoteRules(r) /\ PriceRules(r) /\ WorkRules(r)
  <2>1. DOMAIN r.quote = {} /\ DOMAIN r.asked = {} /\ MadeBy(r.of) # "payments"
    BY <1>2, <1>3, <1>5
  <2>2. QuoteRules(r)
    BY <1>5, <2>1 DEF QuoteRules
  <2>3. PriceRules(r)
    BY <1>5, <2>1 DEF PriceRules, PendingOn
  <2> QED BY <1>5, <2>1, <2>2, <2>3 DEF WorkRules
<1>7. Progress(r, s, p + 1)
  <2>1. d = "sr4" => ~ (46 < p + 1)
    BY <1>2, <1>3 DEF MadeAt
  <2> QED BY <1>2, <1>3, <1>5, <2>1 DEF Progress
<1>8. JobOK(r, s, p + 1)
  <2>1. Followed(r, s, p + 1)
    BY <1>2 DEF Followed
  <2>2. Len(r.visit) = 0
    BY <1>5
  <2> QED BY <1>2, <1>3, <1>5, <1>6, <1>7, <2>1, <2>2 DEF JobOK
<1>9. JobOK(r, s, p + 1)'
  BY <1>1, <1>8, JobOKAfter
<1>10. job' = Append(job, r)
  BY <1>3, <1>4 DEF CreateServiceRequest
<1> QED BY <1>1, <1>3, <1>5, <1>9, <1>10, DealAdded

\* A deal engaged in one transaction.
LEMMA EngageIsRight ==
  ASSUME DemoInv, run # NoScript, NEW s, NEW p, s = run.script, p = run.pc, CreateAcceptedEngagement, cut' = cut
  PROVE  job' \in Seq(DemoJob) /\ Kept /\ Before(s, p + 1)'
<1>1. Now.op = "engage" /\ UNCHANGED <<users, profiles, cut>>
  BY DEF CreateAcceptedEngagement, Ready
<1>2. /\ Now.deal \in Deals /\ MadeBy(Now.deal) = s /\ p = MadeAt(Now.deal) /\ p \in Nat /\ s = "payments"
  BY <1>1, DealAtItsMaking
<1>3. PICK d : d = Now.deal
  OBVIOUS
<1>4. PICK r : r = [NewJob(d) EXCEPT !.request = "ENGAGED", !.quote = <<"ACCEPTED">>, !.eng = "ACCEPTED"]
  OBVIOUS
<1>5. /\ r \in DemoJob /\ r.of = d /\ r.request = "ENGAGED" /\ r.eng = "ACCEPTED" /\ r.quote = <<"ACCEPTED">>
      /\ r.asked = <<>> /\ r.agreed = {} /\ r.visit = <<>> /\ r.chat = 0 /\ r.marked = FALSE
      /\ r.stamps = {} /\ r.attempt = "NONE" /\ r.ledger = {} /\ \A q \in Sides : r.review[q] = "none"
  <2>1. <<"ACCEPTED">> \in Seq(QuoteStates) /\ <<>> \in Seq(DemoProposal) /\ <<>> \in Seq(VisitStates)
    BY DEF QuoteStates
  <2>2. [q \in Sides |-> "none"] \in [Sides -> ReviewStates]
    BY DEF ReviewStates
  <2>3. d \in Deals
    BY <1>2, <1>3
  <2> QED BY <1>4, <2>1, <2>2, <2>3 DEF NewJob, DemoJob
<1>6. QuoteRules(r) /\ PriceRules(r) /\ WorkRules(r)
  <2>1. DOMAIN r.quote = {1} /\ r.quote[1] = "ACCEPTED" /\ DOMAIN r.asked = {}
    BY <1>5
  <2>2. QuoteRules(r)
    BY <1>5, <2>1 DEF QuoteRules, PendingOn
  <2>3. PriceRules(r)
    BY <1>5, <2>1 DEF PriceRules, PendingOn
  <2> QED BY <1>5, <2>2, <2>3 DEF WorkRules
<1>7. Progress(r, s, p + 1)
  <2>1. MethodAt(d) \in Nat /\ MadeAt(d) + 1 <= MethodAt(d)
    BY <1>2, <1>3 DEF MadeAt, MethodAt, MadeBy, Deals
  <2>2. d = "paid" => p = 10
    BY <1>2, <1>3 DEF MadeAt
  <2> QED BY <1>2, <1>3, <1>5, <2>1, <2>2 DEF Progress
<1>8. JobOK(r, s, p + 1)
  <2>1. Followed(r, s, p + 1)
    BY <1>2 DEF Followed
  <2>2. Len(r.visit) = 0
    BY <1>5
  <2> QED BY <1>2, <1>3, <1>5, <1>6, <1>7, <2>1, <2>2 DEF JobOK
<1>9. JobOK(r, s, p + 1)'
  BY <1>1, <1>8, JobOKAfter
<1>10. job' = Append(job, r)
  BY <1>3, <1>4 DEF CreateAcceptedEngagement
<1> QED BY <1>1, <1>3, <1>5, <1>9, <1>10, DealAdded

------------------------------------------------------------------------------
(* Every step                                                              *)

\* The statements that leave the deals alone.
Reading == {"upsert", "bootstrap", "user", "profile", "specialize", "look", "find", "findAdmin", "say",
            "enable", "enableOrCreate"}

\* Such a statement keeps what is behind the script ...
LEMMA ReadingIsRight ==
  ASSUME DemoInv, run # NoScript, NEW s, NEW p, s = run.script, p = run.pc, cut' = cut,
         UpsertRow \/ BootstrapAdmin \/ CreateUser \/ CreateProfile \/ ReadOrSay \/ EnableSwitch
  PROVE  Now.op \in Reading /\ job' \in Seq(DemoJob) /\ Kept /\ Before(s, p + 1)'
<1>1. Now.op \in Reading /\ job' = job
  BY DEF UpsertRow, BootstrapAdmin, CreateUser, CreateProfile, ReadOrSay, EnableSwitch, Ready, Reading, dbVars
<1>2. Now.op \notin Touching \cup Following \cup {"ask", "engage"}
  BY <1>1 DEF Reading, Touching, Following
<1>3. Fits(s, p, Now)
  BY NowFits DEF DemoInv
<1>4. users \subseteq users' /\ profiles \subseteq profiles'
  BY DEF UpsertRow, BootstrapAdmin, CreateUser, CreateProfile, ReadOrSay, EnableSwitch, dbVars
<1>5. s # "demo" => profiles' = profiles
  BY <1>3 DEF UpsertRow, BootstrapAdmin, CreateUser, CreateProfile, ReadOrSay, EnableSwitch, dbVars, Fits, RowFit, Ready
<1>6. Now.op = "user" => Now.deal \in users'
  BY DEF UpsertRow, BootstrapAdmin, CreateUser, CreateProfile, ReadOrSay, EnableSwitch, Ready
<1>7. Now.op \in {"look", "find"} => ~ Refused
  BY DEF UpsertRow, BootstrapAdmin, CreateUser, CreateProfile, ReadOrSay, EnableSwitch, Ready
<1>8. (Now.op = "look" => profiles # {}) /\ (Now.op = "find" => Matches(Now.deal) # {})
  BY <1>7 DEF Refused
<1> QED BY <1>1, <1>2, <1>4, <1>5, <1>6, <1>8, NothingWritten

\* The actions that write to one.
Writing ==
  \/ CreateQuote \/ DemoWithdrawQuote \/ DemoAcceptQuote \/ DemoCancelServiceRequest
  \/ PostProposal \/ DemoAcceptProposal \/ DemoRejectProposal
  \/ PostMessage \/ ProposeVisit \/ ConfirmVisit \/ CancelVisit
  \/ CompleteEngagement \/ SubmitReview \/ ModerateReview
  \/ AdvanceToInProgress \/ SetMethod \/ StampCash \/ RecordDebt
  \/ CancelByCustomer \/ CancelByProfessional

\* ... and so does one of these.
LEMMA WritingIsRight ==
  ASSUME DemoInv, run # NoScript, NEW s, NEW p, s = run.script, p = run.pc, Writing, cut' = cut
  PROVE  Now.op \in Touching \cup Following /\ \E r : RightStep(It, r, s, p) /\ WithJob(r)
<1>1. Bidding \subseteq Touching /\ Paying \subseteq Touching
  BY DEF Bidding, Paying, Touching
<1>2. CASE CreateQuote
  BY <1>1, <1>2, QuoteIsRight
<1>3. CASE DemoWithdrawQuote
  BY <1>1, <1>3, WithdrawIsRight
<1>4. CASE DemoAcceptQuote
  BY <1>1, <1>4, AcceptIsRight
<1>5. CASE DemoCancelServiceRequest
  BY <1>1, <1>5, CancelIsRight
<1>6. CASE PostProposal
  BY <1>1, <1>6, ProposeIsRight
<1>7. CASE DemoAcceptProposal \/ DemoRejectProposal
  BY <1>1, <1>7, AnswerIsRight
<1>8. CASE PostMessage
  BY <1>8, MessageIsRight
<1>9. CASE ProposeVisit
  BY <1>9, NewVisitIsRight
<1>10. CASE ConfirmVisit
  BY <1>10, ConfirmIsRight
<1>11. CASE CancelVisit
  BY <1>11, CancelledVisitIsRight
<1>12. CASE CompleteEngagement
  BY <1>12, CompleteIsRight
<1>13. CASE SubmitReview
  BY <1>13, RatingIsRight
<1>14. CASE ModerateReview
  BY <1>14, ModerationIsRight
<1>15. CASE AdvanceToInProgress
  BY <1>1, <1>15, StartIsRight
<1>16. CASE SetMethod
  BY <1>1, <1>16, MethodIsRight
<1>17. CASE StampCash
  BY <1>1, <1>17, CashIsRight
<1>18. CASE RecordDebt
  BY <1>1, <1>18, DebtIsRight
<1>19. CASE CancelByCustomer \/ CancelByProfessional
  BY <1>1, <1>19, FeeIsRight
<1> QED BY <1>2, <1>3, <1>4, <1>5, <1>6, <1>7, <1>8, <1>9, <1>10, <1>11, <1>12, <1>13, <1>14, <1>15, <1>16, <1>17,
           <1>18, <1>19 DEF Writing

\* Each statement is of a script at work, advances it and writes no row amiss.
LEMMA StatementAdvances ==
  ASSUME Statement, DemoTypes
  PROVE  /\ run # NoScript /\ Advance /\ users \subseteq users' /\ cut' = cut
         /\ row' = [k \in Keys |-> row'[k]]
<1>1. Advance
  BY DEF Statement, UpsertRow, BootstrapAdmin, CreateUser, CreateProfile, ReadOrSay, EnableSwitch,
         CreateServiceRequest, CreateQuote, DemoWithdrawQuote, DemoAcceptQuote, DemoCancelServiceRequest,
         PostProposal, DemoAcceptProposal, DemoRejectProposal, PostMessage, ProposeVisit, ConfirmVisit, CancelVisit,
         CompleteEngagement, SubmitReview, ModerateReview, CreateAcceptedEngagement, AdvanceToInProgress, SetMethod,
         StampCash, RecordDebt, CancelByCustomer, CancelByProfessional
<1>2. run.script # "none"
  BY DEF Statement, UpsertRow, BootstrapAdmin, CreateUser, CreateProfile, ReadOrSay, EnableSwitch,
         CreateServiceRequest, CreateQuote, DemoWithdrawQuote, DemoAcceptQuote, DemoCancelServiceRequest,
         PostProposal, DemoAcceptProposal, DemoRejectProposal, PostMessage, ProposeVisit, ConfirmVisit, CancelVisit,
         CompleteEngagement, SubmitReview, ModerateReview, CreateAcceptedEngagement, AdvanceToInProgress, SetMethod,
         StampCash, RecordDebt, CancelByCustomer, CancelByProfessional, Ready
<1>3. run # NoScript
  BY <1>2 DEF NoScript
<1>4. users \subseteq users'
  BY DEF Statement, UpsertRow, BootstrapAdmin, CreateUser, CreateProfile, ReadOrSay, EnableSwitch,
         CreateServiceRequest, CreateQuote, DemoWithdrawQuote, DemoAcceptQuote, DemoCancelServiceRequest,
         PostProposal, DemoAcceptProposal, DemoRejectProposal, PostMessage, ProposeVisit, ConfirmVisit, CancelVisit,
         CompleteEngagement, SubmitReview, ModerateReview, CreateAcceptedEngagement, AdvanceToInProgress, SetMethod,
         StampCash, RecordDebt, CancelByCustomer, CancelByProfessional, WithJob, dbVars
<1>5. row' = row \/ \E k, x : row' = [row EXCEPT ![k] = x]
  BY DEF Statement, UpsertRow, BootstrapAdmin, CreateUser, CreateProfile, ReadOrSay, EnableSwitch,
         CreateServiceRequest, CreateQuote, DemoWithdrawQuote, DemoAcceptQuote, DemoCancelServiceRequest,
         PostProposal, DemoAcceptProposal, DemoRejectProposal, PostMessage, ProposeVisit, ConfirmVisit, CancelVisit,
         CompleteEngagement, SubmitReview, ModerateReview, CreateAcceptedEngagement, AdvanceToInProgress, SetMethod,
         StampCash, RecordDebt, CancelByCustomer, CancelByProfessional, WithJob, dbVars
<1>6. row = [k \in Keys |-> row[k]]
  BY DEF DemoTypes
<1>7. row' = [k \in Keys |-> row'[k]]
  BY <1>5, <1>6
<1> QED BY <1>1, <1>3, <1>4, <1>7 DEF Advance

\* A statement is of one of four kinds.
LEMMA KindsOfStatement ==
  ASSUME Statement
  PROVE  \/ UpsertRow \/ BootstrapAdmin \/ CreateUser \/ CreateProfile \/ ReadOrSay \/ EnableSwitch
         \/ CreateServiceRequest \/ CreateAcceptedEngagement
         \/ Writing
BY DEF Statement, Writing

\* Every step keeps the invariant.
LEMMA DemoStep == DemoInv /\ [DemoNext]_demoVars => DemoInv'
<1> SUFFICES ASSUME DemoInv, [DemoNext]_demoVars PROVE DemoInv'
  OBVIOUS
<1>1. DemoTypes
  BY DEF DemoInv
<1>2. CASE Statement
  <2>1. /\ run # NoScript /\ Advance /\ users \subseteq users' /\ cut' = cut
        /\ row' = [k \in Keys |-> row'[k]]
    BY <1>1, <1>2, StatementAdvances
  <2>2. PICK s, p : s = run.script /\ p = run.pc
    OBVIOUS
  <2>3. job' \in Seq(DemoJob) /\ Kept /\ Before(s, p + 1)'
    <3>1. CASE UpsertRow \/ BootstrapAdmin \/ CreateUser \/ CreateProfile \/ ReadOrSay \/ EnableSwitch
      BY <2>1, <2>2, <3>1, ReadingIsRight
    <3>2. CASE CreateServiceRequest
      BY <2>1, <2>2, <3>2, AskIsRight
    <3>3. CASE CreateAcceptedEngagement
      BY <2>1, <2>2, <3>3, EngageIsRight
    <3>4. CASE Writing
      <4>1. Now.op \in Touching \cup Following /\ \E r : RightStep(It, r, s, p) /\ WithJob(r)
        BY <2>1, <2>2, <3>4, WritingIsRight
      <4>2. PICK r : RightStep(It, r, s, p) /\ WithJob(r)
        BY <4>1
      <4> QED BY <2>1, <2>2, <4>1, <4>2, Written
    <3> QED BY <1>2, <3>1, <3>2, <3>3, <3>4, KindsOfStatement
  <2> QED BY <2>1, <2>2, <2>3, Advanced
<1>3. CASE Throw \/ Die
  BY <1>3, EndsEarly DEF Throw, Die
<1>4. CASE \E s \in Scripts : DemoBegin(s)
  BY <1>4, Begins
<1>5. CASE \E k \in Keys : EditRow(k)
  <2>1. PICK k \in Keys : EditRow(k)
    BY <1>5
  <2>2. \E x : row' = [row EXCEPT ![k] = x]
    BY <2>1 DEF EditRow
  <2>3. row' = [i \in Keys |-> row'[i]]
    BY <1>1, <2>2 DEF DemoTypes
  <2>4. UNCHANGED <<users, profiles, job, run, runs, done, cut>>
    BY <2>1 DEF EditRow
  <2> QED BY <2>3, <2>4, DealsUntouched
<1>6. CASE (\E email \in {"demo", "other"} : CreateAdminUser(email)) \/ UNCHANGED demoVars
  <2>1. UNCHANGED <<row, users, profiles, job, run, runs, done, cut>>
    BY <1>6 DEF CreateAdminUser, demoVars
  <2>2. row' = [k \in Keys |-> row'[k]]
    BY <1>1, <2>1 DEF DemoTypes
  <2> QED BY <2>1, <2>2, DealsUntouched
<1> QED BY <1>2, <1>3, <1>4, <1>5, <1>6 DEF DemoNext

\* The invariant holds whatever script runs, dies or is started again.
THEOREM DemoInvHolds == DemoSpec => []DemoInv
<1> QED BY InitDemo, DemoStep, PTL DEF DemoSpec

------------------------------------------------------------------------------
(* The properties                                                          *)

\* What the rules of a deal say in numbers.
LEMMA JobIsOK ==
  ASSUME NEW j \in DemoJob, NEW s, NEW p, JobOK(j, s, p)
  PROVE  DealOK(j)
<1>1. QuoteRules(j) /\ PriceRules(j) /\ WorkRules(j)
  BY DEF JobOK
<1>2. \A n \in DOMAIN j.quote : n \in Nat
  BY DEF DemoJob
<1>3. Cardinality({n \in DOMAIN j.quote : j.quote[n] = "ACCEPTED"}) = IF j.request = "ENGAGED" THEN 1 ELSE 0
  <2>1. CASE j.request = "ENGAGED"
    <3>1. PICK n \in DOMAIN j.quote : \A m \in DOMAIN j.quote : j.quote[m] = "ACCEPTED" <=> m = n
      BY <1>1, <2>1 DEF QuoteRules
    <3>2. {m \in DOMAIN j.quote : j.quote[m] = "ACCEPTED"} = {n}
      BY <3>1
    <3>3. Cardinality({n}) = 1
      BY FS_Singleton
    <3> QED BY <2>1, <3>2, <3>3
  <2>2. CASE j.request # "ENGAGED"
    <3>1. {m \in DOMAIN j.quote : j.quote[m] = "ACCEPTED"} = {}
      BY <1>1, <2>2 DEF QuoteRules
    <3> QED BY <2>2, <3>1, FS_EmptySet
  <2> QED BY <2>1, <2>2
<1>4. ASSUME NEW n \in DOMAIN j.quote PROVE Cardinality(PendingOn(j, n)) <= 1
  <2>1. \A k, l \in PendingOn(j, n) : k = l
    BY <1>1, <1>2 DEF PriceRules
  <2>2. CASE PendingOn(j, n) = {}
    <3>1. Cardinality(PendingOn(j, n)) = 0
      BY <2>2, FS_EmptySet
    <3> QED BY <3>1
  <2>3. CASE PendingOn(j, n) # {}
    <3>1. PICK k : k \in PendingOn(j, n)
      BY <2>3
    <3>2. PendingOn(j, n) = {k}
      BY <2>1, <3>1
    <3>3. Cardinality({k}) = 1
      BY FS_Singleton
    <3> QED BY <3>2, <3>3
  <2> QED BY <2>2, <2>3
<1>5. \A n \in DOMAIN j.quote : /\ j.quote[n] = "ACCEPTED" => PendingOn(j, n) = {}
                                /\ n \in j.agreed <=> \E k \in DOMAIN j.asked :
                                     j.asked[k].quote = n /\ j.asked[k].status = "ACCEPTED"
  BY <1>1, <1>2 DEF QuoteRules, PriceRules
<1>6. \A k \in DOMAIN j.asked : j.asked[k].resolvedBy \in {"none", OtherSide(j.asked[k].by)}
  BY <1>1 DEF PriceRules
<1>7. j.ledger \cap {"CUSTOMER_CANCELLATION_FEE", "REFUND"} # {} /\ "demo" \notin cut => j.eng = "CANCELLED"
  BY DEF JobOK, Fees
<1>8. /\ j.request = "ENGAGED" <=> j.eng # "NONE"
      /\ j.request = "ENGAGED" => \A n \in DOMAIN j.quote : j.quote[n] # "SENT"
  BY <1>1 DEF QuoteRules
<1> QED BY <1>1, <1>3, <1>4, <1>5, <1>6, <1>7, <1>8 DEF DealOK, WorkRules

\* Whatever script ran, died or was repeated, each committed statement leaves
\* deals the application could have left.
THEOREM DealsMirrorTheServicesHolds == DemoSpec => []DealsMirrorTheServices
<1>1. DemoInv => DealsMirrorTheServices
  <2> SUFFICES ASSUME DemoInv, NEW i \in DOMAIN job PROVE DealOK(job[i])
    BY DEF DealsMirrorTheServices
  <2>1. job \in Seq(DemoJob) /\ JobOK(job[i], run.script, run.pc)
    BY DEF DemoInv, DemoTypes, Before
  <2>2. job[i] \in DemoJob
    BY <2>1
  <2> QED BY <2>1, <2>2, JobIsOK
<1> QED BY <1>1, DemoInvHolds, PTL

\* A script comes to its end once and writes nothing twice, but for the two whose
\* marker is a late row, and these only when they ended early before it.
THEOREM OnlyTheInterruptedRepeatHolds == DemoSpec => []OnlyTheInterruptedRepeat
<1>1. DemoInv => OnlyTheInterruptedRepeat
  BY DEF DemoInv, EndsOnce, Before, Together, JobOK, OnlyTheInterruptedRepeat
<1> QED BY <1>1, DemoInvHolds, PTL

\* A statement seeds over no row but the switch it announces.
LEMMA RowsKept ==
  ASSUME DemoInv, Statement, NEW k \in Keys, row[k] # "missing",
         Now # On("enable", k), Now # On("enableOrCreate", k)
  PROVE  row'[k] = row[k]
<1>1. DemoTypes /\ run # NoScript
  BY StatementAdvances DEF DemoInv
<1>2. Fits(run.script, run.pc, Now) /\ row = [i \in Keys |-> row[i]]
  BY <1>1, NowFits DEF DemoTypes
<1>3. CASE UpsertRow
  BY <1>2, <1>3 DEF UpsertRow, UpsertedRow
<1>4. CASE EnableSwitch
  <2>1. Now.op \in {"enable", "enableOrCreate"} /\ row' = [row EXCEPT ![Now.deal] = "on"]
    BY <1>4 DEF EnableSwitch, Ready
  <2>2. Now = On(Now.op, Now.deal)
    BY <1>2, <2>1 DEF Fits, RowFit
  <2>3. Now.deal # k
    BY <2>1, <2>2
  <2> QED BY <1>2, <2>1, <2>3
<1>5. CASE ~ UpsertRow /\ ~ EnableSwitch
  BY <1>5 DEF Statement, BootstrapAdmin, CreateUser, CreateProfile, ReadOrSay,
         CreateServiceRequest, CreateQuote, DemoWithdrawQuote, DemoAcceptQuote, DemoCancelServiceRequest,
         PostProposal, DemoAcceptProposal, DemoRejectProposal, PostMessage, ProposeVisit, ConfirmVisit, CancelVisit,
         CompleteEngagement, SubmitReview, ModerateReview, CreateAcceptedEngagement, AdvanceToInProgress, SetMethod,
         StampCash, RecordDebt, CancelByCustomer, CancelByProfessional, WithJob, dbVars
<1> QED BY <1>3, <1>4, <1>5

\* A statement keeps the deals of another script.
LEMMA DealsKept ==
  ASSUME DemoInv, Statement, NEW i \in DOMAIN job, MadeBy(job[i].of) # run.script
  PROVE  KeepsTheDeal(i)
<1>1. DemoTypes /\ run # NoScript /\ cut' = cut /\ job \in Seq(DemoJob)
  BY StatementAdvances DEF DemoInv, DemoTypes
<1>2. PICK s, p : s = run.script /\ p = run.pc
  OBVIOUS
<1>3. CASE job'[i] = job[i]
  BY <1>3 DEF KeepsTheDeal
<1>4. CASE UpsertRow \/ BootstrapAdmin \/ CreateUser \/ CreateProfile \/ ReadOrSay \/ EnableSwitch
  BY <1>3, <1>4 DEF UpsertRow, BootstrapAdmin, CreateUser, CreateProfile, ReadOrSay, EnableSwitch, dbVars
<1>5. CASE CreateServiceRequest \/ CreateAcceptedEngagement
  <2>1. \E x : job' = Append(job, x)
    BY <1>5 DEF CreateServiceRequest, CreateAcceptedEngagement
  <2>2. job'[i] = job[i]
    BY <1>1, <2>1
  <2> QED BY <1>3, <2>2
<1>6. CASE Writing
  <2>1. Now.op \in Touching \cup Following /\ \E r : RightStep(It, r, s, p) /\ WithJob(r)
    BY <1>1, <1>2, <1>6, WritingIsRight
  <2>2. PICK r : RightStep(It, r, s, p) /\ WithJob(r)
    BY <2>1
  <2>3. job' = [job EXCEPT ![It] = r]
    BY <2>2 DEF WithJob
  <2>4. CASE i # It
    BY <1>3, <2>3, <2>4
  <2>5. CASE i = It
    <3>1. Now.op \notin Touching
      BY <1>1, <1>2, <2>5, DealAtHand
    <3>2. LeavesTheRest(job[i], r) /\ Grows(job[i], r)
      BY <2>1, <2>2, <2>5, <3>1 DEF RightStep
    <3>3. job'[i] = r
      BY <2>3, <2>5
    <3> QED BY <3>2, <3>3 DEF LeavesTheRest, Grows, KeepsTheDeal
  <2> QED BY <2>4, <2>5
<1> QED BY <1>4, <1>5, <1>6, KindsOfStatement

\* No script seeds over what an administrator set, and of the deals of another
\* one it only completes the accepted ones and adds to them.
THEOREM PurelyAdditiveHolds == DemoSpec => PurelyAdditive
<1>1. ASSUME DemoInv, [DemoNext]_demoVars, run # NoScript
      PROVE  /\ \A k \in Keys : row[k] # "missing" /\ Now # On("enable", k) /\ Now # On("enableOrCreate", k)
                                  => row'[k] = row[k]
             /\ \A i \in DOMAIN job : MadeBy(job[i].of) # run.script => KeepsTheDeal(i)
  <2>1. CASE Statement
    BY <1>1, <2>1, RowsKept, DealsKept
  <2>2. CASE row' = row /\ job' = job
    BY <2>2 DEF KeepsTheDeal
  <2>3. CASE Throw \/ Die
    <3>1. row' = row /\ job' = job
      BY <2>3 DEF Throw, Die, EndEarly, dbVars
    <3> QED BY <2>2, <3>1
  <2>4. ~ (\E x \in Scripts : DemoBegin(x)) /\ ~ (\E k \in Keys : EditRow(k))
    BY <1>1 DEF DemoBegin, EditRow
  <2>5. CASE (\E email \in {"demo", "other"} : CreateAdminUser(email)) \/ UNCHANGED demoVars
    <3>1. row' = row /\ job' = job
      BY <2>5 DEF CreateAdminUser, demoVars
    <3> QED BY <2>2, <3>1
  <2> QED BY <1>1, <2>1, <2>3, <2>4, <2>5 DEF DemoNext
<1>2. DemoInv /\ [DemoNext]_demoVars =>
        [run # NoScript =>
           /\ \A k \in Keys : row[k] # "missing" /\ Now # On("enable", k) /\ Now # On("enableOrCreate", k)
                                => row'[k] = row[k]
           /\ \A i \in DOMAIN job : MadeBy(job[i].of) # run.script => KeepsTheDeal(i)]_demoVars
  BY <1>1
<1> QED BY <1>2, DemoInvHolds, PTL DEF DemoSpec, PurelyAdditive
===============================================================================
