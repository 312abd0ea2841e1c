------------------------------- MODULE DemoData -------------------------------
(***************************************************************************)
(* The scripts that fill a development database: prisma/seed.ts with the   *)
(* catalog, the settings and the mail templates, and the six scripts/seed-*)
(* with people, deals and what became of them.  A script is a list of      *)
(* statements, run by hand, one script at a time; each statement, or each  *)
(* transaction, is one step.  It may die between two steps, or throw at    *)
(* one the database refuses, and can be started again: all but the first   *)
(* look for a row of an earlier run before they write.                     *)
(*                                                                         *)
(* The scripts write the tables themselves, where the application would    *)
(* go through its services, whose rules they promise to follow.  Prices    *)
(* and texts are left out, of the texts only which description a later     *)
(* script looks for.                                                       *)
(***************************************************************************)
EXTENDS Naturals, Sequences, FiniteSets

CONSTANTS MaxRuns,    \* how often each script is started
          MaxMishaps  \* deaths of a script and edits of an administrator

VARIABLES row,       \* what prisma/seed.ts creates, by key
          admins,    \* e-mails of the AdminUser rows
          users,     \* the people with a User row
          profiles,  \* their profiles: <<person, party>>
          job,       \* the service requests with all that hangs on them, oldest first
          run,       \* the script at work and its next step
          runs,      \* how often each was started
          done,      \* how often each came to its end
          cut,       \* the scripts that once ended early
          mishaps

dbVars == <<row, admins, users, profiles, job>>
demoVars == <<row, admins, users, profiles, job, run, runs, done, cut, mishaps>>

Sides == {"CUSTOMER", "PROFESSIONAL"}
OtherSide(party) == CHOOSE p \in Sides : p # party

Categories == {"plumbing", "electricity", "carpentry", "painting", "gardening"}
Switches == {"customer-can-propose", "chat", "appointments"}
Keys == Categories \cup Switches \cup {"templates", "layout"}
SeededValue(k) == CASE k = "appointments" -> "on"
                    [] k \in Switches \ {"appointments"} -> "off"
                    [] OTHER -> "seeded"

------------------------------------------------------------------------------
(* The scripts                                                             *)

\* A statement about a deal: its n-th quote, or a party.
Step(op, deal, n, by) == [op |-> op, deal |-> deal, n |-> n, by |-> by]
On(op, deal) == Step(op, deal, 0, "none")
Quoted(op, deal, n) == Step(op, deal, n, "none")
By(op, deal, party) == Step(op, deal, 0, party)
Upsert(k) == On("upsert", k)
Person(p) == On("user", p)
Profile(p, party) == By("profile", p, party)
Skill(p, category) == By("specialize", p, category)
Look(p, party) == By("look", p, party)
Says(deal, n, party) == Step("say", deal, n, party)
Proposes(deal, n, party) == Step("propose", deal, n, party)

\* prisma/seed.ts: the catalog, the settings, the templates, the layout.
SeedCatalog == << Upsert("plumbing"), Upsert("electricity"), Upsert("carpentry"), Upsert("painting"),
                  Upsert("gardening") >>
SeedSwitches == << Upsert("customer-can-propose"), Upsert("chat"), Upsert("appointments") >>
SeedMail == << Upsert("templates"), Upsert("layout") >>

DemoCustomers ==
  << On("bootstrap", "none"),
     Person("maria"), Profile("maria", "CUSTOMER"), Person("carlos"), Profile("carlos", "CUSTOMER"),
     Person("laura"), Profile("laura", "CUSTOMER") >>
DemoProfessionals ==
  << Person("pedro"), Profile("pedro", "PROFESSIONAL"), Skill("pedro", "plumbing"),
     Person("ana"), Profile("ana", "PROFESSIONAL"), Skill("ana", "electricity"),
     Person("jorge"), Profile("jorge", "PROFESSIONAL"), Skill("jorge", "carpentry"), Skill("jorge", "plumbing"),
     Person("sofia"), Profile("sofia", "PROFESSIONAL"), Skill("sofia", "painting"), Skill("sofia", "gardening") >>
DemoOthers ==
  << Person("diego"), Profile("diego", "CUSTOMER"), Profile("diego", "PROFESSIONAL"), Skill("diego", "electricity"),
     Person("valentina"), Profile("valentina", "CUSTOMER"), Profile("valentina", "PROFESSIONAL"),
     Skill("valentina", "painting"), Person("nuevo"), Person("pendiente"), Profile("pendiente", "CUSTOMER") >>

DemoRequests ==
  << By("ask", "sr1", "plumbing"), On("quote", "sr1"), On("quote", "sr1"), Quoted("withdraw", "sr1", 2),
     By("ask", "sr2", "electricity"), On("quote", "sr2"), On("quote", "sr2"),
     By("ask", "sr3", "painting"), On("quote", "sr3"), On("quote", "sr3"), Quoted("accept", "sr3", 1),
     By("ask", "sr4", "carpentry"), On("quote", "sr4"), Quoted("accept", "sr4", 1),
     By("ask", "sr5", "gardening"), On("cancel", "sr5"),
     By("ask", "sr6", "gardening"), On("quote", "sr6") >>

DemoTalks ==
  << Says("sr1", 1, "CUSTOMER"), Says("sr1", 1, "PROFESSIONAL"), Proposes("sr1", 1, "PROFESSIONAL"),
     Says("sr2", 1, "CUSTOMER"), Proposes("sr2", 1, "PROFESSIONAL"), Proposes("sr2", 1, "PROFESSIONAL"),
     Says("sr2", 2, "CUSTOMER"), Proposes("sr2", 2, "PROFESSIONAL"), Step("agree", "sr2", 2, "CUSTOMER"),
     Says("sr6", 1, "CUSTOMER"), Proposes("sr6", 1, "PROFESSIONAL"), Step("refuse", "sr6", 1, "CUSTOMER") >>

NegotiatedPatio ==
  << Look("maria", "CUSTOMER"), Look("carlos", "CUSTOMER"), Look("laura", "CUSTOMER"),
     Look("pedro", "PROFESSIONAL"), Look("sofia", "PROFESSIONAL"), Look("ana", "PROFESSIONAL"),
     By("ask", "patio", "plumbing"), On("quote", "patio"), Says("patio", 1, "CUSTOMER"),
     Proposes("patio", 1, "PROFESSIONAL"), Step("agree", "patio", 1, "CUSTOMER"),
     Quoted("accept", "patio", 1) >>
NegotiatedGarden ==
  << By("ask", "garden", "gardening"), On("quote", "garden"), Says("garden", 1, "CUSTOMER"),
     Proposes("garden", 1, "PROFESSIONAL"), Step("agree", "garden", 1, "CUSTOMER"),
     Quoted("accept", "garden", 1) >>
NegotiatedSockets ==
  << On("enable", "customer-can-propose"),
     By("ask", "sockets", "electricity"), On("quote", "sockets"), Says("sockets", 1, "PROFESSIONAL"),
     Proposes("sockets", 1, "CUSTOMER"), Says("sockets", 1, "PROFESSIONAL"),
     Step("agree", "sockets", 1, "PROFESSIONAL"), Quoted("accept", "sockets", 1) >>

\* Each conversation is four messages; the marker is the last one of the first.
ChatSteps ==
  << On("enableOrCreate", "chat"), On("find", "patio"), On("find", "garden"), On("find", "sockets"),
     By("chat", "patio", "CUSTOMER"), By("chat", "patio", "PROFESSIONAL"),
     By("chat", "patio", "CUSTOMER"), By("chatMarker", "patio", "PROFESSIONAL") >>
ChatFollowUps ==
  << By("chat", "garden", "PROFESSIONAL"), By("chat", "garden", "CUSTOMER"),
     By("chat", "garden", "PROFESSIONAL"), By("chat", "garden", "CUSTOMER"),
     By("chat", "sockets", "CUSTOMER"), By("chat", "sockets", "PROFESSIONAL"),
     By("chat", "sockets", "CUSTOMER"), By("chat", "sockets", "PROFESSIONAL") >>

\* The marker is the reason of the one cancellation.
AppointmentSteps ==
  << On("enableOrCreate", "appointments"), On("find", "patio"), On("find", "garden"), On("find", "sockets"),
     On("visit", "patio"), On("confirm", "patio"), On("visit", "garden"),
     On("visit", "sockets"), On("cancelVisit", "sockets"), On("visit", "sockets") >>

\* The marker is in the comment of the third scenario.
ReviewLookups ==
  << On("findAdmin", "none"), On("find", "patio"), On("find", "garden"), On("find", "sockets"),
     On("find", "painting"), On("find", "carpentry") >>
ReviewsOfNegotiated ==
  << On("complete", "patio"), By("review", "patio", "CUSTOMER"), By("review", "patio", "PROFESSIONAL"),
     On("complete", "garden"), By("comment", "garden", "PROFESSIONAL"),
     On("complete", "sockets"), By("commentMarker", "sockets", "CUSTOMER"),
     By("review", "sockets", "PROFESSIONAL"), By("moderate", "sockets", "CUSTOMER") >>
ReviewsOfDemo ==
  << On("complete", "painting"), By("comment", "painting", "PROFESSIONAL"),
     By("review", "painting", "CUSTOMER"), By("moderate", "painting", "PROFESSIONAL"),
     On("complete", "carpentry"), By("review", "carpentry", "CUSTOMER") >>

PaymentLookups ==
  << Look("maria", "CUSTOMER"), Look("pedro", "PROFESSIONAL"), Look("carlos", "CUSTOMER"),
     Look("ana", "PROFESSIONAL"), Look("laura", "CUSTOMER"), Look("sofia", "PROFESSIONAL"),
     Look("valentina", "CUSTOMER"), Look("jorge", "PROFESSIONAL"), Look("diego", "PROFESSIONAL") >>
CashScenarios ==
  << By("engage", "paid", "plumbing"), On("start", "paid"),
     On("method", "paid"), By("cash", "paid", "CUSTOMER"),
     On("method", "paid"), By("cash", "paid", "PROFESSIONAL"), On("debt", "paid"),
     By("engage", "halfC", "electricity"), On("start", "halfC"), On("method", "halfC"), By("cash", "halfC", "CUSTOMER"),
     By("engage", "halfP", "painting"), On("start", "halfP"), On("method", "halfP"), By("cash", "halfP", "PROFESSIONAL") >>
CancellationScenarios ==
  << By("engage", "fee", "carpentry"), On("start", "fee"), On("cancelByCustomer", "fee"),
     By("engage", "refund", "electricity"), On("cancelByProfessional", "refund") >>

Scripts == {"seed", "demo", "negotiation", "chat", "appointments", "reviews", "payments"}
Steps == [s \in Scripts |->
            CASE s = "seed" -> SeedCatalog \o SeedSwitches \o SeedMail
              [] s = "demo" -> DemoCustomers \o DemoProfessionals \o DemoOthers \o DemoRequests \o DemoTalks
              [] s = "negotiation" -> NegotiatedPatio \o NegotiatedGarden \o NegotiatedSockets
              [] s = "chat" -> ChatSteps \o ChatFollowUps
              [] s = "appointments" -> AppointmentSteps
              [] s = "reviews" -> ReviewLookups \o ReviewsOfNegotiated \o ReviewsOfDemo
              [] s = "payments" -> PaymentLookups \o CashScenarios \o CancellationScenarios]
------------------------------------------------------------------------------
(* The rows                                                                *)

\* A request with its quotes and price proposals, the Engagement, its cash
\* payment and ledger, its conversation, visits and reviews.
NewJob(deal) ==
  [of |-> deal, request |-> "OPEN", quote |-> <<>>, agreed |-> {}, asked |-> <<>>, eng |-> "NONE",
   method |-> "NONE", stamps |-> {}, attempt |-> "NONE", ledger |-> {}, chat |-> 0, marked |-> FALSE,
   visit |-> <<>>, review |-> [p \in Sides |-> "none"]]

\* The descriptions a later script looks for; two deals share one.
About(deal) == CASE deal = "sr3" -> "painting"
                 [] deal \in {"sr4", "fee"} -> "carpentry"
                 [] OTHER -> deal

Newest(deal) == CHOOSE i \in DOMAIN job :
                  /\ job[i].of = deal
                  /\ \A k \in DOMAIN job : job[k].of = deal => k <= i
Matches(marker) == {i \in DOMAIN job : About(job[i].of) = marker /\ job[i].eng # "NONE"}
Oldest(marker) == CHOOSE i \in Matches(marker) : \A k \in Matches(marker) : i <= k

Creators == {"demo", "negotiation", "payments"}
MadeBy(deal) == CASE deal \in {"sr1", "sr2", "sr3", "sr4", "sr5", "sr6"} -> "demo"
                  [] deal \in {"patio", "garden", "sockets"} -> "negotiation"
                  [] OTHER -> "payments"

\* The script's next step and the job it is about.
NoScript == [script |-> "none", pc |-> 0]
Now == Steps[run.script][run.pc]
It == IF run.script \in Creators THEN Newest(Now.deal) ELSE Oldest(Now.deal)
Ready(op) == run.script # "none" /\ Now.op = op

Advance ==
  /\ IF run.pc = Len(Steps[run.script])
     THEN run' = NoScript /\ done' = [done EXCEPT ![run.script] = @ + 1]
     ELSE run' = [run EXCEPT !.pc = @ + 1] /\ UNCHANGED done
  /\ UNCHANGED <<runs, cut, mishaps>>
WithJob(r) == job' = [job EXCEPT ![It] = r] /\ UNCHANGED <<row, admins, users, profiles>>

PendingOn(j, n) == {k \in DOMAIN j.asked : j.asked[k].quote = n /\ j.asked[k].status = "PENDING"}

DemoInit ==
  /\ row = [k \in Keys |-> "missing"]
  /\ admins = {}
  /\ users = {}
  /\ profiles = {}
  /\ job = <<>>
  /\ run = NoScript
  /\ runs = [s \in Scripts |-> 0]
  /\ done = [s \in Scripts |-> 0]
  /\ cut = {}
  /\ mishaps = 0

------------------------------------------------------------------------------
(* Starting a script, and how it ends early                                *)

\* assertNotAlreadySeeded: each script's marker; the variant compares letters of
\* different case, as the negotiation script once did.
AlreadySeededCased(s) ==
  CASE s = "demo" -> "maria" \in users
    [] s = "payments" -> \E i \in DOMAIN job : MadeBy(job[i].of) = "payments"
    [] OTHER -> FALSE
AlreadySeeded(s) ==
  CASE s = "seed" -> FALSE
    [] s = "demo" -> "maria" \in users
    [] s = "negotiation" -> \E i \in DOMAIN job : job[i].of = "patio"
    [] s = "chat" -> \E i \in DOMAIN job : job[i].marked
    [] s = "appointments" -> \E i \in DOMAIN job : \E n \in DOMAIN job[i].visit : job[i].visit[n] = "CANCELLED"
    [] s = "reviews" -> \E i \in DOMAIN job : job[i].of = "sockets" /\ job[i].review["CUSTOMER"] # "none"
    [] s = "payments" -> \E i \in DOMAIN job : MadeBy(job[i].of) = "payments"

DemoBegin(s) ==
  /\ run = NoScript
  /\ runs[s] < MaxRuns
  /\ ~ AlreadySeeded(s)
  /\ run' = [script |-> s, pc |-> 1]
  /\ runs' = [runs EXCEPT ![s] = @ + 1]
  /\ UNCHANGED <<dbVars, done, cut, mishaps>>

EndEarly == /\ run' = NoScript
            /\ cut' = cut \cup {run.script}
            /\ UNCHANGED <<dbVars, runs, done>>

\* A lookup that finds nothing, and what the database refuses: a second review
\* of a party, a visit confirmed over another one.
Refused ==
  CASE Now.op = "specialize" -> row[Now.by] = "missing"
    [] Now.op \in {"ask", "engage"} -> row[Now.by] = "missing"
    [] Now.op = "look" -> <<Now.deal, Now.by>> \notin profiles
    [] Now.op = "find" -> Matches(Now.deal) = {}
    [] Now.op = "findAdmin" -> "demo" \notin admins
    [] Now.op = "enable" -> row[Now.deal] = "missing"
    [] Now.op \in {"review", "comment", "commentMarker"} -> job[It].review[Now.by] # "none"
    [] Now.op = "confirm" -> \E n \in DOMAIN job[It].visit : job[It].visit[n] = "CONFIRMED"
    [] OTHER -> FALSE

Throw == /\ run # NoScript
         /\ Refused
         /\ EndEarly
         /\ UNCHANGED mishaps

Die == /\ run # NoScript
       /\ mishaps < MaxMishaps
       /\ mishaps' = mishaps + 1
       /\ EndEarly

\* An administrator renames a category, turns a switch, edits a template.
EditRow(k) ==
  /\ run = NoScript
  /\ mishaps < MaxMishaps
  /\ row[k] # "missing"
  /\ mishaps' = mishaps + 1
  /\ row' = [row EXCEPT ![k] = CASE k \in Categories -> "missing"
                                 [] k \in Switches -> IF @ = "on" THEN "off" ELSE "on"
                                 [] OTHER -> "edited"]
  /\ UNCHANGED <<admins, users, profiles, job, run, runs, done, cut>>

------------------------------------------------------------------------------
(* The catalog and the people                                              *)

\* upsert with an empty update; the variant writes the seeded value again.
OverwrittenRow(k) == SeededValue(k)
UpsertedRow(k) == IF row[k] = "missing" THEN SeededValue(k) ELSE row[k]
UpsertRow == /\ Ready("upsert")
             /\ row' = [row EXCEPT ![Now.deal] = UpsertedRow(Now.deal)]
             /\ Advance
             /\ UNCHANGED <<admins, users, profiles, job>>

\* ensureSuperAdmin: only when no administrator has the role.
BootstrapAdmin == /\ Ready("bootstrap")
                  /\ admins' = IF admins = {} THEN {"demo"} ELSE admins
                  /\ Advance
                  /\ UNCHANGED <<row, users, profiles, job>>

\* admin:bootstrap by hand for somebody else, and create-admin-user, which needs
\* the roles the first one made.
CreateAdminUser(email) ==
  /\ run = NoScript
  /\ email \notin admins
  /\ email = "other" \/ admins # {}
  /\ admins' = admins \cup {email}
  /\ UNCHANGED <<row, users, profiles, job, run, runs, done, cut, mishaps>>

CreateUser == /\ Ready("user")
              /\ users' = users \cup {Now.deal}
              /\ Advance
              /\ UNCHANGED <<row, admins, profiles, job>>

CreateProfile == /\ Ready("profile")
                 /\ profiles' = profiles \cup {<<Now.deal, Now.by>>}
                 /\ Advance
                 /\ UNCHANGED <<row, admins, users, job>>

\* Statements that only read, and messages without a price.
ReadOrSay == /\ \E op \in {"specialize", "look", "find", "findAdmin", "say"} : Ready(op)
             /\ ~ Refused
             /\ Advance
             /\ UNCHANGED dbVars

\* The switches a script needs; two scripts create a missing one.
EnableSwitch == /\ \/ Ready("enable") /\ ~ Refused
                   \/ Ready("enableOrCreate")
                /\ row' = [row EXCEPT ![Now.deal] = "on"]
                /\ Advance
                /\ UNCHANGED <<admins, users, profiles, job>>

------------------------------------------------------------------------------
(* Requests, quotes and their negotiation                                  *)

CreateServiceRequest == /\ Ready("ask")
                        /\ ~ Refused
                        /\ job' = Append(job, NewJob(Now.deal))
                        /\ Advance
                        /\ UNCHANGED <<row, admins, users, profiles>>

CreateQuote == /\ Ready("quote")
               /\ WithJob([job[It] EXCEPT !.quote = Append(@, "SENT")])
               /\ Advance

DemoWithdrawQuote ==
  /\ Ready("withdraw")
  /\ job[It].quote[Now.n] = "SENT"
  /\ WithJob([job[It] EXCEPT !.quote[Now.n] = "WITHDRAWN"])
  /\ Advance

\* One transaction: the request, the quote, its siblings, the Engagement; the
\* variant leaves the siblings.
OnlyTheQuote(j, n) == [j.quote EXCEPT ![n] = "ACCEPTED"]
Decided(j, n) == [m \in DOMAIN j.quote |->
                    IF m = n THEN "ACCEPTED"
                    ELSE IF j.quote[m] = "SENT" THEN "REJECTED" ELSE j.quote[m]]
DemoAcceptQuote ==
  /\ Ready("accept")
  /\ job[It].request = "OPEN"
  /\ job[It].quote[Now.n] = "SENT"
  /\ run.script = "negotiation" => PendingOn(job[It], Now.n) = {}
  /\ WithJob([job[It] EXCEPT !.request = "ENGAGED", !.quote = Decided(job[It], Now.n),
                             !.eng = "ACCEPTED"])
  /\ Advance

DemoCancelServiceRequest ==
  /\ Ready("cancel")
  /\ job[It].request = "OPEN"
  /\ WithJob([job[It] EXCEPT !.request = "CANCELLED"])
  /\ Advance

\* A price: the pending proposals of the quote are superseded first.
PostProposal ==
  /\ Ready("propose")
  /\ LET j == job[It]
         old == [k \in DOMAIN j.asked |->
                   IF k \in PendingOn(j, Now.n) THEN [j.asked[k] EXCEPT !.status = "SUPERSEDED"] ELSE j.asked[k]]
     IN WithJob([j EXCEPT !.asked = Append(old, [quote |-> Now.n, by |-> Now.by, status |-> "PENDING",
                                                 resolvedBy |-> "none"])])
  /\ Advance

\* The proposal a step resolves is the pending one of its quote.
Resolved(j, status) ==
  LET k == CHOOSE k \in PendingOn(j, Now.n) : TRUE
  IN [j.asked EXCEPT ![k].status = status, ![k].resolvedBy = Now.by]
DemoAcceptProposal ==
  /\ Ready("agree")
  /\ PendingOn(job[It], Now.n) # {}
  /\ WithJob([job[It] EXCEPT !.asked = Resolved(job[It], "ACCEPTED"),
                             !.agreed = @ \cup {Now.n}])
  /\ Advance
DemoRejectProposal ==
  /\ Ready("refuse")
  /\ PendingOn(job[It], Now.n) # {}
  /\ WithJob([job[It] EXCEPT !.asked = Resolved(job[It], "REJECTED")])
  /\ Advance

------------------------------------------------------------------------------
(* Conversations, visits, reviews                                          *)

PostMessage == /\ Ready("chat") \/ Ready("chatMarker")
               /\ WithJob([job[It] EXCEPT !.chat = @ + 1, !.marked = @ \/ Now.op = "chatMarker"])
               /\ Advance

\* The hours count from the day of the run: a visit of an earlier run is in the way
\* or is not.
ProposeVisit == /\ Ready("visit")
                /\ WithJob([job[It] EXCEPT !.visit = Append(@, "PENDING")])
                /\ Advance
ConfirmVisit == /\ Ready("confirm")
                /\ WithJob([job[It] EXCEPT !.visit[Len(job[It].visit)] = "CONFIRMED"])
                /\ Advance
CancelVisit == /\ Ready("cancelVisit")
               /\ WithJob([job[It] EXCEPT !.visit[Len(job[It].visit)] = "CANCELLED"])
               /\ Advance

\* Without a look at the status it had.
CompleteEngagement == /\ Ready("complete")
                      /\ WithJob([job[It] EXCEPT !.eng = "COMPLETED"])
                      /\ Advance
SubmitReview == /\ \E op \in {"review", "comment", "commentMarker"} : Ready(op)
                /\ ~ Refused
                /\ WithJob([job[It] EXCEPT !.review[Now.by] =
                              IF Now.op = "review" THEN "rated" ELSE "PENDING"])
                /\ Advance
ModerateReview == /\ Ready("moderate")
                  /\ WithJob([job[It] EXCEPT !.review[Now.by] =
                                IF Now.deal = "sockets" THEN "APPROVED" ELSE "REJECTED"])
                  /\ Advance

------------------------------------------------------------------------------
(* Payments                                                                *)

\* createAcceptedEngagement: everything up to the Engagement in one transaction.
CreateAcceptedEngagement ==
  /\ Ready("engage")
  /\ ~ Refused
  /\ job' = Append(job, [NewJob(Now.deal) EXCEPT !.request = "ENGAGED", !.quote = <<"ACCEPTED">>,
                                                 !.eng = "ACCEPTED"])
  /\ Advance
  /\ UNCHANGED <<row, admins, users, profiles>>

AdvanceToInProgress == /\ Ready("start")
                       /\ WithJob([job[It] EXCEPT !.eng = "IN_PROGRESS"])
                       /\ Advance

\* confirmCashPayment: the method if unset, then the row of the attempt, in two
\* statements.
SetMethod == /\ Ready("method")
             /\ WithJob([job[It] EXCEPT !.method = IF @ = "NONE" THEN "CASH" ELSE @])
             /\ Advance
StampCash == /\ Ready("cash")
             /\ WithJob([job[It] EXCEPT !.stamps = @ \cup {Now.by},
                                        !.attempt = IF @ = "NONE" THEN "PENDING" ELSE @])
             /\ Advance
RecordDebt == /\ Ready("debt")
              /\ WithJob([job[It] EXCEPT !.attempt = "APPROVED",
                                         !.ledger = @ \cup {"CASH_COMMISSION_DEBT"}])
              /\ Advance

CancelByCustomer == /\ Ready("cancelByCustomer")
                    /\ WithJob([job[It] EXCEPT !.eng = "CANCELLED",
                                  !.ledger = @ \cup {"CUSTOMER_CANCELLATION_FEE", "PLATFORM_COMMISSION",
                                                     "PROFESSIONAL_NET_CREDIT"}])
                    /\ Advance
CancelByProfessional == /\ Ready("cancelByProfessional")
                        /\ WithJob([job[It] EXCEPT !.eng = "CANCELLED", !.ledger = @ \cup {"REFUND"}])
                        /\ Advance

------------------------------------------------------------------------------
Statement ==
  \/ UpsertRow \/ BootstrapAdmin \/ CreateUser \/ CreateProfile \/ ReadOrSay \/ EnableSwitch
  \/ CreateServiceRequest \/ CreateQuote \/ DemoWithdrawQuote \/ DemoAcceptQuote \/ DemoCancelServiceRequest
  \/ PostProposal \/ DemoAcceptProposal \/ DemoRejectProposal
  \/ PostMessage \/ ProposeVisit \/ ConfirmVisit \/ CancelVisit
  \/ CompleteEngagement \/ SubmitReview \/ ModerateReview
  \/ CreateAcceptedEngagement \/ AdvanceToInProgress \/ SetMethod \/ StampCash \/ RecordDebt
  \/ CancelByCustomer \/ CancelByProfessional

DemoNext ==
  \/ \E s \in Scripts : DemoBegin(s)
  \/ Statement
  \/ Throw
  \/ Die
  \/ \E k \in Keys : EditRow(k)
  \/ \E email \in {"demo", "other"} : CreateAdminUser(email)

DemoSpec == DemoInit /\ [][DemoNext]_demoVars

------------------------------------------------------------------------------
(* Properties                                                              *)

\* The rules of the services for one deal: a closed request has its one accepted
\* quote and no other open one, no price is left pending on it, a price was
\* agreed exactly when the other party accepted it; a paid or cancelled
\* Engagement has its entries, and reviews come after the work.
DealOK(j) ==
  /\ (j.request = "ENGAGED") <=> (j.eng # "NONE")
  /\ Cardinality({n \in DOMAIN j.quote : j.quote[n] = "ACCEPTED"}) = IF j.request = "ENGAGED" THEN 1 ELSE 0
  /\ j.request = "ENGAGED" => \A n \in DOMAIN j.quote : j.quote[n] # "SENT"
  /\ \A n \in DOMAIN j.quote : /\ Cardinality(PendingOn(j, n)) <= 1
                               /\ j.quote[n] = "ACCEPTED" => PendingOn(j, n) = {}
                               /\ (n \in j.agreed) <=> \E k \in DOMAIN j.asked :
                                     j.asked[k].quote = n /\ j.asked[k].status = "ACCEPTED"
  /\ \A k \in DOMAIN j.asked : j.asked[k].resolvedBy \in {"none", OtherSide(j.asked[k].by)}
  /\ (j.attempt = "APPROVED") <=> ("CASH_COMMISSION_DEBT" \in j.ledger)
  /\ j.attempt = "APPROVED" => j.stamps = Sides
  /\ j.stamps # {} => j.method = "CASH"
  /\ (\E p \in Sides : j.review[p] # "none") => j.eng = "COMPLETED"
  /\ j.ledger \cap {"CUSTOMER_CANCELLATION_FEE", "REFUND"} # {} /\ "demo" \notin cut => j.eng = "CANCELLED"

\* Whatever script ran, died or was repeated, each committed statement leaves
\* deals the application could have left (scripts/seed-demo-data.ts:31-49, "MIRROR
\* each service's own transactional invariants").
DealsMirrorTheServices == \A i \in DOMAIN job : DealOK(job[i])

\* A script comes to its end once and writes nothing twice, but for the two whose
\* marker is a late row, and these only when they ended early before it.
OnlyTheInterruptedRepeat ==
  /\ \A s \in Scripts \ {"seed"} : done[s] <= 1
  /\ \A i, k \in DOMAIN job : job[i].of = job[k].of => i = k
  /\ \A i \in DOMAIN job : /\ "chat" \notin cut => job[i].chat <= 4
                           /\ "appointments" \notin cut => Len(job[i].visit) <= 2

\* A script leaves what it finds: no value an administrator set is seeded over,
\* except the switch a script announces, and of the deals of another script it
\* only completes the accepted ones and adds visits, messages and reviews.
KeepsTheDeal(i) ==
  /\ \A f \in {"of", "request", "quote", "agreed", "asked", "method", "stamps", "attempt", "ledger"} :
       job'[i][f] = job[i][f]
  /\ job'[i].eng # job[i].eng => job[i].eng = "ACCEPTED" \/ "demo" \in cut
  /\ \A p \in Sides : job[i].review[p] = "rated" => job'[i].review[p] = "rated"
PurelyAdditive ==
  [][run # NoScript =>
       /\ \A k \in Keys : row[k] # "missing" /\ Now # On("enable", k) /\ Now # On("enableOrCreate", k)
                            => row'[k] = row[k]
       /\ \A i \in DOMAIN job : MadeBy(job[i].of) # run.script => KeepsTheDeal(i)]_demoVars
=============================================================================
