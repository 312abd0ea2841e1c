----------------------------- MODULE Marketplace -----------------------------
(***************************************************************************)
(* One service request, the quotes professionals send for it, the          *)
(* negotiation of their prices and the acceptance that creates the         *)
(* Engagement (src/service-requests, src/quotes, src/quote-negotiation).   *)
(*                                                                         *)
(* A handler that reads before it writes is two steps, and other handlers  *)
(* may run between them; what it read is in its request record.  A handler *)
(* that is one guarded update is one step.  Messages without a price, who  *)
(* owns what, and attachments are left out.                                *)
(***************************************************************************)
EXTENDS Naturals

CONSTANTS Quotes,     \* ids of Quote rows
          Proposals,  \* ids of QuotePriceProposal rows, in creation order
          Requests,   \* handlers that can be in flight at once
          Prices,     \* prices that can be asked or proposed
          NoQuote

ASSUME ProposalsAssumption == Proposals \subseteq Nat \ {0}
ASSUME PricesAssumption == Prices \subseteq Nat \ {0}
ASSUME NoQuoteAssumption == NoQuote \notin Quotes

VARIABLES srStatus,       \* ServiceRequest.status
          acceptedQuote,  \* ServiceRequest.acceptedQuoteId
          quote,          \* the Quote rows
          proposal,       \* the QuotePriceProposal rows
          engagements,    \* quotes that have an Engagement row
          req             \* the handlers in flight

srVars == <<srStatus, acceptedQuote>>
vars == <<srStatus, acceptedQuote, quote, proposal, engagements, req>>

ServiceRequestStatuses == {"OPEN", "CANCELLED", "ENGAGED"}
QuoteStatuses == {"NONE", "SENT", "WITHDRAWN", "REJECTED", "ACCEPTED"}
ProposalStatuses == {"NONE", "PENDING", "ACCEPTED", "REJECTED", "SUPERSEDED"}
Parties == {"CUSTOMER", "PROFESSIONAL"}

\* A row not inserted yet has status NONE; a null price is 0.
QuoteRow == [status : QuoteStatuses, price : Prices \cup {0}, negotiated : Prices \cup {0}]
NoQuoteRow == [status |-> "NONE", price |-> 0, negotiated |-> 0]
ProposalRow == [status : ProposalStatuses, quote : Quotes \cup {NoQuote}, price : Prices \cup {0},
                by : Parties \cup {"NONE"}, resolvedBy : Parties \cup {"NONE"}]
NoProposalRow == [status |-> "NONE", quote |-> NoQuote, price |-> 0,
                  by |-> "NONE", resolvedBy |-> "NONE"]

\* What a handler carries from its reads to its writes: the quote or proposal
\* it works on, the party that called it, and the pending proposals its
\* superseding statement saw.
Pcs == {"idle", "submit", "accept", "propose", "supersede", "resolve"}
Request == [pc : Pcs, q : Quotes \cup {NoQuote}, k : Proposals \cup {0},
            party : Parties \cup {"NONE"}, seen : SUBSET Proposals]
Idle == [pc |-> "idle", q |-> NoQuote, k |-> 0, party |-> "NONE", seen |-> {}]

\* The types of the rows and of what handlers carry.
TypeOK ==
  /\ srStatus \in ServiceRequestStatuses
  /\ acceptedQuote \in Quotes \cup {NoQuote}
  /\ quote \in [Quotes -> QuoteRow]
  /\ proposal \in [Proposals -> ProposalRow]
  /\ engagements \subseteq Quotes
  /\ req \in [Requests -> Request]

------------------------------------------------------------------------------
(* Helpers                                                                 *)

Finish(r) == req' = [req EXCEPT ![r] = Idle]

Pending(q) == {k \in Proposals : proposal[k].status = "PENDING" /\ proposal[k].quote = q}

\* The price an Engagement reads from its quote: negotiatedPrice ?? price.
EffectivePrice(row) == IF row.negotiated # 0 THEN row.negotiated ELSE row.price

\* The next row to insert.
IsNextProposal(k) == /\ proposal[k].status = "NONE"
                     /\ \A j \in Proposals : j < k => proposal[j].status # "NONE"

\* The conditions of the guarded updates, and two that forget part of theirs.
EngageableUnlessEngaged == srStatus # "ENGAGED"
Engageable == srStatus = "OPEN"
RejectableInAnyState(q) == quote[q].status # "NONE"
Rejectable(q) == quote[q].status = "SENT"
Sent(q) == quote[q].status = "SENT"
StillPending(k) == proposal[k].status = "PENDING"

Init == /\ srStatus = "OPEN"
        /\ acceptedQuote = NoQuote
        /\ quote = [q \in Quotes |-> NoQuoteRow]
        /\ proposal = [k \in Proposals |-> NoProposalRow]
        /\ engagements = {}
        /\ req = [r \in Requests |-> Idle]

------------------------------------------------------------------------------
(* ServiceRequest                                                          *)

\* cancelServiceRequest: one guarded update; the quotes are left alone.
CancelServiceRequest ==
  /\ srStatus = "OPEN"
  /\ srStatus' = "CANCELLED"
  /\ UNCHANGED <<acceptedQuote, quote, proposal, engagements, req>>

------------------------------------------------------------------------------
(* Quotes                                                                  *)

\* submitQuote reads the request as OPEN and inserts the quote later, without
\* looking again.
ReadForSubmit(r, q) ==
  /\ req[r].pc = "idle"
  /\ srStatus = "OPEN"
  /\ quote[q].status = "NONE"
  /\ req' = [req EXCEPT ![r] = [Idle EXCEPT !.pc = "submit", !.q = q]]
  /\ UNCHANGED <<srVars, quote, proposal, engagements>>

SubmitQuote(r, p) ==
  /\ req[r].pc = "submit"
  /\ quote[req[r].q].status = "NONE"
  /\ quote' = [quote EXCEPT ![req[r].q] = [status |-> "SENT", price |-> p, negotiated |-> 0]]
  /\ Finish(r)
  /\ UNCHANGED <<srVars, proposal, engagements>>

WithdrawQuote(q) ==
  /\ Sent(q)
  /\ quote' = [quote EXCEPT ![q].status = "WITHDRAWN"]
  /\ UNCHANGED <<srVars, proposal, engagements, req>>

RejectQuote(q) ==
  /\ Rejectable(q)
  /\ quote' = [quote EXCEPT ![q].status = "REJECTED"]
  /\ UNCHANGED <<srVars, proposal, engagements, req>>

\* acceptQuote: the reads, then the transaction that engages the request,
\* accepts the quote, rejects its siblings and creates the Engagement.
ReadForAccept(r, q) ==
  /\ req[r].pc = "idle"
  /\ srStatus = "OPEN"
  /\ quote[q].status = "SENT"
  /\ Pending(q) = {}
  /\ req' = [req EXCEPT ![r] = [Idle EXCEPT !.pc = "accept", !.q = q]]
  /\ UNCHANGED <<srVars, quote, proposal, engagements>>

\* The quotes after q is accepted.
SiblingsRejected(q) ==
  [s \in Quotes |-> IF s = q THEN [quote[s] EXCEPT !.status = "ACCEPTED"]
                    ELSE IF quote[s].status = "SENT"
                         THEN [quote[s] EXCEPT !.status = "REJECTED"] ELSE quote[s]]

\* The unique index on Engagement.serviceRequestId refuses a second row.
AcceptQuote(r) ==
  LET q == req[r].q IN
  /\ req[r].pc = "accept"
  /\ Engageable
  /\ Sent(q)
  /\ engagements = {}
  /\ srStatus' = "ENGAGED"
  /\ acceptedQuote' = q
  /\ quote' = SiblingsRejected(q)
  /\ engagements' = {q}
  /\ Finish(r)
  /\ UNCHANGED proposal

------------------------------------------------------------------------------
(* Price negotiation                                                       *)

\* postQuoteNegotiationMessage with a price: the status of the quote is read
\* before the transaction.
ReadForProposal(r, q, party) ==
  /\ req[r].pc = "idle"
  /\ quote[q].status = "SENT"
  /\ req' = [req EXCEPT ![r] = [Idle EXCEPT !.pc = "propose", !.q = q, !.party = party]]
  /\ UNCHANGED <<srVars, quote, proposal, engagements>>

\* supersedePendingProposals is one statement: it updates the pending rows it
\* saw when it began, and never a row another transaction commits later.
SeePending(r) ==
  /\ req[r].pc = "propose"
  /\ req' = [req EXCEPT ![r] = [@ EXCEPT !.pc = "supersede", !.seen = Pending(req[r].q)]]
  /\ UNCHANGED <<srVars, quote, proposal, engagements>>

\* Its rows are locked until the insert commits, so both take effect at once,
\* on the rows that are still pending.
CreatePriceProposal(r, k, p) ==
  LET superseded == {j \in req[r].seen : StillPending(j)} IN
  /\ req[r].pc = "supersede"
  /\ IsNextProposal(k)
  /\ proposal' = [j \in Proposals |->
       IF j = k THEN [status |-> "PENDING", quote |-> req[r].q, price |-> p,
                      by |-> req[r].party, resolvedBy |-> "NONE"]
       ELSE IF j \in superseded THEN [proposal[j] EXCEPT !.status = "SUPERSEDED"]
       ELSE proposal[j]]
  /\ Finish(r)
  /\ UNCHANGED <<srVars, quote, engagements>>

\* Both parties may call accept and reject; only the one that did not write
\* the proposal gets past the check.
ResolverAnyParty(k, party) == party \in Parties
Resolver(k, party) == party \in Parties \ {proposal[k].by}

ReadForResolve(r, k, party) ==
  /\ req[r].pc = "idle"
  /\ proposal[k].status = "PENDING"
  /\ Resolver(k, party)
  /\ quote[proposal[k].quote].status = "SENT"
  /\ req' = [req EXCEPT ![r] = [Idle EXCEPT !.pc = "resolve", !.k = k, !.party = party]]
  /\ UNCHANGED <<srVars, quote, proposal, engagements>>

\* acceptQuotePriceProposal: the guarded update of the proposal, and the price
\* of its quote whatever the quote's status is by now.
AcceptProposal(r) ==
  LET k == req[r].k IN
  /\ req[r].pc = "resolve"
  /\ StillPending(k)
  /\ proposal' = [proposal EXCEPT ![k] =
                    [@ EXCEPT !.status = "ACCEPTED", !.resolvedBy = req[r].party]]
  /\ quote' = [quote EXCEPT ![proposal[k].quote].negotiated = proposal[k].price]
  /\ Finish(r)
  /\ UNCHANGED <<srVars, engagements>>

RejectProposal(r) ==
  LET k == req[r].k IN
  /\ req[r].pc = "resolve"
  /\ StillPending(k)
  /\ proposal' = [proposal EXCEPT ![k] =
                    [@ EXCEPT !.status = "REJECTED", !.resolvedBy = req[r].party]]
  /\ Finish(r)
  /\ UNCHANGED <<srVars, quote, engagements>>

------------------------------------------------------------------------------
\* The handler's guarded update touched no row and its transaction rolled
\* back, a price was not positive, or its process died.
GiveUp(r) ==
  /\ req[r].pc # "idle"
  /\ Finish(r)
  /\ UNCHANGED <<srVars, quote, proposal, engagements>>

Begin(r) ==
  \/ \E q \in Quotes : ReadForSubmit(r, q) \/ ReadForAccept(r, q)
  \/ \E q \in Quotes, party \in Parties : ReadForProposal(r, q, party)
  \/ \E k \in Proposals, party \in Parties : ReadForResolve(r, k, party)

Continue(r) ==
  \/ \E p \in Prices : SubmitQuote(r, p)
  \/ AcceptQuote(r)
  \/ SeePending(r)
  \/ \E k \in Proposals, p \in Prices : CreatePriceProposal(r, k, p)
  \/ AcceptProposal(r)
  \/ RejectProposal(r)
  \/ GiveUp(r)

Next == \/ CancelServiceRequest
        \/ \E q \in Quotes : WithdrawQuote(q) \/ RejectQuote(q)
        \/ \E r \in Requests : Begin(r) \/ Continue(r)

Spec == Init /\ [][Next]_vars

------------------------------------------------------------------------------
(* Properties                                                              *)

Accepted == {q \in Quotes : quote[q].status = "ACCEPTED"}

\* An Engagement, an accepted quote and an engaged request come together or
\* not at all: whatever acceptances, withdrawals, rejections and cancellations
\* run at once, there is at most one accepted quote, it is the one the request
\* names, and it alone has the Engagement (acceptQuote against everything that
\* moves a quote or the request).
OneDeal ==
  /\ srStatus = "ENGAGED" => Accepted = {acceptedQuote}
  /\ srStatus # "ENGAGED" => Accepted = {} /\ acceptedQuote = NoQuote
  /\ engagements = Accepted

Final(status) == status \notin {"NONE", "SENT", "PENDING", "OPEN"}

\* A decision is never taken back: a request that was cancelled or engaged, a
\* quote that was withdrawn, rejected or accepted and a proposal that was
\* resolved or superseded keep their status, even against a handler that read
\* them before the decision.
DecisionKept ==
  /\ Final(srStatus) => srStatus' = srStatus
  /\ \A q \in Quotes : Final(quote[q].status) => quote'[q].status = quote[q].status
  /\ \A k \in Proposals : Final(proposal[k].status) => proposal'[k] = proposal[k]
DecisionsAreFinal == [][DecisionKept]_vars

\* A quote has a negotiated price exactly when one party proposed it for this
\* quote and the other one accepted it; a superseded or rejected proposal never
\* becomes the price (acceptQuotePriceProposal against supersession).
PriceWasAgreed ==
  \A q \in Quotes :
    LET agreed == {k \in Proposals : proposal[k].quote = q /\ proposal[k].status = "ACCEPTED"} IN
    /\ quote[q].negotiated # 0 <=> agreed # {}
    /\ quote[q].negotiated # 0 =>
         \E k \in agreed : /\ proposal[k].price = quote[q].negotiated
                           /\ {proposal[k].by, proposal[k].resolvedBy} = Parties

\* "Quote.price/negotiatedPrice ... never change once an Engagement exists"
\* (confirm-cash-payment.service.ts).
PriceFixed ==
  \A q \in engagements : EffectivePrice(quote'[q]) = EffectivePrice(quote[q])
PriceIsFixedAtAcceptance == [][PriceFixed]_vars

\* "guarantees at most one PENDING proposal exists per Quote at any time"
\* (quote-negotiation.repository.ts, supersedePendingProposals).
OnePendingProposal == \A q \in Quotes : \A j, k \in Pending(q) : j = k
=============================================================================
