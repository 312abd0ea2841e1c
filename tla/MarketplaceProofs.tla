-------------------------- MODULE MarketplaceProofs --------------------------
(***************************************************************************)
(* Theorems about Marketplace for every set of quotes, proposals, handlers *)
(* and prices.                                                             *)
(***************************************************************************)
EXTENDS Marketplace, TLAPS

\* What a handler may rely on when it writes: the quote, the party or the
\* existing proposal its first step put in its record.
CarriedBy(r) ==
  /\ req[r].pc \in {"submit", "accept", "propose", "supersede"} => req[r].q \in Quotes
  /\ req[r].pc \in {"propose", "supersede", "resolve"} => req[r].party \in Parties
  /\ req[r].pc = "resolve" => /\ req[r].k \in Proposals
                              /\ proposal[req[r].k].status # "NONE"
                              /\ proposal[req[r].k].by # req[r].party
CarriedOK == \A r \in Requests : CarriedBy(r)

\* An inserted proposal is of a quote, by a party and for a price.
ProposalsOK == \A k \in Proposals : proposal[k].status # "NONE" =>
                 /\ proposal[k].quote \in Quotes
                 /\ proposal[k].by \in Parties
                 /\ proposal[k].price \in Prices

Typing == TypeOK /\ CarriedOK /\ ProposalsOK

-----------------------------------------------------------------------------
(* Records                                                                 *)

\* A handler that waits is one.
LEMMA IdleTyped == Idle \in Request
  BY DEF Idle, Request, Pcs

\* A quote that is submitted is a row.
LEMMA NewQuoteTyped ==
  ASSUME NEW p \in Prices
  PROVE  [status |-> "SENT", price |-> p, negotiated |-> 0] \in QuoteRow
  BY DEF QuoteRow, QuoteStatuses

\* A quote with another status is a row.
LEMMA QuoteStatusTyped ==
  ASSUME NEW row \in QuoteRow, NEW s \in QuoteStatuses
  PROVE  [row EXCEPT !.status = s] \in QuoteRow
  BY DEF QuoteRow

\* A quote with a negotiated price is a row.
LEMMA QuotePriceTyped ==
  ASSUME NEW row \in QuoteRow, NEW p \in Prices
  PROVE  [row EXCEPT !.negotiated = p] \in QuoteRow
  BY DEF QuoteRow

\* A proposal that is posted is a row.
LEMMA NewProposalTyped ==
  ASSUME NEW q \in Quotes, NEW p \in Prices, NEW party \in Parties
  PROVE  [status |-> "PENDING", quote |-> q, price |-> p, by |-> party,
          resolvedBy |-> "NONE"] \in ProposalRow
  BY DEF ProposalRow, ProposalStatuses

\* A proposal that is superseded is a row.
LEMMA SupersededTyped ==
  ASSUME NEW row \in ProposalRow
  PROVE  [row EXCEPT !.status = "SUPERSEDED"] \in ProposalRow
  BY DEF ProposalRow, ProposalStatuses

\* A proposal that a party resolves is a row.
LEMMA ResolvedTyped ==
  ASSUME NEW row \in ProposalRow, NEW party \in Parties, NEW s \in {"ACCEPTED", "REJECTED"}
  PROVE  [row EXCEPT !.status = s, !.resolvedBy = party] \in ProposalRow
  BY DEF ProposalRow, ProposalStatuses

\* A finished handler carries nothing.
LEMMA Finished ==
  ASSUME Typing, NEW r \in Requests, Finish(r)
  PROVE  /\ req' \in [Requests -> Request]
         /\ \A s \in Requests : req'[s] = req[s] \/ req'[s] = Idle
  BY IdleTyped DEF Typing, TypeOK, Finish

\* A proposal that exists goes on existing, with the quote, the author and the
\* price it was written with.
ProposalsKept ==
  \A k \in Proposals : proposal[k].status # "NONE" =>
    /\ proposal'[k].status # "NONE"
    /\ proposal'[k].quote = proposal[k].quote
    /\ proposal'[k].by = proposal[k].by
    /\ proposal'[k].price = proposal[k].price

\* What a handler carries stays good as long as proposals are kept: when the
\* handler does not move, or is finished.
LEMMA CarriedKept ==
  ASSUME Typing, ProposalsKept,
         \A r \in Requests : req'[r] = req[r] \/ req'[r] = Idle
  PROVE  CarriedOK'
<1> SUFFICES ASSUME NEW r \in Requests PROVE CarriedBy(r)'
  BY DEF CarriedOK
<1>1. CASE req'[r] = req[r]
  BY <1>1 DEF CarriedBy, Typing, CarriedOK, ProposalsKept
<1>2. CASE req'[r] = Idle
  BY <1>2 DEF CarriedBy, Idle
<1> QED
  BY <1>1, <1>2

\* A handler that starts carries what its record says; the others do not move.
LEMMA CarriedStarted ==
  ASSUME Typing, NEW r \in Requests, NEW new \in Request,
         req' = [req EXCEPT ![r] = new], proposal' = proposal,
         new.pc \in {"submit", "accept", "propose", "supersede"} => new.q \in Quotes,
         new.pc \in {"propose", "supersede", "resolve"} => new.party \in Parties,
         new.pc = "resolve" => /\ new.k \in Proposals
                               /\ proposal[new.k].status # "NONE"
                               /\ proposal[new.k].by # new.party
  PROVE  req' \in [Requests -> Request] /\ CarriedOK'
<1>1. req' \in [Requests -> Request]
  BY DEF Typing, TypeOK
<1>2. ASSUME NEW s \in Requests PROVE CarriedBy(s)'
  <2>1. CASE s = r
    <3>1. req'[s] = new
      BY <2>1 DEF Typing, TypeOK
    <3> QED
      BY <3>1 DEF CarriedBy
  <2>2. CASE s # r
    <3>1. req'[s] = req[s]
      BY <2>2 DEF Typing, TypeOK
    <3> QED
      BY <3>1 DEF CarriedBy, Typing, CarriedOK
  <2> QED
    BY <2>1, <2>2
<1> QED
  BY <1>1, <1>2 DEF CarriedOK

-----------------------------------------------------------------------------
(* Type correctness                                                        *)

\* There is a request, and nothing quoted.
LEMMA InitTyping == Init => Typing
<1> SUFFICES ASSUME Init PROVE Typing
  OBVIOUS
<1>1. NoQuoteRow \in QuoteRow /\ NoProposalRow \in ProposalRow
  BY DEF NoQuoteRow, QuoteRow, QuoteStatuses, NoProposalRow, ProposalRow, ProposalStatuses
<1>2. TypeOK
  BY <1>1, IdleTyped DEF Init, TypeOK, ServiceRequestStatuses
<1>3. CarriedOK
  BY DEF Init, CarriedOK, CarriedBy, Idle
<1>4. ProposalsOK
  BY DEF Init, ProposalsOK, NoProposalRow
<1> QED
  BY <1>2, <1>3, <1>4 DEF Typing

\* The first step of every handler.
LEMMA BeginTyping ==
  ASSUME Typing, NEW r \in Requests, Begin(r)
  PROVE  Typing'
<1> SUFFICES req' \in [Requests -> Request] /\ CarriedOK' /\
             UNCHANGED <<srVars, quote, proposal, engagements>>
  BY DEF Typing, TypeOK, ProposalsOK, srVars
<1>1. ASSUME NEW q \in Quotes, ReadForSubmit(r, q)
      PROVE  req' \in [Requests -> Request] /\ CarriedOK' /\
             UNCHANGED <<srVars, quote, proposal, engagements>>
  <2> DEFINE new == [Idle EXCEPT !.pc = "submit", !.q = q]
  <2>1. new \in Request /\ new.pc = "submit" /\ new.q = q
    BY DEF Idle, Request, Pcs
  <2> HIDE DEF new
  <2>2. req' = [req EXCEPT ![r] = new] /\ UNCHANGED <<srVars, quote, proposal, engagements>>
    BY <1>1 DEF ReadForSubmit, new
  <2> QED
    BY <2>1, <2>2, CarriedStarted
<1>2. ASSUME NEW q \in Quotes, ReadForAccept(r, q)
      PROVE  req' \in [Requests -> Request] /\ CarriedOK' /\
             UNCHANGED <<srVars, quote, proposal, engagements>>
  <2> DEFINE new == [Idle EXCEPT !.pc = "accept", !.q = q]
  <2>1. new \in Request /\ new.pc = "accept" /\ new.q = q
    BY DEF Idle, Request, Pcs
  <2> HIDE DEF new
  <2>2. req' = [req EXCEPT ![r] = new] /\ UNCHANGED <<srVars, quote, proposal, engagements>>
    BY <1>2 DEF ReadForAccept, new
  <2> QED
    BY <2>1, <2>2, CarriedStarted
<1>3. ASSUME NEW q \in Quotes, NEW party \in Parties, ReadForProposal(r, q, party)
      PROVE  req' \in [Requests -> Request] /\ CarriedOK' /\
             UNCHANGED <<srVars, quote, proposal, engagements>>
  <2> DEFINE new == [Idle EXCEPT !.pc = "propose", !.q = q, !.party = party]
  <2>1. new \in Request /\ new.pc = "propose" /\ new.q = q /\ new.party = party
    BY DEF Idle, Request, Pcs
  <2> HIDE DEF new
  <2>2. req' = [req EXCEPT ![r] = new] /\ UNCHANGED <<srVars, quote, proposal, engagements>>
    BY <1>3 DEF ReadForProposal, new
  <2> QED
    BY <2>1, <2>2, CarriedStarted
<1>4. ASSUME NEW k \in Proposals, NEW party \in Parties, ReadForResolve(r, k, party)
      PROVE  req' \in [Requests -> Request] /\ CarriedOK' /\
             UNCHANGED <<srVars, quote, proposal, engagements>>
  <2> DEFINE new == [Idle EXCEPT !.pc = "resolve", !.k = k, !.party = party]
  <2>1. new \in Request /\ new.pc = "resolve" /\ new.k = k /\ new.party = party
    BY DEF Idle, Request, Pcs
  <2> HIDE DEF new
  <2>2. req' = [req EXCEPT ![r] = new] /\ UNCHANGED <<srVars, quote, proposal, engagements>>
    BY <1>4 DEF ReadForResolve, new
  <2>3. proposal[k].status # "NONE" /\ proposal[k].by # party
    BY <1>4 DEF ReadForResolve, Resolver
  <2> QED
    BY <2>1, <2>2, <2>3, CarriedStarted
<1> QED
  BY <1>1, <1>2, <1>3, <1>4 DEF Begin

\* The writing steps of the handlers.
LEMMA ContinueTyping ==
  ASSUME Typing, NEW r \in Requests, Continue(r)
  PROVE  Typing'
<1> USE DEF srVars
<1>1. ASSUME NEW p \in Prices, SubmitQuote(r, p) PROVE Typing'
  <2>1. quote' \in [Quotes -> QuoteRow]
    BY <1>1, NewQuoteTyped DEF SubmitQuote, Typing, TypeOK
  <2>2. ProposalsKept /\ proposal' = proposal
    BY <1>1 DEF SubmitQuote, ProposalsKept
  <2>3. CarriedOK' /\ req' \in [Requests -> Request]
    BY <1>1, <2>2, Finished, CarriedKept DEF SubmitQuote
  <2> QED
    BY <1>1, <2>1, <2>2, <2>3 DEF SubmitQuote, Typing, TypeOK, ProposalsOK
<1>2. ASSUME AcceptQuote(r) PROVE Typing'
  <2>1. req[r].q \in Quotes
    BY <1>2 DEF AcceptQuote, Typing, CarriedOK, CarriedBy
  <2>2. SiblingsRejected(req[r].q) \in [Quotes -> QuoteRow]
    <3>1. ASSUME NEW s \in Quotes
          PROVE  /\ [quote[s] EXCEPT !.status = "ACCEPTED"] \in QuoteRow
                 /\ [quote[s] EXCEPT !.status = "REJECTED"] \in QuoteRow
                 /\ quote[s] \in QuoteRow
      BY QuoteStatusTyped DEF Typing, TypeOK, QuoteStatuses
    <3> QED
      BY <3>1 DEF SiblingsRejected
  <2>3. ProposalsKept /\ proposal' = proposal
    BY <1>2 DEF AcceptQuote, ProposalsKept
  <2>4. CarriedOK' /\ req' \in [Requests -> Request]
    BY <1>2, <2>3, Finished, CarriedKept DEF AcceptQuote
  <2> QED
    BY <1>2, <2>1, <2>2, <2>3, <2>4
       DEF AcceptQuote, Typing, TypeOK, ProposalsOK, ServiceRequestStatuses
<1>3. ASSUME SeePending(r) PROVE Typing'
  <2> DEFINE new == [req[r] EXCEPT !.pc = "supersede", !.seen = Pending(req[r].q)]
  <2>1. req[r] \in Request /\ req[r].q \in Quotes /\ req[r].party \in Parties
    BY <1>3 DEF SeePending, Typing, TypeOK, CarriedOK, CarriedBy
  <2>2. Pending(req[r].q) \in SUBSET Proposals
    BY DEF Pending
  <2>3. new \in Request /\ new.pc = "supersede" /\ new.q = req[r].q /\ new.party = req[r].party
    BY <2>1, <2>2 DEF Request, Pcs
  <2>4. req' = [req EXCEPT ![r] = new] /\ UNCHANGED <<srVars, quote, proposal, engagements>>
    BY <1>3 DEF SeePending
  <2> HIDE DEF new
  <2>5. req' \in [Requests -> Request] /\ CarriedOK'
    BY <2>1, <2>3, <2>4, CarriedStarted
  <2> QED
    BY <2>4, <2>5 DEF Typing, TypeOK, ProposalsOK
<1>4. ASSUME NEW k \in Proposals, NEW p \in Prices, CreatePriceProposal(r, k, p)
      PROVE  Typing'
  <2> DEFINE new == [status |-> "PENDING", quote |-> req[r].q, price |-> p,
                     by |-> req[r].party, resolvedBy |-> "NONE"]
  <2>1. req[r].q \in Quotes /\ req[r].party \in Parties
    BY <1>4 DEF CreatePriceProposal, Typing, CarriedOK, CarriedBy
  <2>2. new \in ProposalRow /\ new.quote \in Quotes /\ new.by \in Parties /\ new.price \in Prices
    BY <2>1, NewProposalTyped
  <2>3. ASSUME NEW j \in Proposals
        PROVE  /\ proposal[j] \in ProposalRow
               /\ [proposal[j] EXCEPT !.status = "SUPERSEDED"] \in ProposalRow
               /\ proposal'[j] \in {IF j = k THEN new ELSE proposal[j],
                                    [proposal[j] EXCEPT !.status = "SUPERSEDED"]}
               /\ j = k => proposal'[j] = new
               /\ proposal'[j] # proposal[j] /\ j # k => StillPending(j)
    BY <1>4, SupersededTyped DEF CreatePriceProposal, Typing, TypeOK
  <2> HIDE DEF new
  <2>4. proposal' \in [Proposals -> ProposalRow]
    BY <1>4, <2>2, <2>3 DEF CreatePriceProposal
  <2>5. proposal[k].status = "NONE"
    BY <1>4 DEF CreatePriceProposal, IsNextProposal
  <2>6. ProposalsKept
    BY <2>3, <2>5 DEF ProposalsKept, ProposalRow
  <2>7. ProposalsOK'
    <3> SUFFICES ASSUME NEW j \in Proposals, proposal'[j].status # "NONE"
                 PROVE  /\ proposal'[j].quote \in Quotes
                        /\ proposal'[j].by \in Parties
                        /\ proposal'[j].price \in Prices
      BY DEF ProposalsOK
    <3>1. CASE j = k
      BY <3>1, <2>2, <2>3
    <3>2. CASE j # k
      <4>1. proposal[j].status # "NONE"
        BY <3>2, <2>3 DEF StillPending
      <4> QED
        BY <4>1, <2>6 DEF ProposalsKept, Typing, ProposalsOK
    <3> QED
      BY <3>1, <3>2
  <2>8. CarriedOK' /\ req' \in [Requests -> Request]
    BY <1>4, <2>6, Finished, CarriedKept DEF CreatePriceProposal
  <2> QED
    BY <1>4, <2>4, <2>7, <2>8 DEF CreatePriceProposal, Typing, TypeOK
<1>5. ASSUME NEW s \in {"ACCEPTED", "REJECTED"}, req[r].pc = "resolve", Finish(r),
             proposal' = [proposal EXCEPT ![req[r].k] =
                            [@ EXCEPT !.status = s, !.resolvedBy = req[r].party]]
      PROVE  /\ req' \in [Requests -> Request]
             /\ proposal' \in [Proposals -> ProposalRow]
             /\ CarriedOK' /\ ProposalsOK'
  <2> DEFINE new == [proposal[req[r].k] EXCEPT !.status = s, !.resolvedBy = req[r].party]
  <2>1. /\ req[r].k \in Proposals /\ req[r].party \in Parties
        /\ proposal[req[r].k].status # "NONE" /\ proposal[req[r].k] \in ProposalRow
    BY <1>5 DEF Typing, TypeOK, CarriedOK, CarriedBy
  <2>2. /\ new \in ProposalRow /\ new.status # "NONE"
        /\ new.quote = proposal[req[r].k].quote
        /\ new.by = proposal[req[r].k].by
        /\ new.price = proposal[req[r].k].price
    BY <2>1, ResolvedTyped DEF ProposalRow
  <2>3. proposal' = [proposal EXCEPT ![req[r].k] = new]
    BY <1>5
  <2> HIDE DEF new
  <2>4. proposal' \in [Proposals -> ProposalRow]
    BY <2>2, <2>3 DEF Typing, TypeOK
  <2>5. \A j \in Proposals : proposal'[j] = IF j = req[r].k THEN new ELSE proposal[j]
    BY <2>3 DEF Typing, TypeOK
  <2>6. ProposalsKept
    BY <2>2, <2>5 DEF ProposalsKept
  <2>7. ProposalsOK'
    BY <2>1, <2>2, <2>5 DEF Typing, ProposalsOK
  <2> QED
    BY <1>5, <2>4, <2>6, <2>7, Finished, CarriedKept
<1>6. ASSUME AcceptProposal(r) PROVE Typing'
  <2>1. req[r].k \in Proposals /\ proposal[req[r].k].status # "NONE"
    BY <1>6 DEF AcceptProposal, Typing, CarriedOK, CarriedBy
  <2>2. quote' \in [Quotes -> QuoteRow]
    <3>1. proposal[req[r].k].quote \in Quotes /\ proposal[req[r].k].price \in Prices
      BY <2>1 DEF Typing, ProposalsOK
    <3>2. [quote[proposal[req[r].k].quote] EXCEPT !.negotiated = proposal[req[r].k].price]
            \in QuoteRow
      BY <3>1, QuotePriceTyped DEF Typing, TypeOK
    <3> QED
      BY <1>6, <3>1, <3>2 DEF AcceptProposal, Typing, TypeOK
  <2> QED
    BY <1>5, <1>6, <2>2 DEF AcceptProposal, Typing, TypeOK
<1>7. ASSUME RejectProposal(r) PROVE Typing'
  BY <1>5, <1>7 DEF RejectProposal, Typing, TypeOK
<1>8. ASSUME GiveUp(r) PROVE Typing'
  <2>1. ProposalsKept /\ proposal' = proposal
    BY <1>8 DEF GiveUp, ProposalsKept
  <2>2. CarriedOK' /\ req' \in [Requests -> Request]
    BY <1>8, <2>1, Finished, CarriedKept DEF GiveUp
  <2> QED
    BY <1>8, <2>1, <2>2 DEF GiveUp, Typing, TypeOK, ProposalsOK
<1> QED
  BY <1>1, <1>2, <1>3, <1>4, <1>6, <1>7, <1>8 DEF Continue

\* Each step keeps the types, and handlers hold the ids of existing rows.
LEMMA NextTyping == Typing /\ [Next]_vars => Typing'
<1> SUFFICES ASSUME Typing, [Next]_vars PROVE Typing'
  OBVIOUS
<1> USE DEF srVars
<1>1. CASE CancelServiceRequest
  BY <1>1 DEF CancelServiceRequest, Typing, TypeOK, ServiceRequestStatuses,
              CarriedOK, CarriedBy, ProposalsOK
<1>2. ASSUME NEW q \in Quotes, WithdrawQuote(q) \/ RejectQuote(q) PROVE Typing'
  <2>1. \A s \in {"WITHDRAWN", "REJECTED"} : [quote[q] EXCEPT !.status = s] \in QuoteRow
    BY QuoteStatusTyped DEF Typing, TypeOK, QuoteStatuses
  <2>2. quote' \in [Quotes -> QuoteRow]
    BY <1>2, <2>1 DEF WithdrawQuote, RejectQuote, Typing, TypeOK
  <2> QED
    BY <1>2, <2>2 DEF WithdrawQuote, RejectQuote, Typing, TypeOK,
                      CarriedOK, CarriedBy, ProposalsOK
<1>3. CASE UNCHANGED vars
  BY <1>3 DEF vars, Typing, TypeOK, CarriedOK, CarriedBy, ProposalsOK
<1> QED
  BY <1>1, <1>2, <1>3, BeginTyping, ContinueTyping DEF Next

\* Quotes, proposals and handlers keep their types in every behaviour.
LEMMA TypingHolds == Spec => []Typing
  BY InitTyping, NextTyping, PTL DEF Spec

\* The rows and what the handlers carry keep their types.
THEOREM TypeCorrect == Spec => []TypeOK
<1>1. Typing => TypeOK
  BY DEF Typing
<1> QED
  BY <1>1, TypingHolds, PTL

-----------------------------------------------------------------------------
(* Safety                                                                  *)

\* A step that only changes prices, proposals or handlers leaves the deal alone.
LEMMA DealKept ==
  ASSUME OneDeal, UNCHANGED <<srVars, engagements>>,
         \A q \in Quotes : quote'[q].status = "ACCEPTED" <=> quote[q].status = "ACCEPTED"
  PROVE  OneDeal'
<1>1. Accepted' = Accepted
  BY DEF Accepted
<1> QED
  BY <1>1 DEF OneDeal, srVars

\* A quote is accepted by the handler that closes the request.
LEMMA NextOneDeal == Typing /\ OneDeal /\ [Next]_vars => OneDeal'
<1> SUFFICES ASSUME Typing, OneDeal, [Next]_vars PROVE OneDeal'
  OBVIOUS
<1>1. CASE CancelServiceRequest
  <2>1. Accepted' = Accepted
    BY <1>1 DEF CancelServiceRequest, Accepted
  <2> QED
    BY <1>1, <2>1 DEF CancelServiceRequest, OneDeal
<1>2. ASSUME NEW q \in Quotes, WithdrawQuote(q) \/ RejectQuote(q) PROVE OneDeal'
  <2>1. \A s \in Quotes : quote'[s].status = "ACCEPTED" <=> quote[s].status = "ACCEPTED"
    BY <1>2 DEF WithdrawQuote, RejectQuote, Sent, Rejectable, Typing, TypeOK, QuoteRow
  <2> QED
    BY <1>2, <2>1, DealKept DEF WithdrawQuote, RejectQuote
<1>3. ASSUME NEW r \in Requests, Begin(r) PROVE OneDeal'
  BY <1>3, DealKept DEF Begin, ReadForSubmit, ReadForAccept, ReadForProposal, ReadForResolve
<1>4. ASSUME NEW r \in Requests, NEW p \in Prices, SubmitQuote(r, p) PROVE OneDeal'
  <2>1. \A s \in Quotes : quote'[s].status = "ACCEPTED" <=> quote[s].status = "ACCEPTED"
    BY <1>4 DEF SubmitQuote, Typing, TypeOK
  <2> QED
    BY <1>4, <2>1, DealKept DEF SubmitQuote
<1>5. ASSUME NEW r \in Requests, AcceptQuote(r) PROVE OneDeal'
  <2>1. req[r].q \in Quotes /\ Accepted = {}
    BY <1>5 DEF AcceptQuote, Engageable, OneDeal, Typing, CarriedOK, CarriedBy
  <2>2. ASSUME NEW s \in Quotes
        PROVE  quote'[s].status = "ACCEPTED" <=> s = req[r].q
    <3>1. quote[s] \in QuoteRow /\ quote[s].status # "ACCEPTED"
      BY <2>1 DEF Accepted, Typing, TypeOK
    <3>2. quote'[s] = IF s = req[r].q THEN [quote[s] EXCEPT !.status = "ACCEPTED"]
                      ELSE IF quote[s].status = "SENT"
                           THEN [quote[s] EXCEPT !.status = "REJECTED"] ELSE quote[s]
      BY <1>5 DEF AcceptQuote, SiblingsRejected
    <3> QED
      BY <3>1, <3>2 DEF QuoteRow
  <2>3. Accepted' = {req[r].q}
    BY <2>1, <2>2 DEF Accepted
  <2> QED
    BY <1>5, <2>3 DEF AcceptQuote, OneDeal
<1>6. ASSUME NEW r \in Requests, AcceptProposal(r) PROVE OneDeal'
  <2>1. \A s \in Quotes : quote'[s].status = quote[s].status
    <3>1. quote' = [quote EXCEPT ![proposal[req[r].k].quote] =
                      [@ EXCEPT !.negotiated = proposal[req[r].k].price]]
      BY <1>6 DEF AcceptProposal
    <3> QED
      BY <3>1 DEF Typing, TypeOK, QuoteRow
  <2> QED
    BY <1>6, <2>1, DealKept DEF AcceptProposal
<1>7. ASSUME NEW r \in Requests, SeePending(r) \/ RejectProposal(r) \/ GiveUp(r)
      PROVE  OneDeal'
  BY <1>7, DealKept DEF SeePending, RejectProposal, GiveUp
<1>8. ASSUME NEW r \in Requests, NEW k \in Proposals, NEW p \in Prices,
             CreatePriceProposal(r, k, p)
      PROVE  OneDeal'
  BY <1>8, DealKept DEF CreatePriceProposal
<1>9. CASE UNCHANGED vars
  BY <1>9, DealKept DEF vars, srVars
<1> QED
  BY <1>1, <1>2, <1>3, <1>4, <1>5, <1>6, <1>7, <1>8, <1>9 DEF Next, Continue

\* At most one quote is accepted, it is the one the request names, and it alone
\* has an Engagement, whatever runs at once (acceptQuote).
THEOREM OneDealHolds == Spec => []OneDeal
<1>1. Init => OneDeal
  BY DEF Init, OneDeal, Accepted, NoQuoteRow
<1> QED
  BY <1>1, NextOneDeal, TypingHolds, PTL DEF Spec

\* A step leaves every decision, or changes nothing.
LEMMA DecisionStep == Typing /\ [Next]_vars => DecisionKept \/ UNCHANGED vars
<1> SUFFICES ASSUME Typing, Next PROVE DecisionKept
  OBVIOUS
<1> USE DEF DecisionKept, Final, srVars
<1>1. CASE CancelServiceRequest
  BY <1>1 DEF CancelServiceRequest
<1>2. ASSUME NEW q \in Quotes, WithdrawQuote(q) \/ RejectQuote(q) PROVE DecisionKept
  <2>1. \A s \in Quotes : s # q => quote'[s] = quote[s]
    BY <1>2 DEF WithdrawQuote, RejectQuote, Typing, TypeOK
  <2>2. quote[q].status = "SENT"
    BY <1>2 DEF WithdrawQuote, RejectQuote, Sent, Rejectable
  <2> QED
    BY <1>2, <2>1, <2>2 DEF WithdrawQuote, RejectQuote
<1>3. ASSUME NEW r \in Requests, Begin(r) PROVE DecisionKept
  BY <1>3 DEF Begin, ReadForSubmit, ReadForAccept, ReadForProposal, ReadForResolve
<1>4. ASSUME NEW r \in Requests, NEW p \in Prices, SubmitQuote(r, p) PROVE DecisionKept
  <2>1. \A s \in Quotes : s # req[r].q => quote'[s] = quote[s]
    BY <1>4 DEF SubmitQuote, Typing, TypeOK
  <2> QED
    BY <1>4, <2>1 DEF SubmitQuote
<1>5. ASSUME NEW r \in Requests, AcceptQuote(r) PROVE DecisionKept
  <2>1. ASSUME NEW s \in Quotes, Final(quote[s].status)
        PROVE  quote'[s].status = quote[s].status
    BY <1>5, <2>1 DEF AcceptQuote, Sent, SiblingsRejected
  <2> QED
    BY <1>5, <2>1 DEF AcceptQuote, Engageable
<1>6. ASSUME NEW r \in Requests, AcceptProposal(r) PROVE DecisionKept
  <2>1. \A s \in Quotes : quote'[s].status = quote[s].status
    <3>1. quote' = [quote EXCEPT ![proposal[req[r].k].quote] =
                      [@ EXCEPT !.negotiated = proposal[req[r].k].price]]
      BY <1>6 DEF AcceptProposal
    <3> QED
      BY <3>1 DEF Typing, TypeOK, QuoteRow
  <2>2. \A j \in Proposals : j # req[r].k => proposal'[j] = proposal[j]
    BY <1>6 DEF AcceptProposal, Typing, TypeOK
  <2> QED
    BY <1>6, <2>1, <2>2 DEF AcceptProposal, StillPending
<1>7. ASSUME NEW r \in Requests, RejectProposal(r) PROVE DecisionKept
  <2>1. \A j \in Proposals : j # req[r].k => proposal'[j] = proposal[j]
    BY <1>7 DEF RejectProposal, Typing, TypeOK
  <2> QED
    BY <1>7, <2>1 DEF RejectProposal, StillPending
<1>8. ASSUME NEW r \in Requests, SeePending(r) \/ GiveUp(r) PROVE DecisionKept
  BY <1>8 DEF SeePending, GiveUp
<1>9. ASSUME NEW r \in Requests, NEW k \in Proposals, NEW p \in Prices,
             CreatePriceProposal(r, k, p)
      PROVE  DecisionKept
  <2>1. ASSUME NEW j \in Proposals, Final(proposal[j].status)
        PROVE  proposal'[j] = proposal[j]
    BY <1>9, <2>1 DEF CreatePriceProposal, IsNextProposal, StillPending
  <2> QED
    BY <1>9, <2>1 DEF CreatePriceProposal
<1> QED
  BY <1>1, <1>2, <1>3, <1>4, <1>5, <1>6, <1>7, <1>8, <1>9 DEF Next, Continue

\* No handler takes back a decision of another one: every later write is
\* conditional on the status it read.
THEOREM DecisionsAreFinalHolds == Spec => DecisionsAreFinal
<1>1. Typing /\ [Next]_vars => [DecisionKept]_vars
  BY DecisionStep
<1> QED
  BY <1>1, TypingHolds, PTL DEF Spec, DecisionsAreFinal

-----------------------------------------------------------------------------
(* Prices                                                                  *)

Agreed(q) == {k \in Proposals : proposal[k].quote = q /\ proposal[k].status = "ACCEPTED"}

\* The strengthening of PriceWasAgreed: no proposal is written, nor about to be,
\* for a quote that is not there yet.  Without it submitQuote could forget a
\* price that was agreed before.
NegotiatedOnlyIfSent ==
  /\ \A k \in Proposals : proposal[k].status # "NONE" => quote[proposal[k].quote].status # "NONE"
  /\ \A r \in Requests : req[r].pc \in {"propose", "supersede"} => quote[req[r].q].status # "NONE"

PricesOK == NegotiatedOnlyIfSent /\ PriceWasAgreed

\* The price of one quote was agreed.
AgreedFor(q) ==
  /\ quote[q].negotiated # 0 <=> Agreed(q) # {}
  /\ quote[q].negotiated # 0 =>
       \E k \in Agreed(q) : /\ proposal[k].price = quote[q].negotiated
                            /\ {proposal[k].by, proposal[k].resolvedBy} = Parties

\* The price was agreed if each quote's was.
LEMMA PriceWasAgreedForEach == PriceWasAgreed <=> \A q \in Quotes : AgreedFor(q)
  BY DEF PriceWasAgreed, AgreedFor, Agreed

\* A step that accepts no proposal and forgets no negotiated price.
LEMMA AgreedKept ==
  ASSUME PriceWasAgreed,
         \A q \in Quotes : quote'[q].negotiated = quote[q].negotiated,
         \A k \in Proposals : IF proposal[k].status = "ACCEPTED" THEN proposal'[k] = proposal[k]
                              ELSE proposal'[k].status # "ACCEPTED"
  PROVE  PriceWasAgreed'
<1>1. ASSUME NEW q \in Quotes
      PROVE  AgreedFor(q)'
  <2>1. Agreed(q)' = Agreed(q) /\ \A k \in Agreed(q) : proposal'[k] = proposal[k]
    BY DEF Agreed
  <2>2. AgreedFor(q)
    BY PriceWasAgreedForEach
  <2> QED
    BY <2>1, <2>2 DEF AgreedFor
<1> QED
  BY <1>1 DEF PriceWasAgreed, AgreedFor, Agreed

\* A quote that is there stays there, and so does the proposals' quote.
LEMMA NegotiatedOnlyIfSentKept ==
  ASSUME Typing, NegotiatedOnlyIfSent, ProposalsKept,
         \A k \in Proposals : proposal[k].status = "NONE" => proposal'[k].status = "NONE",
         \A q \in Quotes : quote[q].status # "NONE" => quote'[q].status # "NONE",
         \A r \in Requests : req'[r] = req[r] \/ req'[r] = Idle
  PROVE  NegotiatedOnlyIfSent'
<1>1. ASSUME NEW k \in Proposals, proposal'[k].status # "NONE"
      PROVE  quote'[proposal'[k].quote].status # "NONE"
  BY <1>1 DEF NegotiatedOnlyIfSent, ProposalsKept, Typing, ProposalsOK
<1>2. ASSUME NEW r \in Requests, req'[r].pc \in {"propose", "supersede"}
      PROVE  quote'[req'[r].q].status # "NONE"
  BY <1>2 DEF NegotiatedOnlyIfSent, Idle, Typing, CarriedOK, CarriedBy
<1> QED
  BY <1>1, <1>2 DEF NegotiatedOnlyIfSent

\* What a handler reads first changes no price.
LEMMA BeginPrices ==
  ASSUME Typing, PricesOK, NEW r \in Requests, Begin(r)
  PROVE  PricesOK'
<1>1. UNCHANGED <<quote, proposal>>
  BY DEF Begin, ReadForSubmit, ReadForAccept, ReadForProposal, ReadForResolve
<1>2. PriceWasAgreed'
  BY <1>1, AgreedKept DEF PricesOK
<1>3. ASSUME NEW s \in Requests, req'[s].pc \in {"propose", "supersede"}
      PROVE  quote[req'[s].q].status # "NONE"
  <2>1. CASE req'[s] = req[s]
    BY <1>3, <2>1 DEF PricesOK, NegotiatedOnlyIfSent
  <2>2. CASE req'[s] # req[s]
    <3>1. PICK q \in Quotes, party \in Parties : ReadForProposal(r, q, party)
      <4>1. ASSUME NEW new \in Request, new.pc \notin {"propose", "supersede"},
                   req' = [req EXCEPT ![r] = new]
            PROVE  FALSE
        BY <1>3, <2>2, <4>1 DEF Typing, TypeOK
      <4>2. ASSUME NEW q \in Quotes, ReadForSubmit(r, q) \/ ReadForAccept(r, q) PROVE FALSE
        <5>1. \A c \in {"submit", "accept"} :
                /\ [Idle EXCEPT !.pc = c, !.q = q] \in Request
                /\ [Idle EXCEPT !.pc = c, !.q = q].pc = c
          BY DEF Idle, Request, Pcs
        <5> QED
          BY <4>1, <4>2, <5>1 DEF ReadForSubmit, ReadForAccept
      <4>3. ASSUME NEW k \in Proposals, NEW party \in Parties, ReadForResolve(r, k, party)
            PROVE FALSE
        <5>1. /\ [Idle EXCEPT !.pc = "resolve", !.k = k, !.party = party] \in Request
              /\ [Idle EXCEPT !.pc = "resolve", !.k = k, !.party = party].pc = "resolve"
          BY DEF Idle, Request, Pcs
        <5> QED
          BY <4>1, <4>3, <5>1 DEF ReadForResolve
      <4> QED
        BY <4>2, <4>3 DEF Begin
    <3>2. quote[q].status = "SENT"
      BY <3>1 DEF ReadForProposal
    <3>3. req'[s] = [Idle EXCEPT !.pc = "propose", !.q = q, !.party = party]
      BY <2>2, <3>1 DEF ReadForProposal, Typing, TypeOK
    <3>4. req'[s].q = q
      BY <3>3 DEF Idle
    <3> QED
      BY <3>2, <3>4
  <2> QED
    BY <2>1, <2>2
<1> QED
  BY <1>1, <1>2, <1>3 DEF PricesOK, NegotiatedOnlyIfSent

\* A negotiated price is the one of a proposal that the other party accepted.
LEMMA ContinuePrices ==
  ASSUME Typing, PricesOK, NEW r \in Requests, Continue(r)
  PROVE  PricesOK'
<1> USE DEF PricesOK
<1>1. ASSUME NEW p \in Prices, SubmitQuote(r, p) PROVE PricesOK'
  <2>1. req[r].q \in Quotes /\ quote[req[r].q].status = "NONE"
    BY <1>1 DEF SubmitQuote, Typing, CarriedOK, CarriedBy
  <2>2. Agreed(req[r].q) = {}
    BY <2>1 DEF Agreed, NegotiatedOnlyIfSent
  <2>3. quote[req[r].q].negotiated = 0
    BY <2>1, <2>2, PriceWasAgreedForEach DEF AgreedFor
  <2>4. /\ \A q \in Quotes : quote'[q].negotiated = quote[q].negotiated
        /\ \A q \in Quotes : quote[q].status # "NONE" => quote'[q].status # "NONE"
    BY <1>1, <2>3 DEF SubmitQuote, Typing, TypeOK
  <2>5. proposal' = proposal /\ Finish(r) /\ ProposalsKept
    BY <1>1 DEF SubmitQuote, ProposalsKept
  <2> QED
    BY <2>4, <2>5, AgreedKept, NegotiatedOnlyIfSentKept, Finished
<1>2. ASSUME AcceptQuote(r) PROVE PricesOK'
  <2>1. ASSUME NEW s \in Quotes
        PROVE  /\ quote'[s].negotiated = quote[s].negotiated
               /\ quote[s].status # "NONE" => quote'[s].status # "NONE"
    <3>1. quote[s] \in QuoteRow
      BY DEF Typing, TypeOK
    <3>2. quote'[s] = IF s = req[r].q THEN [quote[s] EXCEPT !.status = "ACCEPTED"]
                      ELSE IF quote[s].status = "SENT"
                           THEN [quote[s] EXCEPT !.status = "REJECTED"] ELSE quote[s]
      BY <1>2 DEF AcceptQuote, SiblingsRejected
    <3> QED
      BY <3>1, <3>2 DEF QuoteRow
  <2>2. proposal' = proposal /\ Finish(r) /\ ProposalsKept
    BY <1>2 DEF AcceptQuote, ProposalsKept
  <2> QED
    BY <2>1, <2>2, AgreedKept, NegotiatedOnlyIfSentKept, Finished
<1>3. ASSUME SeePending(r) PROVE PricesOK'
  <2>1. UNCHANGED <<quote, proposal>>
    BY <1>3 DEF SeePending
  <2>2. ASSUME NEW s \in Requests, req'[s].pc \in {"propose", "supersede"}
        PROVE  quote[req'[s].q].status # "NONE"
    <3>1. /\ req' = [req EXCEPT ![r] = [req[r] EXCEPT !.pc = "supersede",
                                                      !.seen = Pending(req[r].q)]]
          /\ req[r].pc = "propose" /\ req[r] \in Request
      BY <1>3 DEF SeePending, Typing, TypeOK
    <3>2. req'[s].q = req[s].q /\ req[s].pc \in {"propose", "supersede"}
      BY <2>2, <3>1 DEF Typing, TypeOK, Request
    <3> QED
      BY <3>2 DEF NegotiatedOnlyIfSent
  <2> QED
    BY <2>1, <2>2, AgreedKept DEF NegotiatedOnlyIfSent
<1>4. ASSUME NEW k \in Proposals, NEW p \in Prices, CreatePriceProposal(r, k, p)
      PROVE  PricesOK'
  <2> DEFINE new == [status |-> "PENDING", quote |-> req[r].q, price |-> p,
                     by |-> req[r].party, resolvedBy |-> "NONE"]
  <2>1. new.status = "PENDING" /\ new.quote = req[r].q
    OBVIOUS
  <2>2. proposal[k].status = "NONE"
    BY <1>4 DEF CreatePriceProposal, IsNextProposal
  <2>3. ASSUME NEW j \in Proposals
        PROVE  proposal'[j] = IF j = k THEN new
                              ELSE IF j \in req[r].seen /\ StillPending(j)
                                   THEN [proposal[j] EXCEPT !.status = "SUPERSEDED"]
                                   ELSE proposal[j]
    BY <1>4 DEF CreatePriceProposal
  <2> HIDE DEF new
  <2>4. ASSUME NEW j \in Proposals
        PROVE  /\ IF proposal[j].status = "ACCEPTED" THEN proposal'[j] = proposal[j]
                  ELSE proposal'[j].status # "ACCEPTED"
               /\ j # k /\ proposal'[j].status # "NONE" =>
                    proposal[j].status # "NONE" /\ proposal'[j].quote = proposal[j].quote
    <3>1. proposal[j] \in ProposalRow
      BY DEF Typing, TypeOK
    <3> QED
      BY <2>1, <2>2, <2>3, <3>1 DEF StillPending, ProposalRow
  <2>5. quote' = quote /\ Finish(r)
    BY <1>4 DEF CreatePriceProposal
  <2>6. PriceWasAgreed'
    BY <2>4, <2>5, AgreedKept
  <2>7. quote[req[r].q].status # "NONE"
    BY <1>4 DEF CreatePriceProposal, NegotiatedOnlyIfSent
  <2>8. ASSUME NEW j \in Proposals, proposal'[j].status # "NONE"
        PROVE  quote[proposal'[j].quote].status # "NONE"
    BY <2>1, <2>3, <2>4, <2>7, <2>8 DEF NegotiatedOnlyIfSent
  <2>9. ASSUME NEW s \in Requests, req'[s].pc \in {"propose", "supersede"}
        PROVE  quote[req'[s].q].status # "NONE"
    BY <2>5, <2>9, Finished DEF NegotiatedOnlyIfSent, Idle
  <2> QED
    BY <2>5, <2>6, <2>8, <2>9 DEF NegotiatedOnlyIfSent
<1>5. ASSUME AcceptProposal(r) PROVE PricesOK'
  <2> DEFINE k == req[r].k
             q == proposal[k].quote
  <2>1. /\ k \in Proposals /\ req[r].party \in Parties /\ proposal[k] \in ProposalRow
        /\ proposal[k].status = "PENDING" /\ proposal[k].by # req[r].party
        /\ q \in Quotes /\ proposal[k].by \in Parties /\ proposal[k].price \in Prices
    BY <1>5 DEF AcceptProposal, StillPending, Typing, TypeOK, CarriedOK, CarriedBy, ProposalsOK
  <2>2. ASSUME NEW j \in Proposals
        PROVE  /\ j # k => proposal'[j] = proposal[j]
               /\ j = k => /\ proposal'[j].status = "ACCEPTED"
                           /\ proposal'[j].resolvedBy = req[r].party
                           /\ proposal'[j].quote = q
                           /\ proposal'[j].by = proposal[k].by
                           /\ proposal'[j].price = proposal[k].price
    <3>1. proposal' = [proposal EXCEPT ![k] =
                        [proposal[k] EXCEPT !.status = "ACCEPTED", !.resolvedBy = req[r].party]]
      BY <1>5 DEF AcceptProposal
    <3> QED
      BY <2>1, <3>1 DEF ProposalRow, Typing, TypeOK
  <2>3. ASSUME NEW s \in Quotes
        PROVE  /\ quote'[s].status = quote[s].status
               /\ quote'[s].negotiated = IF s = q THEN proposal[k].price ELSE quote[s].negotiated
    <3>1. quote' = [quote EXCEPT ![q] = [quote[q] EXCEPT !.negotiated = proposal[k].price]]
      BY <1>5 DEF AcceptProposal
    <3> QED
      BY <2>1, <3>1 DEF QuoteRow, Typing, TypeOK
  <2>4. Finish(r)
    BY <1>5 DEF AcceptProposal
  <2> HIDE DEF k, q
  <2>5. ASSUME NEW s \in Quotes
        PROVE  AgreedFor(s)'
    <3>1. CASE s = q
      <4>1. k \in Agreed(s)'
        BY <2>1, <2>2, <3>1 DEF Agreed
      <4>2. proposal[k].price # 0
        BY <2>1, PricesAssumption
      <4>3. proposal'[k].price = quote'[s].negotiated
        BY <2>1, <2>2, <2>3, <3>1
      <4>4. {proposal'[k].by, proposal'[k].resolvedBy} = Parties
        BY <2>1, <2>2 DEF Parties
      <4> QED
        BY <2>3, <3>1, <4>1, <4>2, <4>3, <4>4 DEF AgreedFor
    <3>2. CASE s # q
      <4>1. Agreed(s)' = Agreed(s) /\ k \notin Agreed(s)
        BY <2>1, <2>2, <3>2 DEF Agreed
      <4>2. \A j \in Agreed(s) : j \in Proposals /\ proposal'[j] = proposal[j]
        BY <2>2, <4>1 DEF Agreed
      <4>3. AgreedFor(s)
        BY PriceWasAgreedForEach
      <4> QED
        BY <2>3, <3>2, <4>1, <4>2, <4>3 DEF AgreedFor
    <3> QED
      BY <3>1, <3>2
  <2>6. PriceWasAgreed'
    BY <2>5 DEF PriceWasAgreed, AgreedFor, Agreed
  <2>7. ProposalsKept /\ \A j \in Proposals : proposal[j].status = "NONE" => proposal'[j].status = "NONE"
    BY <2>1, <2>2 DEF ProposalsKept, q
  <2> QED
    BY <2>3, <2>4, <2>6, <2>7, NegotiatedOnlyIfSentKept, Finished
<1>6. ASSUME RejectProposal(r) PROVE PricesOK'
  <2>1. /\ req[r].k \in Proposals /\ proposal[req[r].k] \in ProposalRow
        /\ proposal[req[r].k].status = "PENDING"
    BY <1>6 DEF RejectProposal, StillPending, Typing, TypeOK, CarriedOK, CarriedBy
  <2>2. ASSUME NEW j \in Proposals
        PROVE  /\ j # req[r].k => proposal'[j] = proposal[j]
               /\ j = req[r].k => /\ proposal'[j].status = "REJECTED"
                                  /\ proposal'[j].quote = proposal[j].quote
                                  /\ proposal'[j].by = proposal[j].by
                                  /\ proposal'[j].price = proposal[j].price
    <3>1. proposal' = [proposal EXCEPT ![req[r].k] =
            [proposal[req[r].k] EXCEPT !.status = "REJECTED", !.resolvedBy = req[r].party]]
      BY <1>6 DEF RejectProposal
    <3> QED
      BY <2>1, <3>1 DEF ProposalRow, Typing, TypeOK
  <2>3. quote' = quote /\ Finish(r)
    BY <1>6 DEF RejectProposal
  <2>4. /\ ProposalsKept
        /\ \A j \in Proposals : proposal[j].status = "NONE" => proposal'[j].status = "NONE"
        /\ \A j \in Proposals : IF proposal[j].status = "ACCEPTED" THEN proposal'[j] = proposal[j]
                                ELSE proposal'[j].status # "ACCEPTED"
    BY <2>1, <2>2 DEF ProposalsKept
  <2> QED
    BY <2>3, <2>4, AgreedKept, NegotiatedOnlyIfSentKept, Finished
<1>7. ASSUME GiveUp(r) PROVE PricesOK'
  <2>1. UNCHANGED <<quote, proposal>> /\ Finish(r) /\ ProposalsKept
    BY <1>7 DEF GiveUp, ProposalsKept
  <2> QED
    BY <2>1, AgreedKept, NegotiatedOnlyIfSentKept, Finished
<1> QED
  BY <1>1, <1>2, <1>3, <1>4, <1>5, <1>6, <1>7 DEF Continue

\* Each step leaves prices that were agreed.
LEMMA NextPrices == Typing /\ PricesOK /\ [Next]_vars => PricesOK'
<1> SUFFICES ASSUME Typing, PricesOK, [Next]_vars PROVE PricesOK'
  OBVIOUS
<1>1. ASSUME UNCHANGED <<proposal, req>>,
             \A q \in Quotes : /\ quote'[q].negotiated = quote[q].negotiated
                               /\ quote[q].status # "NONE" => quote'[q].status # "NONE"
      PROVE  PricesOK'
  BY <1>1, AgreedKept, NegotiatedOnlyIfSentKept DEF ProposalsKept, PricesOK
<1>2. CASE CancelServiceRequest \/ UNCHANGED vars
  BY <1>1, <1>2 DEF CancelServiceRequest, vars
<1>3. ASSUME NEW q \in Quotes, WithdrawQuote(q) \/ RejectQuote(q) PROVE PricesOK'
  BY <1>1, <1>3 DEF WithdrawQuote, RejectQuote, Typing, TypeOK, QuoteRow
<1> QED
  BY <1>2, <1>3, BeginPrices, ContinuePrices DEF Next

\* The negotiated price of a quote is one that a party proposed for it and the
\* other party accepted (acceptQuotePriceProposal, supersession included).
THEOREM PriceWasAgreedHolds == Spec => []PriceWasAgreed
<1>1. Init => PricesOK
  BY DEF Init, PricesOK, NegotiatedOnlyIfSent, PriceWasAgreed, NoQuoteRow, NoProposalRow, Idle
<1>2. PricesOK => PriceWasAgreed
  BY DEF PricesOK
<1> QED
  BY <1>1, <1>2, NextPrices, TypingHolds, PTL DEF Spec
=============================================================================
