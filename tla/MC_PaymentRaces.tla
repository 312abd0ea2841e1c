--------------------------- MODULE MC_PaymentRaces ---------------------------
\* A behaviour is of requests that race, with one payment for each checkout, or
\* of one request at a time, with checkouts that can be paid again.
EXTENDS MC_Payments

VARIABLE part

RacesInit == part \in {"many requests", "many payments"} /\ Init
RacesNext == Next /\ UNCHANGED part
RacesSpec == RacesInit /\ [][RacesNext]_<<part, vars>>

OneOfEither ==
  IF part = "many requests"
  THEN \A a \in Attempts : \A k \in 2..MaxPayments : provider[<<a, k>>] = "none"
  ELSE \A r, s \in Requests : r = s \/ req[r] = Idle \/ req[s] = Idle
=============================================================================
