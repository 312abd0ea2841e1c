----------------------------- MODULE MC_Accounts -----------------------------
(* One instance for TLC of the modules about accounts: those of users, with  *)
(* their sessions and reset codes, and the books of the money.  They run     *)
(* side by side: a behaviour is one of Accounts, of Sessions or of Ledger.   *)
EXTENDS Sessions, Ledger, TLC

VARIABLE part

AllInit == /\ part \in {"accounts", "sessions", "books", "balances"}
           /\ Init /\ SessionsInit /\ LedgerInit
           /\ part # "sessions" => \A u \in Users : ~ user[u].social
           \* Every price starts as the least.
           /\ \A e \in Engagements, price \in Prices : job[e].price <= price

AllNext == \/ part = "accounts" /\ Next /\ UNCHANGED <<part, sessionVars, ledgerVars>>
           \/ part = "sessions" /\ SessionsNext /\ UNCHANGED <<part, vars, ledgerVars>>
           \/ part \in {"books", "balances"} /\ LedgerNext /\ UNCHANGED <<part, vars, sessionVars>>

AllSpec == AllInit /\ [][AllNext]_<<part, vars, sessionVars, ledgerVars>>

\* A negative percentage is accepted like any other.
MCPercents == {-50, 10}

\* The books are explored with one handler, and the balances, within a tick and
\* with one percentage, with one that books while another adds up.
OneHandlerOrOneTick ==
  LET books == booking[1].pc adds == booking[2].pc IN
  /\ books \notin {"credits", "debts", "balance"}
  /\ part = "books" => adds = "idle"
  /\ part = "balances" => /\ now = 0 /\ changes <= 1
                          /\ adds \in {"idle", "credits", "debts", "balance"}
                          /\ adds = "balance" => books = "idle"

\* The types of accounts, of sessions and of the books.
TypesOK == TypeOK /\ SessionsTypeOK /\ LedgerTypeOK

Symmetry == Permutations(Requests) \cup Permutations(Emails) \cup Permutations(Kinds) \cup Permutations(Engagements)
=============================================================================
