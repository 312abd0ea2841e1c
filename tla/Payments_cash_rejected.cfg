SPECIFICATION Spec
CONSTANTS
  Attempts = {1, 2}
  Requests = {r1}
  Prices = {1}
  MaxPayments = 2
  MaxCrashes = 0
INVARIANT CashNeverRejected
