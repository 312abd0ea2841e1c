SPECIFICATION FairSpec
CONSTANTS
  Attempts = {1}
  Requests = {r1, r2}
  Prices = {1}
  MaxPayments = 1
  MaxCrashes = 0
PROPERTY DecidedIsEventuallyResolved
