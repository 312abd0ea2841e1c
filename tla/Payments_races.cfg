SPECIFICATION RacesSpec
CONSTANTS
  Attempts = {1, 2}
  Requests = {r1, r2}
  Prices = {1, 2}
  MaxPayments = 2
  MaxCrashes = 1
SYMMETRY Symmetry
CONSTRAINT OneOfEither
INVARIANT PaymentRecordedOnce
INVARIANT ApprovedIsBacked
PROPERTY ImplementsPaymentBook
