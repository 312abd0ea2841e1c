SPECIFICATION AllSpec
CONSTANTS
  Users = {u}
  Emails = {e1, e2}
  Kinds = {customer, professional}
  Codes = {1}
  Checks = {1, 2}
  MaxAttempts = 1
  Requests = {r1, r2}
  SessionIds = {1}
  ResetCodes = {1, 2}
  MaxEpoch = 2
  None = None
  Engagements = {j1, j2}
  Professionals = {p}
  Prices = {3, 5}
  Percents <- MCPercents
  Bookers = {1, 2}
  Nil = Nil
  Cap = 4
  MaxNow = 1
  MaxChanges = 2
SYMMETRY Symmetry
CHECK_DEADLOCK FALSE
CONSTRAINT OneHandlerOrOneTick
INVARIANT TypesOK
INVARIANT StatusIsEarned
INVARIANT NothingOutlivesAReset
PROPERTY FirstDecisionStands
INVARIANT BooksBalance
INVARIANT LinesAreEvents
INVARIANT BalanceIsOfWholeEvents
