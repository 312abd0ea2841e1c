SPECIFICATION AllSpec
CONSTANTS
  Quotes = {q1, q2}
  Proposals = {1, 2}
  Requests = {r1, r2}
  Prices = {1, 2}
  NoQuote = NoQuote
  MaxRuns = 2
  MaxMishaps = 1
  Sections = {"settings", "user-accounts", "service-requests", "quotes", "reviews", "payments",
              "categories", "email-templates", "email-layout", "admin-roles", "admin-users",
              "negotiation-thread", "engagement-chat", "appointments", "engagement-reviews"}
  Rows = {a, b}
  Values = {0, 1}
  Handlers = {h1, h2}
  Nothing = Nothing
  Choices = {a, b}
  Flights = {h1, h2}
  Unset = Unset
SYMMETRY AllSymmetry
CHECK_DEADLOCK FALSE
CONSTRAINT OnePriceAsked
CONSTRAINT OneStory
CONSTRAINT FewHandlers
INVARIANT OneDeal
INVARIANT PriceWasAgreed
PROPERTY DecisionsAreFinal
INVARIANT DealsMirrorTheServices
INVARIANT OnlyTheInterruptedRepeat
PROPERTY PurelyAdditive
INVARIANT PanelTypeOK
INVARIANT NoErrorMeansCurrent
INVARIANT ChosenIsSent
PROPERTY OnlyTheEditedChanges
