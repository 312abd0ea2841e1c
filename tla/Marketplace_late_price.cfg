SPECIFICATION Spec
CONSTANTS
  Quotes = {q1, q2}
  Proposals = {1, 2}
  Requests = {r1, r2}
  Prices = {1, 2}
  NoQuote = NoQuote
SYMMETRY Symmetry
CHECK_DEADLOCK FALSE
PROPERTY PriceIsFixedAtAcceptance
