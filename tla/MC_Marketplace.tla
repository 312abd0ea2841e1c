--------------------------- MODULE MC_Marketplace ---------------------------
\* Two quotes of one request; handlers and quotes are interchangeable.
EXTENDS Marketplace, TLC

Symmetry == Permutations(Requests) \cup Permutations(Quotes)
=============================================================================
