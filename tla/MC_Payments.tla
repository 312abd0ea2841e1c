----------------------------- MODULE MC_Payments -----------------------------
(* Instances of Payments for TLC.                                           *)
EXTENDS Payments, TLC

\* Requests are interchangeable: a permutation of them changes nothing a safety
\* property looks at.
Symmetry == Permutations(Requests)
=============================================================================
