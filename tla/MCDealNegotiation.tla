------------------------- MODULE MCDealNegotiation -------------------------
(* Model-checking instance of DealNegotiation.                             *)
EXTENDS DealNegotiation, TLC

Symmetry == Permutations(Requests) \cup Permutations(Guests) \cup Permutations(Texts)
=============================================================================
