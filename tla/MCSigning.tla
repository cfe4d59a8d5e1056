----------------------------- MODULE MCSigning -----------------------------
(* Model-checking instance of Signing.                                     *)
EXTENDS Signing, TLC

Symmetry == Permutations(Requests) \cup Permutations(Parties)
=============================================================================
