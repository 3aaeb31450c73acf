----------------------------- MODULE MCExchange -----------------------------
(* Exchange for TLC: keys, pairs, writers and readers are interchangeable,  *)
(* and the properties are invariants.                                       *)
EXTENDS Exchange, TLC

Symmetry ==
  Permutations(SigningKeys) \cup Permutations(Pairs)
  \cup Permutations(Writers) \cup Permutations(Readers)
=============================================================================
