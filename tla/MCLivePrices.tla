----------------------------- MODULE MCLivePrices -----------------------------
(***************************************************************************)
(* Small instances of LivePrices: two games, so that one can be forgotten  *)
(* while the other is viewed.                                              *)
(***************************************************************************)
EXTENDS LivePrices, TLC

Symmetry == Permutations(Slug)
=============================================================================
