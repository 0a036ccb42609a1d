------------------------------ MODULE MCCards ------------------------------
(***************************************************************************)
(* Cards for TLC: two cards of two blocks, supplies that run low with the  *)
(* second sheet, and one fault.                                            *)
(***************************************************************************)
EXTENDS Cards, TLC

CardIds == Permutations(Ids)
=============================================================================
