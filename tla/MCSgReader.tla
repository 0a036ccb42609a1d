----------------------------- MODULE MCSgReader -----------------------------
(***************************************************************************)
(* SgReader for TLC: two cards of each kind, so that the player can swap   *)
(* them, and the replies to a poll and to one request after it.            *)
(***************************************************************************)
EXTENDS SgReader, TLC

Cards == Permutations(Luids) \cup Permutations(IDms)
=============================================================================
