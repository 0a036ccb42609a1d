-------------------------------- MODULE MCIo4 --------------------------------
(***************************************************************************)
(* Io4 for TLC: two readers, so that a read waits behind another, and two  *)
(* coins, so that one can arrive from the network while the other is held. *)
(***************************************************************************)
EXTENDS Io4
=============================================================================
