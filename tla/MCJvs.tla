-------------------------------- MODULE MCJvs --------------------------------
(* Jvs for TLC. *)
EXTENDS Jvs
=============================================================================
