------------------------------ MODULE MCBngRw ------------------------------
(***************************************************************************)
(* BngRw for TLC: two requests, so that one can follow or meet another,    *)
(* and two packets.                                                        *)
(***************************************************************************)
EXTENDS BngRw

MCTimeouts == {-1, 0, 1}
=============================================================================
