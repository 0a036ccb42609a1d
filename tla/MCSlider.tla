------------------------------- MODULE MCSlider -------------------------------
(* Slider for TLC. *)
EXTENDS Slider
=============================================================================
