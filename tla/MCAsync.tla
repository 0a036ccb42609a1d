------------------------------- MODULE MCAsync -------------------------------
(***************************************************************************)
(* Async for TLC: three clients, the fewest with which the worker is busy, *)
(* the slot is full and a third submitter has to wait for it.              *)
(***************************************************************************)
EXTENDS Async
=============================================================================
