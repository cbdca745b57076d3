------------------------------- MODULE MCWire -------------------------------
(* Two requests, so that frames can be packed together and an answer can   *)
(* queue behind another; the bodies fit a buffer of three bytes or do not. *)
EXTENDS Wire
=============================================================================
