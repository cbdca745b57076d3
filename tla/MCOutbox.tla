------------------------------ MODULE MCOutbox ------------------------------
(* Small instances of Outbox: one directed ask and one broadcast. *)
EXTENDS Outbox, TLC

CONSTANTS ask, cast, peer, other

MCTo == ask :> peer @@ cast :> Everyone
MCToAsk == ask :> peer
MCToCast == cast :> Everyone
=============================================================================
