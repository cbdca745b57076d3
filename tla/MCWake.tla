------------------------------- MODULE MCWake -------------------------------
(* Two asks, so that one marker can be written and the other fail, and     *)
(* three names: the derived one, a chosen one and a refused one.           *)
EXTENDS Wake, TLC

CONSTANTS derived, chosen, refused, q1, q2

MCName == {derived, chosen, refused}
MCTaken == {refused}
MCAsk == {q1, q2}
MCTo == q1 :> derived @@ q2 :> chosen
=============================================================================
