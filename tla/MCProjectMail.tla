--------------------------- MODULE MCProjectMail ---------------------------
(* A small instance of ProjectMail: a session with two names, and another. *)
EXTENDS ProjectMail, TLC

CONSTANTS one, oneToo, two

MCAlias == {one, oneToo, two}
MCSessionOf == one :> "s1" @@ oneToo :> "s1" @@ two :> "s2"
=============================================================================
