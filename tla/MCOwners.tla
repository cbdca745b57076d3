------------------------------ MODULE MCOwners ------------------------------
(* Three pids, so that two launchers can compete while another program has *)
(* the pid of one that crashed, and two threads whose derived aliases are  *)
(* also the aliases that are asked for.                                    *)
EXTENDS Owners, TLC

CONSTANTS t1, t2, x, y

MCDerived == t1 :> x @@ t2 :> y
=============================================================================
