----------------------------- MODULE MCBrokers -----------------------------
(* Three pids, so that a broker can be replaced while some other program   *)
(* runs under its pid, and so that a third starts when two rivals are up.  *)
EXTENDS Brokers
=============================================================================
