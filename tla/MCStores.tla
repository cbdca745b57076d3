----------------------------- MODULE MCStores -----------------------------
EXTENDS Stores, TLC
CONSTANTS q, i, b1, b2
MCTo == [m \in Msg |-> {b1}]
=============================================================================
