----------------------------- MODULE MCRegistry -----------------------------
EXTENDS Registry, TLC
CONSTANTS a1, a2, s1, s2
Symm == Permutations({a1, a2}) \union Permutations({s1, s2})
=============================================================================
