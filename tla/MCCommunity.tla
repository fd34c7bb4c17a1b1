---------------------------- MODULE MCCommunity -----------------------------
(* Two accounts' handlers, two members and one task.                        *)
EXTENDS Community, TLC

CONSTANTS t1, t2, t3, l1, l2, h1, h2, k1, k2

Symmetry == Permutations({l1, l2}) \cup Permutations({h1, h2}) \cup Permutations({k1, k2})
=============================================================================
