------------------------------- MODULE MCDoor -------------------------------
(* Two tickets, their holder and a friend, two links; and one ticket with a *)
(* benefit and three codes: for two requests at a time.                     *)
EXTENDS Door, TLC

CONSTANTS t1, t2, buyer, friend, l1, l2, s1, s2, c1, c2, c3

Symmetry == Permutations({t1, t2}) \cup Permutations({l1, l2}) \cup Permutations({s1, s2})
=============================================================================
