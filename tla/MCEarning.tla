------------------------------ MODULE MCEarning ------------------------------
(* Three participants, who are each other's peers, three items, and two     *)
(* requests at a time; a milestone, a badge and a rule that gives the       *)
(* badge, due at 1, 2 and 2 points.                                        *)
EXTENDS Earning, TLC

CONSTANTS p1, p2, p3, s1, s2, m, b, r

BadgeOf == r :> b
OnePoint == [a \in {m, b, r} |-> 1]
DueAt == [a \in {m, b, r} |-> IF a = m THEN 1 ELSE 2]

\* an administrator takes a point back
OneDeduction == {-1}

Symmetry == Permutations({p1, p2, p3}) \cup Permutations({s1, s2})
=============================================================================
