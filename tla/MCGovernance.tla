---------------------------- MODULE MCGovernance ----------------------------
(* A community of two users, and two handlers at a time.                    *)
EXTENDS Governance, TLC

CONSTANTS u1, u2, s1, s2

Symmetry == Permutations({s1, s2})
=============================================================================
