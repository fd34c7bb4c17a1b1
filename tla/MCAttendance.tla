---------------------------- MODULE MCAttendance ----------------------------
(* One attendance of an event that asks for a scan and two confirmations,   *)
(* beside two handlers at a time.                                           *)
EXTENDS Attendance, TLC

CONSTANTS p1, p2, p3, s1, s2

MCPeers == {p1, p2, p3}
MCSessions == {s1, s2}
MCRequired == {"qr", "peer"}

Symmetry == Permutations(MCPeers) \cup Permutations(MCSessions)
=============================================================================
