---------------------------- MODULE MCInventory ----------------------------
(* An event on a small instance for TLC: three tickets of one type, two     *)
(* uploads, two buyers and two sessions.                                    *)
EXTENDS InventoryProofs, TLC

CONSTANTS y1, t1, t2, t3, b1, b2, k1, k2, s1, s2, o1, o2, cheap

OneType      == {y1}
ThreeTickets == {t1, t2, t3}
TwoBuyers    == {b1, b2}
TwoKeys      == {k1, k2}
TwoSessions  == {s1, s2}
TwoPrices    == {Free, cheap}

Interchangeable ==
  Permutations(Ticket) \cup Permutations(Buyer) \cup Permutations(Key) \cup Permutations(Session)
=============================================================================
