----------------------------- MODULE MCCheckout -----------------------------
(***************************************************************************)
(* A small instance of Checkout for TLC.  CheckoutProofs is extended so    *)
(* that its assumptions are evaluated too.                                 *)
(***************************************************************************)
EXTENDS CheckoutProofs, TLC

CONSTANTS o1, t1, t2, r1, r2, w

\* One order of two tickets; every order is in every scope.
OneOrder   == {o1}
TwoTickets == {t1, t2}
OneOrderOf == t1 :> o1 @@ t2 :> o1
OneScope   == {{o1}}

TwoRequests == {r1, r2}
Interchangeable == Permutations({t1, t2}) \cup Permutations(TwoRequests)
=============================================================================
