--------------------------- MODULE MCCheckoutClaim ---------------------------
(***************************************************************************)
(* A small instance of the checkout claim for TLC: two keys whose lock     *)
(* numbers collide.                                                        *)
(***************************************************************************)
EXTENDS CheckoutClaim

CONSTANTS k1, k2

MCKeys == {k1, k2}
MCLockOf == [k \in MCKeys |-> 0]
=============================================================================
