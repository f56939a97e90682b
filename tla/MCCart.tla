------------------------------- MODULE MCCart --------------------------------
(***************************************************************************)
(* The instance CartRequests.cfg checks: two requests and a checkout.      *)
(***************************************************************************)
EXTENDS Cart
=============================================================================
