------------------------ MODULE MCStorefrontSession -------------------------
(***************************************************************************)
(* The instance Session.cfg checks: two tabs with two requests each.       *)
(***************************************************************************)
EXTENDS StorefrontSession
=============================================================================
