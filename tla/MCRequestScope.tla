---------------------------- MODULE MCRequestScope ----------------------------
(***************************************************************************)
(* Two requests of any context, for TLC.                                   *)
(***************************************************************************)
EXTENDS RequestScope
=============================================================================
