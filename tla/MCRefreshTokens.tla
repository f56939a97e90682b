--------------------------- MODULE MCRefreshTokens ---------------------------
(***************************************************************************)
(* A small instance of refresh-token rotation for TLC.                     *)
(***************************************************************************)
EXTENDS RefreshTokens
=============================================================================
