------------------------------ MODULE MCRuntime -------------------------------
(***************************************************************************)
(* Two processes over one outbox and one broker, for TLC.                  *)
(***************************************************************************)
EXTENDS Runtime
=============================================================================
