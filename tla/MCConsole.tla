------------------------------ MODULE MCConsole -------------------------------
(***************************************************************************)
(* Small instances of the operators' consoles for TLC.                      *)
(***************************************************************************)
EXTENDS Console

\* One unit comes in or goes out.
OneUpOrDown == {-1, 1}
=============================================================================
