----------------------------- MODULE MCCredentials -----------------------------
(***************************************************************************)
(* A small instance of the credential routes for TLC: half-second ticks, a *)
(* window of a second and a half, and limits that few requests reach.      *)
(***************************************************************************)
EXTENDS Credentials

\* One address is registered with one password and logged in to with any; the
\* others are tried with that password only.
CONSTANT First, Usual

SmallForms ==
  {f \in [kind : {"login", "register"}, host : Hosts, email : Emails,
          password : Passwords] :
     \/ f.email = First /\ f.kind = "login"
     \/ f.email = First /\ f.password = Usual
     \/ f.kind = "login" /\ f.password = Usual}

SmallLimits == [l \in Limiters |-> 2]
SmallWindows == [l \in Limiters |-> 3]
=============================================================================
