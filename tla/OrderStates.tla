----------------------------- MODULE OrderStates -----------------------------
(***************************************************************************)
(* The five-state order lifecycle as the domain layer of the orders        *)
(* context defines it: the statuses, the allowed transitions and the       *)
(* predicate every entity method asks before it changes a status.          *)
(***************************************************************************)

Statuses == {"pending", "inventory_reserved", "payment_authorized",
             "confirmed", "cancelled"}

Terminal == {"confirmed", "cancelled"}

\* Self-transitions are allowed everywhere; the terminal states have no other.
AllowedTransitions ==
  [pending            |-> {"pending", "inventory_reserved", "confirmed", "cancelled"},
   inventory_reserved |-> {"inventory_reserved", "payment_authorized", "cancelled"},
   payment_authorized |-> {"payment_authorized", "confirmed", "cancelled"},
   confirmed          |-> {"confirmed"},
   cancelled          |-> {"cancelled"}]

CanTransition(from, to) == from \in Statuses /\ to \in AllowedTransitions[from]

\* The entity methods change the status only when it differs, and raise when
\* the transition is not allowed.
Moves(from, to) == from # to /\ CanTransition(from, to)

Raises(from, to) == ~CanTransition(from, to)
=============================================================================
