--------------------------- MODULE OrderLifecycle ----------------------------
(***************************************************************************)
(* What the orders context promises, with nothing of how it is reached:    *)
(* an order is created once, walks the allowed transitions, and the step   *)
(* into a terminal status announces that status exactly once.  The edge    *)
(* pending -> confirmed belongs to the synchronous checkout, which creates *)
(* and resolves an order in one step.                                      *)
(***************************************************************************)
EXTENDS OrderStates, Naturals

CONSTANT Orders

VARIABLES status,     \* status[o]: "absent" until the order exists
          announced   \* announced[o][s]: terminal events emitted for status s

lifecycleVars == <<status, announced>>

Init ==
  /\ status = [o \in Orders |-> "absent"]
  /\ announced = [o \in Orders |-> [s \in Terminal |-> 0]]

Create(o) ==
  /\ status[o] = "absent"
  /\ status' = [status EXCEPT ![o] = "pending"]
  /\ UNCHANGED announced

Advance(o, s) ==
  /\ Moves(status[o], s)
  /\ s \notin Terminal
  /\ status' = [status EXCEPT ![o] = s]
  /\ UNCHANGED announced

Finish(o, s) ==
  /\ s \in Terminal
  /\ \/ /\ Moves(status[o], s)
        /\ <<status[o], s>> # <<"pending", "confirmed">>
     \/ status[o] = "absent"    \* created and resolved by the checkout
  /\ status' = [status EXCEPT ![o] = s]
  /\ announced' = [announced EXCEPT ![o][s] = @ + 1]

Next == \E o \in Orders :
  \/ Create(o)
  \/ \E s \in Statuses : Advance(o, s) \/ Finish(o, s)

Spec == Init /\ [][Next]_lifecycleVars
=============================================================================
