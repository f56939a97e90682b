--------------------------- MODULE SequentialCart ----------------------------
(***************************************************************************)
(* One shopper's cart as its API describes it: POST increments a line,     *)
(* PATCH sets an existing one, DELETE removes one, within the limits on    *)
(* lines and quantities.  One request at a time and no database.           *)
(***************************************************************************)
EXTENDS Naturals, FiniteSets

CONSTANTS Products, MaxQuantity, MaxLines

VARIABLE lines   \* lines[p]: quantity of product p, 0 when there is no line

Held(f) == {p \in Products : f[p] > 0}

Init == lines = [p \in Products |-> 0]

Add(p, n) ==
  /\ lines[p] + n <= MaxQuantity
  /\ lines[p] > 0 \/ Cardinality(Held(lines)) < MaxLines
  /\ lines' = [lines EXCEPT ![p] = @ + n]

Put(p, n) ==
  /\ lines[p] > 0
  /\ lines' = [lines EXCEPT ![p] = n]

Remove(p) == lines' = [lines EXCEPT ![p] = 0]

Next == \E p \in Products :
  Remove(p) \/ \E n \in 1..MaxQuantity : Add(p, n) \/ Put(p, n)

Spec == Init /\ [][Next]_lines
=============================================================================
