--------------------------- MODULE MCChoreography ----------------------------
(***************************************************************************)
(* Small instances of the choreography for TLC.                            *)
(***************************************************************************)
EXTENDS ChoreographyProps

CONSTANTS o1, o2, p1, p2

\* One line of one unit per order.
OneLine == [o \in Orders |-> [p \in Products |-> IF p = p1 THEN 1 ELSE 0]]

\* The first order wants one unit of each product, the others only of p1.
TwoForFirst ==
  [o \in Orders |-> [p \in Products |-> IF o = o1 \/ p = p1 THEN 1 ELSE 0]]

OneUnit == [p \in Products |-> 1]

\* Stock corrections by one unit.
OneDown == {-1}

OneUp == {1}

NoDeltas == {}

NoUnit == [p \in Products |-> 0]
=============================================================================
