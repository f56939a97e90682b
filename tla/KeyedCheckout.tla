---------------------------- MODULE KeyedCheckout ----------------------------
(***************************************************************************)
(* What POST /checkout promises about the Idempotency-Key header: a key    *)
(* places one order, every answer to a request with that key and that      *)
(* payload is this order, and another payload is refused.  No locks, no    *)
(* transactions, no failures: those are CheckoutClaim's.                   *)
(***************************************************************************)
CONSTANTS
  Attempts,   \* HTTP requests; the order an attempt places is named after it
  Keys,
  Payloads,
  NoKey,      \* the header is absent
  NoRequest,
  NoAnswer,
  Conflict    \* the answer 409

VARIABLES
  request,    \* request[a]: what attempt a sent
  orders,     \* orders placed
  answer      \* answer[a]: the order a was told of, or Conflict

Request == [key : Keys \cup {NoKey}, payload : Payloads]

SameKey(a, b) == request[a].key = request[b].key /\ request[a].key # NoKey

Init ==
  /\ request = [a \in Attempts |-> NoRequest]
  /\ orders = {}
  /\ answer = [a \in Attempts |-> NoAnswer]

Send(a) ==
  /\ request[a] = NoRequest
  /\ \E r \in Request : request' = [request EXCEPT ![a] = r]
  /\ UNCHANGED <<orders, answer>>

Place(a) ==
  /\ request[a] # NoRequest
  /\ \A o \in orders : ~SameKey(o, a)
  /\ orders' = orders \cup {a}
  /\ UNCHANGED <<request, answer>>

Answer(a, o) ==
  /\ request[a] # NoRequest
  /\ o \in orders
  /\ o = a \/ (SameKey(o, a) /\ request[o] = request[a])
  /\ answer' = [answer EXCEPT ![a] = o]
  /\ UNCHANGED <<request, orders>>

Refuse(a) ==
  /\ request[a] # NoRequest
  /\ \E o \in orders : SameKey(o, a) /\ request[o].payload # request[a].payload
  /\ answer' = [answer EXCEPT ![a] = Conflict]
  /\ UNCHANGED <<request, orders>>

Next == \E a \in Attempts :
  Send(a) \/ Place(a) \/ Refuse(a) \/ \E o \in Attempts : Answer(a, o)

Spec == Init /\ [][Next]_<<request, orders, answer>>
=============================================================================
