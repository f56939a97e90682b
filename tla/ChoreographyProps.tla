-------------------------- MODULE ChoreographyProps --------------------------
(***************************************************************************)
(* What the choreography promises: the type invariant, the safety and      *)
(* liveness properties, and the lifecycle it implements.                   *)
(***************************************************************************)
EXTENDS Choreography, FiniteSetsExt

OrderStatus == Statuses \cup {"absent"}

EventId == [type : EventTypes, order : Orders, n : Nat \ {0}]

MessageId == [type : EventTypes, order : Orders, n : Nat \ {0}, copy : Nat]

Delivery ==
  [replica : Replicas, msg : MessageId, attached : BOOLEAN,
   stage : {"status", "stock", "reread"}, seen : OrderStatus, reread : OrderStatus,
   available : [Products -> Int], reserved : [Products -> Int]]

Request == [click : Clicks, op : {"confirm", "cancel"}, order : Orders, open : BOOLEAN]

\* Every variable stays in its type: statuses the database constraint allows,
\* counts that never go below zero, rows and messages that name real orders.
TypeOK ==
  /\ order \in [Orders -> OrderStatus]
  /\ timeline \in [Orders -> Seq(EventTypes)]
  /\ available \in [Products -> Int]
  /\ reserved \in [Products -> Int]
  /\ adjusted \in [Products -> Int]
  /\ payments \in [Orders -> [{"authorized", "declined"} -> Nat]]
  /\ notified \in [Orders -> [TerminalEvents -> Nat]]
  /\ emitted \in [EventTypes -> [Orders -> Nat]]
  /\ pending \subseteq EventId
  /\ broker \subseteq MessageId
  /\ processed \in [Consumers -> SUBSET EventId]
  /\ deliveries \subseteq Delivery
  /\ requests \subseteq Request
  /\ faults \in Nat

-----------------------------------------------------------------------------
(* Safety, whatever overlaps: operators, replicas, duplicate deliveries.   *)

Paid(o) == payments[o]["authorized"] > 0

\* No order is ever confirmed without an authorized payment row, however the
\* finalizer, the operators' confirm and cancel and stale handlers overwrite
\* each other's status (routes, finalize_payment_authorized, checkout).
ConfirmedIsPaid == \A o \in Orders : order[o] = "confirmed" => Paid(o)

\* "Inventory is reserved before payment authorization is attempted": a payment
\* row of an order of the asynchronous path implies its reservation was made.
PaymentAfterReservation ==
  \A o \in Orders \ SyncOrders : \A s \in {"authorized", "declined"} :
    payments[o][s] > 0 => emitted["InventoryReserved"][o] > 0

\* The OrderCreated event of a synchronous checkout reaches the inventory
\* consumer too; the order must not be reserved or charged a second time.
CheckoutIsNotRepeated ==
  \A o \in SyncOrders :
    /\ emitted["InventoryReserved"][o] + emitted["InventoryRejected"][o] = 0
    /\ payments[o]["authorized"] + payments[o]["declined"] <= 1

\* No available quantity is driven below zero, although handlers write back
\* quantities they read before an adjustment or a checkout changed the row. This
\* is about the column only: the units of a row overwritten in this way can be
\* promised a second time, to another order.
StockNeverNegative == \A p \in Products : available[p] >= 0

-----------------------------------------------------------------------------
(* Safety when no two deliveries of one event overlap.                     *)

\* No event is in the hands of two handlers.
OneAtATime ==
  \A d, e \in deliveries : EventOf(d.msg) = EventOf(e.msg) => d = e

\* What rules such an overlap out: a message is in the queues twice only if its
\* row was published twice or its channel was lost under the handler, and one
\* process takes the messages of a queue one by one.
NoOverlap ==
  /\ "reconnect" \notin FaultKinds
  /\ "republish" \in FaultKinds => \A r, s \in Replicas : r = s

\* No two orders want a product in common.
Apart ==
  \A o, x \in Orders : o # x => Wanted(o) \cap Wanted(x) = {}

\* The handler works on stock rows it has read.
HoldsView(d) == d.stage = "stock" \/ (d.stage = "reread" /\ NeedsStock(d))

\* What a handler has read of the reserved (available) column still stands.
FreshReserved ==
  \A d \in deliveries : HoldsView(d) =>
    \A p \in Wanted(d.msg.order) : d.reserved[p] = reserved[p]

FreshAvailable ==
  \A d \in deliveries : HoldsView(d) =>
    \A p \in Wanted(d.msg.order) : d.available[p] = available[p]

\* No handler has read stock that fits some lines of its order and not others.
NothingPartial ==
  \A d \in deliveries :
    d.stage = "stock" /\ d.msg.type = "OrderCreated" =>
      {p \in Wanted(d.msg.order) : d.available[p] >= Demand[d.msg.order][p]}
        \in {{}, Wanted(d.msg.order)}

\* A reservation is never left half made: the order has one line, or stock that
\* nobody adjusts is enough for all its lines.
AllOrNothing ==
  \A o \in Orders :
    \/ \A p, q \in Wanted(o) : p = q
    \/ Deltas = {} /\ \A p \in Wanted(o) : Demand[o][p] <= InitialStock[p]

\* "Processing the same event twice must not duplicate side effects": one
\* reservation outcome and at most one payment row per order, one notification
\* per terminal event (and the checkout's own one).
NoDuplicateSideEffects ==
  \A o \in Orders :
    /\ emitted["InventoryReserved"][o] + emitted["InventoryRejected"][o] <= 1
    /\ payments[o]["authorized"] + payments[o]["declined"] <= 1
    /\ \A ty \in TerminalEvents :
         notified[o][ty] <= emitted[ty][o] + (IF o \in SyncOrders THEN 1 ELSE 0)

-----------------------------------------------------------------------------
(* Safety of the stock ledger.                                             *)

\* The reservation of o stands: its units are set aside for it.
Holds(o) ==
  /\ order[o] # "cancelled"
  /\ emitted["InventoryReserved"][o] > 0 \/ (o \in SyncOrders /\ order[o] = "confirmed")

Holders == {o \in Orders : Holds(o)}

\* The units of p that the orders of S want.
UnitsFor(S, p) == MapThenSumSet(LAMBDA o : Demand[o][p], S)

\* Reserved units are exactly those of the orders that still hold them: after
\* PaymentRejected the compensation gives back each line the reservation took,
\* once, before the same delivery cancels the order, however often it is repeated
\* or dies half way. The reservation must be made of all lines or none and no
\* operator may decide: what is saved of an order before a line that does not
\* fit, and what an operator cancels, stays reserved for ever.
StockBacksOrders == \A p \in Products : reserved[p] = UnitsFor(Holders, p)

\* All units of p, but for those that adjustments have added or removed ...
Balance(p) == available[p] + reserved[p] - adjusted[p]

\* ... and those set aside for no order, or if negative promised twice.
Unbacked(p) == reserved[p] - UnitsFor(Holders, p)

\* "Concurrent adjustments serialize instead of losing updates": no unit appears or
\* vanishes, whatever is adjusted while handlers reserve and release. It holds as
\* long as what the open handlers have read of the rows still stands; otherwise
\* one order and one adjustment violate it.
StockConserved == \A p \in Products : Balance(p) = InitialStock[p]

\* A handler commits and writes back the row of p as it read it, give or take the
\* units of its order, although others have changed it meanwhile.
StaleWrite(d, p) ==
  /\ d \notin deliveries'
  /\ HoldsView(d) /\ p \in Wanted(d.msg.order)
  /\ <<d.available[p], d.reserved[p]>> # <<available[p], reserved[p]>>
  /\ available'[p] + reserved'[p] = d.available[p] + d.reserved[p]

\* A handler commits the line of p although another line of its order does not
\* fit: the rejection that it emits gives nothing back.
HalfReservation(d, p) ==
  LET o == d.msg.order
  IN /\ d \notin deliveries' /\ d.msg.type = "OrderCreated"
     /\ p \in Wanted(o) /\ d.available[p] >= Demand[o][p]
     /\ \E q \in Wanted(o) : d.available[q] < Demand[o][q]
     /\ Balance(p)' = Balance(p) /\ Unbacked(p)' = Unbacked(p) + Demand[o][p]

\* Units are lost or invented, left reserved for nobody or promised twice in two
\* ways only: a handler that read a stock row without a lock (get_by_product and
\* save of SqlAlchemyInventoryRepository) undoes what adjustments, checkouts and
\* other handlers did to it since; and the lines saved before one that does not fit
\* (ReserveForOrder) stay reserved for a rejected order. No other race, redelivery
\* or crash breaks the books, as long as no operator decides.
StockLossesExplained ==
  [][\A p \in Products :
       \/ Balance(p)' = Balance(p) /\ Unbacked(p)' = Unbacked(p)
       \/ \E d \in deliveries : StaleWrite(d, p) \/ HalfReservation(d, p)]_vars

-----------------------------------------------------------------------------
(* The lifecycle the choreography implements.                              *)

Announced ==
  [o \in Orders |-> [s \in Terminal |->
     emitted[IF s = "confirmed" THEN "OrderConfirmed" ELSE "OrderCancelled"][o]]]

Lifecycle == INSTANCE OrderLifecycle WITH status <- order, announced <- Announced

\* The committed orders walk only allowed transitions and each announces its
\* terminal status in exactly one outbox row.
ImplementsLifecycle == Lifecycle!Spec

\* "confirmed and cancelled are terminal (self-transitions only)."
TerminalIsFinal ==
  [][\A o \in Orders : order[o] \in Terminal => order'[o] = order[o]]_vars

\* The status a timeline event stands for.
StatusAfter ==
  [OrderCreated           |-> "pending",
   InventoryReserved      |-> "inventory_reserved",
   PaymentAuthorized      |-> "payment_authorized",
   OrderPaymentAuthorized |-> "confirmed",
   OrderConfirmed         |-> "confirmed",
   InventoryRejected      |-> "cancelled",
   PaymentRejected        |-> "cancelled",
   OrderCancelled         |-> "cancelled"]

\* The timeline a shopper reads is a legal walk through the lifecycle that ends
\* in the order's status (asynchronous path).
TimelineIsLegalWalk ==
  \A o \in Orders \ SyncOrders :
    LET t == timeline[o]
    IN /\ order[o] = IF t = <<>> THEN "absent" ELSE StatusAfter[t[Len(t)]]
       /\ \A i \in 1..(Len(t) - 1) : Moves(StatusAfter[t[i]], StatusAfter[t[i + 1]])

-----------------------------------------------------------------------------
(* Liveness, under FairSpec.                                               *)

\* "100% of simulated orders end in a valid terminal state."
EventuallyTerminal ==
  \A o \in Orders : order[o] # "absent" ~> order[o] \in Terminal

\* A terminal order is eventually notified, by the row of its own event.
TerminalIsNotified ==
  \A o \in Orders :
    /\ order[o] = "confirmed" ~> notified[o]["OrderConfirmed"] > 0
    /\ order[o] = "cancelled" ~> notified[o]["OrderCancelled"] > 0

\* Every committed outbox row is eventually processed by its consumer: a crash
\* between publishing, committing and acknowledging loses nothing.
EveryRowProcessed ==
  \A ty \in EventTypes, o \in Orders :
    emitted[ty][o] > 0 ~>
      [type |-> ty, order |-> o, n |-> 1] \in processed[ClaimsOf[ty][1]]
=============================================================================
