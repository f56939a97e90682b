------------------------- MODULE ChoreographyProofs -------------------------
(***************************************************************************)
(* Type correctness and safety of the choreography, for every set of       *)
(* orders, products, replicas and requests, every demand and every         *)
(* schedule of faults.                                                     *)
(*                                                                         *)
(* Under full concurrency: the evidence (an outbox row, a payment row) for *)
(* a status is written before anyone can act on that status, and is never  *)
(* taken back, so a handler that works on a stale status still works on a  *)
(* proven one.                                                             *)
(*                                                                         *)
(* While no event is in the hands of two handlers: the claims in the       *)
(* processed-events store count the effects of an order, so each is had    *)
(* once.  Without operators one event at a time then drives an order of    *)
(* the asynchronous path, which gives the lifecycle, the timeline and the  *)
(* ledger of reserved units.                                               *)
(***************************************************************************)
EXTENDS ChoreographyProps, FiniteSetTheorems, TLAPS

-----------------------------------------------------------------------------
(* Type correctness of the operators the actions are built from.           *)

LEMMA RowType ==
  ASSUME TypeOK, NEW ty \in EventTypes, NEW o \in Orders
  PROVE  Row(ty, o) \in EventId
  BY DEF TypeOK, Row, EventId

LEMMA EmitType ==
  ASSUME TypeOK, NEW o \in Orders, NEW types \in SUBSET EventTypes, Emit(o, types)
  PROVE  /\ emitted' \in [EventTypes -> [Orders -> Nat]]
         /\ pending' \subseteq EventId
  <1>1. emitted' \in [EventTypes -> [Orders -> Nat]]
    BY DEF TypeOK, Emit
  <1>2. \A ty \in types : Row(ty, o) \in EventId
    BY RowType
  <1>3. pending' \subseteq EventId
    BY <1>2 DEF TypeOK, Emit
  <1> QED BY <1>1, <1>3

LEMMA TransitionType ==
  ASSUME TypeOK, NEW o \in Orders, NEW status \in Statuses,
         NEW event \in EventTypes, NEW out \in EventTypes,
         Transition(o, status, event, out)
  PROVE  /\ order' \in [Orders -> OrderStatus]
         /\ timeline' \in [Orders -> Seq(EventTypes)]
         /\ emitted' \in [EventTypes -> [Orders -> Nat]]
         /\ pending' \subseteq EventId
  <1>1. order' \in [Orders -> OrderStatus]
    BY DEF TypeOK, Transition, OrderStatus
  <1>2. \A t \in Seq(EventTypes) : Append(t, event) \in Seq(EventTypes)
    OBVIOUS
  <1>3. timeline' \in [Orders -> Seq(EventTypes)]
    BY <1>2 DEF TypeOK, Transition
  <1>4. Emit(o, {out})
    BY DEF Transition
  <1> QED BY <1>1, <1>3, <1>4, EmitType

LEMMA CompleteType ==
  ASSUME TypeOK, NEW d \in deliveries, Complete(d)
  PROVE  /\ deliveries' \subseteq Delivery
         /\ broker' \subseteq MessageId
         /\ processed' \in [Consumers -> SUBSET EventId]
         /\ adjusted' = adjusted /\ requests' = requests /\ faults' = faults
  <1>1. d \in Delivery /\ d.msg \in MessageId
    BY DEF TypeOK, Delivery
  <1>2. EventOf(d.msg) \in EventId
    BY <1>1 DEF EventOf, EventId, MessageId
  <1>3. processed' \in [Consumers -> SUBSET EventId]
    BY <1>2 DEF TypeOK, Complete
  <1> QED BY <1>3 DEF TypeOK, Complete

-----------------------------------------------------------------------------
(* Type correctness of every step.                                         *)

LEMMA InitType == Init => TypeOK
  BY StockAssumption
     DEF Init, TypeOK, OrderStatus, EventTypes, EventId, MessageId, Consumers

LEMMA CreateOrderType ==
  ASSUME TypeOK, NEW o \in Orders, CreateOrder(o)
  PROVE  TypeOK'
  <1>1. Transition(o, "pending", "OrderCreated", "OrderCreated")
    BY DEF CreateOrder
  <1>2. /\ order' \in [Orders -> OrderStatus]
        /\ timeline' \in [Orders -> Seq(EventTypes)]
        /\ emitted' \in [EventTypes -> [Orders -> Nat]]
        /\ pending' \subseteq EventId
    BY <1>1, TransitionType DEF Statuses, EventTypes
  <1>3. UNCHANGED <<available, reserved, adjusted, payments, notified, broker, processed,
                    deliveries, requests, faults>>
    BY DEF CreateOrder, stockVars
  <1> QED BY <1>2, <1>3 DEF TypeOK

LEMMA CheckoutType ==
  ASSUME TypeOK, NEW o \in Orders, Checkout(o)
  PROVE  TypeOK'
  <1>1. PICK outcome \in {"short", "declined", "authorized"}, sent \in {0, 1} :
          LET ok == outcome = "authorized"
              event == IF ok THEN "OrderConfirmed" ELSE "OrderCancelled"
          IN /\ order' = [order EXCEPT ![o] = IF ok THEN "confirmed" ELSE "cancelled"]
             /\ timeline' = [timeline EXCEPT ![o] = Append(@, "OrderCreated")]
             /\ Emit(o, {"OrderCreated", event})
             /\ notified' = [notified EXCEPT ![o][event] = @ + sent]
             /\ IF outcome = "short"
                  THEN UNCHANGED payments
                  ELSE payments' = [payments EXCEPT ![o][outcome] = @ + 1]
             /\ IF ok
                  THEN /\ available' = [p \in Products |-> available[p] - Demand[o][p]]
                       /\ reserved' = [p \in Products |-> reserved[p] + Demand[o][p]]
                  ELSE UNCHANGED stockVars
    BY DEF Checkout
  <1> DEFINE event == IF outcome = "authorized" THEN "OrderConfirmed" ELSE "OrderCancelled"
  <1>2. event \in TerminalEvents /\ {"OrderCreated", event} \in SUBSET EventTypes
    BY DEF TerminalEvents, EventTypes
  <1>3. /\ emitted' \in [EventTypes -> [Orders -> Nat]]
        /\ pending' \subseteq EventId
    BY <1>1, <1>2, EmitType
  <1>4. order' \in [Orders -> OrderStatus]
    BY <1>1 DEF TypeOK, OrderStatus, Statuses
  <1>5. timeline' \in [Orders -> Seq(EventTypes)]
    <2>1. \A t \in Seq(EventTypes) : Append(t, "OrderCreated") \in Seq(EventTypes)
      BY DEF EventTypes
    <2> QED BY <1>1, <2>1 DEF TypeOK
  <1>6. notified' \in [Orders -> [TerminalEvents -> Nat]]
    <2>1. notified[o][event] + sent \in Nat
      BY <1>2 DEF TypeOK
    <2>2. notified' = [notified EXCEPT ![o][event] = @ + sent]
      BY <1>1
    <2> HIDE DEF event
    <2> QED BY <1>2, <2>1, <2>2 DEF TypeOK
  <1>7. payments' \in [Orders -> [{"authorized", "declined"} -> Nat]]
    <2>1. CASE outcome = "short"
      BY <1>1, <2>1 DEF TypeOK
    <2>2. CASE outcome # "short"
      <3>1. outcome \in {"authorized", "declined"}
        BY <2>2
      <3>2. payments' = [payments EXCEPT ![o][outcome] = @ + 1]
        BY <1>1, <2>2
      <3>3. [payments[o] EXCEPT ![outcome] = @ + 1] \in [{"authorized", "declined"} -> Nat]
        BY <3>1 DEF TypeOK
      <3>4. payments' = [payments EXCEPT ![o] = [payments[o] EXCEPT ![outcome] = @ + 1]]
        BY <3>2
      <3> HIDE <1>1
      <3> QED BY <3>3, <3>4 DEF TypeOK
    <2> QED BY <2>1, <2>2
  <1>8. available' \in [Products -> Int] /\ reserved' \in [Products -> Int]
    <2>1. CASE outcome = "authorized"
      <3>1. /\ available' = [p \in Products |-> available[p] - Demand[o][p]]
            /\ reserved' = [p \in Products |-> reserved[p] + Demand[o][p]]
        BY <1>1, <2>1
      <3>2. \A p \in Products : Demand[o][p] \in Nat
        BY DemandAssumption
      <3> HIDE <1>1
      <3> QED BY <3>1, <3>2 DEF TypeOK
    <2>2. CASE outcome # "authorized"
      <3>1. UNCHANGED stockVars
        BY <1>1, <2>2
      <3> QED BY <3>1 DEF TypeOK, stockVars
    <2> QED BY <2>1, <2>2
  <1>9. UNCHANGED <<adjusted, broker, processed, deliveries, requests, faults>>
    BY DEF Checkout
  <1> QED BY <1>3, <1>4, <1>5, <1>6, <1>7, <1>8, <1>9 DEF TypeOK

LEMMA AdjustStockType ==
  ASSUME TypeOK, NEW p \in Products, NEW delta \in Deltas, AdjustStock(p, delta)
  PROVE  TypeOK'
  <1>1. delta \in Int
    BY DeltaAssumption
  <1>2. available' \in [Products -> Int] /\ adjusted' \in [Products -> Int]
    BY <1>1 DEF AdjustStock, TypeOK
  <1>3. UNCHANGED <<order, timeline, reserved, payments, notified, emitted, pending,
                    broker, processed, deliveries, requests, faults>>
    BY DEF AdjustStock, orderVars, outboxVars
  <1> QED BY <1>2, <1>3 DEF TypeOK

LEMMA ReadForRequestType ==
  ASSUME TypeOK, NEW c \in Clicks, NEW op \in {"confirm", "cancel"}, NEW o \in Orders,
         ReadForRequest(c, op, o)
  PROVE  TypeOK'
  <1>1. [click |-> c, op |-> op, order |-> o, open |-> TRUE] \in Request
    BY DEF Request
  <1>2. requests' \subseteq Request
    BY <1>1 DEF ReadForRequest, TypeOK
  <1>3. UNCHANGED <<order, timeline, available, reserved, adjusted, payments, notified,
                    emitted, pending, broker, processed, deliveries, faults>>
    BY DEF ReadForRequest, orderVars, stockVars, outboxVars
  <1> QED BY <1>2, <1>3 DEF TypeOK

LEMMA CommitRequestType ==
  ASSUME TypeOK, NEW q \in requests, CommitRequest(q)
  PROVE  TypeOK'
  <1>1. q \in Request /\ q.order \in Orders
    BY DEF TypeOK, Request
  <1>2. requests' \subseteq Request
    BY <1>1 DEF CommitRequest, TypeOK, Request
  <1>3. \E status \in Statuses, event \in EventTypes :
          Transition(q.order, status, event, event)
    BY DEF CommitRequest, ConfirmOrder, CancelOrder, Statuses, EventTypes, TerminalEvents
  <1>4. /\ order' \in [Orders -> OrderStatus]
        /\ timeline' \in [Orders -> Seq(EventTypes)]
        /\ emitted' \in [EventTypes -> [Orders -> Nat]]
        /\ pending' \subseteq EventId
    BY <1>1, <1>3, TransitionType
  <1>5. UNCHANGED <<available, reserved, adjusted, payments, notified, broker, processed,
                    deliveries, faults>>
    BY DEF CommitRequest, stockVars
  <1> QED BY <1>2, <1>4, <1>5 DEF TypeOK

LEMMA MessageType ==
  ASSUME TypeOK, NEW e \in pending
  PROVE  Message(e) \in MessageId
  BY DEF TypeOK, Message, EventId, MessageId

LEMMA PublishType ==
  ASSUME TypeOK, NEW e \in pending, Publish(e) \/ PublishUnmarked(e)
  PROVE  TypeOK'
  <1>1. broker' \subseteq MessageId /\ pending' \subseteq EventId
    BY MessageType DEF Publish, PublishUnmarked, TypeOK, outboxVars
  <1>2. faults' \in Nat
    BY DEF Publish, PublishUnmarked, Fault, TypeOK
  <1>3. UNCHANGED <<order, timeline, available, reserved, adjusted, payments, notified,
                    emitted, processed, deliveries, requests>>
    BY DEF Publish, PublishUnmarked, orderVars, stockVars, outboxVars
  <1> QED BY <1>1, <1>2, <1>3 DEF TypeOK

LEMMA DeliverType ==
  ASSUME TypeOK, NEW r \in Replicas, NEW m \in broker, Deliver(r, m)
  PROVE  TypeOK'
  <1>1. m \in MessageId /\ m.order \in Orders
    BY DEF TypeOK, MessageId
  <1>2. NoView \in [Products -> Int]
    BY DEF NoView
  <1>3. order[m.order] \in OrderStatus /\ "absent" \in OrderStatus
    BY <1>1 DEF TypeOK, OrderStatus
  <1> DEFINE seen == IF m.type \in TerminalEvents THEN "absent" ELSE order[m.order]
             opened == [replica |-> r, msg |-> m, attached |-> TRUE, stage |-> "status",
                        seen |-> seen, reread |-> "absent",
                        available |-> NoView, reserved |-> NoView]
  <1>4. opened \in Delivery
    <2>1. seen \in OrderStatus
      BY <1>3
    <2> HIDE DEF seen
    <2> QED BY <1>1, <1>2, <1>3, <2>1 DEF Delivery
  <1>5. deliveries' \subseteq deliveries \cup {opened}
    BY DEF Deliver
  <1>6. broker' \subseteq broker
    BY DEF Deliver
  <1>7. UNCHANGED <<order, timeline, available, reserved, adjusted, payments, notified,
                    emitted, pending, processed, requests, faults>>
    BY DEF Deliver, orderVars, stockVars, outboxVars
  <1> QED BY <1>4, <1>5, <1>6, <1>7 DEF TypeOK

LEMMA ReadStockType ==
  ASSUME TypeOK, NEW d \in deliveries, ReadStock(d)
  PROVE  TypeOK'
  <1> DEFINE view(row) == [p \in Products |->
                             IF p \in Wanted(d.msg.order) THEN row[p] ELSE 0]
             e == [d EXCEPT !.stage = "stock", !.available = view(available),
                            !.reserved = view(reserved)]
  <1>1. d \in Delivery
    BY DEF TypeOK
  <1>2. view(available) \in [Products -> Int] /\ view(reserved) \in [Products -> Int]
    BY DEF TypeOK
  <1>3. e \in Delivery
    <2> HIDE DEF view
    <2> QED BY <1>1, <1>2 DEF Delivery
  <1>4. deliveries' = (deliveries \ {d}) \cup {e}
    BY DEF ReadStock, Replace
  <1>5. UNCHANGED <<order, timeline, available, reserved, adjusted, payments, notified,
                    emitted, pending, broker, processed, requests, faults>>
    BY DEF ReadStock, orderVars, stockVars, outboxVars
  <1> QED BY <1>3, <1>4, <1>5 DEF TypeOK

LEMMA RereadOrderType ==
  ASSUME TypeOK, NEW d \in deliveries, RereadOrder(d)
  PROVE  TypeOK'
  <1> DEFINE status == IF EventOf(d.msg) \in processed["ProcessOrderPaymentResult"]
                         THEN "absent" ELSE order[d.msg.order]
             e == [d EXCEPT !.stage = "reread", !.reread = status]
  <1>1. d \in Delivery /\ d.msg.order \in Orders
    BY DEF TypeOK, Delivery, MessageId
  <1>2. status \in OrderStatus
    BY <1>1 DEF TypeOK, OrderStatus
  <1>3. e \in Delivery
    <2> HIDE DEF status
    <2> QED BY <1>1, <1>2 DEF Delivery
  <1>4. deliveries' = (deliveries \ {d}) \cup {e}
    BY DEF RereadOrder, Replace
  <1>5. UNCHANGED <<order, timeline, available, reserved, adjusted, payments, notified,
                    emitted, pending, broker, processed, requests, faults>>
    BY DEF RereadOrder, orderVars, stockVars, outboxVars
  <1> QED BY <1>3, <1>4, <1>5 DEF TypeOK

LEMMA RollbackType ==
  ASSUME TypeOK, NEW d \in deliveries, Rollback(d) \/ Crash(d)
  PROVE  TypeOK'
  <1>1. deliveries' \subseteq deliveries /\ faults' \in Nat
    BY DEF Rollback, Crash, Fault, TypeOK
  <1>2. UNCHANGED <<order, timeline, available, reserved, adjusted, payments, notified,
                    emitted, pending, broker, processed, requests>>
    BY DEF Rollback, Crash, orderVars, stockVars, outboxVars
  <1> QED BY <1>1, <1>2 DEF TypeOK

LEMMA ReconnectType ==
  ASSUME TypeOK, NEW d \in deliveries, Reconnect(d)
  PROVE  TypeOK'
  <1>1. [d EXCEPT !.attached = FALSE] \in Delivery
    BY DEF TypeOK, Delivery
  <1>2. deliveries' \subseteq Delivery
    BY <1>1 DEF Reconnect, Replace, TypeOK
  <1>3. faults' \in Nat
    BY DEF Reconnect, Fault, TypeOK
  <1>4. UNCHANGED <<order, timeline, available, reserved, adjusted, payments, notified,
                    emitted, pending, broker, processed, requests>>
    BY DEF Reconnect, orderVars, stockVars, outboxVars
  <1> QED BY <1>2, <1>3, <1>4 DEF TypeOK

\* The part of the state a handler writes besides its claims.
HandlerWrites ==
  /\ order' \in [Orders -> OrderStatus]
  /\ timeline' \in [Orders -> Seq(EventTypes)]
  /\ emitted' \in [EventTypes -> [Orders -> Nat]]
  /\ pending' \subseteq EventId
  /\ available' \in [Products -> Int]
  /\ reserved' \in [Products -> Int]
  /\ payments' \in [Orders -> [{"authorized", "declined"} -> Nat]]
  /\ notified' \in [Orders -> [TerminalEvents -> Nat]]

LEMMA DeliveryFacts ==
  ASSUME TypeOK, NEW d \in deliveries
  PROVE  /\ d \in Delivery
         /\ d.msg \in MessageId
         /\ d.msg.order \in Orders
         /\ d.available \in [Products -> Int]
         /\ d.reserved \in [Products -> Int]
  BY DEF TypeOK, Delivery, MessageId

\* Writing the view of a delivery back with some demand added or removed.
LEMMA StockWriteType ==
  ASSUME TypeOK, NEW d \in deliveries, NEW lines \in SUBSET Products,
         NEW units \in [Products -> Int],
         available' = [p \in Products |->
            IF p \in lines THEN d.available[p] - units[p] ELSE available[p]],
         reserved' = [p \in Products |->
            IF p \in lines THEN d.reserved[p] + units[p] ELSE reserved[p]]
  PROVE  available' \in [Products -> Int] /\ reserved' \in [Products -> Int]
  <1>1. d.available \in [Products -> Int] /\ d.reserved \in [Products -> Int]
    BY DeliveryFacts
  <1>2. available \in [Products -> Int] /\ reserved \in [Products -> Int]
    BY DEF TypeOK
  <1> QED BY <1>1, <1>2

LEMMA ReserveType ==
  ASSUME TypeOK, NEW d \in deliveries, NEW lines \in SUBSET Products, Reserve(d, lines)
  PROVE  available' \in [Products -> Int] /\ reserved' \in [Products -> Int]
  <1> DEFINE units == [p \in Products |-> IF p \in lines THEN Demand[d.msg.order][p] ELSE 0]
  <1>1. d.msg.order \in Orders
    BY DeliveryFacts
  <1>2. units \in [Products -> Int]
    BY <1>1, DemandAssumption
  <1>3. /\ available' = [p \in Products |->
             IF p \in lines THEN d.available[p] - units[p] ELSE available[p]]
        /\ reserved' = [p \in Products |->
             IF p \in lines THEN d.reserved[p] + units[p] ELSE reserved[p]]
    BY DEF Reserve
  <1> HIDE DEF units
  <1> QED BY <1>2, <1>3, StockWriteType

LEMMA HandleWrites ==
  ASSUME TypeOK, NEW d \in deliveries, Handle(d)
  PROVE  HandlerWrites
  <1> DEFINE o == d.msg.order
  <1>0. o \in Orders /\ d.msg \in MessageId
    BY DeliveryFacts
  <1>1. CASE ProcessInventoryReservation(d)
    <2>1. UNCHANGED <<order, timeline, payments, notified>>
      BY <1>1 DEF ProcessInventoryReservation, orderVars
    <2>2. available' \in [Products -> Int] /\ reserved' \in [Products -> Int]
      <3>1. CASE UNCHANGED stockVars
        BY <3>1 DEF stockVars, TypeOK
      <3>2. CASE \E lines \in SUBSET Products : Reserve(d, lines)
        BY <3>2, ReserveType
      <3>3. UNCHANGED stockVars \/ \E lines \in SUBSET Products : Reserve(d, lines)
        BY <1>1 DEF ProcessInventoryReservation, Wanted
      <3> QED BY <3>1, <3>2, <3>3
    <2>3. UNCHANGED outboxVars \/ Emit(o, {"InventoryReserved"}) \/ Emit(o, {"InventoryRejected"})
      BY <1>1 DEF ProcessInventoryReservation
    <2>4. emitted' \in [EventTypes -> [Orders -> Nat]] /\ pending' \subseteq EventId
      <3>1. {"InventoryReserved"} \subseteq EventTypes /\ {"InventoryRejected"} \subseteq EventTypes
        BY DEF EventTypes
      <3>2. CASE UNCHANGED outboxVars
        BY <3>2 DEF outboxVars, TypeOK
      <3> QED BY <1>0, <2>3, <3>1, <3>2, EmitType
    <2> QED BY <2>1, <2>2, <2>4 DEF HandlerWrites, TypeOK
  <1>2. CASE ProcessOrderInventoryResult(d)
    <2>1. UNCHANGED <<available, reserved, payments, notified>>
      BY <1>2 DEF ProcessOrderInventoryResult, stockVars
    <2>2. \/ ClaimOnly
          \/ Transition(o, "inventory_reserved", "InventoryReserved", "OrderInventoryReserved")
          \/ Transition(o, "cancelled", "InventoryRejected", "OrderCancelled")
      BY <1>2 DEF ProcessOrderInventoryResult
    <2> QED BY <1>0, <2>1, <2>2, TransitionType
            DEF HandlerWrites, TypeOK, ClaimOnly, orderVars, outboxVars, Statuses,
                EventTypes, TerminalEvents
  <1>3. CASE ProcessOrderInventoryReserved(d)
    <2>1. UNCHANGED <<order, timeline, available, reserved, notified>>
      BY <1>3 DEF ProcessOrderInventoryReserved, orderVars, stockVars
    <2>2. UNCHANGED outboxVars \/ Emit(o, {"PaymentAuthorized"}) \/ Emit(o, {"PaymentRejected"})
      BY <1>3 DEF ProcessOrderInventoryReserved
    <2>3. emitted' \in [EventTypes -> [Orders -> Nat]] /\ pending' \subseteq EventId
      <3>1. {"PaymentAuthorized"} \subseteq EventTypes /\ {"PaymentRejected"} \subseteq EventTypes
        BY DEF EventTypes
      <3>2. CASE UNCHANGED outboxVars
        BY <3>2 DEF outboxVars, TypeOK
      <3> QED BY <1>0, <2>2, <3>1, <3>2, EmitType
    <2>4. \/ UNCHANGED payments
          \/ payments' = [payments EXCEPT ![o]["authorized"] = @ + 1]
          \/ payments' = [payments EXCEPT ![o]["declined"] = @ + 1]
      BY <1>3 DEF ProcessOrderInventoryReserved
    <2>5. payments' \in [Orders -> [{"authorized", "declined"} -> Nat]]
      <3>1. ASSUME NEW s \in {"authorized", "declined"},
                   payments' = [payments EXCEPT ![o][s] = @ + 1]
            PROVE  payments' \in [Orders -> [{"authorized", "declined"} -> Nat]]
        <4>1. [payments[o] EXCEPT ![s] = @ + 1] \in [{"authorized", "declined"} -> Nat]
          BY <1>0, <3>1 DEF TypeOK
        <4> QED BY <1>0, <3>1, <4>1 DEF TypeOK
      <3>2. CASE UNCHANGED payments
        BY <3>2 DEF TypeOK
      <3> QED BY <2>4, <3>1, <3>2
    <2> QED BY <2>1, <2>3, <2>5 DEF HandlerWrites, TypeOK
  <1>4. CASE ProcessPaymentAuthorized(d)
    <2>1. UNCHANGED <<available, reserved, payments, notified>>
      BY <1>4 DEF ProcessPaymentAuthorized, stockVars
    <2>2. \/ ClaimOnly
          \/ Transition(o, "payment_authorized", "PaymentAuthorized", "OrderPaymentAuthorized")
      BY <1>4 DEF ProcessPaymentAuthorized
    <2> QED BY <1>0, <2>1, <2>2, TransitionType
            DEF HandlerWrites, TypeOK, ClaimOnly, orderVars, outboxVars, Statuses,
                EventTypes, TerminalEvents
  <1>5. CASE ProcessPaymentRejected(d)
    <2>1. UNCHANGED <<payments, notified>>
      BY <1>5 DEF ProcessPaymentRejected
    <2>2. ClaimOnly \/ Transition(o, "cancelled", "PaymentRejected", "OrderCancelled")
      BY <1>5 DEF ProcessPaymentRejected
    <2>3. available' \in [Products -> Int] /\ reserved' \in [Products -> Int]
      <3>1. CASE UNCHANGED stockVars
        BY <3>1 DEF stockVars, TypeOK
      <3>2. CASE ~UNCHANGED stockVars
        <4>1. \A p \in Products : Demand[o][p] \in Nat
          BY <1>0, DemandAssumption
        <4>2. /\ available' = [p \in Products |-> IF p \in Wanted(o)
                    THEN d.available[p] + Demand[o][p] ELSE available[p]]
              /\ reserved' = [p \in Products |-> IF p \in Wanted(o)
                    THEN d.reserved[p] - Demand[o][p] ELSE reserved[p]]
          BY <1>5, <3>2 DEF ProcessPaymentRejected
        <4>3. d.available \in [Products -> Int] /\ d.reserved \in [Products -> Int]
          BY DeliveryFacts
        <4>4. \A p \in Products : d.available[p] + Demand[o][p] \in Int
                                /\ d.reserved[p] - Demand[o][p] \in Int
          BY <4>1, <4>3
        <4>5. available \in [Products -> Int] /\ reserved \in [Products -> Int]
          BY DEF TypeOK
        <4> HIDE DEF o
        <4>6. available' \in [Products -> Int]
          BY <4>2, <4>4, <4>5
        <4>7. reserved' \in [Products -> Int]
          BY <4>2, <4>4, <4>5
        <4> QED BY <4>6, <4>7
      <3> QED BY <3>1, <3>2
    <2> QED BY <1>0, <2>1, <2>2, <2>3, TransitionType
            DEF HandlerWrites, TypeOK, ClaimOnly, orderVars, outboxVars, Statuses,
                EventTypes, TerminalEvents
  <1>6. CASE FinalizePaymentAuthorized(d)
    <2>1. UNCHANGED <<available, reserved, payments, notified>>
      BY <1>6 DEF FinalizePaymentAuthorized, stockVars
    <2>2. ClaimOnly \/ Transition(o, "confirmed", "OrderPaymentAuthorized", "OrderConfirmed")
      BY <1>6 DEF FinalizePaymentAuthorized
    <2> QED BY <1>0, <2>1, <2>2, TransitionType
            DEF HandlerWrites, TypeOK, ClaimOnly, orderVars, outboxVars, Statuses,
                EventTypes, TerminalEvents
  <1>7. CASE ProcessOrderNotification(d)
    <2>1. UNCHANGED <<order, timeline, emitted, pending, available, reserved, payments>>
      BY <1>7 DEF ProcessOrderNotification, ClaimOnly, orderVars, outboxVars, stockVars
    <2>2. /\ d.msg.type \in TerminalEvents
          /\ notified' = [notified EXCEPT ![o][d.msg.type] = @ + 1]
      BY <1>7 DEF ProcessOrderNotification
    <2>3. [notified[o] EXCEPT ![d.msg.type] = @ + 1] \in [TerminalEvents -> Nat]
      BY <1>0, <2>2 DEF TypeOK
    <2>4. notified' \in [Orders -> [TerminalEvents -> Nat]]
      BY <1>0, <2>2, <2>3 DEF TypeOK
    <2> QED BY <2>1, <2>4 DEF HandlerWrites, TypeOK
  <1> QED BY <1>1, <1>2, <1>3, <1>4, <1>5, <1>6, <1>7 DEF Handle

LEMMA HandleCompletes ==
  ASSUME NEW d, Handle(d)
  PROVE  Complete(d)
  BY DEF Handle, ProcessInventoryReservation, ProcessOrderInventoryResult,
         ProcessOrderInventoryReserved, ProcessPaymentAuthorized, ProcessPaymentRejected,
         FinalizePaymentAuthorized, ProcessOrderNotification

LEMMA HandleType ==
  ASSUME TypeOK, NEW d \in deliveries, Handle(d)
  PROVE  TypeOK'
  <1>1. HandlerWrites
    BY HandleWrites
  <1>2. Complete(d)
    BY HandleCompletes
  <1>3. /\ deliveries' \subseteq Delivery
        /\ broker' \subseteq MessageId
        /\ processed' \in [Consumers -> SUBSET EventId]
        /\ adjusted' = adjusted /\ requests' = requests /\ faults' = faults
    BY <1>2, CompleteType
  <1> QED BY <1>1, <1>3 DEF TypeOK, HandlerWrites

-----------------------------------------------------------------------------
LEMMA TypeStep ==
  ASSUME TypeOK, [Next]_vars
  PROVE  TypeOK'
  <1>1. CASE Shoppers
    BY <1>1, CreateOrderType, CheckoutType DEF Shoppers
  <1>2. CASE Operators
    BY <1>2, AdjustStockType, ReadForRequestType DEF Operators
  <1>3. CASE Settle
    BY <1>3, CommitRequestType DEF Settle
  <1>4. CASE Forward
    BY <1>4, PublishType DEF Forward
  <1>5. CASE \E queue \in Queues : Consume(queue)
    BY <1>5, DeliverType, ReadStockType, RereadOrderType, RollbackType, HandleType
       DEF Consume
  <1>6. CASE Faults
    BY <1>6, PublishType, RollbackType, ReconnectType DEF Faults
  <1>7. CASE UNCHANGED vars
    BY <1>7 DEF TypeOK, vars, orderVars, stockVars, outboxVars
  <1> QED BY <1>1, <1>2, <1>3, <1>4, <1>5, <1>6, <1>7 DEF Next

\* Every reachable state is well typed, whatever overlaps.
THEOREM TypeCorrect == Spec => []TypeOK
  BY InitType, TypeStep, PTL DEF Spec

-----------------------------------------------------------------------------
(* The inductive invariant.                                                *)

\* Every outbox row, every message and every delivery stems from a row that was
\* inserted.
RowsAreEmitted ==
  /\ \A e \in pending : emitted[e.type][e.order] > 0
  /\ \A m \in broker : emitted[m.type][m.order] > 0
  /\ \A d \in deliveries : emitted[d.msg.type][d.msg.order] > 0

\* s is the status of o, or was when a handler still at work read it.
Known(o, s) ==
  \/ order[o] = s
  \/ \E d \in deliveries : d.msg.order = o /\ (d.seen = s \/ d.reread = s)

\* An order is staged in inventory_reserved only after its reservation.
StagedIsReserved ==
  \A o \in Orders : Known(o, "inventory_reserved") => emitted["InventoryReserved"][o] > 0

\* What announces, stages or decides a confirmation has a payment behind it.
AuthorizedIsPaid ==
  \A o \in Orders :
    \/ emitted["PaymentAuthorized"][o] > 0
    \/ Known(o, "payment_authorized")
    \/ Known(o, "confirmed")
    \/ \E q \in requests : q.order = o /\ q.op = "confirm"
    => Paid(o)

Evidence == RowsAreEmitted /\ StagedIsReserved /\ AuthorizedIsPaid

EvidenceInv == TypeOK /\ Evidence /\ PaymentAfterReservation

LEMMA EvidenceInit == Init => EvidenceInv
  BY InitType, OrdersAssumption
     DEF Init, EvidenceInv, Evidence, RowsAreEmitted, StagedIsReserved, AuthorizedIsPaid,
         Known, PaymentAfterReservation, EventTypes

-----------------------------------------------------------------------------
(* Evidence is never taken back.                                           *)

Kept ==
  /\ \A ty \in EventTypes, o \in Orders : emitted[ty][o] > 0 => emitted'[ty][o] > 0
  /\ \A o \in Orders, s \in {"authorized", "declined"} :
       payments[o][s] > 0 => payments'[o][s] > 0

LEMMA EmitKeeps ==
  ASSUME TypeOK, NEW o \in Orders, NEW types \in SUBSET EventTypes, Emit(o, types)
  PROVE  /\ \A ty \in EventTypes, x \in Orders : emitted[ty][x] > 0 => emitted'[ty][x] > 0
         /\ \A ty \in types : emitted'[ty][o] > 0
         /\ \A ty \in EventTypes, x \in Orders :
              emitted'[ty][x] # emitted[ty][x] => ty \in types /\ x = o
         /\ \A e \in pending' : e \in pending \/ (e.type \in types /\ e.order = o)
  <1>1. \A ty \in EventTypes, x \in Orders : emitted[ty][x] \in Nat
    BY DEF TypeOK
  <1>2. \A ty \in EventTypes, x \in Orders :
          emitted'[ty][x] = IF ty \in types /\ x = o THEN emitted[ty][x] + 1
                                                     ELSE emitted[ty][x]
    BY DEF Emit, TypeOK
  <1>3. \A e \in pending' : e \in pending \/ (e.type \in types /\ e.order = o)
    BY DEF Emit, Row
  <1> QED BY <1>1, <1>2, <1>3

LEMMA PaymentKeeps ==
  ASSUME TypeOK, NEW o \in Orders, NEW s \in {"authorized", "declined"},
         payments' = [payments EXCEPT ![o][s] = @ + 1]
  PROVE  /\ \A x \in Orders, t \in {"authorized", "declined"} :
              payments[x][t] > 0 => payments'[x][t] > 0
         /\ payments'[o][s] > 0
         /\ \A x \in Orders : payments'[x] # payments[x] => x = o
  <1>1. \A x \in Orders, t \in {"authorized", "declined"} : payments[x][t] \in Nat
    BY DEF TypeOK
  <1>2. \A x \in Orders, t \in {"authorized", "declined"} :
          payments'[x][t] = IF x = o /\ t = s THEN payments[x][t] + 1 ELSE payments[x][t]
    BY DEF TypeOK
  <1>3. \A x \in Orders : payments'[x] # payments[x] => x = o
    BY DEF TypeOK
  <1> QED BY <1>1, <1>2, <1>3

-----------------------------------------------------------------------------
(* What a step may add, in terms of what was there before it.              *)

\* A new status has its evidence.
StatusBacked ==
  \A o \in Orders :
    \/ order'[o] = order[o]
    \/ order'[o] \in {"pending", "cancelled"}
    \/ order'[o] = "inventory_reserved" /\ emitted["InventoryReserved"][o] > 0
    \/ order'[o] \in {"payment_authorized", "confirmed"} /\ Paid(o)'

\* Rows are inserted, messages copy rows, deliveries carry messages.
RowsBacked ==
  /\ \A e \in pending' : e \in pending \/ emitted'[e.type][e.order] > 0
  /\ \A m \in broker' :
       m \in broker \/ \E e \in pending : m.type = e.type /\ m.order = e.order
  /\ \A d \in deliveries' :
       d.msg \in broker \/ \E e \in deliveries : d.msg = e.msg

\* A handler only learns statuses that were committed.
ViewsBacked ==
  \A d \in deliveries' : \A s \in {d.seen, d.reread} :
    s = "absent" \/ Known(d.msg.order, s)

\* Payments are charged to staged orders (or by a checkout) and only an
\* authorized one is announced.
ChargesBacked ==
  \A o \in Orders :
    /\ emitted'["PaymentAuthorized"][o] > 0 => emitted["PaymentAuthorized"][o] > 0 \/ Paid(o)'
    /\ \A s \in {"authorized", "declined"} :
         payments'[o][s] > 0 =>
           o \in SyncOrders \/ payments[o][s] > 0 \/ Known(o, "inventory_reserved")

RequestsBacked ==
  \A q \in requests' : q.op = "confirm" =>
    \/ \E r \in requests : r.op = "confirm" /\ r.order = q.order
    \/ Known(q.order, "payment_authorized")

\* What a commit records, whoever made it.
Recorded ==
  /\ Kept /\ StatusBacked /\ ChargesBacked
  /\ \A e \in pending' : e \in pending \/ emitted'[e.type][e.order] > 0

Backed ==
  Kept /\ StatusBacked /\ RowsBacked /\ ViewsBacked /\ ChargesBacked /\ RequestsBacked

\* Steps that add nothing but evidence preserve the invariant.
LEMMA BackedPreserves ==
  ASSUME EvidenceInv, TypeOK', Backed
  PROVE  EvidenceInv'
  <1>1. RowsAreEmitted'
    <2>1. \A e \in pending : e.type \in EventTypes /\ e.order \in Orders
      BY DEF EvidenceInv, TypeOK, EventId
    <2>2. \A m \in broker : m.type \in EventTypes /\ m.order \in Orders
      BY DEF EvidenceInv, TypeOK, MessageId
    <2>3. \A d \in deliveries : d.msg.type \in EventTypes /\ d.msg.order \in Orders
      BY DEF EvidenceInv, TypeOK, Delivery, MessageId
    <2>4. \A e \in pending' : emitted'[e.type][e.order] > 0
      BY <2>1 DEF EvidenceInv, Evidence, RowsAreEmitted, Backed, Kept, RowsBacked
    <2>5. \A m \in broker' : emitted'[m.type][m.order] > 0
      BY <2>1, <2>2 DEF EvidenceInv, Evidence, RowsAreEmitted, Backed, Kept, RowsBacked
    <2>6. \A d \in deliveries' : emitted'[d.msg.type][d.msg.order] > 0
      BY <2>2, <2>3 DEF EvidenceInv, Evidence, RowsAreEmitted, Backed, Kept, RowsBacked
    <2> QED BY <2>4, <2>5, <2>6 DEF RowsAreEmitted
  <1>2. ASSUME NEW o \in Orders, NEW s \in Statuses, Known(o, s)'
        PROVE  Known(o, s) \/ order'[o] = s
    <2>1. s # "absent"
      BY DEF Statuses
    <2>2. CASE order'[o] = s
      BY <2>2
    <2>3. CASE \E d \in deliveries' : d.msg.order = o /\ (d.seen = s \/ d.reread = s)
      BY <2>1, <2>3 DEF Backed, ViewsBacked
    <2> QED BY <1>2, <2>2, <2>3 DEF Known
  <1>3. StagedIsReserved'
    <2>1. ASSUME NEW o \in Orders, Known(o, "inventory_reserved")'
          PROVE  emitted["InventoryReserved"][o] > 0
      <3>1. Known(o, "inventory_reserved") \/ order'[o] = "inventory_reserved"
        BY <1>2, <2>1 DEF Statuses
      <3>2. CASE Known(o, "inventory_reserved")
        BY <3>2 DEF EvidenceInv, Evidence, StagedIsReserved
      <3>3. CASE order'[o] = "inventory_reserved"
        BY <3>2, <3>3 DEF Backed, StatusBacked, Known
      <3> QED BY <3>1, <3>2, <3>3
    <2> QED BY <2>1 DEF StagedIsReserved, Backed, Kept, EventTypes
  <1>4. AuthorizedIsPaid'
    <2>1. \A o \in Orders : Paid(o) => Paid(o)'
      BY DEF Backed, Kept, Paid
    <2>2. ASSUME NEW o \in Orders, emitted'["PaymentAuthorized"][o] > 0
          PROVE  Paid(o)'
      BY <2>1, <2>2 DEF EvidenceInv, Evidence, AuthorizedIsPaid, Backed, ChargesBacked
    <2>3. ASSUME NEW o \in Orders, NEW s \in {"payment_authorized", "confirmed"}, Known(o, s)'
          PROVE  Paid(o)'
      <3>1. Known(o, s) \/ order'[o] = s
        BY <1>2, <2>3 DEF Statuses
      <3>2. CASE Known(o, s)
        BY <2>1, <3>2 DEF EvidenceInv, Evidence, AuthorizedIsPaid
      <3>3. CASE order'[o] = s
        BY <2>1, <3>2, <3>3 DEF Backed, StatusBacked, Known
      <3> QED BY <3>1, <3>2, <3>3
    <2>4. ASSUME NEW o \in Orders, NEW q \in requests', q.order = o, q.op = "confirm"
          PROVE  Paid(o)'
      BY <2>1, <2>4 DEF EvidenceInv, Evidence, AuthorizedIsPaid, Backed, RequestsBacked
    <2> QED BY <2>2, <2>3, <2>4 DEF AuthorizedIsPaid
  <1>5. PaymentAfterReservation'
    <2>1. ASSUME NEW o \in Orders \ SyncOrders, NEW s \in {"authorized", "declined"},
                 payments'[o][s] > 0
          PROVE  emitted["InventoryReserved"][o] > 0
      BY <2>1 DEF EvidenceInv, Evidence, StagedIsReserved, PaymentAfterReservation,
                  Backed, ChargesBacked
    <2> QED BY <2>1 DEF PaymentAfterReservation, Backed, Kept, EventTypes
  <1> QED BY <1>1, <1>3, <1>4, <1>5 DEF EvidenceInv, Evidence

-----------------------------------------------------------------------------
(* Every step is backed.                                                   *)

\* A handler's delivery and its message go, nothing else appears.
LEMMA CompleteBacked ==
  ASSUME NEW d \in deliveries, Complete(d)
  PROVE  /\ deliveries' \subseteq deliveries /\ broker' \subseteq broker
         /\ requests' = requests
  BY DEF Complete

LEMMA DeliveryKnown ==
  ASSUME TypeOK, NEW d \in deliveries
  PROVE  /\ Known(d.msg.order, d.seen) /\ Known(d.msg.order, d.reread)
         /\ d.msg.type \in EventTypes /\ d.msg.order \in Orders
  BY DEF Known, TypeOK, Delivery, MessageId

\* A status overwritten together with its announcement.
LEMMA TransitionBacked ==
  ASSUME EvidenceInv, NEW o \in Orders, NEW status \in Statuses, NEW event,
         NEW out \in EventTypes, out # "PaymentAuthorized",
         Transition(o, status, event, out),
         \/ status \in {"pending", "cancelled"}
         \/ status = "inventory_reserved" /\ emitted["InventoryReserved"][o] > 0
         \/ status \in {"payment_authorized", "confirmed"} /\ Paid(o),
         payments' = payments
  PROVE  Recorded
  <1>1. TypeOK /\ Emit(o, {out})
    BY DEF EvidenceInv, Transition
  <1>2. Kept
    BY <1>1, EmitKeeps DEF Kept
  <1>3. \A x \in Orders : order'[x] = IF x = o THEN status ELSE order[x]
    BY <1>1 DEF Transition, TypeOK
  <1>4. StatusBacked
    BY <1>3 DEF StatusBacked, Paid
  <1>5. ChargesBacked
    BY <1>1, EmitKeeps DEF ChargesBacked, EventTypes
  <1>6. \A e \in pending' : e \in pending \/ emitted'[e.type][e.order] > 0
    BY <1>1, EmitKeeps
  <1> QED BY <1>2, <1>4, <1>5, <1>6 DEF Recorded

\* A step that leaves orders, payments and outbox rows alone.
LEMMA IdleBacked ==
  ASSUME EvidenceInv, UNCHANGED <<order, payments, emitted>>, pending' \subseteq pending
  PROVE  Recorded
  BY DEF Recorded, Kept, StatusBacked, ChargesBacked

\* A step that leaves deliveries, messages and requests alone (or drops some).
LEMMA QuietBacked ==
  ASSUME EvidenceInv, deliveries' \subseteq deliveries, broker' \subseteq broker,
         requests' \subseteq requests,
         \A e \in pending' : e \in pending \/ emitted'[e.type][e.order] > 0
  PROVE  RowsBacked /\ ViewsBacked /\ RequestsBacked
  <1>1. ViewsBacked
    BY DeliveryKnown DEF ViewsBacked, EvidenceInv
  <1> QED BY <1>1 DEF RowsBacked, RequestsBacked

LEMMA CreateOrderBacked ==
  ASSUME EvidenceInv, NEW o \in Orders, CreateOrder(o)
  PROVE  Backed
  <1>1. /\ Transition(o, "pending", "OrderCreated", "OrderCreated")
        /\ UNCHANGED <<payments, deliveries, broker, requests>>
    BY DEF CreateOrder
  <1> QED BY <1>1, TransitionBacked, QuietBacked DEF Backed, Recorded, Statuses, EventTypes

LEMMA CheckoutBacked ==
  ASSUME EvidenceInv, NEW o \in Orders, Checkout(o)
  PROVE  Backed
  <1>1. o \in SyncOrders /\ TypeOK
        /\ UNCHANGED <<deliveries, broker, requests>>
    BY DEF Checkout, EvidenceInv
  <1>2. PICK outcome \in {"short", "declined", "authorized"} :
          LET ok == outcome = "authorized"
              event == IF ok THEN "OrderConfirmed" ELSE "OrderCancelled"
          IN /\ order' = [order EXCEPT ![o] = IF ok THEN "confirmed" ELSE "cancelled"]
             /\ Emit(o, {"OrderCreated", event})
             /\ IF outcome = "short"
                  THEN UNCHANGED payments
                  ELSE payments' = [payments EXCEPT ![o][outcome] = @ + 1]
    BY DEF Checkout
  <1> DEFINE types == {"OrderCreated",
                       IF outcome = "authorized" THEN "OrderConfirmed" ELSE "OrderCancelled"}
  <1>3. types \in SUBSET EventTypes /\ "PaymentAuthorized" \notin types
    BY DEF EventTypes, TerminalEvents
  <1>4. Emit(o, types)
    BY <1>2
  <1> HIDE DEF types
  <1>5. /\ \A x \in Orders, t \in {"authorized", "declined"} :
             payments[x][t] > 0 => payments'[x][t] > 0
        /\ \A x \in Orders : payments'[x] # payments[x] => x = o
        /\ outcome = "authorized" => Paid(o)'
    <2>1. CASE outcome = "short"
      BY <1>2, <2>1
    <2>2. CASE outcome # "short"
      <3>1. outcome \in {"authorized", "declined"}
        BY <2>2
      <3>2. payments' = [payments EXCEPT ![o][outcome] = @ + 1]
        BY <1>2, <2>2
      <3> QED BY <1>1, <3>1, <3>2, PaymentKeeps DEF Paid
    <2> QED BY <2>1, <2>2
  <1>6. Kept
    BY <1>1, <1>3, <1>4, <1>5, EmitKeeps DEF Kept
  <1>7. StatusBacked
    <2>1. \A x \in Orders :
            order'[x] = IF x = o THEN IF outcome = "authorized" THEN "confirmed" ELSE "cancelled"
                                 ELSE order[x]
      BY <1>1, <1>2 DEF TypeOK
    <2> QED BY <1>5, <2>1 DEF StatusBacked
  <1>8. ChargesBacked
    <2>1. \A x \in Orders : emitted'["PaymentAuthorized"][x] = emitted["PaymentAuthorized"][x]
      BY <1>1, <1>3, <1>4, EmitKeeps DEF EventTypes
    <2>2. \A x \in Orders : x \in SyncOrders \/ payments'[x] = payments[x]
      BY <1>1, <1>5
    <2> QED BY <2>1, <2>2 DEF ChargesBacked
  <1>9. RowsBacked /\ ViewsBacked /\ RequestsBacked
    BY <1>1, <1>3, <1>4, EmitKeeps, QuietBacked
  <1> QED BY <1>6, <1>7, <1>8, <1>9 DEF Backed

LEMMA ReadForRequestBacked ==
  ASSUME EvidenceInv, NEW c \in Clicks, NEW op \in {"confirm", "cancel"}, NEW o \in Orders,
         ReadForRequest(c, op, o)
  PROVE  Backed
  <1>1. UNCHANGED <<order, payments, emitted, pending, deliveries, broker>>
    BY DEF ReadForRequest, orderVars, outboxVars
  <1>2. RowsBacked /\ ViewsBacked
    BY <1>1, DeliveryKnown DEF RowsBacked, ViewsBacked, EvidenceInv
  <1>3. RequestsBacked
    BY DEF ReadForRequest, RequestsBacked, Accepts, Known
  <1> QED BY <1>1, <1>2, <1>3, IdleBacked DEF Backed, Recorded

LEMMA CommitRequestBacked ==
  ASSUME EvidenceInv, NEW q \in requests, CommitRequest(q)
  PROVE  Backed
  <1>1. q.order \in Orders /\ UNCHANGED <<payments, deliveries, broker>>
    BY DEF EvidenceInv, TypeOK, Request, CommitRequest
  <1>2. /\ Kept /\ StatusBacked /\ ChargesBacked
        /\ \A e \in pending' : e \in pending \/ emitted'[e.type][e.order] > 0
    <2>1. CASE ConfirmOrder(q)
      <3>1. Paid(q.order)
        BY <1>1, <2>1 DEF ConfirmOrder, EvidenceInv, Evidence, AuthorizedIsPaid
      <3>2. Transition(q.order, "confirmed", "OrderConfirmed", "OrderConfirmed")
        BY <2>1 DEF ConfirmOrder
      <3> QED BY <1>1, <3>1, <3>2, TransitionBacked DEF Recorded, Statuses, EventTypes, TerminalEvents
    <2>2. CASE CancelOrder(q)
      <3>1. Transition(q.order, "cancelled", "OrderCancelled", "OrderCancelled")
        BY <2>2 DEF CancelOrder
      <3> QED BY <1>1, <3>1, TransitionBacked DEF Recorded, Statuses, EventTypes, TerminalEvents
    <2> QED BY <2>1, <2>2 DEF CommitRequest
  <1>3. RowsBacked /\ ViewsBacked
    BY <1>1, <1>2, DeliveryKnown DEF RowsBacked, ViewsBacked, EvidenceInv
  <1>4. RequestsBacked
    <2>1. \A r \in requests' : \E x \in requests : x.op = r.op /\ x.order = r.order
      BY DEF CommitRequest, EvidenceInv, TypeOK, Request
    <2> QED BY <2>1 DEF RequestsBacked
  <1> QED BY <1>2, <1>3, <1>4 DEF Backed

LEMMA PublishBacked ==
  ASSUME EvidenceInv, NEW e \in pending, Publish(e) \/ PublishUnmarked(e)
  PROVE  Backed
  <1>1. /\ UNCHANGED <<order, payments, emitted, deliveries, requests>>
        /\ pending' \subseteq pending
        /\ broker' = broker \cup {Message(e)}
    BY DEF Publish, PublishUnmarked, orderVars, outboxVars
  <1>2. RowsBacked
    BY <1>1 DEF RowsBacked, Message
  <1>3. ViewsBacked /\ RequestsBacked
    BY <1>1, DeliveryKnown DEF ViewsBacked, RequestsBacked, EvidenceInv
  <1> QED BY <1>1, <1>2, <1>3, IdleBacked DEF Backed, Recorded

LEMMA DeliverBacked ==
  ASSUME EvidenceInv, NEW r \in Replicas, NEW m \in broker, Deliver(r, m)
  PROVE  Backed
  <1>1. /\ UNCHANGED <<order, payments, emitted, pending, requests>>
        /\ broker' \subseteq broker
    BY DEF Deliver, orderVars, outboxVars
  <1>2. ASSUME NEW d \in deliveries', d \notin deliveries
        PROVE  /\ d.msg = m /\ d.reread = "absent"
               /\ d.seen = "absent" \/ d.seen = order[m.order]
    BY <1>2 DEF Deliver
  <1>3. RowsBacked
    BY <1>1, <1>2 DEF RowsBacked
  <1>4. ViewsBacked
    BY <1>2, DeliveryKnown DEF ViewsBacked, Known, EvidenceInv
  <1>5. RequestsBacked
    BY <1>1 DEF RequestsBacked
  <1> QED BY <1>1, <1>3, <1>4, <1>5, IdleBacked DEF Backed, Recorded

\* Reading stock, reading the order again and losing the channel replace one
\* delivery by one of the same message.
LEMMA ReplaceBacked ==
  ASSUME EvidenceInv, NEW d \in deliveries, NEW e, Replace(d, e),
         e.msg = d.msg, e.seen = d.seen,
         e.reread = d.reread \/ e.reread = "absent" \/ e.reread = order[d.msg.order],
         UNCHANGED <<order, payments, emitted, pending, broker, requests>>
  PROVE  Backed
  <1>1. RowsBacked
    BY DEF RowsBacked, Replace
  <1>2. ViewsBacked
    BY DeliveryKnown DEF ViewsBacked, Replace, Known, EvidenceInv
  <1>3. RequestsBacked
    BY DEF RequestsBacked
  <1> QED BY <1>1, <1>2, <1>3, IdleBacked DEF Backed, Recorded

LEMMA ReadStockBacked ==
  ASSUME EvidenceInv, NEW d \in deliveries, ReadStock(d)
  PROVE  Backed
  <1> DEFINE view(row) == [p \in Products |->
                             IF p \in Wanted(d.msg.order) THEN row[p] ELSE 0]
             e == [d EXCEPT !.stage = "stock", !.available = view(available),
                            !.reserved = view(reserved)]
  <1>1. d \in Delivery
    BY DEF EvidenceInv, TypeOK
  <1>2. e.msg = d.msg /\ e.seen = d.seen /\ e.reread = d.reread
    BY <1>1 DEF Delivery
  <1>3. Replace(d, e)
    BY DEF ReadStock
  <1>4. UNCHANGED <<order, payments, emitted, pending, broker, requests>>
    BY DEF ReadStock, orderVars, outboxVars
  <1> HIDE DEF e
  <1> QED BY <1>2, <1>3, <1>4, ReplaceBacked

LEMMA RereadOrderBacked ==
  ASSUME EvidenceInv, NEW d \in deliveries, RereadOrder(d)
  PROVE  Backed
  <1> DEFINE status == IF EventOf(d.msg) \in processed["ProcessOrderPaymentResult"]
                         THEN "absent" ELSE order[d.msg.order]
             e == [d EXCEPT !.stage = "reread", !.reread = status]
  <1>1. d \in Delivery
    BY DEF EvidenceInv, TypeOK
  <1>2. e.msg = d.msg /\ e.seen = d.seen /\ e.reread = status
    BY <1>1 DEF Delivery
  <1>3. Replace(d, e)
    BY DEF RereadOrder
  <1>4. UNCHANGED <<order, payments, emitted, pending, broker, requests>>
    BY DEF RereadOrder, orderVars, outboxVars
  <1>5. status = "absent" \/ status = order[d.msg.order]
    OBVIOUS
  <1> HIDE DEF e, status
  <1> QED BY <1>2, <1>3, <1>4, <1>5, ReplaceBacked

LEMMA ReconnectBacked ==
  ASSUME EvidenceInv, NEW d \in deliveries, Reconnect(d)
  PROVE  Backed
  <1> DEFINE e == [d EXCEPT !.attached = FALSE]
  <1>1. d \in Delivery
    BY DEF EvidenceInv, TypeOK
  <1>2. e.msg = d.msg /\ e.seen = d.seen /\ e.reread = d.reread
    BY <1>1 DEF Delivery
  <1>3. Replace(d, e)
    BY DEF Reconnect
  <1>4. UNCHANGED <<order, payments, emitted, pending, broker, requests>>
    BY DEF Reconnect, orderVars, outboxVars
  <1> HIDE DEF e
  <1> QED BY <1>2, <1>3, <1>4, ReplaceBacked

LEMMA AbandonBacked ==
  ASSUME EvidenceInv, NEW d \in deliveries, Rollback(d) \/ Crash(d)
  PROVE  Backed
  <1>1. /\ UNCHANGED <<order, payments, emitted, pending, broker, requests>>
        /\ deliveries' \subseteq deliveries
    BY DEF Rollback, Crash, orderVars, outboxVars
  <1> QED BY <1>1, IdleBacked, QuietBacked DEF Backed, Recorded

LEMMA AdjustStockBacked ==
  ASSUME EvidenceInv, NEW p \in Products, NEW delta \in Deltas, AdjustStock(p, delta)
  PROVE  Backed
  <1>1. UNCHANGED <<order, payments, emitted, pending, broker, deliveries, requests>>
    BY DEF AdjustStock, orderVars, outboxVars
  <1> QED BY <1>1, IdleBacked, QuietBacked DEF Backed, Recorded

LEMMA HandleRecords ==
  ASSUME EvidenceInv, NEW d \in deliveries, Handle(d)
  PROVE  Recorded
  <1> DEFINE o == d.msg.order
  <1>0. TypeOK /\ o \in Orders /\ d.msg.type \in EventTypes
    BY DeliveryKnown DEF EvidenceInv
  <1>1. Known(o, d.seen) /\ Known(o, d.reread)
    BY <1>0, DeliveryKnown
  <1>2. emitted[d.msg.type][o] > 0
    BY DEF EvidenceInv, Evidence, RowsAreEmitted
  <1>3. ASSUME UNCHANGED <<order, payments>>, NEW types \in SUBSET EventTypes,
               "PaymentAuthorized" \notin types, Emit(o, types)
        PROVE  Recorded
    <2>1. Kept /\ \A e \in pending' : e \in pending \/ emitted'[e.type][e.order] > 0
      BY <1>0, <1>3, EmitKeeps DEF Kept
    <2>2. StatusBacked
      BY <1>3 DEF StatusBacked
    <2>3. ChargesBacked
      BY <1>0, <1>3, EmitKeeps DEF ChargesBacked, EventTypes
    <2> QED BY <2>1, <2>2, <2>3 DEF Recorded
  <1>4. CASE ProcessInventoryReservation(d)
    <2>1. /\ UNCHANGED <<order, payments>>
          /\ \/ UNCHANGED <<emitted, pending>>
             \/ Emit(o, {"InventoryReserved"})
             \/ Emit(o, {"InventoryRejected"})
      BY <1>4 DEF ProcessInventoryReservation, orderVars, outboxVars
    <2> QED BY <1>3, <2>1, IdleBacked DEF EventTypes
  <1>5. CASE ProcessOrderInventoryResult(d)
    <2>1. /\ payments' = payments
          /\ \/ ClaimOnly
             \/ /\ d.msg.type = "InventoryReserved"
                /\ Transition(o, "inventory_reserved", "InventoryReserved",
                              "OrderInventoryReserved")
             \/ Transition(o, "cancelled", "InventoryRejected", "OrderCancelled")
      BY <1>5 DEF ProcessOrderInventoryResult
    <2> QED BY <1>0, <1>2, <2>1, IdleBacked, TransitionBacked
            DEF ClaimOnly, orderVars, outboxVars, Statuses, EventTypes, TerminalEvents
  <1>6. CASE ProcessOrderInventoryReserved(d)
    <2>1. /\ UNCHANGED order
          /\ \/ UNCHANGED <<payments, emitted, pending>>
             \/ UNCHANGED payments /\ Emit(o, {"PaymentRejected"})
             \/ /\ d.seen = "inventory_reserved"
                /\ payments' = [payments EXCEPT ![o]["declined"] = @ + 1]
                /\ Emit(o, {"PaymentRejected"})
             \/ /\ d.seen = "inventory_reserved"
                /\ payments' = [payments EXCEPT ![o]["authorized"] = @ + 1]
                /\ Emit(o, {"PaymentAuthorized"})
      BY <1>6 DEF ProcessOrderInventoryReserved, orderVars, outboxVars
    <2>2. ASSUME NEW s \in {"authorized", "declined"}, NEW out \in EventTypes,
                 UNCHANGED order, d.seen = "inventory_reserved",
                 payments' = [payments EXCEPT ![o][s] = @ + 1],
                 Emit(o, {out}), out = "PaymentAuthorized" => s = "authorized"
          PROVE  Recorded
      <3>4. {out} \in SUBSET EventTypes
        BY <2>2
      <3>1. /\ \A ty \in EventTypes, x \in Orders : emitted[ty][x] > 0 => emitted'[ty][x] > 0
            /\ \A ty \in EventTypes, x \in Orders :
                 emitted'[ty][x] # emitted[ty][x] => ty = out /\ x = o
            /\ \A e \in pending' : e \in pending \/ emitted'[e.type][e.order] > 0
        BY <1>0, <2>2, <3>4, EmitKeeps
      <3>5. /\ \A x \in Orders, t \in {"authorized", "declined"} :
                 payments[x][t] > 0 => payments'[x][t] > 0
            /\ payments'[o][s] > 0
            /\ \A x \in Orders : payments'[x] # payments[x] => x = o
        BY <1>0, <2>2, PaymentKeeps
      <3>6. Kept
        BY <3>1, <3>5 DEF Kept
      <3>2. StatusBacked
        BY <2>2 DEF StatusBacked
      <3>3. ChargesBacked
        <4>1. \A x \in Orders : emitted'["PaymentAuthorized"][x] > 0 =>
                 emitted["PaymentAuthorized"][x] > 0 \/ Paid(x)'
          BY <2>2, <3>1, <3>5 DEF Paid, EventTypes
        <4>2. \A x \in Orders : \A t \in {"authorized", "declined"} :
                 payments'[x][t] > 0 => payments[x][t] > 0 \/ Known(x, "inventory_reserved")
          BY <1>1, <2>2, <3>5
        <4> QED BY <4>1, <4>2 DEF ChargesBacked
      <3> QED BY <3>1, <3>6, <3>2, <3>3 DEF Recorded
    <2> QED BY <1>3, <2>1, <2>2, IdleBacked DEF EventTypes
  <1>7. CASE ProcessPaymentAuthorized(d)
    <2>1. /\ payments' = payments
          /\ \/ ClaimOnly
             \/ Transition(o, "payment_authorized", "PaymentAuthorized",
                           "OrderPaymentAuthorized")
      BY <1>7 DEF ProcessPaymentAuthorized
    <2>2. Paid(o)
      BY <1>0, <1>2, <1>7
         DEF ProcessPaymentAuthorized, EvidenceInv, Evidence, AuthorizedIsPaid
    <2> QED BY <1>0, <2>1, <2>2, IdleBacked, TransitionBacked
            DEF ClaimOnly, orderVars, outboxVars, Statuses, EventTypes
  <1>8. CASE ProcessPaymentRejected(d)
    <2>1. /\ payments' = payments
          /\ ClaimOnly \/ Transition(o, "cancelled", "PaymentRejected", "OrderCancelled")
      BY <1>8 DEF ProcessPaymentRejected
    <2> QED BY <1>0, <2>1, IdleBacked, TransitionBacked
            DEF ClaimOnly, orderVars, outboxVars, Statuses, EventTypes, TerminalEvents
  <1>9. CASE FinalizePaymentAuthorized(d)
    <2>1. /\ payments' = payments
          /\ \/ ClaimOnly
             \/ /\ d.seen = "payment_authorized"
                /\ Transition(o, "confirmed", "OrderPaymentAuthorized", "OrderConfirmed")
      BY <1>9 DEF FinalizePaymentAuthorized
    <2>2. d.seen = "payment_authorized" => Paid(o)
      BY <1>0, <1>1 DEF EvidenceInv, Evidence, AuthorizedIsPaid
    <2> QED BY <1>0, <2>1, <2>2, IdleBacked, TransitionBacked
            DEF ClaimOnly, orderVars, outboxVars, Statuses, EventTypes, TerminalEvents
  <1>10. CASE ProcessOrderNotification(d)
    <2>1. UNCHANGED <<order, payments, emitted, pending>>
      BY <1>10 DEF ProcessOrderNotification, ClaimOnly, orderVars, outboxVars
    <2> QED BY <2>1, IdleBacked
  <1> QED BY <1>4, <1>5, <1>6, <1>7, <1>8, <1>9, <1>10 DEF Handle

LEMMA HandleBacked ==
  ASSUME EvidenceInv, NEW d \in deliveries, Handle(d)
  PROVE  Backed
  <1>1. Recorded
    BY HandleRecords
  <1>2. RowsBacked /\ ViewsBacked /\ RequestsBacked
    BY <1>1, HandleCompletes, CompleteBacked, QuietBacked DEF Recorded
  <1> QED BY <1>1, <1>2 DEF Backed, Recorded

LEMMA NextBacked ==
  ASSUME EvidenceInv, Next
  PROVE  Backed
  <1>1. CASE Shoppers
    BY <1>1, CreateOrderBacked, CheckoutBacked DEF Shoppers
  <1>2. CASE Operators
    BY <1>2, AdjustStockBacked, ReadForRequestBacked DEF Operators
  <1>3. CASE Settle
    BY <1>3, CommitRequestBacked DEF Settle
  <1>4. CASE Forward
    BY <1>4, PublishBacked DEF Forward
  <1>5. CASE \E queue \in Queues : Consume(queue)
    BY <1>5, DeliverBacked, ReadStockBacked, RereadOrderBacked, AbandonBacked, HandleBacked
       DEF Consume
  <1>6. CASE Faults
    BY <1>6, PublishBacked, AbandonBacked, ReconnectBacked DEF Faults
  <1> QED BY <1>1, <1>2, <1>3, <1>4, <1>5, <1>6 DEF Next

-----------------------------------------------------------------------------
LEMMA EvidenceInvariant == Spec => []EvidenceInv
  <1>1. Init => EvidenceInv
    BY EvidenceInit
  <1>2. ASSUME EvidenceInv, TypeOK', [Next]_vars
        PROVE  EvidenceInv'
    <2>1. CASE Next
      BY <1>2, <2>1, NextBacked, BackedPreserves
    <2>2. CASE UNCHANGED vars
      BY <1>2, <2>2
         DEF EvidenceInv, Evidence, RowsAreEmitted, StagedIsReserved, AuthorizedIsPaid,
             Known, Paid, PaymentAfterReservation, vars, orderVars, stockVars, outboxVars
    <2> QED BY <1>2, <2>1, <2>2
  <1> QED BY <1>1, <1>2, TypeCorrect, PTL DEF Spec

\* No order is ever confirmed without an authorized payment, however operators,
\* handlers, replicas and redeliveries overlap.
THEOREM ConfirmedOrdersArePaid == Spec => []ConfirmedIsPaid
  <1>1. EvidenceInv => ConfirmedIsPaid
    BY DEF EvidenceInv, Evidence, AuthorizedIsPaid, Known, ConfirmedIsPaid
  <1> QED BY <1>1, EvidenceInvariant, PTL

\* No order of the asynchronous path is charged before its reservation.
THEOREM ReservedBeforeCharged == Spec => []PaymentAfterReservation
  <1>1. EvidenceInv => PaymentAfterReservation
    BY DEF EvidenceInv
  <1> QED BY <1>1, EvidenceInvariant, PTL

-----------------------------------------------------------------------------
(* Stock is never negative.                                                *)

\* What a handler read of the stock was not negative either.
ViewsNeverNegative == \A d \in deliveries : \A p \in Products : d.available[p] >= 0

StockInv == TypeOK /\ StockNeverNegative /\ ViewsNeverNegative

LEMMA DemandIsNat == \A o \in Orders, p \in Products : Demand[o][p] \in Nat
  BY DemandAssumption

LEMMA CheckoutStock ==
  ASSUME StockInv, NEW o \in Orders, Checkout(o)
  PROVE  StockNeverNegative'
  <1>1. CASE UNCHANGED available
    BY <1>1 DEF StockInv, StockNeverNegative
  <1>2. CASE /\ ~(\E p \in Wanted(o) : available[p] < Demand[o][p])
             /\ available' = [p \in Products |-> available[p] - Demand[o][p]]
    <2>1. ASSUME NEW p \in Products
          PROVE  available'[p] >= 0
      <3>1. available[p] \in Int /\ available[p] >= 0 /\ Demand[o][p] \in Nat
        BY DemandIsNat DEF StockInv, TypeOK, StockNeverNegative
      <3>2. Demand[o][p] > 0 => available[p] >= Demand[o][p]
        BY <1>2, <3>1 DEF Wanted
      <3> QED BY <1>2, <3>1, <3>2
    <2> QED BY <2>1 DEF StockNeverNegative
  <1> QED BY <1>1, <1>2 DEF Checkout, stockVars

LEMMA HandleStock ==
  ASSUME StockInv, NEW d \in deliveries, Handle(d)
  PROVE  StockNeverNegative'
  <1> DEFINE o == d.msg.order
             fitting == {p \in Wanted(o) : d.available[p] >= Demand[o][p]}
  <1>1. /\ o \in Orders
        /\ \A p \in Products : d.available[p] \in Int /\ d.available[p] >= 0
        /\ \A p \in Products : available[p] \in Int /\ available[p] >= 0
    BY DeliveryFacts DEF StockInv, TypeOK, StockNeverNegative, ViewsNeverNegative, Delivery
  <1>2. CASE UNCHANGED available
    BY <1>2 DEF StockInv, StockNeverNegative
  <1>3. ASSUME NEW lines \in SUBSET fitting, Reserve(d, lines)
        PROVE  StockNeverNegative'
    <2>1. ASSUME NEW p \in Products
          PROVE  available'[p] >= 0
      <3>1. CASE p \in lines
        <4>1. available'[p] = d.available[p] - Demand[o][p]
          BY <1>3, <3>1 DEF Reserve
        <4>2. d.available[p] >= Demand[o][p] /\ Demand[o][p] \in Nat
          BY <1>1, <3>1, DemandIsNat
        <4> QED BY <1>1, <4>1, <4>2
      <3>2. CASE p \notin lines
        BY <1>1, <1>3, <3>2 DEF Reserve
      <3> QED BY <3>1, <3>2
    <2> QED BY <2>1 DEF StockNeverNegative
  <1>4. CASE ProcessInventoryReservation(d)
    BY <1>2, <1>3, <1>4 DEF ProcessInventoryReservation, stockVars
  <1>5. CASE ProcessPaymentRejected(d)
    <2>1. CASE available' = [p \in Products |-> IF p \in Wanted(o)
                     THEN d.available[p] + Demand[o][p] ELSE available[p]]
      <3>1. \A p \in Products : available'[p] >= 0
        BY <1>1, <2>1, DemandIsNat
      <3> QED BY <3>1 DEF StockNeverNegative
    <2> QED BY <1>2, <1>5, <2>1 DEF ProcessPaymentRejected, stockVars
  <1>6. CASE \/ ProcessOrderInventoryResult(d) \/ ProcessOrderInventoryReserved(d)
             \/ ProcessPaymentAuthorized(d) \/ FinalizePaymentAuthorized(d)
             \/ ProcessOrderNotification(d)
    BY <1>2, <1>6 DEF ProcessOrderInventoryResult, ProcessOrderInventoryReserved,
       ProcessPaymentAuthorized, FinalizePaymentAuthorized, ProcessOrderNotification, stockVars
  <1> QED BY <1>4, <1>5, <1>6 DEF Handle

LEMMA ReadStockViews ==
  ASSUME StockInv, NEW d \in deliveries, ReadStock(d)
  PROVE  ViewsNeverNegative'
  <1> DEFINE view(row) == [p \in Products |->
                             IF p \in Wanted(d.msg.order) THEN row[p] ELSE 0]
             e == [d EXCEPT !.stage = "stock", !.available = view(available),
                            !.reserved = view(reserved)]
  <1>1. d \in Delivery
    BY DEF StockInv, TypeOK
  <1>2. e.available = view(available)
    BY <1>1 DEF Delivery
  <1>3. \A p \in Products : e.available[p] >= 0
    BY <1>2 DEF StockInv, StockNeverNegative, TypeOK
  <1>4. Replace(d, e)
    BY DEF ReadStock
  <1> HIDE DEF e
  <1> QED BY <1>3, <1>4 DEF StockInv, ViewsNeverNegative, Replace

\* A reread and a reconnect keep the quantities that were read.
LEMMA SameViews ==
  ASSUME StockInv, NEW d \in deliveries, RereadOrder(d) \/ Reconnect(d)
  PROVE  ViewsNeverNegative'
  <1>1. d \in Delivery
    BY DEF StockInv, TypeOK
  <1>2. ASSUME NEW e, Replace(d, e), e.available = d.available
        PROVE  ViewsNeverNegative'
    BY <1>2 DEF StockInv, ViewsNeverNegative, Replace
  <1>3. CASE RereadOrder(d)
    <2> DEFINE status == IF EventOf(d.msg) \in processed["ProcessOrderPaymentResult"]
                           THEN "absent" ELSE order[d.msg.order]
               e == [d EXCEPT !.stage = "reread", !.reread = status]
    <2>1. e.available = d.available
      BY <1>1 DEF Delivery
    <2>2. Replace(d, e)
      BY <1>3 DEF RereadOrder
    <2> HIDE DEF e
    <2> QED BY <1>2, <2>1, <2>2
  <1>4. CASE Reconnect(d)
    <2> DEFINE e == [d EXCEPT !.attached = FALSE]
    <2>1. e.available = d.available
      BY <1>1 DEF Delivery
    <2>2. Replace(d, e)
      BY <1>4 DEF Reconnect
    <2> HIDE DEF e
    <2> QED BY <1>2, <2>1, <2>2
  <1> QED BY <1>3, <1>4

LEMMA StockStep ==
  ASSUME StockInv, [Next]_vars
  PROVE  StockNeverNegative' /\ ViewsNeverNegative'
  <1>1. UNCHANGED available => StockNeverNegative'
    BY DEF StockInv, StockNeverNegative
  <1>2. deliveries' \subseteq deliveries => ViewsNeverNegative'
    BY DEF StockInv, ViewsNeverNegative
  <1>3. ASSUME NEW o \in Orders, CreateOrder(o) \/ Checkout(o)
        PROVE  StockNeverNegative' /\ deliveries' = deliveries
    BY <1>1, <1>3, CheckoutStock DEF CreateOrder, Checkout, stockVars
  <1>4. ASSUME NEW p \in Products, NEW delta \in Deltas, AdjustStock(p, delta)
        PROVE  StockNeverNegative' /\ deliveries' = deliveries
    BY <1>4 DEF AdjustStock, StockInv, StockNeverNegative, TypeOK
  <1>5. CASE Settle \/ (\E c \in Clicks, op \in {"confirm", "cancel"}, o \in Orders :
                        ReadForRequest(c, op, o))
    BY <1>1, <1>2, <1>5 DEF Settle, CommitRequest, ReadForRequest, stockVars
  <1>6. ASSUME NEW e \in pending, Publish(e) \/ PublishUnmarked(e)
        PROVE  StockNeverNegative' /\ deliveries' = deliveries
    BY <1>1, <1>6 DEF Publish, PublishUnmarked, stockVars
  <1>7. ASSUME NEW r \in Replicas, NEW m \in broker, Deliver(r, m)
        PROVE  StockNeverNegative' /\ ViewsNeverNegative'
    <2>1. \A d \in deliveries' \ deliveries : d.available = NoView
      BY <1>7 DEF Deliver
    <2>2. \A p \in Products : NoView[p] >= 0
      BY DEF NoView
    <2>3. ViewsNeverNegative'
      BY <2>1, <2>2 DEF StockInv, ViewsNeverNegative
    <2> QED BY <1>1, <1>7, <2>3 DEF Deliver, stockVars
  <1>8. ASSUME NEW d \in deliveries, Handle(d)
        PROVE  StockNeverNegative' /\ deliveries' \subseteq deliveries
    BY <1>8, HandleStock, HandleCompletes DEF Complete, StockInv
  <1>9. ASSUME NEW d \in deliveries, Rollback(d) \/ Crash(d)
        PROVE  StockNeverNegative' /\ deliveries' \subseteq deliveries
    BY <1>1, <1>9 DEF Rollback, Crash, stockVars
  <1>10. ASSUME NEW d \in deliveries, ReadStock(d) \/ RereadOrder(d) \/ Reconnect(d)
         PROVE  StockNeverNegative' /\ ViewsNeverNegative'
    BY <1>1, <1>10, ReadStockViews, SameViews DEF ReadStock, RereadOrder, Reconnect, stockVars
  <1>11. CASE UNCHANGED vars
    BY <1>1, <1>2, <1>11 DEF vars
  <1> QED BY <1>2, <1>3, <1>4, <1>5, <1>6, <1>7, <1>8, <1>9, <1>10, <1>11
          DEF Next, Shoppers, Operators, Forward, Consume, Faults

\* However adjustments, reservations, releases and checkouts overwrite each
\* other's quantities, none writes a negative one: each subtracts only what it saw.
THEOREM StockStaysNonNegative == Spec => []StockNeverNegative
  <1>1. Init => StockInv
    <2>1. Init => StockNeverNegative /\ ViewsNeverNegative
      BY StockAssumption DEF Init, StockNeverNegative, ViewsNeverNegative
    <2> QED BY <2>1, InitType DEF StockInv
  <1>2. StockInv /\ TypeOK' /\ [Next]_vars => StockInv'
    BY StockStep DEF StockInv
  <1>3. StockInv => StockNeverNegative
    BY DEF StockInv
  <1> QED BY <1>1, <1>2, <1>3, TypeCorrect, PTL DEF Spec

-----------------------------------------------------------------------------
(* A checkout is not repeated.                                             *)

\* A synchronous order has no step between absent and terminal, and no event that
\* would take it further.
SyncSettled ==
  \A o \in SyncOrders :
    /\ order[o] \in {"absent"} \cup Terminal
    /\ \A ty \in EventTypes :
         order[o] = "absent" \/ ty \notin {"OrderCreated"} \cup TerminalEvents
           => emitted[ty][o] = 0
    /\ order[o] = "absent" => payments[o]["authorized"] + payments[o]["declined"] = 0
    /\ payments[o]["authorized"] + payments[o]["declined"] <= 1

\* A handler of its OrderCreated has read that it is over ...
SyncViews ==
  \A d \in deliveries :
    d.msg.order \in SyncOrders =>
      \/ d.msg.type \in TerminalEvents
      \/ d.msg.type = "OrderCreated" /\ d.seen \in Terminal /\ d.stage = "status"

\* ... and so has every operator.
NoSyncRequests == \A q \in requests : q.order \notin SyncOrders

RepeatInv == EvidenceInv /\ SyncSettled /\ SyncViews /\ NoSyncRequests

\* Nothing of another order than o changes.
OnlyOf(o) ==
  \A x \in Orders \ {o} : /\ order'[x] = order[x] /\ payments'[x] = payments[x]
                          /\ \A ty \in EventTypes : emitted'[ty][x] = emitted[ty][x]

LEMMA EmitsOnlyOf ==
  ASSUME TypeOK, NEW o \in Orders, NEW types \in SUBSET EventTypes, Emit(o, types)
  PROVE  \A x \in Orders \ {o}, ty \in EventTypes : emitted'[ty][x] = emitted[ty][x]
  BY EmitKeeps

LEMMA TransitionOnlyOf ==
  ASSUME TypeOK, NEW o \in Orders, NEW status, NEW event, NEW out \in EventTypes,
         Transition(o, status, event, out), payments' = payments
  PROVE  OnlyOf(o)
  <1>1. {out} \in SUBSET EventTypes /\ Emit(o, {out})
    BY DEF Transition
  <1>2. \A x \in Orders \ {o} : order'[x] = order[x]
    BY DEF Transition, TypeOK
  <1> QED BY <1>1, <1>2, EmitsOnlyOf DEF OnlyOf

LEMMA SettledElsewhere ==
  ASSUME SyncSettled, NEW o \in Orders \ SyncOrders, OnlyOf(o)
  PROVE  SyncSettled'
  BY OrdersAssumption DEF SyncSettled, OnlyOf

LEMMA SettledIdle ==
  ASSUME SyncSettled, UNCHANGED <<order, payments, emitted>>
  PROVE  SyncSettled'
  BY DEF SyncSettled

LEMMA CheckoutSettles ==
  ASSUME RepeatInv, NEW o \in Orders, Checkout(o)
  PROVE  SyncSettled'
  <1>1. TypeOK /\ o \in SyncOrders /\ order[o] = "absent"
    BY DEF RepeatInv, EvidenceInv, Checkout
  <1>2. PICK outcome \in {"short", "declined", "authorized"} :
          LET ok == outcome = "authorized"
              event == IF ok THEN "OrderConfirmed" ELSE "OrderCancelled"
          IN /\ order' = [order EXCEPT ![o] = IF ok THEN "confirmed" ELSE "cancelled"]
             /\ Emit(o, {"OrderCreated", event})
             /\ IF outcome = "short"
                  THEN UNCHANGED payments
                  ELSE payments' = [payments EXCEPT ![o][outcome] = @ + 1]
    BY DEF Checkout
  <1> DEFINE types == {"OrderCreated",
                       IF outcome = "authorized" THEN "OrderConfirmed" ELSE "OrderCancelled"}
  <1>3. types \in SUBSET EventTypes /\ types \subseteq {"OrderCreated"} \cup TerminalEvents
    BY DEF EventTypes, TerminalEvents
  <1>4. Emit(o, types)
    BY <1>2
  <1> HIDE DEF types
  <1>5. \A ty \in EventTypes, x \in Orders :
          emitted'[ty][x] # emitted[ty][x] => ty \in types /\ x = o
    BY <1>1, <1>3, <1>4, EmitKeeps
  <1>6. /\ \A x \in Orders \ {o} : payments'[x] = payments[x] /\ order'[x] = order[x]
        /\ order'[o] \in Terminal
    <2>1. order'[o] \in Terminal /\ \A x \in Orders \ {o} : order'[x] = order[x]
      BY <1>1, <1>2 DEF TypeOK, Terminal
    <2>2. \A x \in Orders \ {o} : payments'[x] = payments[x]
      BY <1>1, <1>2 DEF TypeOK
    <2> QED BY <2>1, <2>2
  <1>7. payments'[o]["authorized"] + payments'[o]["declined"] <= 1
    <2>1. payments[o] \in [{"authorized", "declined"} -> Nat]
      BY <1>1 DEF TypeOK
    <2>2. payments[o]["authorized"] = 0 /\ payments[o]["declined"] = 0
      BY <1>1, <2>1 DEF RepeatInv, SyncSettled
    <2>3. CASE outcome = "short"
      BY <1>2, <2>2, <2>3
    <2>4. CASE outcome = "declined"
      <3>1. payments' = [payments EXCEPT ![o]["declined"] = @ + 1]
        BY <1>2, <2>4
      <3>2. payments'[o]["declined"] = 1 /\ payments'[o]["authorized"] = 0
        BY <1>1, <2>1, <2>2, <3>1 DEF TypeOK
      <3> QED BY <3>2
    <2>5. CASE outcome = "authorized"
      <3>1. payments' = [payments EXCEPT ![o]["authorized"] = @ + 1]
        BY <1>2, <2>5
      <3>2. payments'[o]["declined"] = 0 /\ payments'[o]["authorized"] = 1
        BY <1>1, <2>1, <2>2, <3>1 DEF TypeOK
      <3> QED BY <3>2
    <2> QED BY <2>3, <2>4, <2>5
  <1> SUFFICES ASSUME NEW x \in SyncOrders
               PROVE  /\ order'[x] \in {"absent"} \cup Terminal
                      /\ \A ty \in EventTypes :
                           order'[x] = "absent" \/ ty \notin {"OrderCreated"} \cup TerminalEvents
                             => emitted'[ty][x] = 0
                      /\ order'[x] = "absent" =>
                           payments'[x]["authorized"] + payments'[x]["declined"] = 0
                      /\ payments'[x]["authorized"] + payments'[x]["declined"] <= 1
    BY DEF SyncSettled
  <1>8. CASE x = o
    <2>1. order'[x] # "absent"
      BY <1>6, <1>8 DEF Terminal
    <2>2. \A ty \in EventTypes : ty \notin {"OrderCreated"} \cup TerminalEvents
                                  => emitted'[ty][x] = 0
      BY <1>3, <1>5, <1>8, OrdersAssumption DEF RepeatInv, SyncSettled
    <2> QED BY <1>6, <1>7, <1>8, <2>1, <2>2
  <1>9. CASE x # o
    BY <1>5, <1>6, <1>9, OrdersAssumption DEF RepeatInv, SyncSettled
  <1> QED BY <1>8, <1>9

LEMMA HandleOnlyOf ==
  ASSUME TypeOK, NEW d \in deliveries, Handle(d)
  PROVE  OnlyOf(d.msg.order)
  <1> DEFINE o == d.msg.order
  <1>1. o \in Orders
    BY DeliveryFacts
  <1>2. CASE UNCHANGED <<order, payments, emitted>>
    BY <1>2 DEF OnlyOf
  <1>3. ASSUME NEW ty \in EventTypes, Emit(o, {ty}), UNCHANGED order,
               \/ UNCHANGED payments
               \/ payments' = [payments EXCEPT ![o]["authorized"] = @ + 1]
               \/ payments' = [payments EXCEPT ![o]["declined"] = @ + 1]
        PROVE  OnlyOf(o)
    <2>1. \A x \in Orders \ {o} : payments'[x] = payments[x]
      BY <1>3 DEF TypeOK
    <2>2. {ty} \in SUBSET EventTypes
      BY <1>3
    <2> QED BY <1>1, <1>3, <2>1, <2>2, EmitsOnlyOf DEF OnlyOf
  <1>4. CASE ProcessInventoryReservation(d)
    <2>1. /\ UNCHANGED <<order, payments>>
          /\ \/ UNCHANGED emitted
             \/ Emit(o, {"InventoryReserved"})
             \/ Emit(o, {"InventoryRejected"})
      BY <1>4 DEF ProcessInventoryReservation, orderVars, outboxVars
    <2> QED BY <1>2, <1>3, <2>1 DEF EventTypes
  <1>5. CASE ProcessOrderInventoryResult(d)
    <2>1. /\ payments' = payments
          /\ \/ UNCHANGED <<order, emitted>>
             \/ Transition(o, "inventory_reserved", "InventoryReserved",
                           "OrderInventoryReserved")
             \/ Transition(o, "cancelled", "InventoryRejected", "OrderCancelled")
      BY <1>5 DEF ProcessOrderInventoryResult, ClaimOnly, orderVars, outboxVars
    <2> QED BY <1>1, <1>2, <2>1, TransitionOnlyOf DEF EventTypes, TerminalEvents
  <1>6. CASE ProcessOrderInventoryReserved(d)
    <2>1. /\ UNCHANGED order
          /\ \/ UNCHANGED <<payments, emitted>>
             \/ UNCHANGED payments /\ Emit(o, {"PaymentRejected"})
             \/ /\ payments' = [payments EXCEPT ![o]["declined"] = @ + 1]
                /\ Emit(o, {"PaymentRejected"})
             \/ /\ payments' = [payments EXCEPT ![o]["authorized"] = @ + 1]
                /\ Emit(o, {"PaymentAuthorized"})
      BY <1>6 DEF ProcessOrderInventoryReserved, orderVars, outboxVars
    <2> QED BY <1>2, <1>3, <2>1 DEF EventTypes
  <1>7. CASE ProcessPaymentAuthorized(d)
    <2>1. /\ payments' = payments
          /\ \/ UNCHANGED <<order, emitted>>
             \/ Transition(o, "payment_authorized", "PaymentAuthorized",
                           "OrderPaymentAuthorized")
      BY <1>7 DEF ProcessPaymentAuthorized, ClaimOnly, orderVars, outboxVars
    <2> QED BY <1>1, <1>2, <2>1, TransitionOnlyOf DEF EventTypes
  <1>8. CASE ProcessPaymentRejected(d)
    <2>1. /\ payments' = payments
          /\ \/ UNCHANGED <<order, emitted>>
             \/ Transition(o, "cancelled", "PaymentRejected", "OrderCancelled")
      BY <1>8 DEF ProcessPaymentRejected, ClaimOnly, orderVars, outboxVars
    <2> QED BY <1>1, <1>2, <2>1, TransitionOnlyOf DEF EventTypes, TerminalEvents
  <1>9. CASE FinalizePaymentAuthorized(d)
    <2>1. /\ payments' = payments
          /\ \/ UNCHANGED <<order, emitted>>
             \/ Transition(o, "confirmed", "OrderPaymentAuthorized", "OrderConfirmed")
      BY <1>9 DEF FinalizePaymentAuthorized, ClaimOnly, orderVars, outboxVars
    <2> QED BY <1>1, <1>2, <2>1, TransitionOnlyOf DEF EventTypes, TerminalEvents
  <1>10. CASE ProcessOrderNotification(d)
    BY <1>2, <1>10 DEF ProcessOrderNotification, ClaimOnly, orderVars, outboxVars
  <1> QED BY <1>4, <1>5, <1>6, <1>7, <1>8, <1>9, <1>10 DEF Handle

LEMMA HandleSettled ==
  ASSUME RepeatInv, NEW d \in deliveries, Handle(d)
  PROVE  SyncSettled'
  <1>1. TypeOK /\ d.msg.order \in Orders
    BY DeliveryFacts DEF RepeatInv, EvidenceInv
  <1>2. CASE d.msg.order \notin SyncOrders
    BY <1>1, <1>2, HandleOnlyOf, SettledElsewhere DEF RepeatInv
  <1>3. CASE d.msg.order \in SyncOrders
    <2>1. CASE d.msg.type \in TerminalEvents
      <3>1. ProcessOrderNotification(d)
        BY <2>1 DEF Handle, TerminalEvents, ProcessInventoryReservation,
           ProcessOrderInventoryResult, ProcessOrderInventoryReserved,
           ProcessPaymentAuthorized, ProcessPaymentRejected, FinalizePaymentAuthorized
      <3> QED BY <3>1, SettledIdle
              DEF ProcessOrderNotification, ClaimOnly, orderVars, outboxVars, RepeatInv
    <2>2. CASE d.msg.type = "OrderCreated" /\ d.seen \in Terminal /\ d.stage = "status"
      <3>1. ProcessInventoryReservation(d)
        BY <2>2 DEF Handle, TerminalEvents, ProcessOrderNotification,
           ProcessOrderInventoryResult, ProcessOrderInventoryReserved,
           ProcessPaymentAuthorized, ProcessPaymentRejected, FinalizePaymentAuthorized
      <3>2. UNCHANGED <<order, payments, emitted>>
        BY <2>2, <3>1 DEF ProcessInventoryReservation, orderVars, outboxVars
      <3> QED BY <3>2, SettledIdle DEF RepeatInv
    <2> QED BY <1>3, <2>1, <2>2 DEF RepeatInv, SyncViews
  <1> QED BY <1>2, <1>3

\* A delivery of a synchronous order reads neither stock nor the order again.
LEMMA SyncReadsNothing ==
  ASSUME RepeatInv, NEW d \in deliveries, ReadStock(d) \/ RereadOrder(d)
  PROVE  d.msg.order \notin SyncOrders
  BY DEF RepeatInv, SyncViews, ReadStock, RereadOrder, NeedsStock, TerminalEvents

LEMMA ReplaceViews ==
  ASSUME RepeatInv, NEW d \in deliveries, NEW e, Replace(d, e), e.msg = d.msg,
         d.msg.order \in SyncOrders => e.seen = d.seen /\ e.stage = d.stage
  PROVE  SyncViews'
  BY DEF RepeatInv, SyncViews, Replace

LEMMA ReadsViews ==
  ASSUME RepeatInv, NEW d \in deliveries, ReadStock(d) \/ RereadOrder(d) \/ Reconnect(d)
  PROVE  SyncViews'
  <1>1. d \in Delivery
    BY DEF RepeatInv, EvidenceInv, TypeOK
  <1>2. CASE ReadStock(d)
    <2> DEFINE view(row) == [p \in Products |->
                               IF p \in Wanted(d.msg.order) THEN row[p] ELSE 0]
               e == [d EXCEPT !.stage = "stock", !.available = view(available),
                              !.reserved = view(reserved)]
    <2>1. e.msg = d.msg
      BY <1>1 DEF Delivery
    <2>2. Replace(d, e)
      BY <1>2 DEF ReadStock
    <2> HIDE DEF e
    <2> QED BY <1>2, <2>1, <2>2, SyncReadsNothing, ReplaceViews
  <1>3. CASE RereadOrder(d)
    <2> DEFINE status == IF EventOf(d.msg) \in processed["ProcessOrderPaymentResult"]
                           THEN "absent" ELSE order[d.msg.order]
               e == [d EXCEPT !.stage = "reread", !.reread = status]
    <2>1. e.msg = d.msg
      BY <1>1 DEF Delivery
    <2>2. Replace(d, e)
      BY <1>3 DEF RereadOrder
    <2> HIDE DEF e
    <2> QED BY <1>3, <2>1, <2>2, SyncReadsNothing, ReplaceViews
  <1>4. CASE Reconnect(d)
    <2> DEFINE e == [d EXCEPT !.attached = FALSE]
    <2>1. e.msg = d.msg /\ e.seen = d.seen /\ e.stage = d.stage
      BY <1>1 DEF Delivery
    <2>2. Replace(d, e)
      BY <1>4 DEF Reconnect
    <2> HIDE DEF e
    <2> QED BY <2>1, <2>2, ReplaceViews
  <1> QED BY <1>2, <1>3, <1>4

\* The events of a synchronous order are delivered after it is over.
LEMMA DeliverViews ==
  ASSUME RepeatInv, NEW r \in Replicas, NEW m \in broker, Deliver(r, m)
  PROVE  SyncViews'
  <1>1. m.order \in Orders /\ m.type \in EventTypes /\ emitted[m.type][m.order] > 0
    BY DEF RepeatInv, EvidenceInv, Evidence, RowsAreEmitted, TypeOK, MessageId
  <1>2. m.order \in SyncOrders =>
          /\ m.type \in {"OrderCreated"} \cup TerminalEvents
          /\ order[m.order] \in Terminal
    BY <1>1 DEF RepeatInv, SyncSettled
  <1>3. ASSUME NEW d \in deliveries', d \notin deliveries
        PROVE  /\ d.msg = m /\ d.stage = "status"
               /\ m.type \in TerminalEvents \/ d.seen = order[m.order]
    BY <1>3 DEF Deliver
  <1> QED BY <1>2, <1>3 DEF RepeatInv, SyncViews

\* No operator finds a synchronous order in a state to confirm or cancel.
LEMMA ReadForRequestElsewhere ==
  ASSUME RepeatInv, NEW c \in Clicks, NEW op \in {"confirm", "cancel"}, NEW o \in Orders,
         ReadForRequest(c, op, o)
  PROVE  NoSyncRequests'
  <1>1. o \notin SyncOrders
    BY DEF ReadForRequest, Accepts, Moves, CanTransition, AllowedTransitions, Statuses, Terminal,
           RepeatInv, SyncSettled
  <1> QED BY <1>1 DEF ReadForRequest, RepeatInv, NoSyncRequests

LEMMA CommitRequestElsewhere ==
  ASSUME RepeatInv, NEW q \in requests, CommitRequest(q)
  PROVE  SyncSettled' /\ NoSyncRequests'
  <1>1. TypeOK /\ q \in Request /\ q.order \in Orders \ SyncOrders
    BY DEF RepeatInv, EvidenceInv, TypeOK, Request, NoSyncRequests
  <1>2. OnlyOf(q.order)
    BY <1>1, TransitionOnlyOf
       DEF CommitRequest, ConfirmOrder, CancelOrder, EventTypes, TerminalEvents
  <1>3. [q EXCEPT !.open = FALSE].order = q.order
    BY <1>1 DEF Request
  <1>4. NoSyncRequests'
    BY <1>1, <1>3 DEF CommitRequest, RepeatInv, NoSyncRequests
  <1> QED BY <1>1, <1>2, <1>4, SettledElsewhere DEF RepeatInv

LEMMA RepeatStep ==
  ASSUME RepeatInv, [Next]_vars
  PROVE  SyncSettled' /\ SyncViews' /\ NoSyncRequests'
  <1>1. UNCHANGED <<order, payments, emitted>> => SyncSettled'
    BY SettledIdle DEF RepeatInv
  <1>2. deliveries' \subseteq deliveries => SyncViews'
    BY DEF RepeatInv, SyncViews
  <1>3. UNCHANGED requests => NoSyncRequests'
    BY DEF RepeatInv, NoSyncRequests
  <1>4. ASSUME NEW o \in Orders, CreateOrder(o) \/ Checkout(o)
        PROVE  SyncSettled' /\ UNCHANGED <<deliveries, requests>>
    <2>1. CASE CreateOrder(o)
      <3>1. TypeOK /\ o \in Orders \ SyncOrders
        BY <2>1 DEF CreateOrder, RepeatInv, EvidenceInv
      <3>2. OnlyOf(o)
        BY <2>1, <3>1, TransitionOnlyOf DEF CreateOrder, EventTypes
      <3> QED BY <2>1, <3>1, <3>2, SettledElsewhere DEF CreateOrder, RepeatInv
    <2>2. CASE Checkout(o)
      BY <2>2, CheckoutSettles DEF Checkout
    <2> QED BY <1>4, <2>1, <2>2
  <1>5. CASE Operators
    <2>1. ASSUME NEW p \in Products, NEW delta \in Deltas, AdjustStock(p, delta)
          PROVE  UNCHANGED <<order, payments, emitted, deliveries, requests>>
      BY <2>1 DEF AdjustStock, orderVars, outboxVars
    <2>2. ASSUME NEW c \in Clicks, NEW op \in {"confirm", "cancel"}, NEW o \in Orders,
                 ReadForRequest(c, op, o)
          PROVE  UNCHANGED <<order, payments, emitted, deliveries>> /\ NoSyncRequests'
      BY <2>2, ReadForRequestElsewhere DEF ReadForRequest, orderVars, outboxVars
    <2> QED BY <1>1, <1>2, <1>3, <1>5, <2>1, <2>2 DEF Operators
  <1>6. ASSUME NEW q \in requests, CommitRequest(q)
        PROVE  SyncSettled' /\ NoSyncRequests' /\ UNCHANGED deliveries
    BY <1>6, CommitRequestElsewhere DEF CommitRequest
  <1>7. ASSUME NEW e \in pending, Publish(e) \/ PublishUnmarked(e)
        PROVE  UNCHANGED <<order, payments, emitted, deliveries, requests>>
    BY <1>7 DEF Publish, PublishUnmarked, orderVars, outboxVars
  <1>8. ASSUME NEW r \in Replicas, NEW m \in broker, Deliver(r, m)
        PROVE  SyncViews' /\ UNCHANGED <<order, payments, emitted, requests>>
    BY <1>8, DeliverViews DEF Deliver, orderVars, outboxVars
  <1>9. ASSUME NEW d \in deliveries, Handle(d)
        PROVE  SyncSettled' /\ deliveries' \subseteq deliveries /\ UNCHANGED requests
    BY <1>9, HandleSettled, HandleCompletes, CompleteBacked
  <1>10. ASSUME NEW d \in deliveries, Rollback(d) \/ Crash(d)
         PROVE  /\ deliveries' \subseteq deliveries
                /\ UNCHANGED <<order, payments, emitted, requests>>
    BY <1>10 DEF Rollback, Crash, orderVars, outboxVars
  <1>11. ASSUME NEW d \in deliveries, ReadStock(d) \/ RereadOrder(d) \/ Reconnect(d)
         PROVE  SyncViews' /\ UNCHANGED <<order, payments, emitted, requests>>
    BY <1>11, ReadsViews DEF ReadStock, RereadOrder, Reconnect, orderVars, outboxVars
  <1>12. CASE UNCHANGED vars
    BY <1>1, <1>2, <1>3, <1>12 DEF vars
  <1> QED BY <1>1, <1>2, <1>3, <1>4, <1>5, <1>6, <1>7, <1>8, <1>9, <1>10, <1>11, <1>12
          DEF Next, Shoppers, Settle, Forward, Consume, Faults

\* The OrderCreated row of a synchronous checkout is delivered to the inventory
\* like any other, but only after the order is over: it is neither reserved nor
\* charged again, under full concurrency and redelivery.
THEOREM CheckoutsAreNotRepeated == Spec => []CheckoutIsNotRepeated
  <1>1. Init => RepeatInv
    <2>1. Init => SyncSettled
      BY OrdersAssumption DEF Init, SyncSettled
    <2>2. Init => SyncViews /\ NoSyncRequests
      BY DEF Init, SyncViews, NoSyncRequests
    <2> QED BY <2>1, <2>2, EvidenceInit DEF RepeatInv
  <1>2. RepeatInv /\ EvidenceInv' /\ [Next]_vars => RepeatInv'
    BY RepeatStep DEF RepeatInv
  <1>3. RepeatInv => CheckoutIsNotRepeated
    BY DEF RepeatInv, SyncSettled, CheckoutIsNotRepeated, EventTypes, TerminalEvents
  <1> QED BY <1>1, <1>2, <1>3, EvidenceInvariant, PTL DEF Spec

-----------------------------------------------------------------------------
(* Deliveries that do not overlap.                                         *)

\* A step that writes no order, payment, notification, outbox row or claim.
Quiet == UNCHANGED <<order, timeline, payments, notified, emitted, processed>>

LEMMA QuietSteps ==
  ASSUME [Next]_vars
  PROVE  \/ \E o \in Orders : CreateOrder(o) \/ Checkout(o)
         \/ \E q \in requests : CommitRequest(q)
         \/ \E d \in deliveries : Handle(d)
         \/ Quiet
  <1>1. CASE Operators
    BY <1>1 DEF Operators, AdjustStock, ReadForRequest, orderVars, outboxVars, Quiet
  <1>2. CASE Forward
    BY <1>2 DEF Forward, Publish, orderVars, Quiet
  <1>3. ASSUME NEW queue \in Queues, Consume(queue)
        PROVE  Quiet \/ \E d \in deliveries : Handle(d)
    BY <1>3 DEF Consume, Deliver, ReadStock, RereadOrder, Rollback, orderVars, outboxVars, Quiet
  <1>4. CASE Faults
    BY <1>4 DEF Faults, PublishUnmarked, Crash, Reconnect, orderVars, outboxVars, Quiet
  <1>5. CASE UNCHANGED vars
    BY <1>5 DEF vars, Quiet
  <1> QED BY <1>1, <1>2, <1>3, <1>4, <1>5 DEF Next, Shoppers, Settle

\* What the steps that move a delivery along keep of it and add to it.
LEMMA ReadStockReplaces ==
  ASSUME TypeOK, NEW d \in deliveries, ReadStock(d)
  PROVE  \E e : /\ Replace(d, e)
                /\ e.msg = d.msg /\ e.attached = d.attached /\ e.replica = d.replica
                /\ e.seen = d.seen /\ e.reread = d.reread /\ e.stage = "stock"
                /\ \A p \in Wanted(d.msg.order) :
                     e.available[p] = available[p] /\ e.reserved[p] = reserved[p]
  <1> DEFINE view(row) == [p \in Products |->
                             IF p \in Wanted(d.msg.order) THEN row[p] ELSE 0]
             e == [d EXCEPT !.stage = "stock", !.available = view(available),
                            !.reserved = view(reserved)]
  <1>1. d \in Delivery
    BY DEF TypeOK
  <1>2. /\ e.msg = d.msg /\ e.attached = d.attached /\ e.replica = d.replica
        /\ e.seen = d.seen /\ e.reread = d.reread /\ e.stage = "stock"
        /\ e.available = view(available) /\ e.reserved = view(reserved)
    BY <1>1 DEF Delivery
  <1>3. \A p \in Wanted(d.msg.order) :
          e.available[p] = available[p] /\ e.reserved[p] = reserved[p]
    BY <1>2 DEF Wanted
  <1>4. Replace(d, e)
    BY DEF ReadStock
  <1> HIDE DEF e
  <1> QED BY <1>2, <1>3, <1>4

LEMMA RereadOrderReplaces ==
  ASSUME TypeOK, NEW d \in deliveries, RereadOrder(d)
  PROVE  \E e : /\ Replace(d, e)
                /\ e.msg = d.msg /\ e.attached = d.attached /\ e.replica = d.replica
                /\ e.seen = d.seen /\ e.stage = "reread"
                /\ e.available = d.available /\ e.reserved = d.reserved
                /\ e.reread = IF EventOf(d.msg) \in processed["ProcessOrderPaymentResult"]
                                THEN "absent" ELSE order[d.msg.order]
  <1> DEFINE status == IF EventOf(d.msg) \in processed["ProcessOrderPaymentResult"]
                         THEN "absent" ELSE order[d.msg.order]
             e == [d EXCEPT !.stage = "reread", !.reread = status]
  <1>1. d \in Delivery
    BY DEF TypeOK
  <1>2. /\ e.msg = d.msg /\ e.attached = d.attached /\ e.replica = d.replica
        /\ e.seen = d.seen /\ e.stage = "reread" /\ e.reread = status
        /\ e.available = d.available /\ e.reserved = d.reserved
    BY <1>1 DEF Delivery
  <1>3. Replace(d, e)
    BY DEF RereadOrder
  <1> HIDE DEF e
  <1> QED BY <1>2, <1>3

LEMMA ReconnectReplaces ==
  ASSUME TypeOK, NEW d \in deliveries, Reconnect(d)
  PROVE  \E e : /\ Replace(d, e)
                /\ e.msg = d.msg /\ e.replica = d.replica
                /\ e.seen = d.seen /\ e.stage = d.stage /\ e.reread = d.reread
                /\ e.available = d.available /\ e.reserved = d.reserved
  <1> DEFINE e == [d EXCEPT !.attached = FALSE]
  <1>1. d \in Delivery
    BY DEF TypeOK
  <1>2. /\ e.msg = d.msg /\ e.replica = d.replica
        /\ e.seen = d.seen /\ e.stage = d.stage /\ e.reread = d.reread
        /\ e.available = d.available /\ e.reserved = d.reserved
    BY <1>1 DEF Delivery
  <1>3. Replace(d, e)
    BY DEF Reconnect
  <1> HIDE DEF e
  <1> QED BY <1>2, <1>3

\* How the set of open deliveries changes: one is opened for a message of the
\* queues that is not done, one is moved along, or some go.
LEMMA DeliverySteps ==
  ASSUME TypeOK, [Next]_vars
  PROVE  \/ \E r \in Replicas, m \in broker : Deliver(r, m)
         \/ \E d \in deliveries : ReadStock(d) \/ RereadOrder(d) \/ Reconnect(d)
         \/ deliveries' \subseteq deliveries
  <1>1. CASE Shoppers \/ Operators \/ Settle \/ Forward \/ UNCHANGED vars
    BY <1>1 DEF Shoppers, CreateOrder, Checkout, Operators, AdjustStock, ReadForRequest,
                Settle, CommitRequest, Forward, Publish, vars
  <1>2. ASSUME NEW d \in deliveries, Handle(d) \/ Rollback(d) \/ Crash(d)
        PROVE  deliveries' \subseteq deliveries
    BY <1>2, HandleCompletes, CompleteBacked DEF Rollback, Crash
  <1>3. ASSUME NEW e \in pending, PublishUnmarked(e)
        PROVE  deliveries' \subseteq deliveries
    BY <1>3 DEF PublishUnmarked
  <1> QED BY <1>1, <1>2, <1>3 DEF Next, Consume, Faults

-----------------------------------------------------------------------------
(* Rows are numbered: nobody knows of more events than were inserted.      *)

Counted(e) == e.n <= emitted[e.type][e.order]

Numbered ==
  /\ \A e \in pending : Counted(e)
  /\ \A m \in broker : Counted(m)
  /\ \A d \in deliveries : Counted(d.msg)
  /\ \A c \in Consumers : \A e \in processed[c] : Counted(e)

LEMMA EmitCounts ==
  ASSUME TypeOK, NEW o \in Orders, NEW types \in SUBSET EventTypes, Emit(o, types)
  PROVE  /\ \A ty \in EventTypes, x \in Orders :
              emitted'[ty][x] = IF ty \in types /\ x = o THEN emitted[ty][x] + 1
                                                         ELSE emitted[ty][x]
         /\ \A e \in pending' : e \in pending \/ \E ty \in types : e = Row(ty, o)
  BY DEF Emit, TypeOK

\* The outbox after any step: what an order, a request or a handler inserts.
LEMMA StepEmits ==
  ASSUME TypeOK, [Next]_vars
  PROVE  \/ UNCHANGED emitted /\ pending' \subseteq pending
         \/ \E o \in Orders, types \in SUBSET EventTypes : Emit(o, types)
  <1>1. ASSUME NEW o \in Orders, NEW status, NEW event, NEW out \in EventTypes,
               Transition(o, status, event, out)
        PROVE  \E x \in Orders, types \in SUBSET EventTypes : Emit(x, types)
    <2>1. Emit(o, {out}) /\ {out} \in SUBSET EventTypes
      BY <1>1 DEF Transition
    <2> QED BY <2>1
  <1>2. ASSUME NEW o \in Orders, CreateOrder(o) \/ Checkout(o)
        PROVE  \E x \in Orders, types \in SUBSET EventTypes : Emit(x, types)
    <2>1. CASE CreateOrder(o)
      BY <1>1, <2>1 DEF CreateOrder, EventTypes
    <2>2. CASE Checkout(o)
      <3>1. PICK event \in {"OrderConfirmed", "OrderCancelled"} :
              Emit(o, {"OrderCreated", event})
        BY <2>2 DEF Checkout
      <3>2. {"OrderCreated", event} \in SUBSET EventTypes
        BY DEF EventTypes, TerminalEvents
      <3> QED BY <3>1, <3>2
    <2> QED BY <1>2, <2>1, <2>2
  <1>3. ASSUME NEW q \in requests, CommitRequest(q)
        PROVE  \E x \in Orders, types \in SUBSET EventTypes : Emit(x, types)
    <2>1. q.order \in Orders
      BY DEF TypeOK, Request
    <2> QED BY <1>1, <1>3, <2>1
            DEF CommitRequest, ConfirmOrder, CancelOrder, EventTypes, TerminalEvents
  <1>4. ASSUME NEW d \in deliveries, Handle(d)
        PROVE  \/ UNCHANGED emitted /\ pending' \subseteq pending
               \/ \E x \in Orders, types \in SUBSET EventTypes : Emit(x, types)
    <2>1. d.msg.order \in Orders
      BY DeliveryFacts
    <2>2. \/ UNCHANGED outboxVars
          \/ \E ty \in EventTypes : Emit(d.msg.order, {ty})
          \/ \E status, event : \E out \in EventTypes :
               Transition(d.msg.order, status, event, out)
      BY <1>4 DEF Handle, ProcessInventoryReservation, ProcessOrderInventoryResult,
         ProcessOrderInventoryReserved, ProcessPaymentAuthorized, ProcessPaymentRejected,
         FinalizePaymentAuthorized, ProcessOrderNotification, ClaimOnly,
         EventTypes, TerminalEvents
    <2> QED BY <1>1, <2>1, <2>2 DEF outboxVars
  <1>5. CASE Operators
    BY <1>5 DEF Operators, AdjustStock, ReadForRequest, outboxVars
  <1>6. CASE Forward \/ Faults \/ UNCHANGED vars
    BY <1>6 DEF Forward, Publish, Faults, PublishUnmarked, Crash, Reconnect, outboxVars, vars
  <1>7. ASSUME NEW queue \in Queues, Consume(queue)
        PROVE  \/ UNCHANGED emitted /\ pending' \subseteq pending
               \/ \E d \in deliveries : Handle(d)
    BY <1>7 DEF Consume, Deliver, ReadStock, RereadOrder, Rollback, outboxVars
  <1> QED BY <1>2, <1>3, <1>4, <1>5, <1>6, <1>7 DEF Next, Shoppers, Settle

LEMMA StepBrokers ==
  ASSUME TypeOK, [Next]_vars
  PROVE  \/ broker' \subseteq broker
         \/ \E e \in pending : Publish(e) \/ PublishUnmarked(e)
  <1>1. CASE Shoppers \/ Operators \/ Settle \/ UNCHANGED vars
    BY <1>1 DEF Shoppers, CreateOrder, Checkout, Operators, AdjustStock, ReadForRequest,
                Settle, CommitRequest, vars
  <1>2. ASSUME NEW d \in deliveries,
               Handle(d) \/ Rollback(d) \/ Crash(d) \/ Reconnect(d) \/ ReadStock(d)
                 \/ RereadOrder(d)
        PROVE  broker' \subseteq broker
    BY <1>2, HandleCompletes, CompleteBacked
       DEF Rollback, Crash, Reconnect, ReadStock, RereadOrder
  <1>3. ASSUME NEW r \in Replicas, NEW m \in broker, Deliver(r, m)
        PROVE  broker' \subseteq broker
    BY <1>3 DEF Deliver
  <1> QED BY <1>1, <1>2, <1>3 DEF Next, Consume, Faults, Forward

\* A claim is recorded by the handler of its event.
LEMMA StepClaims ==
  ASSUME TypeOK, [Next]_vars
  PROVE  \/ UNCHANGED processed
         \/ \E d \in deliveries : Handle(d)
  BY QuietSteps DEF Quiet, CreateOrder, Checkout, CommitRequest

LEMMA HandleClaims ==
  ASSUME TypeOK, NEW d \in deliveries, Handle(d)
  PROVE  /\ deliveries' = deliveries \ {d}
         /\ EventOf(d.msg) \in processed'[ClaimsOf[d.msg.type][1]]
         /\ \A c \in Consumers :
              /\ processed[c] \subseteq processed'[c]
              /\ processed'[c] \subseteq processed[c] \cup {EventOf(d.msg)}
  <1>1. Complete(d) /\ d.msg.type \in EventTypes
    BY HandleCompletes, DeliveryKnown
  <1>2. ClaimsOf[d.msg.type][1] \in Consumers /\ 1 \in DOMAIN ClaimsOf[d.msg.type]
    BY <1>1 DEF ClaimsOf, EventTypes, TerminalEvents, Consumers
  <1> QED BY <1>1, <1>2 DEF Complete

\* Counts and claims only grow.
LEMMA StepGrows ==
  ASSUME TypeOK, [Next]_vars
  PROVE  /\ \A ty \in EventTypes, o \in Orders : emitted[ty][o] <= emitted'[ty][o]
         /\ \A c \in Consumers : processed[c] \subseteq processed'[c]
  <1>1. \A c \in Consumers : processed[c] \subseteq processed'[c]
    BY StepClaims, HandleClaims
  <1>2. \A ty \in EventTypes, o \in Orders : emitted[ty][o] \in Nat
    BY DEF TypeOK
  <1>3. \A ty \in EventTypes, o \in Orders : emitted[ty][o] <= emitted'[ty][o]
    <2>1. CASE UNCHANGED emitted
      BY <1>2, <2>1
    <2>2. ASSUME NEW o \in Orders, NEW types \in SUBSET EventTypes, Emit(o, types)
          PROVE  \A ty \in EventTypes, x \in Orders : emitted[ty][x] <= emitted'[ty][x]
      BY <1>2, <2>2, EmitCounts
    <2> QED BY <2>1, <2>2, StepEmits
  <1> QED BY <1>1, <1>3

\* A message stands for a row, a delivery for a message, a claim for a delivery.
LEMMA StepMessages ==
  ASSUME TypeOK, [Next]_vars
  PROVE  /\ \A m \in broker' : m \in broker \/ \E e \in pending : m = Message(e)
         /\ \A d \in deliveries' :
              d.msg \in broker \/ \E x \in deliveries : d.msg = x.msg
         /\ \A c \in Consumers : \A e \in processed'[c] :
              e \in processed[c] \/ \E d \in deliveries : e = EventOf(d.msg)
  <1>1. \A m \in broker' : m \in broker \/ \E e \in pending : m = Message(e)
    BY StepBrokers DEF Publish, PublishUnmarked
  <1>2. \A d \in deliveries' : d.msg \in broker \/ \E x \in deliveries : d.msg = x.msg
    <2>1. CASE \E r \in Replicas, m \in broker : Deliver(r, m)
      BY <2>1 DEF Deliver
    <2>2. ASSUME NEW d \in deliveries, ReadStock(d) \/ RereadOrder(d) \/ Reconnect(d)
          PROVE  \E e : Replace(d, e) /\ e.msg = d.msg
      BY <2>2, ReadStockReplaces, RereadOrderReplaces, ReconnectReplaces
    <2>3. CASE \E d \in deliveries : ReadStock(d) \/ RereadOrder(d) \/ Reconnect(d)
      BY <2>2, <2>3 DEF Replace
    <2> QED BY <2>1, <2>3, DeliverySteps
  <1>3. \A c \in Consumers : \A e \in processed'[c] :
          e \in processed[c] \/ \E d \in deliveries : e = EventOf(d.msg)
    BY StepClaims, HandleClaims
  <1> QED BY <1>1, <1>2, <1>3

LEMMA NumberedStep ==
  ASSUME TypeOK, Numbered, [Next]_vars
  PROVE  Numbered'
  <1> DEFINE After(e) == e.n <= emitted'[e.type][e.order]
  <1>1. \A ty \in EventTypes, o \in Orders :
          emitted[ty][o] <= emitted'[ty][o] /\ emitted[ty][o] \in Nat /\ emitted'[ty][o] \in Int
    <2>1. TypeOK'
      BY TypeStep
    <2> QED BY <2>1, StepGrows DEF TypeOK
  <1>2. ASSUME NEW e, e.type \in EventTypes, e.order \in Orders, e.n \in Nat, Counted(e)
        PROVE  After(e)
    BY <1>1, <1>2 DEF Counted
  <1>3. \A e \in EventId : e.type \in EventTypes /\ e.order \in Orders /\ e.n \in Nat
    BY DEF EventId
  <1>4. \A m \in MessageId : m.type \in EventTypes /\ m.order \in Orders /\ m.n \in Nat
    BY DEF MessageId
  <1>5. \A m \in broker' : After(m)
    <2>1. \A m \in broker : After(m)
      BY <1>2, <1>4 DEF Numbered, TypeOK
    <2>2. \A e \in pending : After(Message(e))
      <3>1. \A e \in pending : After(e)
        BY <1>2, <1>3 DEF Numbered, TypeOK
      <3> QED BY <3>1 DEF Counted, Message
    <2> QED BY <2>1, <2>2, StepMessages
  <1>6. \A d \in deliveries' : After(d.msg)
    <2>1. \A m \in broker : After(m)
      BY <1>2, <1>4 DEF Numbered, TypeOK
    <2>2. \A d \in deliveries : After(d.msg)
      BY <1>2, <1>4, DeliveryFacts DEF Numbered
    <2> QED BY <2>1, <2>2, StepMessages
  <1>7. \A c \in Consumers : \A e \in processed'[c] : After(e)
    <2>1. \A c \in Consumers : \A e \in processed[c] : After(e)
      BY <1>2, <1>3 DEF Numbered, TypeOK
    <2>2. \A d \in deliveries : After(EventOf(d.msg))
      BY <1>2, <1>4, DeliveryFacts DEF Numbered, EventOf, Counted
    <2> QED BY <2>1, <2>2, StepMessages
  <1>8. \A e \in pending' : After(e)
    <2>1. \A e \in pending : After(e)
      BY <1>2, <1>3 DEF Numbered, TypeOK
    <2>2. ASSUME NEW o \in Orders, NEW types \in SUBSET EventTypes, Emit(o, types),
                 NEW ty \in types
          PROVE  After(Row(ty, o))
      <3>1. emitted'[ty][o] = emitted[ty][o] + 1 /\ ty \in EventTypes
        BY <2>2, EmitCounts
      <3> QED BY <1>1, <3>1 DEF Counted, Row
    <2> QED BY <2>1, <2>2, StepEmits, EmitCounts
  <1> QED BY <1>5, <1>6, <1>7, <1>8 DEF Numbered, Counted

-----------------------------------------------------------------------------
(* Each step of an order is taken once.                                    *)

\* The event a handler works on has not been processed.
Waiting == \A d \in deliveries : ~Done(d.msg)

LEMMA WaitingStep ==
  ASSUME TypeOK, OneAtATime, Waiting, [Next]_vars
  PROVE  Waiting'
  <1> DEFINE DoneNext(m) == EventOf(m) \in processed'[ClaimsOf[m.type][1]]
  <1>1. \A d \in deliveries : d.msg.type \in EventTypes
    BY DeliveryKnown
  <1>2. ASSUME NEW d \in deliveries, Handle(d)
        PROVE  Waiting'
    <2>1. ASSUME NEW x \in deliveries'
          PROVE  ~DoneNext(x.msg)
      <3>1. x \in deliveries /\ EventOf(x.msg) # EventOf(d.msg)
        BY <1>2, <2>1, HandleClaims DEF OneAtATime
      <3>2. ClaimsOf[x.msg.type][1] \in Consumers
        BY <1>1, <3>1 DEF ClaimsOf, EventTypes, TerminalEvents, Consumers
      <3> QED BY <1>2, <3>1, <3>2, HandleClaims DEF Waiting, Done
    <2> QED BY <2>1 DEF Waiting, Done, EventOf
  <1>3. ASSUME UNCHANGED processed
        PROVE  Waiting'
    <2>1. \A d \in deliveries' : ~Done(d.msg)
      <3>1. ASSUME NEW r \in Replicas, NEW m \in broker, Deliver(r, m), NEW d \in deliveries'
            PROVE  d \in deliveries \/ (d.msg = m /\ ~Done(m))
        BY <3>1 DEF Deliver
      <3>2. ASSUME NEW d \in deliveries, ReadStock(d) \/ RereadOrder(d) \/ Reconnect(d)
            PROVE  \E e : Replace(d, e) /\ e.msg = d.msg
        BY <3>2, ReadStockReplaces, RereadOrderReplaces, ReconnectReplaces
      <3>3. CASE \E d \in deliveries : ReadStock(d) \/ RereadOrder(d) \/ Reconnect(d)
        BY <3>2, <3>3 DEF Replace, Waiting
      <3>4. CASE deliveries' \subseteq deliveries
        BY <3>4 DEF Waiting
      <3> QED BY <3>1, <3>3, <3>4, DeliverySteps DEF Waiting
    <2> QED BY <1>3, <2>1 DEF Waiting, Done, EventOf
  <1> QED BY <1>2, <1>3, StepClaims

\* The events that move an order on, in contrast to those that end it.
Steps == EventTypes \ TerminalEvents

\* What the handler of each event may insert.
Follows ==
  [OrderCreated           |-> {"InventoryReserved", "InventoryRejected"},
   InventoryReserved      |-> {"OrderInventoryReserved"},
   InventoryRejected      |-> {"OrderCancelled"},
   OrderInventoryReserved |-> {"PaymentAuthorized", "PaymentRejected"},
   PaymentAuthorized      |-> {"OrderPaymentAuthorized"},
   PaymentRejected        |-> {"OrderCancelled"},
   OrderPaymentAuthorized |-> {"OrderConfirmed"},
   OrderConfirmed         |-> {},
   OrderCancelled         |-> {}]

\* The first event ty of o has been processed.
Handled(ty, o) == [type |-> ty, order |-> o, n |-> 1] \in processed[ClaimsOf[ty][1]]

Once(ty, o) == IF Handled(ty, o) THEN 1 ELSE 0

\* Every step event is inserted at most once, by the handler of the one before it.
StepsOnce ==
  \A o \in Orders :
    /\ order[o] = "absent" => \A ty \in EventTypes : emitted[ty][o] = 0
    /\ emitted["OrderCreated"][o] <= 1
    /\ emitted["InventoryReserved"][o] + emitted["InventoryRejected"][o]
         <= Once("OrderCreated", o)
    /\ emitted["OrderInventoryReserved"][o] <= Once("InventoryReserved", o)
    /\ emitted["PaymentAuthorized"][o] + emitted["PaymentRejected"][o]
         <= Once("OrderInventoryReserved", o)
    /\ emitted["OrderPaymentAuthorized"][o] <= Once("PaymentAuthorized", o)

LEMMA HandleEmits ==
  ASSUME NEW d, Handle(d)
  PROVE  \/ UNCHANGED emitted
         \/ \E ty \in Follows[d.msg.type] : Emit(d.msg.order, {ty})
  <1>0. /\ "InventoryReserved" \in Follows["OrderCreated"]
        /\ "InventoryRejected" \in Follows["OrderCreated"]
        /\ "OrderInventoryReserved" \in Follows["InventoryReserved"]
        /\ "OrderCancelled" \in Follows["InventoryRejected"]
        /\ "PaymentAuthorized" \in Follows["OrderInventoryReserved"]
        /\ "PaymentRejected" \in Follows["OrderInventoryReserved"]
        /\ "OrderPaymentAuthorized" \in Follows["PaymentAuthorized"]
        /\ "OrderCancelled" \in Follows["PaymentRejected"]
        /\ "OrderConfirmed" \in Follows["OrderPaymentAuthorized"]
    BY DEF Follows
  <1>1. CASE ProcessInventoryReservation(d)
    BY <1>0, <1>1 DEF ProcessInventoryReservation, outboxVars
  <1>2. CASE ProcessOrderInventoryResult(d)
    BY <1>0, <1>2 DEF ProcessOrderInventoryResult, ClaimOnly, outboxVars, Transition
  <1>3. CASE ProcessOrderInventoryReserved(d)
    BY <1>0, <1>3 DEF ProcessOrderInventoryReserved, outboxVars
  <1>4. CASE ProcessPaymentAuthorized(d)
    BY <1>0, <1>4 DEF ProcessPaymentAuthorized, ClaimOnly, outboxVars, Transition
  <1>5. CASE ProcessPaymentRejected(d)
    BY <1>0, <1>5 DEF ProcessPaymentRejected, ClaimOnly, outboxVars, Transition
  <1>6. CASE FinalizePaymentAuthorized(d)
    BY <1>0, <1>6 DEF FinalizePaymentAuthorized, ClaimOnly, outboxVars, Transition
  <1>7. CASE ProcessOrderNotification(d)
    BY <1>7 DEF ProcessOrderNotification, ClaimOnly, outboxVars
  <1> QED BY <1>1, <1>2, <1>3, <1>4, <1>5, <1>6, <1>7 DEF Handle

LEMMA AtMostOne ==
  ASSUME TypeOK, StepsOnce, NEW o \in Orders, NEW ty \in Steps
  PROVE  emitted[ty][o] \in {0, 1}
  <1>1. \A tz \in EventTypes : emitted[tz][o] \in Nat
    BY DEF TypeOK
  <1>2. \A tz \in EventTypes : Once(tz, o) \in {0, 1}
    BY DEF Once
  <1> QED BY <1>1, <1>2 DEF StepsOnce, Steps, EventTypes

\* A handler of a step event works on the first one, which it is the first to claim.
LEMMA HandlesFirst ==
  ASSUME TypeOK, Numbered, Waiting, StepsOnce, NEW d \in deliveries, d.msg.type \in Steps
  PROVE  /\ EventOf(d.msg) = [type |-> d.msg.type, order |-> d.msg.order, n |-> 1]
         /\ emitted[d.msg.type][d.msg.order] = 1
         /\ ~Handled(d.msg.type, d.msg.order)
  <1>1. d.msg.n \in Nat \ {0} /\ d.msg.order \in Orders
    BY DeliveryFacts DEF MessageId
  <1>2. d.msg.n = 1 /\ emitted[d.msg.type][d.msg.order] = 1
    BY <1>1, AtMostOne DEF Numbered, Counted
  <1> QED BY <1>2 DEF EventOf, Waiting, Done, Handled

LEMMA HandledGrows ==
  ASSUME TypeOK, [Next]_vars, NEW ty \in EventTypes, NEW o \in Orders
  PROVE  /\ Handled(ty, o) => Handled(ty, o)'
         /\ Once(ty, o) \in {0, 1} /\ Once(ty, o)' \in {0, 1}
         /\ Once(ty, o) <= Once(ty, o)'
  <1>1. ClaimsOf[ty][1] \in Consumers
    BY DEF ClaimsOf, EventTypes, TerminalEvents, Consumers
  <1>2. Handled(ty, o) => Handled(ty, o)'
    BY <1>1, StepGrows DEF Handled
  <1> QED BY <1>2 DEF Once

\* The handler of a step event takes it from unhandled to handled.
LEMMA HandleTakes ==
  ASSUME TypeOK, Numbered, Waiting, StepsOnce, NEW d \in deliveries, Handle(d),
         d.msg.type \in Steps
  PROVE  Once(d.msg.type, d.msg.order) = 0 /\ Once(d.msg.type, d.msg.order)' = 1
  BY HandlesFirst, HandleClaims DEF Once, Handled

\* Steps that insert no step event keep the account.
LEMMA SameStepsOnce ==
  ASSUME TypeOK, StepsOnce, [Next]_vars,
         \A ty \in Steps, o \in Orders : emitted'[ty][o] = emitted[ty][o],
         \A o \in Orders : order'[o] = "absent" =>
           order[o] = "absent" /\ \A ty \in TerminalEvents : emitted'[ty][o] = emitted[ty][o]
  PROVE  StepsOnce'
  <1> SUFFICES ASSUME NEW o \in Orders
               PROVE  /\ order'[o] = "absent" => \A ty \in EventTypes : emitted'[ty][o] = 0
                      /\ emitted'["OrderCreated"][o] <= 1
                      /\ emitted'["InventoryReserved"][o] + emitted'["InventoryRejected"][o]
                           <= Once("OrderCreated", o)'
                      /\ emitted'["OrderInventoryReserved"][o] <= Once("InventoryReserved", o)'
                      /\ emitted'["PaymentAuthorized"][o] + emitted'["PaymentRejected"][o]
                           <= Once("OrderInventoryReserved", o)'
                      /\ emitted'["OrderPaymentAuthorized"][o] <= Once("PaymentAuthorized", o)'
    BY DEF StepsOnce
  <1>1. \A ty \in EventTypes :
          Once(ty, o) \in {0, 1} /\ Once(ty, o)' \in {0, 1} /\ Once(ty, o) <= Once(ty, o)'
    BY HandledGrows
  <1>2. \A ty \in EventTypes : emitted[ty][o] \in Nat
    BY DEF TypeOK
  <1>3. order'[o] = "absent" => \A ty \in EventTypes : emitted'[ty][o] = 0
    BY DEF StepsOnce, Steps
  <1>4. \A ty \in EventTypes \ TerminalEvents : emitted'[ty][o] = emitted[ty][o]
    BY DEF Steps
  <1> QED BY <1>1, <1>2, <1>3, <1>4 DEF StepsOnce, EventTypes, TerminalEvents

LEMMA HandleStepsOnce ==
  ASSUME EvidenceInv, Numbered, Waiting, StepsOnce, NEW d \in deliveries, Handle(d),
         [Next]_vars
  PROVE  StepsOnce'
  <1> DEFINE o == d.msg.order
             T == d.msg.type
  <1>1. TypeOK /\ o \in Orders /\ T \in EventTypes /\ emitted[T][o] > 0
    BY DeliveryKnown DEF EvidenceInv, Evidence, RowsAreEmitted
  <1>2. \A ty \in EventTypes, x \in Orders :
          Once(ty, x) \in {0, 1} /\ Once(ty, x)' \in {0, 1} /\ Once(ty, x) <= Once(ty, x)'
    BY <1>1, HandledGrows
  <1>3. \A ty \in EventTypes, x \in Orders : emitted[ty][x] \in Nat
    BY <1>1 DEF TypeOK
  <1>4. \A x \in Orders : order'[x] = "absent" => order[x] = "absent"
    BY HandleRecords DEF Recorded, StatusBacked
  <1>5. \A x \in Orders : order[x] = "absent" => x # o
    BY <1>1, <1>3 DEF StepsOnce
  <1>6. CASE UNCHANGED emitted
    BY <1>1, <1>4, <1>6, SameStepsOnce
  <1>7. ASSUME NEW U \in Follows[T], Emit(o, {U})
        PROVE  StepsOnce'
    <2>1. T \in Steps /\ U \in EventTypes
      BY <1>1, <1>7 DEF Follows, Steps, EventTypes, TerminalEvents
    <2>2. \A ty \in EventTypes, x \in Orders :
            emitted'[ty][x] = IF ty = U /\ x = o THEN emitted[ty][x] + 1 ELSE emitted[ty][x]
      BY <1>1, <1>7, <2>1, EmitCounts
    <2>3. Once(T, o) = 0 /\ Once(T, o)' = 1
      BY <1>1, <2>1, HandleTakes
    <2> HIDE DEF o, T
    <2> SUFFICES ASSUME NEW x \in Orders
                 PROVE  /\ order'[x] = "absent" =>
                             \A ty \in EventTypes : emitted'[ty][x] = 0
                        /\ emitted'["OrderCreated"][x] <= 1
                        /\ emitted'["InventoryReserved"][x] + emitted'["InventoryRejected"][x]
                             <= Once("OrderCreated", x)'
                        /\ emitted'["OrderInventoryReserved"][x]
                             <= Once("InventoryReserved", x)'
                        /\ emitted'["PaymentAuthorized"][x] + emitted'["PaymentRejected"][x]
                             <= Once("OrderInventoryReserved", x)'
                        /\ emitted'["OrderPaymentAuthorized"][x]
                             <= Once("PaymentAuthorized", x)'
      BY DEF StepsOnce
    <2>4. CASE x # o
      BY <1>2, <1>3, <1>4, <2>2, <2>4 DEF StepsOnce, EventTypes
    <2>5. CASE x = o
      <3>1. order'[x] # "absent"
        BY <1>4, <1>5, <2>5
      <3>2. U # "OrderCreated"
        BY <1>1, <1>7 DEF Follows, EventTypes, TerminalEvents
      <3>3. emitted'["OrderCreated"][x] <= 1
        BY <2>2, <3>2 DEF StepsOnce, EventTypes
      <3>4. CASE T = "OrderCreated"
        BY <1>2, <1>3, <1>7, <2>2, <2>3, <2>5, <3>1, <3>3, <3>4
           DEF StepsOnce, EventTypes, Follows
      <3>5. CASE T = "InventoryReserved"
        BY <1>2, <1>3, <1>7, <2>2, <2>3, <2>5, <3>1, <3>3, <3>5
           DEF StepsOnce, EventTypes, Follows
      <3>6. CASE T = "OrderInventoryReserved"
        BY <1>2, <1>3, <1>7, <2>2, <2>3, <2>5, <3>1, <3>3, <3>6
           DEF StepsOnce, EventTypes, Follows
      <3>7. CASE T = "PaymentAuthorized"
        BY <1>2, <1>3, <1>7, <2>2, <2>3, <2>5, <3>1, <3>3, <3>7
           DEF StepsOnce, EventTypes, Follows
      <3>8. CASE T \in {"InventoryRejected", "PaymentRejected", "OrderPaymentAuthorized"}
        <4>1. U \in TerminalEvents
          BY <1>7, <3>8 DEF Follows, TerminalEvents
        <4> QED BY <1>2, <1>3, <2>2, <2>5, <3>1, <3>3, <4>1
                DEF StepsOnce, EventTypes, TerminalEvents
      <3> QED BY <2>1, <3>4, <3>5, <3>6, <3>7, <3>8 DEF Steps, EventTypes, TerminalEvents
    <2> QED BY <2>4, <2>5
  <1> QED BY <1>6, <1>7, HandleEmits

LEMMA CheckoutFacts ==
  ASSUME TypeOK, NEW o \in Orders, Checkout(o)
  PROVE  \E event \in TerminalEvents :
           /\ order[o] = "absent" /\ o \in SyncOrders
           /\ \A x \in Orders :
                order'[x] = IF x # o THEN order[x]
                            ELSE IF event = "OrderConfirmed" THEN "confirmed" ELSE "cancelled"
           /\ Emit(o, {"OrderCreated", event})
           /\ \A x \in Orders : x # o => payments'[x] = payments[x]
           /\ \A x \in Orders, ty \in TerminalEvents :
                /\ x # o \/ ty # event => notified'[x][ty] = notified[x][ty]
                /\ notified'[x][ty] <= notified[x][ty] + 1
           /\ UNCHANGED <<processed, deliveries, requests>>
  <1>1. PICK outcome \in {"short", "declined", "authorized"}, sent \in {0, 1} :
          LET ok == outcome = "authorized"
              event == IF ok THEN "OrderConfirmed" ELSE "OrderCancelled"
          IN /\ order' = [order EXCEPT ![o] = IF ok THEN "confirmed" ELSE "cancelled"]
             /\ Emit(o, {"OrderCreated", event})
             /\ notified' = [notified EXCEPT ![o][event] = @ + sent]
             /\ IF outcome = "short"
                  THEN UNCHANGED payments
                  ELSE payments' = [payments EXCEPT ![o][outcome] = @ + 1]
    BY DEF Checkout
  <1> DEFINE event == IF outcome = "authorized" THEN "OrderConfirmed" ELSE "OrderCancelled"
  <1>2. event \in TerminalEvents /\ (event = "OrderConfirmed" <=> outcome = "authorized")
    BY DEF TerminalEvents
  <1>3. \A x \in Orders :
          order'[x] = IF x # o THEN order[x]
                      ELSE IF event = "OrderConfirmed" THEN "confirmed" ELSE "cancelled"
    BY <1>1, <1>2 DEF TypeOK
  <1>4. \A x \in Orders : x # o => payments'[x] = payments[x]
    BY <1>1 DEF TypeOK
  <1>5. /\ Emit(o, {"OrderCreated", event})
        /\ notified' = [notified EXCEPT ![o][event] = @ + sent]
    BY <1>1
  <1>6. order[o] = "absent" /\ o \in SyncOrders /\ UNCHANGED <<processed, deliveries, requests>>
    BY DEF Checkout
  <1> HIDE DEF event
  <1>7. \A x \in Orders, ty \in TerminalEvents :
          /\ x # o \/ ty # event => notified'[x][ty] = notified[x][ty]
          /\ notified'[x][ty] <= notified[x][ty] + 1
    <2>1. \A x \in Orders, ty \in TerminalEvents :
            notified'[x][ty] = IF x = o /\ ty = event THEN notified[x][ty] + sent
                                                      ELSE notified[x][ty]
      BY <1>2, <1>5 DEF TypeOK
    <2>2. \A x \in Orders, ty \in TerminalEvents : notified[x][ty] \in Nat
      BY DEF TypeOK
    <2> QED BY <2>1, <2>2
  <1> QED BY <1>2, <1>3, <1>4, <1>5, <1>6, <1>7

LEMMA TransitionFacts ==
  ASSUME TypeOK, NEW o \in Orders, NEW status, NEW event, NEW out \in EventTypes,
         Transition(o, status, event, out)
  PROVE  /\ \A x \in Orders : order'[x] = IF x = o THEN status ELSE order[x]
         /\ \A x \in Orders : timeline'[x] = IF x = o THEN Append(timeline[o], event)
                                                      ELSE timeline[x]
         /\ \A ty \in EventTypes, x \in Orders :
              emitted'[ty][x] = IF ty = out /\ x = o THEN emitted[ty][x] + 1
                                                     ELSE emitted[ty][x]
  <1>1. {out} \in SUBSET EventTypes /\ Emit(o, {out})
    BY DEF Transition
  <1>2. \A ty \in EventTypes, x \in Orders :
          emitted'[ty][x] = IF ty \in {out} /\ x = o THEN emitted[ty][x] + 1
                                                     ELSE emitted[ty][x]
    BY <1>1, EmitCounts
  <1> QED BY <1>2 DEF Transition, TypeOK

\* The first row of an order, whichever route creates it.
LEMMA CreationStepsOnce ==
  ASSUME TypeOK, StepsOnce, [Next]_vars, NEW o \in Orders, order[o] = "absent",
         NEW types \in SUBSET EventTypes, Emit(o, types),
         types \cap Steps = {"OrderCreated"},
         \A x \in Orders : x # o => order'[x] = order[x],
         order'[o] # "absent"
  PROVE  StepsOnce'
  <1>1. \A ty \in EventTypes : emitted[ty][o] = 0
    BY DEF StepsOnce
  <1>2. \A ty \in EventTypes, x \in Orders :
          emitted'[ty][x] = IF ty \in types /\ x = o THEN emitted[ty][x] + 1
                                                     ELSE emitted[ty][x]
    BY EmitCounts
  <1> SUFFICES ASSUME NEW x \in Orders
               PROVE  /\ order'[x] = "absent" => \A ty \in EventTypes : emitted'[ty][x] = 0
                      /\ emitted'["OrderCreated"][x] <= 1
                      /\ emitted'["InventoryReserved"][x] + emitted'["InventoryRejected"][x]
                           <= Once("OrderCreated", x)'
                      /\ emitted'["OrderInventoryReserved"][x] <= Once("InventoryReserved", x)'
                      /\ emitted'["PaymentAuthorized"][x] + emitted'["PaymentRejected"][x]
                           <= Once("OrderInventoryReserved", x)'
                      /\ emitted'["OrderPaymentAuthorized"][x] <= Once("PaymentAuthorized", x)'
    BY DEF StepsOnce
  <1>3. \A ty \in EventTypes :
          Once(ty, x) \in {0, 1} /\ Once(ty, x)' \in {0, 1} /\ Once(ty, x) <= Once(ty, x)'
    BY HandledGrows
  <1>4. \A ty \in EventTypes : emitted[ty][x] \in Nat
    BY DEF TypeOK
  <1>5. CASE x = o
    <2>1. \A ty \in Steps : ty # "OrderCreated" => ty \notin types
      OBVIOUS
    <2> QED BY <1>1, <1>2, <1>3, <1>5, <2>1 DEF Steps, EventTypes, TerminalEvents
  <1>6. CASE x # o
    <2>1. \A ty \in EventTypes : emitted'[ty][x] = emitted[ty][x]
      BY <1>2, <1>6
    <2>2. order'[x] = "absent" => \A ty \in EventTypes : emitted'[ty][x] = 0
      BY <1>6, <2>1 DEF StepsOnce
    <2> QED BY <1>3, <1>4, <2>1, <2>2 DEF StepsOnce, EventTypes, TerminalEvents
  <1> QED BY <1>5, <1>6

LEMMA StepsOnceStep ==
  ASSUME EvidenceInv, Numbered, Waiting, StepsOnce, [Next]_vars
  PROVE  StepsOnce'
  <1>0. TypeOK
    BY DEF EvidenceInv
  <1>1. ASSUME NEW o \in Orders, CreateOrder(o)
        PROVE  StepsOnce'
    <2>1. Transition(o, "pending", "OrderCreated", "OrderCreated") /\ order[o] = "absent"
      BY <1>1 DEF CreateOrder
    <2>2. /\ Emit(o, {"OrderCreated"})
          /\ {"OrderCreated"} \cap Steps = {"OrderCreated"}
          /\ {"OrderCreated"} \in SUBSET EventTypes
      BY <2>1 DEF Transition, Steps, EventTypes, TerminalEvents
    <2>3. \A x \in Orders : order'[x] = IF x = o THEN "pending" ELSE order[x]
      BY <1>0, <2>1, TransitionFacts DEF EventTypes
    <2> QED BY <1>0, <2>1, <2>2, <2>3, CreationStepsOnce
  <1>2. ASSUME NEW o \in Orders, Checkout(o)
        PROVE  StepsOnce'
    <2>1. PICK event \in TerminalEvents :
            /\ order[o] = "absent" /\ o \in SyncOrders
            /\ \A x \in Orders :
                 order'[x] = IF x # o THEN order[x]
                             ELSE IF event = "OrderConfirmed" THEN "confirmed" ELSE "cancelled"
            /\ Emit(o, {"OrderCreated", event})
      BY <1>0, <1>2, CheckoutFacts
    <2>2. /\ {"OrderCreated", event} \cap Steps = {"OrderCreated"}
          /\ {"OrderCreated", event} \in SUBSET EventTypes
      BY DEF Steps, EventTypes, TerminalEvents
    <2> QED BY <1>0, <2>1, <2>2, CreationStepsOnce
  <1>3. ASSUME NEW q \in requests, CommitRequest(q)
        PROVE  StepsOnce'
    <2>1. q.order \in Orders
      BY <1>0 DEF TypeOK, Request
    <2>2. PICK status \in Terminal, out \in TerminalEvents :
            Transition(q.order, status, out, out)
      BY <1>3 DEF CommitRequest, ConfirmOrder, CancelOrder, Terminal, TerminalEvents
    <2>3. out \in EventTypes /\ out \notin Steps /\ status # "absent"
      BY DEF Steps, EventTypes, Terminal
    <2>4. /\ \A x \in Orders : order'[x] = IF x = q.order THEN status ELSE order[x]
          /\ \A ty \in EventTypes, x \in Orders :
               emitted'[ty][x] = IF ty = out /\ x = q.order THEN emitted[ty][x] + 1
                                                            ELSE emitted[ty][x]
      BY <1>0, <2>1, <2>2, <2>3, TransitionFacts
    <2> QED BY <1>0, <2>3, <2>4, SameStepsOnce DEF Steps, EventTypes
  <1>4. CASE Quiet
    BY <1>0, <1>4, SameStepsOnce DEF Quiet
  <1> QED BY <1>1, <1>2, <1>3, <1>4, QuietSteps, HandleStepsOnce

-----------------------------------------------------------------------------
(* Charges and notices.                                                    *)

\* An order is charged by the handler of its OrderInventoryReserved.
ChargedOnce ==
  \A o \in Orders \ SyncOrders :
    payments[o]["authorized"] + payments[o]["declined"] <= Once("OrderInventoryReserved", o)

\* The events ty of o that have been notified.
Notices(ty, o) ==
  {n \in 1..emitted[ty][o] :
     [type |-> ty, order |-> o, n |-> n] \in processed["ProcessOrderNotification"]}

\* A notification has its event, but for the one a checkout sends itself.
NotifiedOnce ==
  \A o \in Orders, ty \in TerminalEvents :
    notified[o][ty] <= Cardinality(Notices(ty, o))
                         + (IF o \in SyncOrders /\ order[o] # "absent" THEN 1 ELSE 0)

LEMMA HandleCharges ==
  ASSUME NEW d, Handle(d)
  PROVE  \/ UNCHANGED payments
         \/ /\ d.msg.type = "OrderInventoryReserved"
            /\ \E s \in {"authorized", "declined"} :
                 payments' = [payments EXCEPT ![d.msg.order][s] = @ + 1]
  BY DEF Handle, ProcessInventoryReservation, ProcessOrderInventoryResult,
         ProcessOrderInventoryReserved, ProcessPaymentAuthorized, ProcessPaymentRejected,
         FinalizePaymentAuthorized, ProcessOrderNotification

LEMMA ChargedOnceStep ==
  ASSUME TypeOK, Numbered, Waiting, StepsOnce, ChargedOnce, [Next]_vars
  PROVE  ChargedOnce'
  <1> SUFFICES ASSUME NEW o \in Orders \ SyncOrders
               PROVE  payments'[o]["authorized"] + payments'[o]["declined"]
                        <= Once("OrderInventoryReserved", o)'
    BY DEF ChargedOnce
  <1>0. /\ Once("OrderInventoryReserved", o) \in {0, 1}
        /\ Once("OrderInventoryReserved", o)' \in {0, 1}
        /\ Once("OrderInventoryReserved", o) <= Once("OrderInventoryReserved", o)'
        /\ payments[o]["authorized"] \in Nat /\ payments[o]["declined"] \in Nat
        /\ payments[o] \in [{"authorized", "declined"} -> Nat]
    BY HandledGrows DEF EventTypes, TypeOK
  <1>1. CASE payments'[o] = payments[o]
    BY <1>0, <1>1 DEF ChargedOnce
  <1>2. ASSUME NEW d \in deliveries, Handle(d), payments'[o] # payments[o]
        PROVE  payments'[o]["authorized"] + payments'[o]["declined"]
                 <= Once("OrderInventoryReserved", o)'
    <2>1. PICK s \in {"authorized", "declined"} :
            /\ d.msg.type = "OrderInventoryReserved"
            /\ payments' = [payments EXCEPT ![d.msg.order][s] = @ + 1]
      BY <1>2, HandleCharges
    <2>2. d.msg.order = o /\ d.msg.type \in Steps
      BY <1>2, <2>1 DEF TypeOK, Steps, EventTypes, TerminalEvents
    <2>3. /\ Once("OrderInventoryReserved", o) = 0
          /\ Once("OrderInventoryReserved", o)' = 1
      BY <1>2, <2>1, <2>2, HandleTakes
    <2>4. payments[o]["authorized"] = 0 /\ payments[o]["declined"] = 0
      BY <1>0, <2>3 DEF ChargedOnce
    <2>5. payments'[o] = [payments[o] EXCEPT ![s] = @ + 1]
      BY <2>1, <2>2 DEF TypeOK
    <2>6. payments'[o]["authorized"] + payments'[o]["declined"] = 1
      BY <1>0, <2>4, <2>5
    <2> QED BY <2>3, <2>6
  <1>3. CASE \E x \in Orders : CreateOrder(x) \/ Checkout(x)
    BY <1>1, <1>3, CheckoutFacts DEF CreateOrder
  <1>4. CASE (\E q \in requests : CommitRequest(q)) \/ Quiet
    BY <1>1, <1>4 DEF CommitRequest, Quiet
  <1> QED BY <1>1, <1>2, <1>3, <1>4, QuietSteps

LEMMA UpTo ==
  ASSUME NEW n \in Nat
  PROVE  IsFiniteSet(1..n) /\ Cardinality(1..n) = n
  <1>1. 1 \in Int /\ n \in Int
    OBVIOUS
  <1>2. IsFiniteSet(1..n) /\ Cardinality(1..n) = IF 1 > n THEN 0 ELSE n - 1 + 1
    BY <1>1, FS_Interval
  <1> QED BY <1>2

LEMMA NoticesGrow ==
  ASSUME TypeOK, TypeOK', [Next]_vars, NEW ty \in TerminalEvents, NEW o \in Orders
  PROVE  /\ IsFiniteSet(Notices(ty, o)) /\ IsFiniteSet(Notices(ty, o))'
         /\ Notices(ty, o) \subseteq Notices(ty, o)'
         /\ Cardinality(Notices(ty, o)) \in Nat /\ Cardinality(Notices(ty, o))' \in Nat
         /\ Cardinality(Notices(ty, o)) <= Cardinality(Notices(ty, o))'
  <1>1. /\ ty \in EventTypes
        /\ emitted[ty][o] \in Nat /\ emitted'[ty][o] \in Nat
        /\ emitted[ty][o] <= emitted'[ty][o]
    BY StepGrows DEF TypeOK, EventTypes
  <1>2. processed["ProcessOrderNotification"] \subseteq processed'["ProcessOrderNotification"]
    BY StepGrows DEF Consumers
  <1>3. Notices(ty, o) \subseteq Notices(ty, o)'
    BY <1>1, <1>2 DEF Notices
  <1>4. Notices(ty, o) \subseteq 1..emitted[ty][o] /\ Notices(ty, o)' \subseteq 1..emitted'[ty][o]
    BY DEF Notices
  <1>5. IsFiniteSet(1..emitted[ty][o]) /\ IsFiniteSet(1..emitted'[ty][o])
    BY <1>1, UpTo
  <1>6. IsFiniteSet(Notices(ty, o)) /\ IsFiniteSet(Notices(ty, o)')
    BY <1>4, <1>5, FS_Subset
  <1>7. Cardinality(Notices(ty, o)) \in Nat /\ Cardinality(Notices(ty, o)') \in Nat
    BY <1>6, FS_CardinalityType
  <1>8. Cardinality(Notices(ty, o)) <= Cardinality(Notices(ty, o)')
    BY <1>3, <1>6, FS_Subset
  <1> QED BY <1>3, <1>6, <1>7, <1>8

\* The handler of a terminal event claims one that was not notified.
LEMMA HandleNotices ==
  ASSUME TypeOK, TypeOK', [Next]_vars, Numbered, Waiting, NEW d \in deliveries, Handle(d),
         d.msg.type \in TerminalEvents
  PROVE  Cardinality(Notices(d.msg.type, d.msg.order)) + 1
           <= Cardinality(Notices(d.msg.type, d.msg.order))'
  <1> DEFINE ty == d.msg.type
             o == d.msg.order
             n == d.msg.n
  <1>1. o \in Orders /\ ty \in EventTypes /\ n \in Nat \ {0}
    BY DeliveryFacts DEF MessageId
  <1>2. ClaimsOf[ty][1] = "ProcessOrderNotification"
    BY DEF ClaimsOf, TerminalEvents
  <1>3. /\ emitted[ty][o] \in Nat /\ emitted'[ty][o] \in Nat
        /\ n <= emitted[ty][o] /\ emitted[ty][o] <= emitted'[ty][o]
    <2>1. emitted[ty][o] \in Nat
      BY <1>1 DEF TypeOK
    <2>2. emitted'[ty][o] \in Nat
      <3>1. emitted' \in [EventTypes -> [Orders -> Nat]]
        BY DEF TypeOK
      <3> QED BY <1>1, <3>1
    <2>3. n <= emitted[ty][o]
      BY DEF Numbered, Counted
    <2>4. emitted[ty][o] <= emitted'[ty][o]
      BY <1>1, StepGrows
    <2> QED BY <2>1, <2>2, <2>3, <2>4
  <1>4. n \notin Notices(ty, o)
    BY <1>2 DEF Notices, Waiting, Done, EventOf
  <1>5. n \in Notices(ty, o)'
    BY <1>1, <1>2, <1>3, HandleClaims DEF Notices, EventOf
  <1> DEFINE S == Notices(ty, o)
             T == Notices(ty, o)'
  <1>6. /\ IsFiniteSet(S) /\ IsFiniteSet(T) /\ S \subseteq T
        /\ Cardinality(S) \in Nat /\ Cardinality(T) \in Nat
    BY <1>1, NoticesGrow
  <1>7. n \notin S /\ n \in T
    BY <1>4, <1>5
  <1> HIDE DEF S, T, n
  <1>8. Cardinality(S \cup {n}) = Cardinality(S) + 1
    BY <1>6, <1>7, FS_AddElement
  <1>9. Cardinality(S \cup {n}) <= Cardinality(T)
    BY <1>6, <1>7, FS_Subset
  <1> QED BY <1>8, <1>9 DEF S, T

LEMMA HandleNotifies ==
  ASSUME TypeOK, NEW d \in deliveries, Handle(d)
  PROVE  \/ UNCHANGED notified
         \/ /\ d.msg.type \in TerminalEvents
            /\ \A x \in Orders, ty \in TerminalEvents :
                 notified'[x][ty] = IF x = d.msg.order /\ ty = d.msg.type
                                      THEN notified[x][ty] + 1 ELSE notified[x][ty]
  <1>1. \/ UNCHANGED notified
        \/ /\ d.msg.type \in TerminalEvents
           /\ notified' = [notified EXCEPT ![d.msg.order][d.msg.type] = @ + 1]
    BY DEF Handle, ProcessInventoryReservation, ProcessOrderInventoryResult,
           ProcessOrderInventoryReserved, ProcessPaymentAuthorized, ProcessPaymentRejected,
           FinalizePaymentAuthorized, ProcessOrderNotification
  <1>2. ASSUME d.msg.type \in TerminalEvents,
               notified' = [notified EXCEPT ![d.msg.order][d.msg.type] = @ + 1]
        PROVE  \A x \in Orders, ty \in TerminalEvents :
                 notified'[x][ty] = IF x = d.msg.order /\ ty = d.msg.type
                                      THEN notified[x][ty] + 1 ELSE notified[x][ty]
    BY <1>2, DeliveryFacts DEF TypeOK
  <1> QED BY <1>1, <1>2

LEMMA NotifiedOnceStep ==
  ASSUME EvidenceInv, TypeOK', Numbered, Waiting, NotifiedOnce, [Next]_vars
  PROVE  NotifiedOnce'
  <1> DEFINE Own(o) == IF o \in SyncOrders /\ order[o] # "absent" THEN 1 ELSE 0
             OwnNext(o) == IF o \in SyncOrders /\ order'[o] # "absent" THEN 1 ELSE 0
  <1> SUFFICES ASSUME NEW o \in Orders, NEW ty \in TerminalEvents
               PROVE  notified'[o][ty] <= Cardinality(Notices(ty, o))' + OwnNext(o)
    BY DEF NotifiedOnce
  <1>0. TypeOK
    BY DEF EvidenceInv
  <1>1. /\ notified[o][ty] \in Nat /\ notified'[o][ty] \in Nat
        /\ notified[o][ty] <= Cardinality(Notices(ty, o)) + Own(o)
        /\ Cardinality(Notices(ty, o)) \in Nat /\ Cardinality(Notices(ty, o))' \in Nat
        /\ Cardinality(Notices(ty, o)) <= Cardinality(Notices(ty, o))'
    <2>1. notified[o][ty] \in Nat
      BY <1>0 DEF TypeOK
    <2>2. notified'[o][ty] \in Nat
      <3>1. notified' \in [Orders -> [TerminalEvents -> Nat]]
        BY DEF TypeOK
      <3> QED BY <3>1
    <2>3. notified[o][ty] <= Cardinality(Notices(ty, o)) + Own(o)
      BY DEF NotifiedOnce
    <2>4. /\ Cardinality(Notices(ty, o)) \in Nat /\ Cardinality(Notices(ty, o))' \in Nat
          /\ Cardinality(Notices(ty, o)) <= Cardinality(Notices(ty, o))'
      BY <1>0, NoticesGrow
    <2> QED BY <2>1, <2>2, <2>3, <2>4
  <1>2. Own(o) <= OwnNext(o) /\ Own(o) \in {0, 1} /\ OwnNext(o) \in {0, 1}
    <2>1. order[o] # "absent" => order'[o] # "absent"
      <3>1. CASE Next
        BY <3>1, NextBacked DEF Backed, StatusBacked
      <3>2. CASE UNCHANGED vars
        BY <3>2 DEF vars
      <3> QED BY <3>1, <3>2
    <2> QED BY <2>1
  <1> HIDE DEF Own, OwnNext
  <1>3. CASE notified'[o][ty] = notified[o][ty]
    BY <1>1, <1>2, <1>3
  <1>4. ASSUME NEW d \in deliveries, Handle(d), notified'[o][ty] # notified[o][ty]
        PROVE  notified'[o][ty] <= Cardinality(Notices(ty, o))' + OwnNext(o)
    <2>1. /\ d.msg.order = o /\ d.msg.type = ty
          /\ notified'[o][ty] = notified[o][ty] + 1
      BY <1>0, <1>4, HandleNotifies
    <2>2. Cardinality(Notices(ty, o)) + 1 <= Cardinality(Notices(ty, o))'
      BY <1>0, <1>4, <2>1, HandleNotices
    <2> QED BY <1>1, <1>2, <2>1, <2>2
  <1>5. ASSUME NEW x \in Orders, Checkout(x), notified'[o][ty] # notified[o][ty]
        PROVE  notified'[o][ty] <= Cardinality(Notices(ty, o))' + OwnNext(o)
    <2>1. /\ x = o /\ order[o] = "absent" /\ o \in SyncOrders /\ order'[o] # "absent"
          /\ notified'[o][ty] <= notified[o][ty] + 1
      <3>1. PICK event \in TerminalEvents :
              /\ order[x] = "absent" /\ x \in SyncOrders
              /\ \A z \in Orders :
                   order'[z] = IF z # x THEN order[z]
                               ELSE IF event = "OrderConfirmed" THEN "confirmed" ELSE "cancelled"
              /\ Emit(x, {"OrderCreated", event})
              /\ \A z \in Orders : z # x => payments'[z] = payments[z]
              /\ \A z \in Orders, tz \in TerminalEvents :
                   /\ z # x \/ tz # event => notified'[z][tz] = notified[z][tz]
                   /\ notified'[z][tz] <= notified[z][tz] + 1
              /\ UNCHANGED <<processed, deliveries, requests>>
        BY <1>0, <1>5, CheckoutFacts
      <3>2. x = o
        BY <1>5, <3>1
      <3> QED BY <3>1, <3>2
    <2>2. Own(o) = 0 /\ OwnNext(o) = 1
      BY <2>1 DEF Own, OwnNext
    <2> QED BY <1>1, <2>1, <2>2
  <1>6. CASE (\E x \in Orders : CreateOrder(x)) \/ (\E q \in requests : CommitRequest(q)) \/ Quiet
    BY <1>3, <1>6 DEF CreateOrder, CommitRequest, Quiet
  <1> QED BY <1>3, <1>4, <1>5, <1>6, QuietSteps

-----------------------------------------------------------------------------
EffectsInv ==
  EvidenceInv /\ Numbered /\ Waiting /\ StepsOnce /\ ChargedOnce /\ NotifiedOnce

LEMMA EffectsInvariant == Spec /\ []OneAtATime => []EffectsInv
  <1>1. Init => EffectsInv
    <2>1. Init => Numbered /\ Waiting /\ StepsOnce /\ ChargedOnce
      BY DEF Init, Numbered, Waiting, StepsOnce, ChargedOnce, Once, EventTypes, TerminalEvents
    <2>2. ASSUME Init
          PROVE  NotifiedOnce
      <3>1. \A o \in Orders, ty \in TerminalEvents : Notices(ty, o) = {} /\ notified[o][ty] = 0
        BY <2>2 DEF Init, Notices, Consumers
      <3>2. Cardinality({}) = 0
        BY FS_EmptySet
      <3> QED BY <3>1, <3>2 DEF NotifiedOnce
    <2> QED BY <2>1, <2>2, EvidenceInit DEF EffectsInv
  <1>2. EffectsInv /\ EvidenceInv' /\ OneAtATime /\ [Next]_vars => EffectsInv'
    BY NumberedStep, WaitingStep, StepsOnceStep, ChargedOnceStep, NotifiedOnceStep
       DEF EffectsInv, EvidenceInv
  <1> QED BY <1>1, <1>2, EvidenceInvariant, PTL DEF Spec

\* "Processing the same event twice must not duplicate side effects": while no
\* event is in two hands at once, redelivered and republished events reserve and
\* charge an order once and notify each terminal event once, with operators
\* confirming and cancelling at any moment.
THEOREM EffectsAreNotDuplicated == Spec /\ []OneAtATime => []NoDuplicateSideEffects
  <1>1. ASSUME EffectsInv, CheckoutIsNotRepeated
        PROVE  NoDuplicateSideEffects
    <2>0. TypeOK
      BY <1>1 DEF EffectsInv, EvidenceInv
    <2> SUFFICES ASSUME NEW o \in Orders
                 PROVE  /\ emitted["InventoryReserved"][o] + emitted["InventoryRejected"][o] <= 1
                        /\ payments[o]["authorized"] + payments[o]["declined"] <= 1
                        /\ \A ty \in TerminalEvents :
                             notified[o][ty] <= emitted[ty][o]
                                                  + (IF o \in SyncOrders THEN 1 ELSE 0)
      BY DEF NoDuplicateSideEffects
    <2>1. /\ emitted["InventoryReserved"][o] \in Nat /\ emitted["InventoryRejected"][o] \in Nat
          /\ payments[o]["authorized"] \in Nat /\ payments[o]["declined"] \in Nat
      BY <2>0 DEF TypeOK, EventTypes
    <2>2. \A ty : Once(ty, o) \in {0, 1}
      BY DEF Once
    <2>3. emitted["InventoryReserved"][o] + emitted["InventoryRejected"][o] <= 1
      BY <1>1, <2>1, <2>2 DEF EffectsInv, StepsOnce
    <2>4. payments[o]["authorized"] + payments[o]["declined"] <= 1
      BY <1>1, <2>1, <2>2 DEF EffectsInv, ChargedOnce, CheckoutIsNotRepeated
    <2>5. ASSUME NEW ty \in TerminalEvents
          PROVE  notified[o][ty] <= emitted[ty][o] + (IF o \in SyncOrders THEN 1 ELSE 0)
      <3>1. emitted[ty][o] \in Nat /\ notified[o][ty] \in Nat
        BY <2>0 DEF TypeOK, EventTypes
      <3>2. /\ Notices(ty, o) \subseteq 1..emitted[ty][o]
            /\ IsFiniteSet(1..emitted[ty][o])
            /\ Cardinality(1..emitted[ty][o]) = emitted[ty][o]
        BY <3>1, UpTo DEF Notices
      <3>3. /\ Cardinality(Notices(ty, o)) <= emitted[ty][o]
            /\ Cardinality(Notices(ty, o)) \in Nat
        BY <3>2, FS_Subset, FS_CardinalityType
      <3> QED BY <1>1, <3>1, <3>3 DEF EffectsInv, NotifiedOnce
    <2> QED BY <2>3, <2>4, <2>5
  <1> QED BY <1>1, EffectsInvariant, CheckoutsAreNotRepeated, PTL

-----------------------------------------------------------------------------
(* What keeps deliveries of one event apart.                               *)

AllAttached == \A d \in deliveries : d.attached

\* While rows are published once: an event is pending or in one message, and an
\* open delivery still has its message to itself.
SingleCopies ==
  /\ \A m \in broker : EventOf(m) \notin pending
  /\ \A m, x \in broker : EventOf(m) = EventOf(x) => m = x
  /\ \A d \in deliveries : d.msg \in broker
  /\ \A d, x \in deliveries : d.msg = x.msg => d = x

\* While one process consumes: it works on one message of each queue.
OneByOne ==
  \A d, x \in deliveries : QueueOf[d.msg.type] = QueueOf[x.msg.type] => d = x

LEMMA AttachedStep ==
  ASSUME TypeOK, "reconnect" \notin FaultKinds, AllAttached, [Next]_vars
  PROVE  AllAttached'
  <1>1. ASSUME NEW r \in Replicas, NEW m \in broker, Deliver(r, m)
        PROVE  AllAttached'
    BY <1>1 DEF Deliver, AllAttached
  <1>2. ASSUME NEW d \in deliveries, ReadStock(d) \/ RereadOrder(d) \/ Reconnect(d)
        PROVE  AllAttached'
    <2>1. ~Reconnect(d)
      BY DEF Reconnect, Fault
    <2>2. \E e : Replace(d, e) /\ e.attached = d.attached
      BY <1>2, <2>1, ReadStockReplaces, RereadOrderReplaces
    <2> QED BY <2>2 DEF Replace, AllAttached
  <1> QED BY <1>1, <1>2, DeliverySteps DEF AllAttached

\* A delivery that is moved along keeps its message.
LEMMA MovedAlong ==
  ASSUME TypeOK, NEW d \in deliveries, ReadStock(d) \/ RereadOrder(d) \/ Reconnect(d)
  PROVE  /\ \E e : Replace(d, e) /\ e.msg = d.msg
         /\ UNCHANGED <<broker, pending, processed>>
  <1>1. \E e : Replace(d, e) /\ e.msg = d.msg
    BY ReadStockReplaces, RereadOrderReplaces, ReconnectReplaces
  <1> QED BY <1>1 DEF ReadStock, RereadOrder, Reconnect, outboxVars

LEMMA OneByOneStep ==
  ASSUME TypeOK, AllAttached, OneByOne, \A r, s \in Replicas : r = s, [Next]_vars
  PROVE  OneByOne'
  <1>1. ASSUME NEW r \in Replicas, NEW m \in broker, Deliver(r, m)
        PROVE  OneByOne'
    <2>1. \A d \in deliveries : QueueOf[d.msg.type] # QueueOf[m.type]
      <3>1. \A d \in deliveries : d.attached /\ d.replica = r
        BY DEF AllAttached, TypeOK, Delivery
      <3> QED BY <1>1, <3>1 DEF Deliver
    <2>2. \A d, x \in deliveries' : d \notin deliveries /\ x \notin deliveries => d = x
      BY <1>1 DEF Deliver
    <2>3. \A d \in deliveries' : d \notin deliveries => d.msg = m
      BY <1>1 DEF Deliver
    <2> QED BY <2>1, <2>2, <2>3 DEF OneByOne
  <1>2. ASSUME NEW d \in deliveries, ReadStock(d) \/ RereadOrder(d) \/ Reconnect(d)
        PROVE  OneByOne'
    BY <1>2, MovedAlong DEF Replace, OneByOne
  <1>3. CASE deliveries' \subseteq deliveries
    BY <1>3 DEF OneByOne
  <1> QED BY <1>1, <1>2, <1>3, DeliverySteps

LEMMA MessageEvent ==
  ASSUME TypeOK, NEW e \in pending
  PROVE  EventOf(Message(e)) = e
  BY DEF TypeOK, EventId, EventOf, Message

\* A row that is inserted is new to the outbox and to the broker.
LEMMA FreshRow ==
  ASSUME TypeOK, Numbered, NEW o \in Orders, NEW ty \in EventTypes
  PROVE  Row(ty, o) \notin pending /\ \A m \in broker : EventOf(m) # Row(ty, o)
  <1>1. emitted[ty][o] \in Nat
    BY DEF TypeOK
  <1>2. /\ Row(ty, o).type = ty /\ Row(ty, o).order = o
        /\ Row(ty, o).n = emitted[ty][o] + 1
    BY DEF Row
  <1>3. Row(ty, o) \notin pending
    BY <1>1, <1>2 DEF Numbered, Counted
  <1>4. \A m \in broker : EventOf(m) # Row(ty, o)
    <2>1. \A m \in broker : /\ EventOf(m).type = m.type /\ EventOf(m).order = m.order
                            /\ EventOf(m).n = m.n
      BY DEF EventOf
    <2> QED BY <1>1, <1>2, <2>1 DEF Numbered, Counted
  <1> QED BY <1>3, <1>4

LEMMA SingleCopiesStep ==
  ASSUME TypeOK, Numbered, AllAttached, SingleCopies,
         "republish" \notin FaultKinds, "reconnect" \notin FaultKinds, [Next]_vars
  PROVE  SingleCopies'
  <1>1. ASSUME NEW r \in Replicas, NEW m \in broker, Deliver(r, m)
        PROVE  SingleCopies'
    <2>1. \A d \in deliveries : d.msg # m
      BY <1>1 DEF Deliver, AllAttached
    <2>2. /\ UNCHANGED pending
          /\ \/ deliveries' = deliveries /\ broker' = broker \ {m}
             \/ /\ broker' = broker
                /\ \E d : d.msg = m /\ deliveries' = deliveries \cup {d}
      BY <1>1 DEF Deliver, outboxVars
    <2> QED BY <2>1, <2>2 DEF SingleCopies, EventOf
  <1>2. ASSUME NEW d \in deliveries, ReadStock(d) \/ RereadOrder(d) \/ Reconnect(d)
        PROVE  SingleCopies'
    BY <1>2, MovedAlong DEF Replace, SingleCopies, EventOf
  <1>3. ASSUME NEW e \in pending, Publish(e)
        PROVE  SingleCopies'
    <2> DEFINE m == Message(e)
    <2>1. /\ broker' = broker \cup {m} /\ pending' = pending \ {e}
          /\ deliveries' = deliveries
      BY <1>3 DEF Publish
    <2>2. EventOf(m) = e
      BY MessageEvent
    <2> HIDE DEF m
    <2> QED BY <2>1, <2>2 DEF SingleCopies, EventOf
  <1>4. ASSUME NEW d \in deliveries, Rollback(d) \/ Crash(d)
        PROVE  SingleCopies'
    BY <1>4 DEF Rollback, Crash, outboxVars, SingleCopies, EventOf
  <1>5. ASSUME UNCHANGED <<broker, deliveries>>, pending' \subseteq pending
        PROVE  SingleCopies'
    BY <1>5 DEF SingleCopies, EventOf
  <1>6. ASSUME NEW o \in Orders, NEW types \in SUBSET EventTypes, Emit(o, types),
               broker' \subseteq broker, deliveries' \subseteq deliveries,
               \A d \in deliveries' : d.msg \in broker'
        PROVE  SingleCopies'
    <2>1. \A e \in pending' : e \in pending \/ \A m \in broker : EventOf(m) # e
      BY <1>6, EmitCounts, FreshRow
    <2> QED BY <1>6, <2>1 DEF SingleCopies, EventOf
  <1>7. ASSUME NEW d \in deliveries, Handle(d)
        PROVE  SingleCopies'
    <2>1. /\ deliveries' = deliveries \ {d} /\ broker' = broker \ {d.msg}
      BY <1>7, HandleCompletes DEF Complete, AllAttached
    <2>2. \A x \in deliveries' : x.msg \in broker'
      BY <2>1 DEF SingleCopies
    <2>3. CASE \E o \in Orders, types \in SUBSET EventTypes : Emit(o, types)
      BY <1>6, <2>1, <2>2, <2>3
    <2>4. CASE pending' \subseteq pending
      BY <2>1, <2>2, <2>4 DEF SingleCopies, EventOf
    <2> QED BY <2>3, <2>4, StepEmits
  <1>8. CASE Shoppers \/ Operators \/ Settle \/ UNCHANGED vars
    <2>1. UNCHANGED <<broker, deliveries>>
      BY <1>8 DEF Shoppers, CreateOrder, Checkout, Operators, AdjustStock, ReadForRequest,
                  Settle, CommitRequest, vars
    <2> QED BY <1>5, <1>6, <2>1, StepEmits DEF SingleCopies
  <1>9. CASE Faults
    BY <1>2, <1>4, <1>9 DEF Faults, PublishUnmarked, Fault
  <1> QED BY <1>1, <1>2, <1>3, <1>4, <1>7, <1>8, <1>9 DEF Next, Consume, Forward

\* One process that loses no channel, or processes that publish every row once
\* and lose no channel, never work on one event twice at a time, whatever crashes.
THEOREM DeliveriesDoNotOverlap == NoOverlap => (Spec => []OneAtATime)
  <1> SUFFICES ASSUME NoOverlap
               PROVE  Spec => []OneAtATime
    OBVIOUS
  <1> DEFINE Inv == /\ TypeOK /\ Numbered /\ AllAttached
                    /\ "republish" \notin FaultKinds => SingleCopies
                    /\ "republish" \in FaultKinds => OneByOne
  <1>1. Init => Inv
    BY InitType DEF Init, Numbered, AllAttached, SingleCopies, OneByOne, Consumers
  <1>2. Inv /\ [Next]_vars => Inv'
    BY TypeStep, NumberedStep, AttachedStep, SingleCopiesStep, OneByOneStep DEF NoOverlap
  <1>3. Inv => OneAtATime
    <2>1. \A d, x \in deliveries : EventOf(d.msg) = EventOf(x.msg) => d.msg.type = x.msg.type
      BY DEF EventOf
    <2> QED BY <2>1 DEF OneAtATime, SingleCopies, OneByOne
  <1> QED BY <1>1, <1>2, <1>3, PTL DEF Spec

-----------------------------------------------------------------------------
(* Without operators an order of the asynchronous path is driven by one    *)
(* event at a time, and no handler works on a stale status.                *)

\* Where an order stands while an event of it awaits its handler.
Staged ==
  [OrderCreated           |-> "pending",
   InventoryReserved      |-> "pending",
   InventoryRejected      |-> "pending",
   OrderInventoryReserved |-> "inventory_reserved",
   PaymentAuthorized      |-> "inventory_reserved",
   PaymentRejected        |-> "inventory_reserved",
   OrderPaymentAuthorized |-> "payment_authorized",
   OrderConfirmed         |-> "confirmed",
   OrderCancelled         |-> "cancelled"]

Unhandled(ty, o) == emitted[ty][o] > 0 /\ ~Handled(ty, o)

\* The one event that has not been handled says where the order stands.
DrivenByOne ==
  \A o \in Orders \ SyncOrders :
    /\ \A ty \in Steps : Unhandled(ty, o) => order[o] = Staged[ty]
    /\ \A ty, tz \in Steps : Unhandled(ty, o) /\ Unhandled(tz, o) => ty = tz

\* Handlers have read that status.
SeesStaged ==
  \A d \in deliveries :
    d.msg.type \in Steps /\ d.msg.order \notin SyncOrders =>
      /\ d.seen = Staged[d.msg.type]
      /\ d.stage = "reread" => d.reread = Staged[d.msg.type]

\* The two consumers of a PaymentRejected claim it together.
ClaimsAgree ==
  \A e \in EventId :
    e.type = "PaymentRejected" =>
      (e \in processed["ProcessPaymentRejected"]
         <=> e \in processed["ProcessOrderPaymentResult"])

StagedInv ==
  /\ RepeatInv /\ Numbered /\ Waiting /\ StepsOnce
  /\ requests = {} /\ ClaimsAgree /\ DrivenByOne /\ SeesStaged

\* A message that is not done stands for the unhandled event of its type.
LEMMA NotDoneIsUnhandled ==
  ASSUME EvidenceInv, StepsOnce, NEW m \in MessageId, m.type \in Steps, Counted(m), ~Done(m)
  PROVE  Unhandled(m.type, m.order)
  <1>1. TypeOK /\ m.n \in Nat \ {0} /\ m.order \in Orders
    BY DEF EvidenceInv, MessageId
  <1>2. m.n = 1 /\ emitted[m.type][m.order] = 1
    BY <1>1, AtMostOne DEF Counted
  <1> QED BY <1>2 DEF EventOf, Done, Handled, Unhandled

LEMMA DeliveryDrives ==
  ASSUME StagedInv, NEW d \in deliveries, d.msg.type \in Steps, d.msg.order \notin SyncOrders
  PROVE  /\ Unhandled(d.msg.type, d.msg.order)
         /\ order[d.msg.order] = Staged[d.msg.type]
         /\ d.seen = Staged[d.msg.type]
         /\ d.stage = "reread" => d.reread = Staged[d.msg.type]
  <1>1. /\ EvidenceInv /\ StepsOnce /\ d.msg \in MessageId /\ d.msg.order \in Orders
        /\ Counted(d.msg) /\ ~Done(d.msg)
    BY DeliveryFacts DEF StagedInv, RepeatInv, EvidenceInv, Numbered, Waiting
  <1>2. Unhandled(d.msg.type, d.msg.order)
    BY <1>1, NotDoneIsUnhandled
  <1> QED BY <1>1, <1>2 DEF StagedInv, DrivenByOne, SeesStaged

\* One step along the lifecycle: the event that follows is inserted, and the
\* order goes to the status it stands for, along its timeline.
Moved(o, T, U) ==
  /\ U \in Follows[T]
  /\ Emit(o, {U})
  /\ \A x \in Orders : order'[x] = IF x = o THEN Staged[U] ELSE order[x]
  /\ \/ Staged[U] = Staged[T] /\ UNCHANGED timeline
     \/ \E event \in DOMAIN StatusAfter :
          /\ StatusAfter[event] = Staged[U]
          /\ Moves(Staged[T], Staged[U])
          /\ \A x \in Orders : timeline'[x] = IF x = o THEN Append(timeline[o], event)
                                                      ELSE timeline[x]

LEMMA TransitionMoves ==
  ASSUME TypeOK, NEW o \in Orders, NEW T \in Steps, NEW U \in Follows[T],
         NEW event \in DOMAIN StatusAfter, StatusAfter[event] = Staged[U],
         Moves(Staged[T], Staged[U]), U \in EventTypes,
         Transition(o, Staged[U], event, U)
  PROVE  Moved(o, T, U)
  <1>1. /\ \A x \in Orders : order'[x] = IF x = o THEN Staged[U] ELSE order[x]
        /\ \A x \in Orders : timeline'[x] = IF x = o THEN Append(timeline[o], event)
                                                     ELSE timeline[x]
    BY TransitionFacts
  <1>2. Emit(o, {U})
    BY DEF Transition
  <1> QED BY <1>1, <1>2 DEF Moved

LEMMA HandleMoves ==
  ASSUME StagedInv, NEW d \in deliveries, Handle(d),
         d.msg.type \in Steps, d.msg.order \notin SyncOrders
  PROVE  \E U \in Follows[d.msg.type] : Moved(d.msg.order, d.msg.type, U)
  <1> DEFINE o == d.msg.order
             T == d.msg.type
  <1>0. TypeOK /\ o \in Orders /\ T \in Steps
    BY DeliveryFacts DEF StagedInv, RepeatInv, EvidenceInv
  <1>1. /\ order[o] = Staged[T] /\ d.seen = Staged[T]
        /\ d.stage = "reread" => d.reread = Staged[T]
    BY DeliveryDrives
  <1>2. ASSUME NEW U \in Follows[T], Emit(o, {U}), UNCHANGED <<order, timeline>>,
               Staged[U] = Staged[T]
        PROVE  Moved(o, T, U)
    BY <1>1, <1>2 DEF Moved
  <1>3. CASE T = "OrderCreated"
    <2>1. ProcessInventoryReservation(d)
      BY <1>3 DEF Handle, TerminalEvents, ProcessOrderNotification,
         ProcessOrderInventoryResult, ProcessOrderInventoryReserved,
         ProcessPaymentAuthorized, ProcessPaymentRejected, FinalizePaymentAuthorized
    <2>2. d.seen \notin Terminal
      BY <1>1, <1>3 DEF Staged, Terminal
    <2>3. /\ Emit(o, {"InventoryReserved"}) \/ Emit(o, {"InventoryRejected"})
          /\ UNCHANGED <<order, timeline>>
      BY <2>1, <2>2 DEF ProcessInventoryReservation, orderVars
    <2>4. /\ "InventoryReserved" \in Follows[T] /\ "InventoryRejected" \in Follows[T]
          /\ Staged["InventoryReserved"] = Staged[T] /\ Staged["InventoryRejected"] = Staged[T]
      BY <1>3 DEF Follows, Staged
    <2> QED BY <1>2, <2>3, <2>4
  <1>4. CASE T \in {"InventoryReserved", "InventoryRejected"}
    <2>1. ProcessOrderInventoryResult(d)
      BY <1>4 DEF Handle, TerminalEvents, ProcessOrderNotification,
         ProcessInventoryReservation, ProcessOrderInventoryReserved,
         ProcessPaymentAuthorized, ProcessPaymentRejected, FinalizePaymentAuthorized
    <2>2. /\ d.seen = "pending" /\ d.seen \notin Terminal
          /\ Moves(d.seen, "inventory_reserved") /\ Moves(d.seen, "cancelled")
      BY <1>1, <1>4
         DEF Staged, Terminal, Moves, CanTransition, AllowedTransitions, Statuses
    <2>3. CASE T = "InventoryReserved"
      <3>1. Transition(o, "inventory_reserved", "InventoryReserved", "OrderInventoryReserved")
        BY <2>1, <2>2, <2>3 DEF ProcessOrderInventoryResult
      <3>2. /\ "OrderInventoryReserved" \in Follows[T]
            /\ Staged["OrderInventoryReserved"] = "inventory_reserved"
            /\ StatusAfter["InventoryReserved"] = "inventory_reserved"
            /\ "InventoryReserved" \in DOMAIN StatusAfter
            /\ "OrderInventoryReserved" \in EventTypes
        BY <2>3 DEF Follows, Staged, StatusAfter, EventTypes
      <3> QED BY <1>0, <1>1, <2>2, <3>1, <3>2, TransitionMoves
    <2>4. CASE T = "InventoryRejected"
      <3>1. Transition(o, "cancelled", "InventoryRejected", "OrderCancelled")
        BY <2>1, <2>2, <2>4 DEF ProcessOrderInventoryResult
      <3>2. /\ "OrderCancelled" \in Follows[T]
            /\ Staged["OrderCancelled"] = "cancelled"
            /\ StatusAfter["InventoryRejected"] = "cancelled"
            /\ "InventoryRejected" \in DOMAIN StatusAfter
            /\ "OrderCancelled" \in EventTypes
        BY <2>4 DEF Follows, Staged, StatusAfter, EventTypes, TerminalEvents
      <3> QED BY <1>0, <1>1, <2>2, <3>1, <3>2, TransitionMoves
    <2> QED BY <1>4, <2>3, <2>4
  <1>5. CASE T = "OrderInventoryReserved"
    <2>1. ProcessOrderInventoryReserved(d)
      BY <1>5 DEF Handle, TerminalEvents, ProcessOrderNotification,
         ProcessInventoryReservation, ProcessOrderInventoryResult,
         ProcessPaymentAuthorized, ProcessPaymentRejected, FinalizePaymentAuthorized
    <2>2. d.seen = "inventory_reserved"
      BY <1>1, <1>5 DEF Staged
    <2>3. /\ Emit(o, {"PaymentAuthorized"}) \/ Emit(o, {"PaymentRejected"})
          /\ UNCHANGED <<order, timeline>>
      BY <2>1, <2>2 DEF ProcessOrderInventoryReserved, orderVars
    <2>4. /\ "PaymentAuthorized" \in Follows[T] /\ "PaymentRejected" \in Follows[T]
          /\ Staged["PaymentAuthorized"] = Staged[T] /\ Staged["PaymentRejected"] = Staged[T]
      BY <1>5 DEF Follows, Staged
    <2> QED BY <1>2, <2>3, <2>4
  <1>6. CASE T = "PaymentAuthorized"
    <2>1. ProcessPaymentAuthorized(d)
      BY <1>6 DEF Handle, TerminalEvents, ProcessOrderNotification,
         ProcessInventoryReservation, ProcessOrderInventoryResult,
         ProcessOrderInventoryReserved, ProcessPaymentRejected, FinalizePaymentAuthorized
    <2>2. d.seen = "inventory_reserved" /\ Moves(d.seen, "payment_authorized")
      BY <1>1, <1>6 DEF Staged, Moves, CanTransition, AllowedTransitions, Statuses
    <2>3. Transition(o, "payment_authorized", "PaymentAuthorized", "OrderPaymentAuthorized")
      BY <2>1, <2>2 DEF ProcessPaymentAuthorized
    <2>4. /\ "OrderPaymentAuthorized" \in Follows[T]
          /\ Staged["OrderPaymentAuthorized"] = "payment_authorized"
          /\ StatusAfter["PaymentAuthorized"] = "payment_authorized"
          /\ "PaymentAuthorized" \in DOMAIN StatusAfter
          /\ "OrderPaymentAuthorized" \in EventTypes
      BY <1>6 DEF Follows, Staged, StatusAfter, EventTypes
    <2> QED BY <1>0, <1>1, <2>2, <2>3, <2>4, TransitionMoves
  <1>7. CASE T = "PaymentRejected"
    <2>1. ProcessPaymentRejected(d)
      BY <1>7 DEF Handle, TerminalEvents, ProcessOrderNotification,
         ProcessInventoryReservation, ProcessOrderInventoryResult,
         ProcessOrderInventoryReserved, ProcessPaymentAuthorized, FinalizePaymentAuthorized
    <2>2. d.reread = "inventory_reserved" /\ Moves(d.seen, "cancelled")
      BY <1>1, <1>7, <2>1
         DEF ProcessPaymentRejected, Staged, Moves, CanTransition, AllowedTransitions, Statuses
    <2>3. Transition(o, "cancelled", "PaymentRejected", "OrderCancelled")
      BY <2>1, <2>2 DEF ProcessPaymentRejected
    <2>4. /\ "OrderCancelled" \in Follows[T]
          /\ Staged["OrderCancelled"] = "cancelled"
          /\ StatusAfter["PaymentRejected"] = "cancelled"
          /\ "PaymentRejected" \in DOMAIN StatusAfter
          /\ "OrderCancelled" \in EventTypes
      BY <1>7 DEF Follows, Staged, StatusAfter, EventTypes, TerminalEvents
    <2> QED BY <1>0, <1>1, <2>2, <2>3, <2>4, TransitionMoves
  <1>8. CASE T = "OrderPaymentAuthorized"
    <2>1. FinalizePaymentAuthorized(d)
      BY <1>8 DEF Handle, TerminalEvents, ProcessOrderNotification,
         ProcessInventoryReservation, ProcessOrderInventoryResult,
         ProcessOrderInventoryReserved, ProcessPaymentAuthorized, ProcessPaymentRejected
    <2>2. d.seen = "payment_authorized" /\ Moves(d.seen, "confirmed")
      BY <1>1, <1>8 DEF Staged, Moves, CanTransition, AllowedTransitions, Statuses
    <2>3. Transition(o, "confirmed", "OrderPaymentAuthorized", "OrderConfirmed")
      BY <2>1, <2>2 DEF FinalizePaymentAuthorized
    <2>4. /\ "OrderConfirmed" \in Follows[T]
          /\ Staged["OrderConfirmed"] = "confirmed"
          /\ StatusAfter["OrderPaymentAuthorized"] = "confirmed"
          /\ "OrderPaymentAuthorized" \in DOMAIN StatusAfter
          /\ "OrderConfirmed" \in EventTypes
      BY <1>8 DEF Follows, Staged, StatusAfter, EventTypes, TerminalEvents
    <2> QED BY <1>0, <1>1, <2>2, <2>3, <2>4, TransitionMoves
  <1> QED BY <1>0, <1>3, <1>4, <1>5, <1>6, <1>7, <1>8 DEF Steps, EventTypes

\* The handler of any other delivery leaves orders and outbox alone.
LEMMA HandleIdles ==
  ASSUME RepeatInv, NEW d \in deliveries, Handle(d),
         d.msg.type \in TerminalEvents \/ d.msg.order \in SyncOrders
  PROVE  UNCHANGED <<order, timeline, emitted>>
  <1>1. CASE d.msg.type \in TerminalEvents
    <2>1. ProcessOrderNotification(d)
      BY <1>1 DEF Handle, TerminalEvents, ProcessInventoryReservation,
         ProcessOrderInventoryResult, ProcessOrderInventoryReserved,
         ProcessPaymentAuthorized, ProcessPaymentRejected, FinalizePaymentAuthorized
    <2> QED BY <2>1 DEF ProcessOrderNotification, ClaimOnly, orderVars, outboxVars
  <1>2. CASE d.msg.type = "OrderCreated" /\ d.seen \in Terminal /\ d.stage = "status"
    <2>1. ProcessInventoryReservation(d)
      BY <1>2 DEF Handle, TerminalEvents, ProcessOrderNotification,
         ProcessOrderInventoryResult, ProcessOrderInventoryReserved,
         ProcessPaymentAuthorized, ProcessPaymentRejected, FinalizePaymentAuthorized
    <2> QED BY <1>2, <2>1 DEF ProcessInventoryReservation, orderVars, outboxVars
  <1> QED BY <1>1, <1>2 DEF RepeatInv, SyncViews

LEMMA ClaimsAgreeStep ==
  ASSUME TypeOK, ClaimsAgree, [Next]_vars
  PROVE  ClaimsAgree'
  <1>1. CASE UNCHANGED processed
    BY <1>1 DEF ClaimsAgree
  <1>2. ASSUME NEW d \in deliveries, Handle(d),
               NEW e \in EventId, e.type = "PaymentRejected"
        PROVE  e \in processed'["ProcessPaymentRejected"]
                 <=> e \in processed'["ProcessOrderPaymentResult"]
    <2>1. Complete(d)
      BY <1>2, HandleCompletes
    <2>2. "ProcessPaymentRejected" \in Consumers /\ "ProcessOrderPaymentResult" \in Consumers
      BY DEF Consumers
    <2>3. CASE e = EventOf(d.msg)
      <3>1. /\ 1 \in DOMAIN ClaimsOf[d.msg.type] /\ 2 \in DOMAIN ClaimsOf[d.msg.type]
            /\ ClaimsOf[d.msg.type][1] = "ProcessPaymentRejected"
            /\ ClaimsOf[d.msg.type][2] = "ProcessOrderPaymentResult"
        BY <1>2, <2>3 DEF EventOf, ClaimsOf
      <3> QED BY <2>1, <2>2, <2>3, <3>1 DEF Complete
    <2>4. CASE e # EventOf(d.msg)
      BY <1>2, <2>1, <2>2, <2>4 DEF Complete, ClaimsAgree
    <2> QED BY <2>3, <2>4
  <1> QED BY <1>1, <1>2, StepClaims DEF ClaimsAgree

\* Where nothing is inserted, nothing becomes unhandled.
LEMMA UnhandledBefore ==
  ASSUME TypeOK, [Next]_vars, NEW ty \in EventTypes, NEW o \in Orders,
         emitted'[ty][o] = emitted[ty][o], Unhandled(ty, o)'
  PROVE  Unhandled(ty, o)
  BY HandledGrows DEF Unhandled

LEMMA SameDriven ==
  ASSUME TypeOK, DrivenByOne, [Next]_vars, NEW o \in Orders \ SyncOrders,
         order'[o] = order[o], \A ty \in EventTypes : emitted'[ty][o] = emitted[ty][o]
  PROVE  /\ \A ty \in Steps : Unhandled(ty, o)' => order'[o] = Staged[ty]
         /\ \A ty, tz \in Steps : Unhandled(ty, o)' /\ Unhandled(tz, o)' => ty = tz
  BY UnhandledBefore DEF DrivenByOne, Steps

LEMMA HandleDrives ==
  ASSUME StagedInv, NEW d \in deliveries, Handle(d), [Next]_vars, NEW x \in Orders \ SyncOrders
  PROVE  /\ \A ty \in Steps : Unhandled(ty, x)' => order'[x] = Staged[ty]
         /\ \A ty, tz \in Steps : Unhandled(ty, x)' /\ Unhandled(tz, x)' => ty = tz
  <1> DEFINE o == d.msg.order
             T == d.msg.type
  <1>0. /\ TypeOK /\ RepeatInv /\ Numbered /\ Waiting /\ StepsOnce /\ DrivenByOne
        /\ o \in Orders /\ T \in EventTypes
    BY DeliveryKnown DEF StagedInv, RepeatInv, EvidenceInv
  <1>1. CASE T \in TerminalEvents \/ o \in SyncOrders
    BY <1>0, <1>1, HandleIdles, SameDriven
  <1>2. CASE T \in Steps /\ o \notin SyncOrders
    <2>1. PICK U \in Follows[T] : Moved(o, T, U)
      BY <1>2, HandleMoves
    <2>2. U \in EventTypes
      BY <1>2 DEF Follows, Steps, EventTypes, TerminalEvents
    <2>3. \A ty \in EventTypes, z \in Orders :
            emitted'[ty][z] = IF ty = U /\ z = o THEN emitted[ty][z] + 1 ELSE emitted[ty][z]
      BY <1>0, <2>1, <2>2, EmitCounts DEF Moved
    <2>4. \A z \in Orders : order'[z] = IF z = o THEN Staged[U] ELSE order[z]
      BY <2>1 DEF Moved
    <2>5. CASE x # o
      BY <1>0, <2>3, <2>4, <2>5, SameDriven
    <2>6. CASE x = o
      <3>1. ASSUME NEW ty \in Steps, Unhandled(ty, x)'
            PROVE  ty = U
        <4>1. SUFFICES ASSUME ty # U
                       PROVE  FALSE
          OBVIOUS
        <4>2. Unhandled(ty, x)
          BY <1>0, <2>3, <3>1, <4>1, UnhandledBefore DEF Steps
        <4>3. ty = T
          BY <1>0, <1>2, <2>6, <4>2, DeliveryDrives DEF DrivenByOne
        <4>4. Once(T, x)' = 1
          BY <1>0, <1>2, <2>6, HandleTakes
        <4> QED BY <3>1, <4>3, <4>4 DEF Once, Unhandled
      <3> QED BY <2>4, <2>6, <3>1
    <2> QED BY <2>5, <2>6
  <1> QED BY <1>0, <1>1, <1>2 DEF Steps

LEMMA DrivenStep ==
  ASSUME StagedInv, [Next]_vars
  PROVE  DrivenByOne'
  <1>0. TypeOK /\ DrivenByOne /\ StepsOnce /\ requests = {}
    BY DEF StagedInv, RepeatInv, EvidenceInv
  <1> SUFFICES ASSUME NEW x \in Orders \ SyncOrders
               PROVE  /\ \A ty \in Steps : Unhandled(ty, x)' => order'[x] = Staged[ty]
                      /\ \A ty, tz \in Steps :
                           Unhandled(ty, x)' /\ Unhandled(tz, x)' => ty = tz
    BY DEF DrivenByOne
  <1>1. ASSUME NEW o \in Orders, CreateOrder(o)
        PROVE  /\ \A ty \in Steps : Unhandled(ty, x)' => order'[x] = Staged[ty]
               /\ \A ty, tz \in Steps : Unhandled(ty, x)' /\ Unhandled(tz, x)' => ty = tz
    <2>1. /\ order[o] = "absent" /\ Transition(o, "pending", "OrderCreated", "OrderCreated")
          /\ "OrderCreated" \in EventTypes /\ Staged["OrderCreated"] = "pending"
      BY <1>1 DEF CreateOrder, EventTypes, Staged
    <2>2. /\ \A z \in Orders : order'[z] = IF z = o THEN "pending" ELSE order[z]
          /\ \A ty \in EventTypes, z \in Orders :
               emitted'[ty][z] = IF ty = "OrderCreated" /\ z = o THEN emitted[ty][z] + 1
                                                                 ELSE emitted[ty][z]
      BY <1>0, <2>1, TransitionFacts
    <2>3. CASE x # o
      BY <1>0, <2>2, <2>3, SameDriven
    <2>4. CASE x = o
      <3>1. \A ty \in EventTypes : emitted[ty][x] = 0
        BY <1>0, <2>1, <2>4 DEF StepsOnce
      <3>2. ASSUME NEW ty \in Steps, Unhandled(ty, x)'
            PROVE  ty = "OrderCreated"
        BY <2>2, <3>1, <3>2 DEF Unhandled, Steps
      <3> QED BY <2>1, <2>2, <2>4, <3>2
    <2> QED BY <2>3, <2>4
  <1>2. ASSUME NEW o \in Orders, Checkout(o)
        PROVE  /\ \A ty \in Steps : Unhandled(ty, x)' => order'[x] = Staged[ty]
               /\ \A ty, tz \in Steps : Unhandled(ty, x)' /\ Unhandled(tz, x)' => ty = tz
    <2>1. PICK event \in TerminalEvents :
            /\ o \in SyncOrders
            /\ \A z \in Orders :
                 order'[z] = IF z # o THEN order[z]
                             ELSE IF event = "OrderConfirmed" THEN "confirmed" ELSE "cancelled"
            /\ Emit(o, {"OrderCreated", event})
      BY <1>0, <1>2, CheckoutFacts
    <2>2. {"OrderCreated", event} \in SUBSET EventTypes
      BY DEF EventTypes
    <2>3. \A ty \in EventTypes : emitted'[ty][x] = emitted[ty][x]
      BY <1>0, <2>1, <2>2, EmitCounts
    <2> QED BY <1>0, <2>1, <2>3, SameDriven
  <1>3. CASE Quiet
    BY <1>0, <1>3, SameDriven DEF Quiet
  <1> QED BY <1>0, <1>1, <1>2, <1>3, QuietSteps, HandleDrives

LEMMA SeesStep ==
  ASSUME StagedInv, [Next]_vars
  PROVE  SeesStaged'
  <1>0. /\ TypeOK /\ EvidenceInv /\ Numbered /\ Waiting /\ StepsOnce /\ DrivenByOne
        /\ SeesStaged /\ ClaimsAgree
    BY DEF StagedInv, RepeatInv, EvidenceInv
  <1>1. ASSUME NEW r \in Replicas, NEW m \in broker, Deliver(r, m)
        PROVE  SeesStaged'
    <2>1. /\ m \in MessageId /\ m.order \in Orders /\ Counted(m)
      BY <1>0 DEF TypeOK, MessageId, Numbered
    <2>2. ASSUME NEW d \in deliveries', d \notin deliveries
          PROVE  /\ ~Done(m) /\ d.msg = m /\ d.stage = "status"
                 /\ m.type \notin TerminalEvents => d.seen = order[m.order]
      BY <1>1, <2>2 DEF Deliver
    <2>3. ~Done(m) /\ m.type \in Steps /\ m.order \notin SyncOrders
            => order[m.order] = Staged[m.type]
      BY <1>0, <2>1, NotDoneIsUnhandled DEF DrivenByOne
    <2> QED BY <1>0, <2>2, <2>3 DEF SeesStaged, Steps
  <1>2. ASSUME NEW d \in deliveries, ReadStock(d) \/ Reconnect(d)
        PROVE  SeesStaged'
    <2>1. \E e : /\ Replace(d, e) /\ e.msg = d.msg /\ e.seen = d.seen
                 /\ e.stage = "stock" \/ (e.stage = d.stage /\ e.reread = d.reread)
      BY <1>0, <1>2, ReadStockReplaces, ReconnectReplaces
    <2> QED BY <1>0, <2>1 DEF Replace, SeesStaged
  <1>3. ASSUME NEW d \in deliveries, RereadOrder(d)
        PROVE  SeesStaged'
    <2>1. PICK e : /\ Replace(d, e) /\ e.msg = d.msg /\ e.seen = d.seen
                   /\ e.reread = IF EventOf(d.msg) \in processed["ProcessOrderPaymentResult"]
                                   THEN "absent" ELSE order[d.msg.order]
      BY <1>0, <1>3, RereadOrderReplaces
    <2>2. d.msg.type = "PaymentRejected" /\ ~Done(d.msg)
      BY <1>0, <1>3 DEF RereadOrder, Waiting
    <2>3. EventOf(d.msg) \notin processed["ProcessPaymentRejected"]
      BY <2>2 DEF Done, ClaimsOf
    <2>4. EventOf(d.msg) \in EventId /\ EventOf(d.msg).type = "PaymentRejected"
      BY <1>0, <2>2, DeliveryFacts DEF EventOf, EventId, MessageId
    <2>5. e.reread = order[d.msg.order]
      BY <1>0, <2>1, <2>3, <2>4 DEF ClaimsAgree
    <2>6. d.msg.type \in Steps /\ d.msg.order \notin SyncOrders => e.reread = Staged[d.msg.type]
      BY <2>5, DeliveryDrives
    <2> QED BY <1>0, <2>1, <2>6 DEF Replace, SeesStaged
  <1>4. CASE deliveries' \subseteq deliveries
    BY <1>0, <1>4 DEF SeesStaged
  <1> QED BY <1>0, <1>1, <1>2, <1>3, <1>4, DeliverySteps

\* Nobody clicks.
LEMMA NoRequestsStep ==
  ASSUME Clicks = {}, TypeOK', [Next]_vars
  PROVE  requests' = {}
  BY DEF TypeOK, Request

LEMMA StagedInvariant == Clicks = {} => (Spec /\ []OneAtATime => []StagedInv)
  <1> SUFFICES ASSUME Clicks = {}
               PROVE  Spec /\ []OneAtATime => []StagedInv
    OBVIOUS
  <1>1. ASSUME Init
        PROVE  StagedInv
    <2>1. SyncSettled /\ SyncViews /\ NoSyncRequests
      BY <1>1, OrdersAssumption DEF Init, SyncSettled, SyncViews, NoSyncRequests
    <2>2. Numbered /\ Waiting /\ StepsOnce /\ SeesStaged
      BY <1>1 DEF Init, Numbered, Waiting, StepsOnce, Once, SeesStaged, EventTypes,
                  TerminalEvents
    <2>3. requests = {} /\ ClaimsAgree
      BY <1>1 DEF Init, ClaimsAgree, Consumers
    <2>4. DrivenByOne
      BY <1>1 DEF Init, DrivenByOne, Unhandled, Steps
    <2> QED BY <1>1, <2>1, <2>2, <2>3, <2>4, EvidenceInit DEF StagedInv, RepeatInv
  <1>2. ASSUME StagedInv, EvidenceInv', OneAtATime, [Next]_vars
        PROVE  StagedInv'
    <2>0. TypeOK /\ TypeOK' /\ EvidenceInv /\ RepeatInv /\ Numbered /\ Waiting /\ StepsOnce
                 /\ ClaimsAgree
      BY <1>2 DEF StagedInv, RepeatInv, EvidenceInv
    <2>1. RepeatInv'
      BY <1>2, <2>0, RepeatStep DEF RepeatInv
    <2>2. Numbered' /\ Waiting' /\ StepsOnce'
      BY <1>2, <2>0, NumberedStep, WaitingStep, StepsOnceStep
    <2>3. requests' = {} /\ ClaimsAgree'
      BY <1>2, <2>0, NoRequestsStep, ClaimsAgreeStep
    <2>4. DrivenByOne' /\ SeesStaged'
      BY <1>2, DrivenStep, SeesStep
    <2> QED BY <2>1, <2>2, <2>3, <2>4 DEF StagedInv
  <1> QED BY <1>1, <1>2, EvidenceInvariant, PTL DEF Spec

\* All that happens to orders: created, resolved by a checkout, or moved on by the
\* one event they wait for.
LEMMA StagedSteps ==
  ASSUME StagedInv, [Next]_vars
  PROVE  \/ \E o \in Orders : CreateOrder(o) \/ Checkout(o)
         \/ \E o \in Orders \ SyncOrders, T \in Steps : \E U \in Follows[T] :
              order[o] = Staged[T] /\ Moved(o, T, U)
         \/ UNCHANGED <<order, timeline, emitted>>
  <1>1. requests = {} /\ RepeatInv /\ TypeOK
    BY DEF StagedInv, RepeatInv, EvidenceInv
  <1>2. ASSUME NEW d \in deliveries, Handle(d)
        PROVE  \/ \E o \in Orders \ SyncOrders, T \in Steps : \E U \in Follows[T] :
                    order[o] = Staged[T] /\ Moved(o, T, U)
               \/ UNCHANGED <<order, timeline, emitted>>
    <2>1. d.msg.type \in EventTypes /\ d.msg.order \in Orders
      BY <1>1, DeliveryKnown
    <2> QED BY <1>1, <1>2, <2>1, HandleIdles, HandleMoves, DeliveryDrives DEF Steps
  <1> QED BY <1>1, <1>2, QuietSteps DEF Quiet

-----------------------------------------------------------------------------
(* The lifecycle is implemented.                                           *)

Announcement(s) == IF s = "confirmed" THEN "OrderConfirmed" ELSE "OrderCancelled"

LEMMA StagedFacts ==
  ASSUME NEW T \in Steps, NEW U \in Follows[T]
  PROVE  /\ Staged[T] \in Statuses \ Terminal
         /\ U \in EventTypes
         /\ U \in TerminalEvents =>
              /\ Staged[U] \in Terminal /\ U = Announcement(Staged[U])
              /\ <<Staged[T], Staged[U]>> # <<"pending", "confirmed">>
         /\ U \notin TerminalEvents => Staged[U] \in Statuses \ Terminal
  BY DEF Steps, Follows, Staged, EventTypes, TerminalEvents, Statuses, Terminal, Announcement

LEMMA LifecycleTerms ==
  /\ Lifecycle!Statuses = Statuses /\ Lifecycle!Terminal = Terminal
  /\ \A a, b : Lifecycle!Moves(a, b) <=> Moves(a, b)
  BY DEF Lifecycle!Statuses, Statuses, Lifecycle!Terminal, Terminal, Lifecycle!Moves, Moves,
         Lifecycle!CanTransition, CanTransition, Lifecycle!AllowedTransitions,
         AllowedTransitions

LEMMA NothingAnnounced ==
  ASSUME TypeOK, NEW o \in Orders, NEW types \in SUBSET EventTypes, Emit(o, types),
         types \cap TerminalEvents = {}
  PROVE  Announced' = Announced
  <1>1. \A ty \in TerminalEvents, x \in Orders : emitted'[ty][x] = emitted[ty][x]
    BY EmitCounts DEF EventTypes
  <1> QED BY <1>1 DEF Announced, TerminalEvents

LEMMA OneAnnounced ==
  ASSUME TypeOK, NEW o \in Orders, NEW types \in SUBSET EventTypes, Emit(o, types),
         NEW s \in Terminal, types \cap TerminalEvents = {Announcement(s)}
  PROVE  Announced' = [Announced EXCEPT ![o][s] = @ + 1]
  <1>1. \A z \in Terminal : Announcement(z) \in TerminalEvents
    BY DEF Announcement, TerminalEvents
  <1>2. \A z \in Terminal : Announcement(z) = Announcement(s) => z = s
    BY DEF Announcement, Terminal
  <1>3. \A z \in Terminal, x \in Orders :
          emitted'[Announcement(z)][x] =
            IF z = s /\ x = o THEN emitted[Announcement(z)][x] + 1
                              ELSE emitted[Announcement(z)][x]
    <2>1. \A z \in Terminal : Announcement(z) \in EventTypes
                              /\ (Announcement(z) \in types <=> z = s)
      BY <1>1, <1>2 DEF EventTypes
    <2> QED BY <2>1, EmitCounts
  <1>4. Announced = [x \in Orders |-> [z \in Terminal |-> emitted[Announcement(z)][x]]]
    BY DEF Announced, Announcement
  <1>5. Announced' = [x \in Orders |-> [z \in Terminal |-> emitted'[Announcement(z)][x]]]
    BY DEF Announced, Announcement
  <1>6. \A x \in Orders :
          Announced'[x] = IF x = o THEN [Announced[o] EXCEPT ![s] = @ + 1] ELSE Announced[x]
    <2>1. ASSUME NEW x \in Orders
          PROVE  /\ Announced[x] = [z \in Terminal |-> emitted[Announcement(z)][x]]
                 /\ Announced'[x] = [z \in Terminal |-> emitted'[Announcement(z)][x]]
      BY <1>4, <1>5
    <2>2. ASSUME NEW x \in Orders, x # o
          PROVE  Announced'[x] = Announced[x]
      <3>1. \A z \in Terminal : emitted'[Announcement(z)][x] = emitted[Announcement(z)][x]
        BY <1>3, <2>2
      <3>2. [z \in Terminal |-> emitted'[Announcement(z)][x]]
              = [z \in Terminal |-> emitted[Announcement(z)][x]]
        BY <3>1
      <3> QED BY <2>1, <3>2
    <2>3. Announced'[o] = [Announced[o] EXCEPT ![s] = @ + 1]
      <3> DEFINE f == [z \in Terminal |-> emitted[Announcement(z)][o]]
                 g == [z \in Terminal |-> emitted'[Announcement(z)][o]]
      <3>1. Announced[o] = f /\ Announced'[o] = g
        BY <2>1
      <3>2. \A z \in Terminal : g[z] = IF z = s THEN f[z] + 1 ELSE f[z]
        BY <1>3
      <3>3. g = [f EXCEPT ![s] = @ + 1]
        BY <3>2
      <3> QED BY <3>1, <3>3
    <2> QED BY <2>2, <2>3
  <1>7. DOMAIN Announced = Orders /\ Announced' = [x \in Orders |-> Announced'[x]]
    BY <1>4, <1>5
  <1>8. Announced = [x \in Orders |-> Announced[x]]
    BY <1>4
  <1> QED BY <1>6, <1>7, <1>8

LEMMA CreateIsCreate ==
  ASSUME TypeOK, NEW o \in Orders, CreateOrder(o)
  PROVE  Lifecycle!Create(o)
  <1>1. /\ order[o] = "absent" /\ order' = [order EXCEPT ![o] = "pending"]
        /\ Emit(o, {"OrderCreated"})
    BY DEF CreateOrder, Transition
  <1>2. {"OrderCreated"} \in SUBSET EventTypes /\ {"OrderCreated"} \cap TerminalEvents = {}
    BY DEF EventTypes, TerminalEvents
  <1> QED BY <1>1, <1>2, NothingAnnounced DEF Lifecycle!Create

LEMMA CheckoutIsFinish ==
  ASSUME TypeOK, TypeOK', NEW o \in Orders, Checkout(o)
  PROVE  \E s \in Terminal : Lifecycle!Finish(o, s)
  <1>1. PICK event \in TerminalEvents :
          /\ order[o] = "absent"
          /\ \A x \in Orders :
               order'[x] = IF x # o THEN order[x]
                           ELSE IF event = "OrderConfirmed" THEN "confirmed" ELSE "cancelled"
          /\ Emit(o, {"OrderCreated", event})
    BY CheckoutFacts
  <1>2. PICK s \in Terminal : s = IF event = "OrderConfirmed" THEN "confirmed" ELSE "cancelled"
    BY DEF Terminal
  <1>3. /\ {"OrderCreated", event} \in SUBSET EventTypes
        /\ {"OrderCreated", event} \cap TerminalEvents = {Announcement(s)}
    BY <1>2 DEF EventTypes, TerminalEvents, Announcement
  <1>4. Announced' = [Announced EXCEPT ![o][s] = @ + 1]
    BY <1>1, <1>3, OneAnnounced
  <1>5. order' = [order EXCEPT ![o] = s]
    BY <1>1, <1>2 DEF TypeOK
  <1> QED BY <1>1, <1>4, <1>5, LifecycleTerms DEF Lifecycle!Finish

LEMMA MovedIsLifecycle ==
  ASSUME TypeOK, TypeOK', NEW o \in Orders, NEW T \in Steps, NEW U \in Follows[T],
         order[o] = Staged[T], Moved(o, T, U)
  PROVE  \/ \E s \in Statuses : Lifecycle!Advance(o, s) \/ Lifecycle!Finish(o, s)
         \/ UNCHANGED <<order, Announced>>
  <1>1. /\ Staged[T] \in Statuses \ Terminal /\ U \in EventTypes
        /\ U \in TerminalEvents =>
              /\ Staged[U] \in Terminal /\ U = Announcement(Staged[U])
              /\ <<Staged[T], Staged[U]>> # <<"pending", "confirmed">>
        /\ U \notin TerminalEvents => Staged[U] \in Statuses \ Terminal
    BY StagedFacts
  <1>2. /\ Emit(o, {U}) /\ {U} \in SUBSET EventTypes
        /\ Staged[U] = Staged[T] \/ Moves(Staged[T], Staged[U])
    BY <1>1 DEF Moved
  <1>3. order' = [order EXCEPT ![o] = Staged[U]]
    BY DEF Moved, TypeOK
  <1>4. CASE U \in TerminalEvents
    <2>1. Announced' = [Announced EXCEPT ![o][Staged[U]] = @ + 1]
      BY <1>1, <1>2, <1>4, OneAnnounced
    <2>2. Staged[U] \in Statuses /\ Moves(order[o], Staged[U])
      BY <1>1, <1>2, <1>4 DEF Terminal, Statuses
    <2>3. Lifecycle!Finish(o, Staged[U])
      BY <1>1, <1>3, <1>4, <2>1, <2>2, LifecycleTerms DEF Lifecycle!Finish
    <2> QED BY <2>2, <2>3
  <1>5. CASE U \notin TerminalEvents
    <2>1. Announced' = Announced
      BY <1>2, <1>5, NothingAnnounced
    <2>2. CASE Staged[U] = Staged[T]
      BY <1>3, <2>1, <2>2 DEF TypeOK
    <2>3. CASE Moves(Staged[T], Staged[U])
      <3>1. Lifecycle!Advance(o, Staged[U])
        BY <1>1, <1>3, <1>5, <2>1, <2>3, LifecycleTerms DEF Lifecycle!Advance
      <3> QED BY <1>1, <1>5, <3>1
    <2> QED BY <1>2, <2>2, <2>3
  <1> QED BY <1>4, <1>5

\* The choreography implements the lifecycle where it is not raced: with no
\* operator overwriting a status a handler has read, and no event in two hands,
\* every commit is one allowed step of one order or none, and the step into a
\* terminal status inserts the one row that announces it.
THEOREM LifecycleIsImplemented ==
  Clicks = {} => (Spec /\ []OneAtATime => ImplementsLifecycle)
  <1> SUFFICES ASSUME Clicks = {}
               PROVE  Spec /\ []OneAtATime => ImplementsLifecycle
    OBVIOUS
  <1>1. ASSUME Init
        PROVE  Lifecycle!Init
    <2>1. \A ty \in TerminalEvents, o \in Orders : emitted[ty][o] = 0
      BY <1>1 DEF Init, EventTypes
    <2> QED BY <1>1, <2>1, LifecycleTerms DEF Init, Lifecycle!Init, Announced, TerminalEvents
  <1>2. ASSUME StagedInv, StagedInv', [Next]_vars
        PROVE  [Lifecycle!Next]_<<order, Announced>>
    <2>0. TypeOK /\ TypeOK'
      BY <1>2 DEF StagedInv, RepeatInv, EvidenceInv
    <2>1. ASSUME NEW o \in Orders, CreateOrder(o)
          PROVE  Lifecycle!Next
      BY <2>0, <2>1, CreateIsCreate DEF Lifecycle!Next
    <2>2. ASSUME NEW o \in Orders, Checkout(o)
          PROVE  Lifecycle!Next
      BY <2>0, <2>2, CheckoutIsFinish, LifecycleTerms DEF Lifecycle!Next, Terminal, Statuses
    <2>3. ASSUME NEW o \in Orders \ SyncOrders, NEW T \in Steps, NEW U \in Follows[T],
                 order[o] = Staged[T], Moved(o, T, U)
          PROVE  [Lifecycle!Next]_<<order, Announced>>
      BY <2>0, <2>3, MovedIsLifecycle, LifecycleTerms DEF Lifecycle!Next
    <2>4. CASE UNCHANGED <<order, timeline, emitted>>
      BY <2>4 DEF Announced
    <2> QED BY <1>2, <2>1, <2>2, <2>3, <2>4, StagedSteps
  <1> QED BY <1>1, <1>2, StagedInvariant, PTL
          DEF Spec, ImplementsLifecycle, Lifecycle!Spec, Lifecycle!lifecycleVars

\* "confirmed and cancelled are terminal (self-transitions only)": handlers keep
\* to it by themselves. Only an operator's click breaks it.
THEOREM HandlersRespectTerminal ==
  Clicks = {} => (Spec /\ []OneAtATime => TerminalIsFinal)
  <1> SUFFICES ASSUME Clicks = {}
               PROVE  Spec /\ []OneAtATime => TerminalIsFinal
    OBVIOUS
  <1>1. ASSUME StagedInv, [Next]_vars, NEW x \in Orders, order[x] \in Terminal
        PROVE  order'[x] = order[x]
    <2>0. TypeOK /\ "absent" \notin Terminal
      BY <1>1 DEF StagedInv, RepeatInv, EvidenceInv, Terminal
    <2>1. ASSUME NEW o \in Orders, CreateOrder(o) \/ Checkout(o)
          PROVE  order'[x] = order[x]
      BY <1>1, <2>0, <2>1 DEF CreateOrder, Checkout, Transition, TypeOK
    <2>2. ASSUME NEW o \in Orders \ SyncOrders, NEW T \in Steps, NEW U \in Follows[T],
                 order[o] = Staged[T], Moved(o, T, U)
          PROVE  order'[x] = order[x]
      BY <1>1, <2>2, StagedFacts DEF Moved
    <2> QED BY <1>1, <2>1, <2>2, StagedSteps
  <1>2. StagedInv /\ [Next]_vars
          => [\A o \in Orders : order[o] \in Terminal => order'[o] = order[o]]_vars
    BY <1>1
  <1> QED BY <1>2, StagedInvariant, PTL DEF Spec, TerminalIsFinal

-----------------------------------------------------------------------------
(* The timeline.                                                           *)

\* t is a legal walk that ends in status s.
Walk(s, t) ==
  /\ t \in Seq(DOMAIN StatusAfter)
  /\ s = IF t = <<>> THEN "absent" ELSE StatusAfter[t[Len(t)]]
  /\ \A i \in 1..(Len(t) - 1) : Moves(StatusAfter[t[i]], StatusAfter[t[i + 1]])

LEMMA AppendFacts ==
  ASSUME NEW S, NEW t \in Seq(S), NEW e \in S
  PROVE  /\ Append(t, e) \in Seq(S) /\ Append(t, e) # <<>>
         /\ Len(Append(t, e)) = Len(t) + 1 /\ Append(t, e)[Len(Append(t, e))] = e
         /\ \A i \in 1..Len(t) : Append(t, e)[i] = t[i]
         /\ Len(t) \in Nat
         /\ t # <<>> => t[Len(t)] \in S
  <1>1. /\ Append(t, e) \in Seq(S) 
        /\ Len(Append(t, e)) = Len(t) + 1 
        /\ \A i \in 1..Len(t) : Append(t, e)[i] = t[i]
        /\ Len(t) \in Nat
    OBVIOUS
  <1>2. Append(t, e)[Len(Append(t, e))] = e
    OBVIOUS
  <1>3. Append(t, e) # <<>>
    BY <1>1, Len(<<>>) = 0
  <1>4. t # <<>> => t[Len(t)] \in S
    <2>1. t # <<>> => Len(t) # 0
      OBVIOUS
    <2> QED BY <2>1
  <1> QED BY <1>1, <1>2, <1>3, <1>4

LEMMA WalkOn ==
  ASSUME NEW s, NEW t, Walk(s, t), NEW event \in DOMAIN StatusAfter,
         s = "absent" \/ Moves(s, StatusAfter[event])
  PROVE  Walk(StatusAfter[event], Append(t, event))
  <1> DEFINE u == Append(t, event)
  <1>1. /\ t \in Seq(DOMAIN StatusAfter) /\ u \in Seq(DOMAIN StatusAfter)
        /\ Len(u) = Len(t) + 1 /\ u[Len(u)] = event /\ u # <<>>
        /\ \A i \in 1..Len(t) : u[i] = t[i]
        /\ Len(t) \in Nat /\ (t # <<>> => t[Len(t)] \in DOMAIN StatusAfter)
    BY AppendFacts DEF Walk
  <1>2. ASSUME NEW i \in 1..(Len(u) - 1)
        PROVE  Moves(StatusAfter[u[i]], StatusAfter[u[i + 1]])
    <2>1. CASE i < Len(t)
      BY <1>1, <2>1 DEF Walk
    <2>2. CASE i = Len(t)
      <3>1. t # <<>> /\ t[Len(t)] \in DOMAIN StatusAfter
        BY <1>1, <2>2, Len(<<>>) = 0
      <3>2. s = StatusAfter[t[Len(t)]]
        BY <3>1 DEF Walk
      <3>3. s # "absent"
        BY <3>1, <3>2 DEF StatusAfter
      <3> QED BY <1>1, <2>2, <3>2, <3>3
    <2> QED BY <1>1, <2>1, <2>2
  <1> HIDE DEF u
  <1>3. Walk(StatusAfter[event], u)
    BY <1>1, <1>2 DEF Walk
  <1> QED BY <1>3 DEF u

Walks == \A o \in Orders \ SyncOrders : Walk(order[o], timeline[o])

LEMMA WalksStep ==
  ASSUME StagedInv, Walks, [Next]_vars
  PROVE  Walks'
  <1>0. TypeOK
    BY DEF StagedInv, RepeatInv, EvidenceInv
  <1> SUFFICES ASSUME NEW x \in Orders \ SyncOrders
               PROVE  Walk(order'[x], timeline'[x])
    BY DEF Walks
  <1>1. CASE order'[x] = order[x] /\ timeline'[x] = timeline[x]
    BY <1>1 DEF Walks
  <1>2. ASSUME NEW o \in Orders, CreateOrder(o)
        PROVE  Walk(order'[x], timeline'[x])
    <2>1. /\ order[o] = "absent" /\ Transition(o, "pending", "OrderCreated", "OrderCreated")
          /\ "OrderCreated" \in EventTypes /\ "OrderCreated" \in DOMAIN StatusAfter
          /\ StatusAfter["OrderCreated"] = "pending"
      BY <1>2 DEF CreateOrder, EventTypes, StatusAfter
    <2>2. /\ \A z \in Orders : order'[z] = IF z = o THEN "pending" ELSE order[z]
          /\ \A z \in Orders : timeline'[z] = IF z = o THEN Append(timeline[o], "OrderCreated")
                                                       ELSE timeline[z]
      BY <1>0, <2>1, TransitionFacts
    <2> QED BY <1>1, <2>1, <2>2, WalkOn DEF Walks
  <1>3. ASSUME NEW o \in Orders, Checkout(o)
        PROVE  Walk(order'[x], timeline'[x])
    <2>1. x # o /\ order'[x] = order[x] /\ timeline'[x] = timeline[x]
      BY <1>0, <1>3 DEF Checkout, TypeOK
    <2> QED BY <1>1, <2>1
  <1>4. ASSUME NEW o \in Orders \ SyncOrders, NEW T \in Steps, NEW U \in Follows[T],
               order[o] = Staged[T], Moved(o, T, U)
        PROVE  Walk(order'[x], timeline'[x])
    <2>1. CASE x # o
      BY <1>1, <1>4, <2>1 DEF Moved
    <2>2. CASE x = o
      <3>1. order'[x] = Staged[U]
        BY <1>4, <2>2 DEF Moved
      <3>2. CASE Staged[U] = Staged[T] /\ UNCHANGED timeline
        BY <1>1, <1>4, <2>2, <3>1, <3>2
      <3>3. ASSUME NEW event \in DOMAIN StatusAfter, StatusAfter[event] = Staged[U],
                   Moves(Staged[T], Staged[U]), timeline'[x] = Append(timeline[x], event)
            PROVE  Walk(order'[x], timeline'[x])
        BY <1>4, <2>2, <3>1, <3>3, WalkOn DEF Walks
      <3> QED BY <1>4, <2>2, <3>2, <3>3 DEF Moved
    <2> QED BY <2>1, <2>2
  <1> QED BY <1>1, <1>2, <1>3, <1>4, StagedSteps

\* The timeline a shopper reads: every entry follows from the one before it, and
\* the last one is the order's status.
THEOREM TimelinesAreWalks ==
  Clicks = {} => (Spec /\ []OneAtATime => []TimelineIsLegalWalk)
  <1> SUFFICES ASSUME Clicks = {}
               PROVE  Spec /\ []OneAtATime => []TimelineIsLegalWalk
    OBVIOUS
  <1>1. Init => Walks
    BY DEF Init, Walks, Walk
  <1>2. StagedInv /\ Walks /\ [Next]_vars => Walks'
    BY WalksStep
  <1>3. Walks => TimelineIsLegalWalk
    BY DEF Walks, Walk, TimelineIsLegalWalk
  <1> QED BY <1>1, <1>2, <1>3, StagedInvariant, PTL DEF Spec

-----------------------------------------------------------------------------
(* Sums of demands.                                                        *)

\* The units of p that the orders of S want, counted one by one.
Units(S, p) == {u \in S \X Nat : u[2] \in 1..Demand[u[1]][p]}

LEMMA UnitsOfNone == \A p : Units({}, p) = {} /\ Cardinality(Units({}, p)) = 0
  <1>1. \A p : Units({}, p) = {}
    BY DEF Units
  <1> QED BY <1>1, FS_EmptySet

LEMMA UnitsOfOne ==
  ASSUME NEW o \in Orders, NEW p \in Products
  PROVE  IsFiniteSet(Units({o}, p)) /\ Cardinality(Units({o}, p)) = Demand[o][p]
  <1>1. Demand[o][p] \in Nat
    BY DemandAssumption
  <1>2. IsFiniteSet(1..Demand[o][p]) /\ Cardinality(1..Demand[o][p]) = Demand[o][p]
    BY <1>1, UpTo
  <1>3. Units({o}, p) = {o} \X (1..Demand[o][p])
    BY <1>1 DEF Units
  <1>4. IsFiniteSet({o}) /\ Cardinality({o}) = 1
    BY FS_Singleton
  <1> DEFINE n == Demand[o][p]
  <1> HIDE DEF n
  <1>5. IsFiniteSet({o} \X (1..n)) /\ Cardinality({o} \X (1..n)) = 1 * n
    <2> DEFINE A == {o}
               B == 1..n
    <2>1. IsFiniteSet(A) /\ IsFiniteSet(B) /\ Cardinality(A) = 1 /\ Cardinality(B) = n
      BY <1>2, <1>4 DEF n
    <2> HIDE DEF A, B
    <2>2. IsFiniteSet(A \X B) /\ Cardinality(A \X B) = Cardinality(A) * Cardinality(B)
      BY <2>1, FS_Product
    <2> QED BY <2>1, <2>2 DEF A, B
  <1>6. 1 * n = n
    BY <1>1 DEF n
  <1> QED BY <1>3, <1>5, <1>6 DEF n

\* Taking one order away takes its units away.
LEMMA UnitsWithout ==
  ASSUME NEW S \in SUBSET Orders, NEW o \in S, NEW p \in Products,
         IsFiniteSet(Units(S \ {o}, p))
  PROVE  /\ IsFiniteSet(Units(S, p))
         /\ Cardinality(Units(S, p)) = Demand[o][p] + Cardinality(Units(S \ {o}, p))
  <1>1. /\ Units(S, p) = Units({o}, p) \cup Units(S \ {o}, p)
        /\ Units({o}, p) \cap Units(S \ {o}, p) = {}
    <2>1. \A u : /\ u \in Units(S, p) <=> u \in Units({o}, p) \/ u \in Units(S \ {o}, p)
                 /\ ~(u \in Units({o}, p) /\ u \in Units(S \ {o}, p))
      BY DEF Units
    <2> QED BY <2>1
  <1>2. IsFiniteSet(Units({o}, p)) /\ Cardinality(Units({o}, p)) = Demand[o][p]
    BY UnitsOfOne
  <1> DEFINE U == Units({o}, p)
             V == Units(S \ {o}, p)
             W == Units(S, p)
  <1>3. W = U \cup V /\ U \cap V = {} /\ IsFiniteSet(U) /\ IsFiniteSet(V)
    BY <1>1, <1>2
  <1> HIDE DEF U, V, W
  <1>4. /\ IsFiniteSet(W)
        /\ Cardinality(W) = Cardinality(U) + Cardinality(V) - Cardinality({})
    BY <1>3, FS_Union
  <1>5. Cardinality({}) = 0 /\ Cardinality(V) \in Nat /\ Cardinality(U) \in Nat
    BY <1>3, FS_EmptySet, FS_CardinalityType
  <1>6. Cardinality(W) = Cardinality(U) + Cardinality(V)
    BY <1>4, <1>5
  <1> QED BY <1>2, <1>4, <1>6 DEF U, V, W

LEMMA UnitsFinite ==
  ASSUME NEW S \in SUBSET Orders, IsFiniteSet(S), NEW p \in Products
  PROVE  IsFiniteSet(Units(S, p)) /\ Cardinality(Units(S, p)) \in Nat
  <1> DEFINE T == {s \in SUBSET S : ~IsFiniteSet(Units(s, p))}
             R == StrictSubsetOrdering(S)
  <1>1. IsWellFoundedOn(R, SUBSET S)
    BY FS_StrictSubsetOrderingWellFounded, FS_FiniteSubsetsOfFinite
  <1>2. SUFFICES ASSUME T # {}
                 PROVE  FALSE
    BY FS_CardinalityType
  <1>3. PICK s \in T : \A y \in T : ~(<<y, s>> \in R)
    <2>1. T \subseteq SUBSET S
      OBVIOUS
    <2> HIDE DEF T, R
    <2> QED BY <1>1, <1>2, <2>1, WFMin
  <1>4. s # {}
    BY <1>3, UnitsOfNone, FS_EmptySet
  <1>5. PICK o \in s : TRUE
    BY <1>4
  <1>6. <<s \ {o}, s>> \in R /\ s \ {o} \in SUBSET S
    BY <1>3, <1>5 DEF StrictSubsetOrdering
  <1>7. IsFiniteSet(Units(s \ {o}, p))
    BY <1>3, <1>6
  <1> QED BY <1>3, <1>5, <1>7, UnitsWithout

LEMMA SumIsUnits ==
  ASSUME NEW S \in SUBSET Orders, IsFiniteSet(S), NEW p \in Products
  PROVE  MapThenSumSet(LAMBDA o : Demand[o][p], S) = Cardinality(Units(S, p))
  <1> DEFINE First(s) == CHOOSE x \in s : TRUE
             Count(s) == Cardinality(Units(s, p))
             Sums(f) == f = [s \in SUBSET S |->
                               IF s = {} THEN 0
                               ELSE Demand[First(s)][p] + f[s \ {First(s)}]]
             iter == CHOOSE f : Sums(f)
             c == [s \in SUBSET S |-> Count(s)]
  <1>1. MapThenSumSet(LAMBDA o : Demand[o][p], S) = iter[S]
    BY DEF MapThenSumSet, MapThenFoldSet
  <1>2. \A s \in SUBSET S : s # {} =>
          /\ First(s) \in s /\ s \ {First(s)} \in SUBSET S
          /\ Count(s) = Demand[First(s)][p] + Count(s \ {First(s)})
    <2>1. ASSUME NEW s \in SUBSET S, s # {}
          PROVE  /\ First(s) \in s /\ s \ {First(s)} \in SUBSET S
                 /\ Count(s) = Demand[First(s)][p] + Count(s \ {First(s)})
      <3>1. First(s) \in s /\ s \ {First(s)} \in SUBSET S
        BY <2>1
      <3>2. IsFiniteSet(s \ {First(s)})
        BY <3>1, FS_Subset
      <3>3. IsFiniteSet(Units(s \ {First(s)}, p))
        BY <3>1, <3>2, UnitsFinite
      <3>4. ASSUME NEW x \in s, IsFiniteSet(Units(s \ {x}, p))
            PROVE  Cardinality(Units(s, p)) = Demand[x][p] + Cardinality(Units(s \ {x}, p))
        BY <3>4, UnitsWithout
      <3>5. Count(s) = Demand[First(s)][p] + Count(s \ {First(s)})
        BY <3>1, <3>3, <3>4
      <3> QED BY <3>1, <3>5
    <2> QED BY <2>1
  <1> HIDE DEF First
  <1>3. Sums(c)
    <2>1. \A s \in SUBSET S :
            c[s] = IF s = {} THEN 0 ELSE Demand[First(s)][p] + c[s \ {First(s)}]
      BY <1>2, UnitsOfNone
    <2> QED BY <2>1
  <1>4. Sums(iter)
    BY <1>3
  <1> DEFINE T == {s \in SUBSET S : iter[s] # Count(s)}
             R == StrictSubsetOrdering(S)
  <1> HIDE DEF iter, Count
  <1>5. T = {}
    <2>1. SUFFICES ASSUME T # {}
                   PROVE  FALSE
      OBVIOUS
    <2>2. IsWellFoundedOn(R, SUBSET S)
      BY FS_StrictSubsetOrderingWellFounded, FS_FiniteSubsetsOfFinite
    <2>3. PICK s \in T : \A y \in T : ~(<<y, s>> \in R)
      BY <2>1, <2>2, WFMin, T \subseteq SUBSET S
    <2>4. s # {}
      <3>1. iter[{}] = 0
        BY <1>4
      <3>2. Count({}) = 0
        BY UnitsOfNone DEF Count
      <3> QED BY <2>3, <3>1, <3>2
    <2>5. <<s \ {First(s)}, s>> \in R
      BY <1>2, <2>3, <2>4 DEF StrictSubsetOrdering
    <2>6. iter[s \ {First(s)}] = Count(s \ {First(s)})
      BY <1>2, <2>3, <2>4, <2>5
    <2>7. iter[s] = Demand[First(s)][p] + iter[s \ {First(s)}]
      BY <1>4, <2>3, <2>4
    <2> QED BY <1>2, <2>3, <2>4, <2>6, <2>7
  <1> QED BY <1>1, <1>5 DEF Count

-----------------------------------------------------------------------------
(* Views of the stock.                                                     *)

\* Handlers read stock only when they need it.
Stages ==
  \A d \in deliveries :
    /\ d.stage = "stock" => NeedsStock(d)
    /\ d.stage = "reread" => d.msg.type = "PaymentRejected"

LEMMA StagesStep ==
  ASSUME TypeOK, Stages, [Next]_vars
  PROVE  Stages'
  <1>1. ASSUME NEW r \in Replicas, NEW m \in broker, Deliver(r, m)
        PROVE  Stages'
    <2>1. \A d \in deliveries' : d \in deliveries \/ d.stage = "status"
      BY <1>1 DEF Deliver
    <2> QED BY <2>1 DEF Stages, NeedsStock
  <1>2. ASSUME NEW d \in deliveries, ReadStock(d)
        PROVE  Stages'
    <2>1. \E e : /\ Replace(d, e) /\ e.msg = d.msg /\ e.seen = d.seen /\ e.stage = "stock"
      BY <1>2, ReadStockReplaces
    <2> QED BY <1>2, <2>1 DEF Stages, NeedsStock, Replace, ReadStock
  <1>3. ASSUME NEW d \in deliveries, RereadOrder(d)
        PROVE  Stages'
    <2>1. \E e : /\ Replace(d, e) /\ e.msg = d.msg /\ e.stage = "reread"
      BY <1>3, RereadOrderReplaces
    <2> QED BY <1>3, <2>1 DEF Stages, NeedsStock, Replace, RereadOrder
  <1>4. ASSUME NEW d \in deliveries, Reconnect(d)
        PROVE  Stages'
    <2>1. \E e : /\ Replace(d, e) /\ e.msg = d.msg /\ e.seen = d.seen /\ e.stage = d.stage
      BY <1>4, ReconnectReplaces
    <2> QED BY <2>1 DEF Stages, NeedsStock, Replace
  <1> QED BY <1>1, <1>2, <1>3, <1>4, DeliverySteps DEF Stages, NeedsStock

\* The handler of d sets units of its order aside, of all lines or of some that fit ...
Sets(d, lines) ==
  LET o == d.msg.order
      fitting == {p \in Wanted(o) : d.available[p] >= Demand[o][p]}
  IN /\ d.msg.type = "OrderCreated" /\ d.stage = "stock"
     /\ \/ lines = Wanted(o) /\ fitting = Wanted(o) /\ Emit(o, {"InventoryReserved"})
        \/ lines \in SUBSET fitting /\ fitting # Wanted(o) /\ Emit(o, {"InventoryRejected"})
     /\ \A p \in Products :
          /\ available'[p] = IF p \in lines THEN d.available[p] - Demand[o][p] ELSE available[p]
          /\ reserved'[p] = IF p \in lines THEN d.reserved[p] + Demand[o][p] ELSE reserved[p]

\* ... or gives them back.
Frees(d) ==
  LET o == d.msg.order
  IN /\ d.msg.type = "PaymentRejected" /\ d.stage = "reread" /\ d.seen = "inventory_reserved"
     /\ \A p \in Products :
          /\ available'[p] = IF p \in Wanted(o) THEN d.available[p] + Demand[o][p]
                                                ELSE available[p]
          /\ reserved'[p] = IF p \in Wanted(o) THEN d.reserved[p] - Demand[o][p]
                                               ELSE reserved[p]

LEMMA HandleWritesStock ==
  ASSUME NEW d \in deliveries, Handle(d)
  PROVE  \/ /\ UNCHANGED <<available, reserved>>
            /\ d.msg.type = "OrderCreated" => d.seen \in Terminal
            /\ d.msg.type = "PaymentRejected" => d.seen # "inventory_reserved"
         \/ \E lines \in SUBSET Wanted(d.msg.order) : Sets(d, lines)
         \/ Frees(d)
  <1> DEFINE o == d.msg.order
             fitting == {p \in Wanted(o) : d.available[p] >= Demand[o][p]}
  <1>1. CASE ProcessInventoryReservation(d)
    <2>1. ASSUME NEW lines \in SUBSET Wanted(o), Reserve(d, lines)
          PROVE  \A p \in Products :
                   /\ available'[p] = IF p \in lines THEN d.available[p] - Demand[o][p]
                                                     ELSE available[p]
                   /\ reserved'[p] = IF p \in lines THEN d.reserved[p] + Demand[o][p]
                                                    ELSE reserved[p]
      BY <2>1 DEF Reserve
    <2>2. d.msg.type = "OrderCreated"
      BY <1>1 DEF ProcessInventoryReservation
    <2>3. CASE UNCHANGED <<available, reserved>> /\ d.seen \in Terminal
      BY <2>2, <2>3
    <2>4. CASE /\ d.stage = "stock" /\ fitting = Wanted(o) /\ Reserve(d, Wanted(o))
               /\ Emit(o, {"InventoryReserved"})
      <3>1. Sets(d, Wanted(o))
        BY <2>1, <2>2, <2>4 DEF Sets
      <3> QED BY <3>1
    <2>5. ASSUME NEW saved \in SUBSET fitting,
                 d.stage = "stock", fitting # Wanted(o), Reserve(d, saved),
                 Emit(o, {"InventoryRejected"})
          PROVE  \E lines \in SUBSET Wanted(o) : Sets(d, lines)
      <3>1. saved \in SUBSET Wanted(o)
        OBVIOUS
      <3>2. Sets(d, saved)
        BY <2>1, <2>2, <2>5, <3>1 DEF Sets
      <3> QED BY <3>1, <3>2
    <2> QED BY <1>1, <2>3, <2>4, <2>5 DEF ProcessInventoryReservation, stockVars
  <1>2. CASE ProcessPaymentRejected(d)
    <2>1. CASE d.seen = "inventory_reserved"
      <3>1. Frees(d)
        BY <1>2, <2>1 DEF ProcessPaymentRejected, Frees
      <3> QED BY <3>1
    <2>2. CASE d.seen # "inventory_reserved"
      BY <1>2, <2>2 DEF ProcessPaymentRejected, stockVars
    <2> QED BY <2>1, <2>2
  <1>3. CASE \/ ProcessOrderInventoryResult(d) \/ ProcessOrderInventoryReserved(d)
             \/ ProcessPaymentAuthorized(d) \/ FinalizePaymentAuthorized(d)
             \/ ProcessOrderNotification(d)
    <2>1. /\ UNCHANGED <<available, reserved>>
          /\ d.msg.type \notin {"OrderCreated", "PaymentRejected"}
      BY <1>3 DEF ProcessOrderInventoryResult, ProcessOrderInventoryReserved, stockVars,
                  ProcessPaymentAuthorized, FinalizePaymentAuthorized,
                  ProcessOrderNotification, TerminalEvents
    <2> QED BY <2>1
  <1> QED BY <1>1, <1>2, <1>3 DEF Handle

\* Who writes stock at all.
LEMMA StockWriters ==
  ASSUME [Next]_vars
  PROVE  \/ \E o \in Orders : Checkout(o)
         \/ \E p \in Products, delta \in Deltas : AdjustStock(p, delta)
         \/ \E d \in deliveries : Handle(d)
         \/ UNCHANGED <<available, reserved, adjusted>>
  BY DEF Next, Shoppers, CreateOrder, Operators, ReadForRequest, Settle, CommitRequest,
         Forward, Publish, Consume, Deliver, ReadStock, RereadOrder, Rollback, Faults,
         PublishUnmarked, Crash, Reconnect, stockVars, vars

LEMMA CheckoutTakes ==
  ASSUME TypeOK, NEW o \in Orders, Checkout(o)
  PROVE  \/ UNCHANGED <<available, reserved>> /\ order'[o] = "cancelled"
         \/ /\ order'[o] = "confirmed"
            /\ \A p \in Products : /\ available'[p] = available[p] - Demand[o][p]
                                   /\ reserved'[p] = reserved[p] + Demand[o][p]
  <1>1. PICK outcome \in {"short", "declined", "authorized"} :
          LET ok == outcome = "authorized"
          IN /\ order' = [order EXCEPT ![o] = IF ok THEN "confirmed" ELSE "cancelled"]
             /\ IF ok
                  THEN /\ available' = [p \in Products |-> available[p] - Demand[o][p]]
                       /\ reserved' = [p \in Products |-> reserved[p] + Demand[o][p]]
                  ELSE UNCHANGED <<available, reserved>>
    BY DEF Checkout, stockVars
  <1>2. CASE outcome = "authorized"
    BY <1>1, <1>2 DEF TypeOK
  <1>3. CASE outcome # "authorized"
    BY <1>1, <1>3 DEF TypeOK
  <1> QED BY <1>1, <1>2, <1>3

LEMMA AdjustFacts ==
  ASSUME TypeOK, NEW p \in Products, NEW delta \in Deltas, AdjustStock(p, delta)
  PROVE  /\ UNCHANGED reserved
         /\ \A q \in Products :
              /\ available'[q] = IF q = p THEN available[q] + delta ELSE available[q]
              /\ adjusted'[q] = IF q = p THEN adjusted[q] + delta ELSE adjusted[q]
  BY DEF AdjustStock, TypeOK

\* A step that changes the number of units of p writes back a row read before others
\* changed it.
LEMMA BalanceStep ==
  ASSUME TypeOK, TypeOK', Stages, [Next]_vars, NEW p \in Products
  PROVE  Balance(p)' = Balance(p) \/ \E d \in deliveries : StaleWrite(d, p)
  <1>0. /\ available[p] \in Int /\ reserved[p] \in Int /\ adjusted[p] \in Int
        /\ available'[p] \in Int /\ reserved'[p] \in Int /\ adjusted'[p] \in Int
        /\ \A o \in Orders : Demand[o][p] \in Nat
    BY DemandAssumption DEF TypeOK
  <1>1. ASSUME NEW o \in Orders, Checkout(o)
        PROVE  Balance(p)' = Balance(p)
    <2>1. UNCHANGED adjusted
      BY <1>1 DEF Checkout
    <2>2. \/ available'[p] = available[p] /\ reserved'[p] = reserved[p]
          \/ /\ available'[p] = available[p] - Demand[o][p]
             /\ reserved'[p] = reserved[p] + Demand[o][p]
      BY <1>1, CheckoutTakes
    <2> QED BY <1>0, <2>1, <2>2 DEF Balance
  <1>2. ASSUME NEW q \in Products, NEW delta \in Deltas, AdjustStock(q, delta)
        PROVE  Balance(p)' = Balance(p)
    <2>1. delta \in Int
      BY DeltaAssumption
    <2> QED BY <1>0, <1>2, <2>1, AdjustFacts DEF Balance
  <1>3. ASSUME NEW d \in deliveries, Handle(d)
        PROVE  Balance(p)' = Balance(p) \/ StaleWrite(d, p)
    <2>1. UNCHANGED adjusted /\ d \notin deliveries'
      BY <1>3, HandleCompletes DEF Complete
    <2>2. /\ d.msg.order \in Orders
          /\ d.available[p] \in Int /\ d.reserved[p] \in Int
      BY DeliveryFacts DEF TypeOK, Delivery
    <2>3. CASE available'[p] = available[p] /\ reserved'[p] = reserved[p]
      BY <2>1, <2>3 DEF Balance
    <2>4. CASE /\ HoldsView(d) /\ p \in Wanted(d.msg.order)
               /\ available'[p] + reserved'[p] = d.available[p] + d.reserved[p]
      BY <1>0, <2>1, <2>2, <2>4 DEF Balance, StaleWrite
    <2>5. ASSUME NEW lines \in SUBSET Wanted(d.msg.order), Sets(d, lines), p \in lines
          PROVE  /\ HoldsView(d) /\ p \in Wanted(d.msg.order)
                 /\ available'[p] + reserved'[p] = d.available[p] + d.reserved[p]
      <3>1. /\ HoldsView(d)
            /\ available'[p] = d.available[p] - Demand[d.msg.order][p]
            /\ reserved'[p] = d.reserved[p] + Demand[d.msg.order][p]
        BY <2>5 DEF Sets, HoldsView
      <3> QED BY <1>0, <2>2, <2>5, <3>1
    <2>6. ASSUME Frees(d), p \in Wanted(d.msg.order)
          PROVE  /\ HoldsView(d)
                 /\ available'[p] + reserved'[p] = d.available[p] + d.reserved[p]
      <3>1. /\ HoldsView(d)
            /\ available'[p] = d.available[p] + Demand[d.msg.order][p]
            /\ reserved'[p] = d.reserved[p] - Demand[d.msg.order][p]
        BY <2>6 DEF Frees, HoldsView, NeedsStock
      <3> QED BY <1>0, <2>2, <3>1
    <2>7. ASSUME NEW lines \in SUBSET Wanted(d.msg.order), Sets(d, lines), p \notin lines
          PROVE  available'[p] = available[p] /\ reserved'[p] = reserved[p]
      BY <2>7 DEF Sets
    <2>8. ASSUME Frees(d), p \notin Wanted(d.msg.order)
          PROVE  available'[p] = available[p] /\ reserved'[p] = reserved[p]
      BY <2>8 DEF Frees
    <2> QED BY <1>3, <2>3, <2>4, <2>5, <2>6, <2>7, <2>8, HandleWritesStock
  <1>4. CASE UNCHANGED <<available, reserved, adjusted>>
    BY <1>4 DEF Balance
  <1> QED BY <1>1, <1>2, <1>3, <1>4, StockWriters

\* Whatever shoppers, operators, replicas, redeliveries and crashes do, and however
\* they overlap: a unit is lost or invented only when a handler writes back a stock
\* row that has changed since its unlocked read.
THEOREM UnitsAreConserved ==
  Spec => [][\A p \in Products : \/ Balance(p)' = Balance(p)
                                 \/ \E d \in deliveries : StaleWrite(d, p)]_vars
  <1>1. Init => Stages
    BY DEF Init, Stages
  <1>2. TypeOK /\ Stages /\ [Next]_vars => Stages'
    BY StagesStep
  <1>3. TypeOK /\ TypeOK' /\ Stages /\ [Next]_vars =>
          [\A p \in Products : \/ Balance(p)' = Balance(p)
                               \/ \E d \in deliveries : StaleWrite(d, p)]_vars
    BY BalanceStep
  <1> QED BY <1>1, <1>2, <1>3, TypeCorrect, PTL DEF Spec

\* So the units are all there while what the open handlers have read still stands.
THEOREM StockIsConserved ==
  Spec /\ []FreshAvailable /\ []FreshReserved => []StockConserved
  <1>1. Init => StockConserved /\ Stages
    BY StockAssumption DEF Init, StockConserved, Balance, Stages
  <1>2. TypeOK /\ Stages /\ [Next]_vars => Stages'
    BY StagesStep
  <1>3. ASSUME TypeOK, TypeOK', Stages, FreshAvailable, FreshReserved, StockConserved, [Next]_vars
        PROVE  StockConserved'
    <2>1. ASSUME NEW p \in Products
          PROVE  Balance(p)' = Balance(p)
      <3>1. \A d \in deliveries : ~StaleWrite(d, p)
        BY <1>3 DEF StaleWrite, FreshAvailable, FreshReserved
      <3> QED BY <1>3, <3>1, BalanceStep
    <2>2. \A p \in Products : Balance(p)' = InitialStock[p]
      BY <1>3, <2>1 DEF StockConserved
    <2> QED BY <2>2 DEF StockConserved
  <1>4. /\ TypeOK /\ TypeOK' /\ Stages /\ FreshAvailable /\ FreshReserved /\ StockConserved
          /\ [Next]_vars => StockConserved'
    BY <1>3
  <1> QED BY <1>1, <1>2, <1>4, TypeCorrect, PTL DEF Spec

\* An event is handled after it was inserted.
LEMMA HandledEmitted ==
  ASSUME TypeOK, Numbered, NEW ty \in EventTypes, NEW o \in Orders, Handled(ty, o)
  PROVE  emitted[ty][o] > 0
  <1> DEFINE e == [type |-> ty, order |-> o, n |-> 1]
  <1>1. ClaimsOf[ty][1] \in Consumers /\ emitted[ty][o] \in Nat
    BY DEF ClaimsOf, EventTypes, TerminalEvents, Consumers, TypeOK
  <1>2. e \in processed[ClaimsOf[ty][1]]
    BY DEF Handled
  <1>3. e.n <= emitted[e.type][e.order]
    BY <1>1, <1>2 DEF Numbered, Counted
  <1> QED BY <1>1, <1>3

\* A payment is rejected after the reservation: the chain of events backwards.
LEMMA RejectedAfterReserved ==
  ASSUME TypeOK, Numbered, StepsOnce, NEW o \in Orders, emitted["PaymentRejected"][o] > 0
  PROVE  Handled("OrderCreated", o) /\ emitted["InventoryReserved"][o] > 0
  <1>0. \A ty \in EventTypes : emitted[ty][o] \in Nat
    BY DEF TypeOK
  <1>1. Handled("OrderInventoryReserved", o)
    BY <1>0 DEF StepsOnce, Once, EventTypes
  <1>2. emitted["OrderInventoryReserved"][o] > 0
    BY <1>1, HandledEmitted DEF EventTypes
  <1>3. Handled("InventoryReserved", o)
    BY <1>0, <1>2 DEF StepsOnce, Once, EventTypes
  <1>4. emitted["InventoryReserved"][o] > 0
    BY <1>3, HandledEmitted DEF EventTypes
  <1>5. Handled("OrderCreated", o)
    BY <1>0, <1>4 DEF StepsOnce, Once, EventTypes
  <1> QED BY <1>4, <1>5

SerialInv == EvidenceInv /\ Numbered /\ Waiting /\ StepsOnce /\ Stages

\* The two handlers that write stock for an order are never open together.
LEMMA OneStockHandler ==
  ASSUME SerialInv, OneAtATime, NEW d \in deliveries, NEW x \in deliveries,
         d.msg.order = x.msg.order,
         d.msg.type \in {"OrderCreated", "PaymentRejected"},
         x.msg.type \in {"OrderCreated", "PaymentRejected"}
  PROVE  d = x
  <1>0. TypeOK /\ EvidenceInv /\ Numbered /\ Waiting /\ StepsOnce /\ d.msg.order \in Orders
    BY DeliveryFacts DEF SerialInv, EvidenceInv
  <1>1. d.msg.type \in Steps /\ x.msg.type \in Steps
    BY DEF Steps, EventTypes, TerminalEvents
  <1>2. CASE d.msg.type = x.msg.type
    BY <1>0, <1>1, <1>2, HandlesFirst DEF OneAtATime
  <1>3. ASSUME NEW y \in {d, x}, NEW z \in {d, x}, y.msg.type = "OrderCreated",
               z.msg.type = "PaymentRejected"
        PROVE  FALSE
    <2>1. z \in deliveries /\ y \in deliveries
      OBVIOUS
    <2>2. emitted["PaymentRejected"][d.msg.order] > 0
      BY <1>0, <1>3, <2>1 DEF EvidenceInv, Evidence, RowsAreEmitted
    <2>3. ~Handled("OrderCreated", d.msg.order)
      BY <1>0, <1>1, <1>3, <2>1, HandlesFirst
    <2> QED BY <1>0, <2>2, <2>3, RejectedAfterReserved
  <1> QED BY <1>2, <1>3

\* While orders share no product, only its own handler writes the rows it has read.
LEMMA RowsKept ==
  ASSUME Apart, SerialInv, OneAtATime, [Next]_vars, NEW d \in deliveries, HoldsView(d),
         NEW p \in Wanted(d.msg.order)
  PROVE  \/ Handle(d)
         \/ reserved'[p] = reserved[p] /\ (Deltas = {} => available'[p] = available[p])
  <1> DEFINE o == d.msg.order
  <1>0. TypeOK /\ o \in Orders /\ p \in Products /\ d.msg.type \in EventTypes
    BY DeliveryKnown DEF SerialInv, EvidenceInv, Wanted
  <1>1. d.msg.type \in {"OrderCreated", "PaymentRejected"}
    BY DEF HoldsView, SerialInv, Stages, NeedsStock
  <1>2. ASSUME NEW x \in Orders, Checkout(x)
        PROVE  reserved'[p] = reserved[p] /\ available'[p] = available[p]
    <2>1. order[x] = "absent"
      BY <1>2 DEF Checkout
    <2>2. emitted[d.msg.type][o] > 0
      BY DEF SerialInv, EvidenceInv, Evidence, RowsAreEmitted
    <2>3. x # o
      BY <1>0, <2>1, <2>2 DEF SerialInv, StepsOnce
    <2>4. p \notin Wanted(x)
      BY <1>0, <2>3 DEF Apart
    <2>5. Demand[x][p] = 0
      BY <1>0, <2>4, DemandAssumption DEF Wanted
    <2>6. available[p] \in Int /\ reserved[p] \in Int
      BY <1>0 DEF TypeOK
    <2>7. \/ available'[p] = available[p] /\ reserved'[p] = reserved[p]
          \/ /\ available'[p] = available[p] - Demand[x][p]
             /\ reserved'[p] = reserved[p] + Demand[x][p]
      BY <1>0, <1>2, CheckoutTakes
    <2> QED BY <2>5, <2>6, <2>7
  <1>3. ASSUME NEW q \in Products, NEW delta \in Deltas, AdjustStock(q, delta)
        PROVE  reserved'[p] = reserved[p] /\ Deltas # {}
    BY <1>0, <1>3, AdjustFacts
  <1>4. ASSUME NEW x \in deliveries, Handle(x), x # d
        PROVE  reserved'[p] = reserved[p] /\ available'[p] = available[p]
    <2>1. x.msg.order \in Orders
      BY <1>0, DeliveryFacts
    <2>2. ASSUME x.msg.type \in {"OrderCreated", "PaymentRejected"}
          PROVE  p \notin Wanted(x.msg.order)
      <3>1. x.msg.order # o
        BY <1>1, <1>4, <2>2, OneStockHandler
      <3> QED BY <1>0, <2>1, <3>1 DEF Apart
    <2>3. CASE UNCHANGED <<available, reserved>>
      BY <2>3
    <2>4. ASSUME NEW lines \in SUBSET Wanted(x.msg.order), Sets(x, lines)
          PROVE  reserved'[p] = reserved[p] /\ available'[p] = available[p]
      <3>1. p \notin lines
        BY <2>2, <2>4 DEF Sets
      <3> QED BY <1>0, <2>4, <3>1 DEF Sets
    <2>5. CASE Frees(x)
      BY <1>0, <2>2, <2>5 DEF Frees
    <2> QED BY <1>4, <2>3, <2>4, <2>5, HandleWritesStock
  <1> QED BY <1>2, <1>3, <1>4, StockWriters

\* A step leaves fresh views: of deliveries that were open, or read just now.
LEMMA ViewsStep ==
  ASSUME TypeOK, Stages, [Next]_vars, NEW e \in deliveries', HoldsView(e)
  PROVE  \/ e \in deliveries /\ ~Handle(e)
         \/ /\ UNCHANGED <<available, reserved>>
            /\ \E d \in deliveries :
                 /\ e.msg = d.msg
                 /\ \/ HoldsView(d) /\ e.available = d.available /\ e.reserved = d.reserved
                    \/ \A p \in Wanted(d.msg.order) : /\ e.available[p] = available[p]
                                                      /\ e.reserved[p] = reserved[p]
  <1>0. \A d \in deliveries : Handle(d) => d \notin deliveries'
    BY HandleClaims
  <1>1. ASSUME NEW r \in Replicas, NEW m \in broker, Deliver(r, m), e \notin deliveries
        PROVE  FALSE
    <2>1. e.stage = "status"
      BY <1>1 DEF Deliver
    <2> QED BY <2>1 DEF HoldsView
  <1>2. ASSUME NEW d \in deliveries, ReadStock(d), e \notin deliveries
        PROVE  /\ UNCHANGED <<available, reserved>> /\ e.msg = d.msg
               /\ \A p \in Wanted(d.msg.order) : /\ e.available[p] = available[p]
                                                 /\ e.reserved[p] = reserved[p]
    <2>1. UNCHANGED <<available, reserved>>
      BY <1>2 DEF ReadStock, stockVars
    <2> QED BY <1>2, <2>1, ReadStockReplaces DEF Replace
  <1>3. ASSUME NEW d \in deliveries, RereadOrder(d) \/ Reconnect(d), e \notin deliveries
        PROVE  /\ UNCHANGED <<available, reserved>> /\ e.msg = d.msg
               /\ HoldsView(d) /\ e.available = d.available /\ e.reserved = d.reserved
    <2>1. UNCHANGED <<available, reserved>>
      BY <1>3 DEF RereadOrder, Reconnect, stockVars
    <2>2. CASE RereadOrder(d)
      <3>1. /\ e.msg = d.msg /\ e.seen = d.seen /\ e.stage = "reread"
            /\ e.available = d.available /\ e.reserved = d.reserved
        BY <1>3, <2>2, RereadOrderReplaces DEF Replace
      <3>2. NeedsStock(d)
        BY <3>1 DEF HoldsView, NeedsStock
      <3> QED BY <2>1, <2>2, <3>1, <3>2 DEF HoldsView, RereadOrder
    <2>3. CASE Reconnect(d)
      <3>1. /\ e.msg = d.msg /\ e.seen = d.seen /\ e.stage = d.stage
            /\ e.available = d.available /\ e.reserved = d.reserved
        BY <1>3, <2>3, ReconnectReplaces DEF Replace
      <3> QED BY <2>1, <3>1 DEF HoldsView, NeedsStock
    <2> QED BY <1>3, <2>2, <2>3
  <1> QED BY <1>0, <1>1, <1>2, <1>3, DeliverySteps

LEMMA FreshStep ==
  ASSUME Apart, SerialInv, OneAtATime, [Next]_vars
  PROVE  /\ FreshReserved => FreshReserved'
         /\ Deltas = {} /\ FreshAvailable => FreshAvailable'
  <1>0. TypeOK /\ Stages
    BY DEF SerialInv, EvidenceInv
  <1>1. ASSUME FreshReserved, NEW e \in deliveries', HoldsView(e), NEW p \in Wanted(e.msg.order)
        PROVE  e.reserved[p] = reserved'[p]
    <2>1. CASE e \in deliveries /\ ~Handle(e)
      <3>1. reserved'[p] = reserved[p]
        BY <1>1, <2>1, RowsKept
      <3> QED BY <1>1, <2>1, <3>1 DEF FreshReserved
    <2>2. ASSUME UNCHANGED <<available, reserved>>, NEW d \in deliveries, e.msg = d.msg,
                 \/ HoldsView(d) /\ e.available = d.available /\ e.reserved = d.reserved
                 \/ \A q \in Wanted(d.msg.order) : /\ e.available[q] = available[q]
                                                   /\ e.reserved[q] = reserved[q]
          PROVE  e.reserved[p] = reserved'[p]
      BY <1>1, <2>2 DEF FreshReserved
    <2> QED BY <1>0, <1>1, <2>1, <2>2, ViewsStep
  <1>2. ASSUME Deltas = {}, FreshAvailable, NEW e \in deliveries', HoldsView(e),
               NEW p \in Wanted(e.msg.order)
        PROVE  e.available[p] = available'[p]
    <2>1. CASE e \in deliveries /\ ~Handle(e)
      <3>1. available'[p] = available[p]
        BY <1>2, <2>1, RowsKept
      <3> QED BY <1>2, <2>1, <3>1 DEF FreshAvailable
    <2>2. ASSUME UNCHANGED <<available, reserved>>, NEW d \in deliveries, e.msg = d.msg,
                 \/ HoldsView(d) /\ e.available = d.available /\ e.reserved = d.reserved
                 \/ \A q \in Wanted(d.msg.order) : /\ e.available[q] = available[q]
                                                   /\ e.reserved[q] = reserved[q]
          PROVE  e.available[p] = available'[p]
      BY <1>2, <2>2 DEF FreshAvailable
    <2> QED BY <1>0, <1>2, <2>1, <2>2, ViewsStep
  <1>3. \A d : HoldsView(d)' <=> HoldsView(d)
    BY DEF HoldsView, NeedsStock
  <1> QED BY <1>1, <1>2 DEF FreshReserved, FreshAvailable, HoldsView, NeedsStock

LEMMA SerialInvariant == Spec /\ []OneAtATime => []SerialInv
  <1>1. Init => Numbered /\ Waiting /\ StepsOnce /\ Stages
    BY DEF Init, Numbered, Waiting, StepsOnce, Once, Stages, EventTypes, TerminalEvents
  <1>2. SerialInv /\ EvidenceInv' /\ OneAtATime /\ [Next]_vars => SerialInv'
    BY NumberedStep, WaitingStep, StepsOnceStep, StagesStep DEF SerialInv, EvidenceInv
  <1>3. Init /\ EvidenceInv => SerialInv
    BY <1>1 DEF SerialInv
  <1> QED BY <1>2, <1>3, EvidenceInvariant, PTL DEF Spec

\* Views do stay fresh where no two orders want the same product, nobody adjusts
\* stock and no event is in two hands, with operators and crashes.
LEMMA ViewsStayFresh ==
  Apart => (Spec /\ []OneAtATime =>
              []FreshReserved /\ (Deltas = {} => []FreshAvailable))
  <1> SUFFICES ASSUME Apart
               PROVE  Spec /\ []OneAtATime =>
                        []FreshReserved /\ (Deltas = {} => []FreshAvailable)
    OBVIOUS
  <1>1. Init => FreshReserved /\ FreshAvailable
    BY DEF Init, FreshReserved, FreshAvailable
  <1>2. SerialInv /\ OneAtATime /\ [Next]_vars /\ FreshReserved => FreshReserved'
    BY FreshStep
  <1>3. CASE Deltas = {}
    <2>1. SerialInv /\ OneAtATime /\ [Next]_vars /\ FreshAvailable => FreshAvailable'
      BY <1>3, FreshStep
    <2>2. Spec /\ []OneAtATime => []FreshReserved /\ []FreshAvailable
      BY <1>1, <1>2, <2>1, SerialInvariant, PTL DEF Spec
    <2> QED BY <2>2
  <1>4. CASE Deltas # {}
    <2>1. Spec /\ []OneAtATime => []FreshReserved
      BY <1>1, <1>2, SerialInvariant, PTL DEF Spec
    <2> QED BY <1>4, <2>1
  <1> QED BY <1>3, <1>4

-----------------------------------------------------------------------------
(* The ledger of reserved units.                                           *)

Created == {o \in Orders : order[o] # "absent"}

\* Units counted one by one: those reserved beyond what the holders want.
Books == \A p \in Products : Unbacked(p) = reserved[p] - Cardinality(Units(Holders, p))

\* What a step does to the holders: nothing, or one order joins or leaves them ...
Keeps == Holders' = Holders

Takes(o) == Holders' \in SUBSET Orders /\ o \in Holders' /\ Holders' \ {o} = Holders

Gives(o) == o \in Holders /\ Holders' = Holders \ {o}

\* ... and the reserved column follows, ...
Matched(p) ==
  \/ Keeps /\ reserved'[p] = reserved[p]
  \/ \E o \in Orders : Takes(o) /\ reserved'[p] = reserved[p] + Demand[o][p]
  \/ \E o \in Orders : Gives(o) /\ reserved'[p] = reserved[p] - Demand[o][p]

\* ... unless the handler of d saves a line before one that does not fit, ...
HalfSaved(d, p) ==
  LET o == d.msg.order
  IN /\ d \notin deliveries' /\ d.msg.type = "OrderCreated" /\ d.stage = "stock"
     /\ p \in Wanted(o) /\ d.available[p] >= Demand[o][p]
     /\ \E q \in Wanted(o) : d.available[q] < Demand[o][q]
     /\ Keeps /\ reserved'[p] = reserved[p] + Demand[o][p]

\* ... or has read a reserved count that no longer stands.
StaleReserved(d, p) == StaleWrite(d, p) /\ d.reserved[p] # reserved[p]

Accounted(p) == Matched(p) \/ \E d \in deliveries : HalfSaved(d, p) \/ StaleReserved(d, p)

LEMMA HoldersFinite ==
  ASSUME StepsOnce, IsFiniteSet(Created), NEW p \in Products
  PROVE  /\ Holders \in SUBSET Orders /\ IsFiniteSet(Holders)
         /\ IsFiniteSet(Units(Holders, p)) /\ Cardinality(Units(Holders, p)) \in Nat
  <1>1. Holders \subseteq Created
    <2>1. ASSUME NEW o \in Orders, Holds(o)
          PROVE  order[o] # "absent"
      BY <2>1 DEF Holds, StepsOnce, EventTypes
    <2> QED BY <2>1 DEF Holders, Created
  <1>2. IsFiniteSet(Holders) /\ Holders \in SUBSET Orders
    BY <1>1, FS_Subset DEF Holders
  <1> QED BY <1>2, UnitsFinite

LEMMA BooksHold ==
  ASSUME TypeOK, StepsOnce, IsFiniteSet(Created)
  PROVE  Books
  <1> SUFFICES ASSUME NEW p \in Products
               PROVE  Unbacked(p) = reserved[p] - Cardinality(Units(Holders, p))
    BY DEF Books
  <1>1. MapThenSumSet(LAMBDA o : Demand[o][p], Holders) = Cardinality(Units(Holders, p))
    BY HoldersFinite, SumIsUnits
  <1> QED BY <1>1 DEF Unbacked, UnitsFor

\* What the books look like after a step that leaves the holders, adds or drops one.
LEMMA BooksStep ==
  ASSUME StepsOnce, StepsOnce', IsFiniteSet(Created), IsFiniteSet(Created)', Books, Books',
         TypeOK, TypeOK', NEW p \in Products
  PROVE  /\ Unbacked(p) \in Int
         /\ Keeps => Unbacked(p)' = Unbacked(p) + reserved'[p] - reserved[p]
         /\ Matched(p) => Unbacked(p)' = Unbacked(p)
  <1>1. /\ IsFiniteSet(Holders) /\ Holders \in SUBSET Orders
        /\ IsFiniteSet(Units(Holders, p)) /\ Cardinality(Units(Holders, p)) \in Nat
    BY HoldersFinite
  <1>2. reserved[p] \in Int /\ reserved'[p] \in Int /\ \A o \in Orders : Demand[o][p] \in Nat
    BY DemandAssumption DEF TypeOK
  <1>3. Unbacked(p) = reserved[p] - Cardinality(Units(Holders, p))
    BY DEF Books
  <1>4. Unbacked(p)' = reserved'[p] - Cardinality(Units(Holders', p))
    BY DEF Books, Units
  <1>5. Keeps => Unbacked(p)' = Unbacked(p) + reserved'[p] - reserved[p]
    BY <1>1, <1>2, <1>3, <1>4 DEF Keeps
  <1>6. ASSUME NEW o \in Orders, Takes(o), reserved'[p] = reserved[p] + Demand[o][p]
        PROVE  Unbacked(p)' = Unbacked(p)
    <2>1. Cardinality(Units(Holders', p)) = Demand[o][p] + Cardinality(Units(Holders, p))
      BY <1>1, <1>6, UnitsWithout DEF Takes
    <2> QED BY <1>1, <1>2, <1>3, <1>4, <1>6, <2>1
  <1>7. ASSUME NEW o \in Orders, Gives(o), reserved'[p] = reserved[p] - Demand[o][p]
        PROVE  Unbacked(p)' = Unbacked(p)
    <2>1. IsFiniteSet(Holders') /\ Holders' \in SUBSET Orders
      BY <1>1, <1>7, FS_Subset DEF Gives
    <2>2. IsFiniteSet(Units(Holders', p)) /\ Cardinality(Units(Holders', p)) \in Nat
      BY <2>1, UnitsFinite
    <2>3. Cardinality(Units(Holders, p)) = Demand[o][p] + Cardinality(Units(Holders', p))
      BY <1>1, <1>7, <2>2, UnitsWithout DEF Gives
    <2> QED BY <1>1, <1>2, <1>3, <1>4, <1>7, <2>2, <2>3
  <1>8. Unbacked(p) \in Int
    BY <1>1, <1>2, <1>3
  <1>9. Matched(p) => Unbacked(p)' = Unbacked(p)
    <2>1. ASSUME Keeps, reserved'[p] = reserved[p]
          PROVE  Unbacked(p)' = Unbacked(p)
      BY <1>2, <1>5, <1>8, <2>1
    <2> QED BY <1>6, <1>7, <2>1 DEF Matched
  <1> QED BY <1>5, <1>8, <1>9

\* Creating an order takes nothing, a checkout that is authorized takes its units.
LEMMA CreationLedger ==
  ASSUME TypeOK, StepsOnce, NEW o \in Orders, CreateOrder(o) \/ Checkout(o)
  PROVE  \A p \in Products : Matched(p)
  <1>1. order[o] = "absent" /\ ~Holds(o) /\ emitted["InventoryReserved"][o] = 0
    BY DEF CreateOrder, Checkout, StepsOnce, Holds, EventTypes
  <1>2. CASE CreateOrder(o)
    <2>1. /\ \A x \in Orders : order'[x] = IF x = o THEN "pending" ELSE order[x]
          /\ \A x \in Orders :
               emitted'["InventoryReserved"][x] = emitted["InventoryReserved"][x]
          /\ o \notin SyncOrders /\ UNCHANGED reserved
      BY <1>2, TransitionFacts DEF CreateOrder, EventTypes, stockVars
    <2>2. Keeps
      BY <1>1, <2>1 DEF Keeps, Holders, Holds
    <2> QED BY <2>1, <2>2 DEF Matched
  <1>3. CASE Checkout(o)
    <2>1. PICK event \in TerminalEvents :
            /\ o \in SyncOrders
            /\ \A x \in Orders :
                 order'[x] = IF x # o THEN order[x]
                             ELSE IF event = "OrderConfirmed" THEN "confirmed" ELSE "cancelled"
            /\ Emit(o, {"OrderCreated", event})
      BY <1>3, CheckoutFacts
    <2>2. \A x \in Orders :
            emitted'["InventoryReserved"][x] = emitted["InventoryReserved"][x]
      BY <2>1, EmitCounts DEF EventTypes, TerminalEvents
    <2>3. \A x \in Orders \ {o} : Holds(x)' <=> Holds(x)
      BY <2>1, <2>2 DEF Holds
    <2>4. CASE UNCHANGED <<available, reserved>> /\ order'[o] = "cancelled"
      <3>1. Keeps
        BY <1>1, <2>3, <2>4 DEF Keeps, Holders, Holds
      <3> QED BY <2>4, <3>1 DEF Matched
    <2>5. CASE /\ order'[o] = "confirmed"
               /\ \A p \in Products : reserved'[p] = reserved[p] + Demand[o][p]
      <3>1. Holds(o)'
        BY <2>1, <2>5 DEF Holds
      <3>2. Takes(o)
        BY <1>1, <2>3, <3>1 DEF Takes, Holders
      <3> QED BY <2>5, <3>2 DEF Matched
    <2> QED BY <1>3, <2>4, <2>5, CheckoutTakes
  <1> QED BY <1>2, <1>3

\* A handler that moves an asynchronous order along.
LEMMA HandleLedger ==
  ASSUME StagedInv, Stages, TypeOK',
         NEW d \in deliveries, Handle(d), d.msg.type \in Steps, d.msg.order \notin SyncOrders,
         NEW p \in Products
  PROVE  Matched(p) \/ HalfSaved(d, p) \/ StaleReserved(d, p)
  <1> DEFINE o == d.msg.order
             T == d.msg.type
  <1>0. TypeOK /\ o \in Orders /\ EvidenceInv /\ Numbered /\ Waiting /\ StepsOnce
    BY DeliveryFacts DEF StagedInv, RepeatInv, EvidenceInv
  <1>1. PICK U \in Follows[T] : Moved(o, T, U)
    BY HandleMoves
  <1>2. /\ \A x \in Orders : order'[x] = IF x = o THEN Staged[U] ELSE order[x]
        /\ \A x \in Orders :
             emitted'["InventoryReserved"][x] =
               IF U = "InventoryReserved" /\ x = o THEN emitted["InventoryReserved"][x] + 1
                                                   ELSE emitted["InventoryReserved"][x]
    <2>1. U \in EventTypes
      BY StagedFacts
    <2>2. Emit(o, {U})
      BY <1>1 DEF Moved
    <2>3. \A ty \in EventTypes, x \in Orders :
            emitted'[ty][x] = IF ty \in {U} /\ x = o THEN emitted[ty][x] + 1
                                                     ELSE emitted[ty][x]
      BY <1>0, <2>1, <2>2, EmitCounts
    <2> QED BY <1>1, <2>3 DEF Moved, EventTypes
  <1>3. /\ order[o] = Staged[T] /\ d.seen = Staged[T] /\ emitted[T][o] = 1
        /\ ~Handled(T, o)
    BY <1>0, DeliveryDrives, HandlesFirst
  <1>4. \A x \in Orders \ {o} : Holds(x)' <=> Holds(x)
    BY <1>2 DEF Holds
  <1>5. /\ emitted["InventoryReserved"][o] \in Nat /\ emitted["InventoryRejected"][o] \in Nat
        /\ available[p] \in Int /\ reserved[p] \in Int
        /\ available'[p] \in Int /\ reserved'[p] \in Int
        /\ d.available[p] \in Int /\ d.reserved[p] \in Int /\ Demand[o][p] \in Nat
        /\ p \notin Wanted(o) => Demand[o][p] = 0
    <2>1. emitted["InventoryReserved"][o] \in Nat /\ emitted["InventoryRejected"][o] \in Nat
      BY <1>0 DEF TypeOK, EventTypes
    <2>2. /\ available[p] \in Int /\ reserved[p] \in Int
          /\ available'[p] \in Int /\ reserved'[p] \in Int
      BY <1>0 DEF TypeOK
    <2>3. Demand[o][p] \in Nat /\ (p \notin Wanted(o) => Demand[o][p] = 0)
      BY <1>0, DemandAssumption DEF Wanted
    <2>4. d.available[p] \in Int /\ d.reserved[p] \in Int
      BY <1>0, DeliveryFacts
    <2> QED BY <2>1, <2>2, <2>3, <2>4
  <1>6. d \notin deliveries'
    BY <1>0, HandleClaims
  <1>7. ASSUME HoldsView(d), p \in Wanted(o), d.reserved[p] # reserved[p],
               available'[p] + reserved'[p] = d.available[p] + d.reserved[p]
        PROVE  StaleReserved(d, p)
    BY <1>6, <1>7 DEF StaleReserved, StaleWrite
  <1>8. CASE T = "OrderCreated"
    <2>1. emitted["InventoryReserved"][o] = 0 /\ ~Holds(o)
      <3>1. emitted["InventoryReserved"][o] + emitted["InventoryRejected"][o] <= 0
        BY <1>0, <1>3, <1>8 DEF StepsOnce, Once
      <3> QED BY <1>0, <1>3, <1>5, <3>1 DEF Holds
    <2>2. PICK lines \in SUBSET Wanted(o) : Sets(d, lines)
      <3>1. d.seen \notin Terminal
        BY <1>3, <1>8 DEF Staged, Terminal
      <3>2. ~Frees(d)
        BY <1>8 DEF Frees
      <3> QED BY <1>8, <3>1, <3>2, HandleWritesStock
    <2>3. order'[o] = "pending"
      BY <1>0, <1>1, <1>2, <1>8 DEF Follows, Staged
    <2>4. /\ d.stage = "stock" /\ HoldsView(d)
          /\ p \in lines =>
               /\ reserved'[p] = d.reserved[p] + Demand[o][p]
               /\ available'[p] + reserved'[p] = d.available[p] + d.reserved[p]
          /\ p \notin lines => reserved'[p] = reserved[p]
      <3>1. /\ d.stage = "stock" /\ HoldsView(d)
            /\ available'[p] = IF p \in lines THEN d.available[p] - Demand[o][p]
                                              ELSE available[p]
            /\ reserved'[p] = IF p \in lines THEN d.reserved[p] + Demand[o][p]
                                             ELSE reserved[p]
        BY <2>2 DEF Sets, HoldsView
      <3> QED BY <1>5, <3>1
    <2>5. CASE p \in lines /\ d.reserved[p] # reserved[p]
      BY <1>7, <2>4, <2>5
    <2>6. CASE Emit(o, {"InventoryReserved"}) /\ lines = Wanted(o)
      <3>1. emitted'["InventoryReserved"][o] > 0
        BY <1>0, <2>6, EmitKeeps DEF EventTypes
      <3>2. Holds(o)'
        BY <2>3, <3>1 DEF Holds
      <3>3. Takes(o)
        BY <1>0, <1>4, <2>1, <3>2 DEF Takes, Holders
      <3>4. (p \in lines => d.reserved[p] = reserved[p])
              => reserved'[p] = reserved[p] + Demand[o][p]
        BY <1>5, <2>4, <2>6
      <3> QED BY <1>0, <2>5, <3>3, <3>4 DEF Matched
    <2>7. CASE /\ Emit(o, {"InventoryRejected"})
               /\ LET fitting == {q \in Wanted(o) : d.available[q] >= Demand[o][q]}
                  IN lines \in SUBSET fitting /\ fitting # Wanted(o)
      <3>1. emitted'["InventoryReserved"][o] = 0
        <4>1. \A ty \in EventTypes, x \in Orders :
                emitted'[ty][x] = IF ty \in {"InventoryRejected"} /\ x = o
                                    THEN emitted[ty][x] + 1 ELSE emitted[ty][x]
          BY <1>0, <2>7, EmitCounts DEF EventTypes
        <4> QED BY <1>0, <2>1, <4>1 DEF EventTypes
      <3>2. ~Holds(o)'
        BY <2>3, <3>1, <1>0 DEF Holds
      <3>3. Keeps
        BY <1>4, <2>1, <3>2 DEF Keeps, Holders
      <3>4. \E q \in Wanted(o) : d.available[q] < Demand[o][q]
        <4>1. PICK q \in Wanted(o) : ~(d.available[q] >= Demand[o][q])
          BY <2>7
        <4>2. d.available[q] \in Int /\ Demand[o][q] \in Nat
          BY <1>0, DeliveryFacts, DemandAssumption DEF Wanted
        <4> QED BY <4>1, <4>2
      <3>5. ASSUME p \in lines, d.reserved[p] = reserved[p]
            PROVE  HalfSaved(d, p)
        <4>1. p \in Wanted(o) /\ d.available[p] >= Demand[o][p]
          BY <2>7, <3>5
        <4>2. reserved'[p] = reserved[p] + Demand[o][p]
          BY <2>4, <3>5
        <4> QED BY <1>6, <1>8, <2>4, <3>3, <3>4, <4>1, <4>2 DEF HalfSaved
      <3>6. p \notin lines => Matched(p)
        BY <2>4, <3>3 DEF Matched
      <3> QED BY <2>5, <3>5, <3>6
    <2> QED BY <2>2, <2>6, <2>7 DEF Sets
  <1>9. CASE T = "PaymentRejected"
    <2>1. Frees(d)
      BY <1>3, <1>9, HandleWritesStock DEF Staged, Sets
    <2>2. emitted["InventoryReserved"][o] > 0
      BY <1>0, <1>3, <1>9, RejectedAfterReserved
    <2>3. Holds(o) /\ ~Holds(o)'
      BY <1>0, <1>1, <1>2, <1>3, <1>9, <2>2 DEF Holds, Follows, Staged
    <2>4. Gives(o)
      BY <1>0, <1>4, <2>3 DEF Gives, Holders
    <2>5. /\ HoldsView(d)
          /\ p \in Wanted(o) =>
               /\ reserved'[p] = d.reserved[p] - Demand[o][p]
               /\ available'[p] + reserved'[p] = d.available[p] + d.reserved[p]
          /\ p \notin Wanted(o) => reserved'[p] = reserved[p]
      <3>1. /\ HoldsView(d)
            /\ available'[p] = IF p \in Wanted(o) THEN d.available[p] + Demand[o][p]
                                                  ELSE available[p]
            /\ reserved'[p] = IF p \in Wanted(o) THEN d.reserved[p] - Demand[o][p]
                                                 ELSE reserved[p]
        BY <2>1 DEF Frees, HoldsView, NeedsStock
      <3> QED BY <1>5, <3>1
    <2>6. (p \in Wanted(o) => d.reserved[p] = reserved[p])
            => reserved'[p] = reserved[p] - Demand[o][p]
      BY <1>5, <2>5
    <2> QED BY <1>0, <1>7, <2>4, <2>5, <2>6 DEF Matched
  <1>10. CASE T \notin {"OrderCreated", "PaymentRejected"}
    <2>1. UNCHANGED reserved
      BY <1>10, HandleWritesStock DEF Sets, Frees
    <2>2. Holds(o)' <=> Holds(o)
      <3>1. CASE T = "InventoryRejected"
        <4>1. Once("OrderCreated", o) \in {0, 1}
          BY DEF Once
        <4>2. emitted["InventoryReserved"][o] = 0
          BY <1>0, <1>3, <1>5, <3>1, <4>1 DEF StepsOnce
        <4> QED BY <1>0, <1>1, <1>2, <3>1, <4>2 DEF Holds, Follows
      <3>2. CASE T # "InventoryRejected"
        <4>1. U \notin {"InventoryReserved", "InventoryRejected", "OrderCancelled"}
          BY <1>1, <1>10, <3>2 DEF Follows, Steps, EventTypes, TerminalEvents
        <4>2. Staged[U] # "cancelled" /\ Staged[T] # "cancelled"
          BY <1>10, <3>2, <4>1, StagedFacts
            DEF Staged, Follows, Steps, EventTypes, TerminalEvents
        <4> QED BY <1>0, <1>2, <1>3, <4>1, <4>2 DEF Holds
      <3> QED BY <3>1, <3>2
    <2>3. Keeps
      BY <1>4, <2>2 DEF Keeps, Holders
    <2> QED BY <2>1, <2>3 DEF Matched
  <1> QED BY <1>8, <1>9, <1>10

LEMMA LedgerMoves ==
  ASSUME StagedInv, Stages, TypeOK', [Next]_vars, NEW p \in Products
  PROVE  Accounted(p)
  <1>0. TypeOK /\ StepsOnce /\ RepeatInv /\ requests = {} /\ SyncViews
    BY DEF StagedInv, RepeatInv, EvidenceInv
  <1>1. ASSUME NEW o \in Orders, CreateOrder(o) \/ Checkout(o)
        PROVE  Accounted(p)
    BY <1>0, <1>1, CreationLedger DEF Accounted
  <1>2. ASSUME NEW d \in deliveries, Handle(d)
        PROVE  Accounted(p)
    <2>1. d.msg.type \in EventTypes /\ d.msg.order \in Orders
      BY <1>0, DeliveryKnown
    <2>2. CASE d.msg.type \in Steps /\ d.msg.order \notin SyncOrders
      BY <1>2, <2>1, <2>2, HandleLedger DEF Accounted
    <2>3. CASE d.msg.type \in TerminalEvents \/ d.msg.order \in SyncOrders
      <3>1. UNCHANGED <<order, emitted>>
        BY <1>0, <1>2, <2>3, HandleIdles
      <3>2. d.msg.type \in TerminalEvents \/ d.stage = "status"
        BY <1>0, <2>3 DEF SyncViews
      <3>3. UNCHANGED reserved
        BY <1>2, <3>2, HandleWritesStock DEF Sets, Frees, TerminalEvents
      <3>4. Keeps
        BY <3>1 DEF Keeps, Holders, Holds
      <3> QED BY <3>3, <3>4 DEF Accounted, Matched
    <2> QED BY <2>1, <2>2, <2>3 DEF Steps
  <1>3. ASSUME Quiet, UNCHANGED reserved
        PROVE  Accounted(p)
    <2>1. Keeps
      BY <1>3 DEF Quiet, Keeps, Holders, Holds
    <2> QED BY <1>3, <2>1 DEF Accounted, Matched
  <1>4. ASSUME NEW q \in Products, NEW delta \in Deltas, AdjustStock(q, delta)
        PROVE  UNCHANGED reserved
    BY <1>4 DEF AdjustStock
  <1>5. \A q \in requests : FALSE
    BY <1>0
  <1> QED BY <1>1, <1>2, <1>3, <1>4, <1>5, QuietSteps, StockWriters

\* Orders come into being one at a time, so those there are finitely many.
LEMMA CreatedFinite ==
  ASSUME StagedInv, [Next]_vars, IsFiniteSet(Created)
  PROVE  IsFiniteSet(Created)'
  <1>0. TypeOK
    BY DEF StagedInv, RepeatInv, EvidenceInv
  <1>1. ASSUME NEW o, \A x \in Orders : x # o => order'[x] = order[x]
        PROVE  IsFiniteSet(Created)'
    <2>1. Created' \subseteq Created \cup {o}
      BY <1>1 DEF Created
    <2>2. IsFiniteSet(Created \cup {o})
      BY FS_AddElement
    <2> QED BY <2>1, <2>2, FS_Subset
  <1>2. ASSUME NEW o \in Orders, CreateOrder(o)
        PROVE  \A x \in Orders : x # o => order'[x] = order[x]
    BY <1>0, <1>2 DEF CreateOrder, Transition, TypeOK
  <1>3. ASSUME NEW o \in Orders, Checkout(o)
        PROVE  \A x \in Orders : x # o => order'[x] = order[x]
    BY <1>0, <1>3, CheckoutFacts
  <1>4. ASSUME NEW o \in Orders, NEW T \in Steps, NEW U \in Follows[T], Moved(o, T, U)
        PROVE  \A x \in Orders : x # o => order'[x] = order[x]
    BY <1>4 DEF Moved
  <1>5. CASE UNCHANGED order
    BY <1>5 DEF Created
  <1> QED BY <1>1, <1>2, <1>3, <1>4, <1>5, StagedSteps

LedgerInv == StagedInv /\ Stages /\ IsFiniteSet(Created) /\ Books

LEMMA LedgerInvariant == Clicks = {} => (Spec /\ []OneAtATime => []LedgerInv)
  <1> SUFFICES ASSUME Clicks = {}
               PROVE  Spec /\ []OneAtATime => []LedgerInv
    OBVIOUS
  <1>1. Spec /\ []OneAtATime => []StagedInv
    BY StagedInvariant
  <1>2. Spec /\ []OneAtATime => []Stages
    BY SerialInvariant, PTL DEF SerialInv
  <1>3. Init => IsFiniteSet(Created)
    <2>1. Init => Created = {}
      BY DEF Init, Created
    <2> QED BY <2>1, FS_EmptySet
  <1>4. StagedInv /\ [Next]_vars /\ IsFiniteSet(Created) => IsFiniteSet(Created)'
    BY CreatedFinite
  <1>5. StagedInv /\ IsFiniteSet(Created) => Books
    BY BooksHold DEF StagedInv, RepeatInv, EvidenceInv
  <1> QED BY <1>1, <1>2, <1>3, <1>4, <1>5, PTL DEF Spec, LedgerInv

LEMMA LedgerStep ==
  ASSUME LedgerInv, LedgerInv', [Next]_vars, NEW p \in Products
  PROVE  /\ Balance(p)' = Balance(p) \/ \E d \in deliveries : StaleWrite(d, p)
         /\ \/ Unbacked(p)' = Unbacked(p)
            \/ \E d \in deliveries :
                 \/ HalfSaved(d, p) /\ Unbacked(p)' = Unbacked(p) + Demand[d.msg.order][p]
                 \/ StaleReserved(d, p)
  <1>1. /\ StagedInv /\ Stages /\ TypeOK /\ StepsOnce /\ IsFiniteSet(Created) /\ Books
    BY DEF LedgerInv, StagedInv, RepeatInv, EvidenceInv
  <1>2. /\ TypeOK' /\ StepsOnce' /\ IsFiniteSet(Created)' /\ Books'
    BY DEF LedgerInv, StagedInv, RepeatInv, EvidenceInv
  <1>3. Balance(p)' = Balance(p) \/ \E d \in deliveries : StaleWrite(d, p)
    BY <1>1, <1>2, BalanceStep
  <1>4. /\ Unbacked(p) \in Int
        /\ Keeps => Unbacked(p)' = Unbacked(p) + reserved'[p] - reserved[p]
        /\ Matched(p) => Unbacked(p)' = Unbacked(p)
    BY <1>1, <1>2, BooksStep
  <1>5. ASSUME NEW d \in deliveries, HalfSaved(d, p)
        PROVE  Unbacked(p)' = Unbacked(p) + Demand[d.msg.order][p]
    <2>1. reserved[p] \in Int /\ Demand[d.msg.order][p] \in Nat
      BY <1>1, DeliveryFacts, DemandAssumption DEF TypeOK
    <2>2. Keeps /\ reserved'[p] = reserved[p] + Demand[d.msg.order][p]
      BY <1>5 DEF HalfSaved
    <2> QED BY <1>4, <2>1, <2>2
  <1>6. Accounted(p)
    BY <1>1, <1>2, LedgerMoves
  <1> QED BY <1>3, <1>4, <1>5, <1>6 DEF Accounted

\* While no operator decides and no event is in two hands, units are lost, left
\* reserved for nobody or promised twice only by handlers that write back stock
\* rows changed since they read them, or that save a line before one that does not
\* fit: with adjustments, checkouts, redelivery and crashes, for every demand.
THEOREM StockLossesAreExplained ==
  Clicks = {} => (Spec /\ []OneAtATime => StockLossesExplained)
  <1> SUFFICES ASSUME Clicks = {}
               PROVE  Spec /\ []OneAtATime => StockLossesExplained
    OBVIOUS
  <1>1. ASSUME LedgerInv, LedgerInv', [Next]_vars, NEW p \in Products
        PROVE  \/ Balance(p)' = Balance(p) /\ Unbacked(p)' = Unbacked(p)
               \/ \E d \in deliveries : StaleWrite(d, p) \/ HalfReservation(d, p)
    <2>1. CASE \E d \in deliveries : StaleWrite(d, p)
      BY <2>1
    <2>2. CASE \A d \in deliveries : ~StaleWrite(d, p)
      <3>1. Balance(p)' = Balance(p)
        BY <1>1, <2>2, LedgerStep
      <3>2. \/ Unbacked(p)' = Unbacked(p)
            \/ \E d \in deliveries :
                 HalfSaved(d, p) /\ Unbacked(p)' = Unbacked(p) + Demand[d.msg.order][p]
        BY <1>1, <2>2, LedgerStep DEF StaleReserved
      <3>3. ASSUME NEW d \in deliveries, HalfSaved(d, p),
                   Unbacked(p)' = Unbacked(p) + Demand[d.msg.order][p]
            PROVE  HalfReservation(d, p)
        BY <3>1, <3>3 DEF HalfSaved, HalfReservation
      <3> QED BY <3>1, <3>2, <3>3
    <2> QED BY <2>1, <2>2
  <1>2. LedgerInv /\ LedgerInv' /\ [Next]_vars =>
          [\A p \in Products :
             \/ Balance(p)' = Balance(p) /\ Unbacked(p)' = Unbacked(p)
             \/ \E d \in deliveries : StaleWrite(d, p) \/ HalfReservation(d, p)]_vars
    BY <1>1
  <1> QED BY <1>2, LedgerInvariant, PTL DEF Spec, StockLossesExplained

\* Reserved units are exactly those of the orders that hold theirs, while no
\* operator confirms or cancels, no event is in two hands, the reserved counts the
\* open handlers have read still stand and none has read stock for half its order.
THEOREM ReservedUnitsAreHeld ==
  Clicks = {} =>
    (Spec /\ []OneAtATime /\ []FreshReserved /\ []NothingPartial => []StockBacksOrders)
  <1> SUFFICES ASSUME Clicks = {}
               PROVE  Spec /\ []OneAtATime /\ []FreshReserved /\ []NothingPartial
                        => []StockBacksOrders
    OBVIOUS
  <1> DEFINE NoneUnbacked == \A p \in Products : Unbacked(p) = 0
  <1>1. ASSUME Init, LedgerInv
        PROVE  NoneUnbacked
    <2>1. Holders = {} /\ \A p \in Products : reserved[p] = 0
      BY <1>1 DEF Init, Holders, Holds, EventTypes
    <2> QED BY <1>1, <2>1, UnitsOfNone DEF LedgerInv, Books
  <1>2. ASSUME LedgerInv, LedgerInv', FreshReserved, NothingPartial, NoneUnbacked, [Next]_vars
        PROVE  NoneUnbacked'
    <2>1. ASSUME NEW p \in Products
          PROVE  Unbacked(p)' = 0
      <3>1. \A d \in deliveries : ~StaleReserved(d, p)
        BY <1>2 DEF StaleReserved, StaleWrite, FreshReserved
      <3>2. ASSUME NEW d \in deliveries, HalfSaved(d, p)
            PROVE  FALSE
        <4> DEFINE o == d.msg.order
                   fitting == {q \in Wanted(o) : d.available[q] >= Demand[o][q]}
        <4>1. PICK q \in Wanted(o) : d.available[q] < Demand[o][q]
          BY <3>2 DEF HalfSaved
        <4>2. d.available[q] \in Int /\ Demand[o][q] \in Nat
          BY <1>2, DeliveryFacts, DemandAssumption
            DEF Wanted, LedgerInv, StagedInv, RepeatInv, EvidenceInv
        <4>3. q \notin fitting /\ p \in fitting
          BY <3>2, <4>1, <4>2 DEF HalfSaved
        <4>4. fitting \in {{}, Wanted(o)}
          BY <1>2, <3>2 DEF HalfSaved, NothingPartial
        <4> QED BY <4>1, <4>3, <4>4
      <3> QED BY <1>2, <3>1, <3>2, LedgerStep
    <2> QED BY <2>1
  <1>3. ASSUME LedgerInv, NoneUnbacked
        PROVE  StockBacksOrders
    <2> SUFFICES ASSUME NEW p \in Products
                 PROVE  reserved[p] = UnitsFor(Holders, p)
      BY DEF StockBacksOrders
    <2>1. TypeOK /\ StepsOnce /\ IsFiniteSet(Created)
      BY <1>3 DEF LedgerInv, StagedInv, RepeatInv, EvidenceInv
    <2>2. UnitsFor(Holders, p) \in Nat
      <3>1. MapThenSumSet(LAMBDA o : Demand[o][p], Holders) = Cardinality(Units(Holders, p))
        BY <2>1, HoldersFinite, SumIsUnits
      <3> QED BY <2>1, <3>1, HoldersFinite DEF UnitsFor
    <2>3. reserved[p] \in Int /\ reserved[p] - UnitsFor(Holders, p) = 0
      BY <1>3, <2>1 DEF TypeOK, Unbacked
    <2> QED BY <2>2, <2>3
  <1>4. Spec /\ []OneAtATime => []LedgerInv
    BY LedgerInvariant
  <1>5. /\ Init /\ LedgerInv => NoneUnbacked
        /\ LedgerInv /\ LedgerInv' /\ FreshReserved /\ NothingPartial /\ NoneUnbacked
             /\ [Next]_vars => NoneUnbacked'
        /\ LedgerInv /\ NoneUnbacked => StockBacksOrders
    BY <1>1, <1>2, <1>3
  <1> HIDE DEF NoneUnbacked
  <1> QED BY <1>4, <1>5, PTL DEF Spec

\* Nothing touches the stock an order wants before its own handler decides on it.
Untouched ==
  \A o \in Orders \ SyncOrders :
    emitted["InventoryReserved"][o] + emitted["InventoryRejected"][o] = 0 =>
      \A p \in Wanted(o) : available[p] = InitialStock[p]

LEMMA UntouchedStep ==
  ASSUME Apart, Deltas = {}, SerialInv, Untouched, [Next]_vars
  PROVE  Untouched'
  <1>0. /\ TypeOK /\ Numbered /\ StepsOnce
        /\ \A ty \in EventTypes, x \in Orders :
             emitted[ty][x] \in Nat /\ emitted[ty][x] <= emitted'[ty][x]
    <2>1. TypeOK /\ Numbered /\ StepsOnce
      BY DEF SerialInv, EvidenceInv
    <2> QED BY <2>1, StepGrows DEF TypeOK
  <1>1. TypeOK'
    BY <1>0, TypeStep
  <1> SUFFICES ASSUME NEW o \in Orders \ SyncOrders,
                      emitted'["InventoryReserved"][o] + emitted'["InventoryRejected"][o] = 0,
                      NEW p \in Wanted(o)
               PROVE  available'[p] = InitialStock[p]
    BY DEF Untouched, Wanted
  <1>2. /\ emitted["InventoryReserved"][o] = 0 /\ emitted["InventoryRejected"][o] = 0
        /\ emitted'["InventoryReserved"][o] = 0 /\ emitted'["InventoryRejected"][o] = 0
    <2> DEFINE Before(ty) == emitted[ty][o]
               After(ty) == emitted'[ty][o]
    <2>1. \A ty \in {"InventoryReserved", "InventoryRejected"} :
            Before(ty) \in Nat /\ After(ty) \in Nat /\ Before(ty) <= After(ty)
      BY <1>0, <1>1 DEF TypeOK, EventTypes
    <2>2. After("InventoryReserved") + After("InventoryRejected") = 0
      OBVIOUS
    <2> HIDE DEF Before, After
    <2>3. \A ty \in {"InventoryReserved", "InventoryRejected"} : Before(ty) = 0 /\ After(ty) = 0
      <3>1. After("InventoryReserved") = 0 /\ After("InventoryRejected") = 0
        BY <2>1, <2>2
      <3> QED BY <2>1, <3>1
    <2> QED BY <2>3 DEF Before, After
  <1>3. available[p] = InitialStock[p] /\ p \in Products
    BY <1>2 DEF Untouched, Wanted
  <1>4. \A x \in Orders : x # o => p \notin Wanted(x)
    BY DEF Apart
  <1>5. ASSUME NEW x \in Orders, Checkout(x)
        PROVE  available'[p] = available[p]
    <2>1. x # o
      BY <1>5 DEF Checkout
    <2>2. Demand[x][p] = 0 /\ available[p] \in Int
      BY <1>0, <1>3, <1>4, <2>1, DemandAssumption DEF Wanted, TypeOK
    <2> QED BY <1>0, <1>3, <1>5, <2>2, CheckoutTakes
  <1>6. ASSUME NEW d \in deliveries, Handle(d)
        PROVE  available'[p] = available[p]
    <2>1. d.msg.order \in Orders
      BY <1>0, DeliveryFacts
    <2>2. ASSUME NEW lines \in SUBSET Wanted(d.msg.order), Sets(d, lines)
          PROVE  available'[p] = available[p]
      <3>1. d.msg.order # o
        <4>1. PICK ty \in {"InventoryReserved", "InventoryRejected"} : Emit(d.msg.order, {ty})
          BY <2>2 DEF Sets
        <4>2. emitted'[ty][d.msg.order] > 0
          BY <1>0, <2>1, <4>1, EmitKeeps DEF EventTypes
        <4> QED BY <1>2, <4>2
      <3> QED BY <1>3, <1>4, <2>1, <2>2, <3>1 DEF Sets
    <2>3. ASSUME Frees(d)
          PROVE  available'[p] = available[p]
      <3>1. emitted["PaymentRejected"][d.msg.order] > 0
        BY <2>3 DEF Frees, SerialInv, EvidenceInv, Evidence, RowsAreEmitted
      <3>2. emitted["InventoryReserved"][d.msg.order] > 0
        BY <1>0, <2>1, <3>1, RejectedAfterReserved
      <3>3. d.msg.order # o
        BY <1>2, <3>2
      <3> QED BY <1>3, <1>4, <2>1, <2>3, <3>3 DEF Frees
    <2> QED BY <1>6, <2>2, <2>3, HandleWritesStock
  <1>7. CASE UNCHANGED <<available, reserved, adjusted>>
    BY <1>3, <1>7
  <1> QED BY <1>3, <1>5, <1>6, <1>7, StockWriters

\* A handler of an asynchronous order finds every line in stock, or its only one not.
LEMMA ReadsAllOrNothing ==
  ASSUME AllOrNothing, SerialInv, SyncViews, Deltas = {} => Untouched /\ FreshAvailable
  PROVE  NothingPartial
  <1> SUFFICES ASSUME NEW d \in deliveries, d.stage = "stock", d.msg.type = "OrderCreated"
               PROVE  {p \in Wanted(d.msg.order) : d.available[p] >= Demand[d.msg.order][p]}
                        \in {{}, Wanted(d.msg.order)}
    BY DEF NothingPartial
  <1> DEFINE o == d.msg.order
             fitting == {p \in Wanted(o) : d.available[p] >= Demand[o][p]}
  <1>0. /\ TypeOK /\ EvidenceInv /\ Numbered /\ Waiting /\ StepsOnce
        /\ o \in Orders /\ o \notin SyncOrders
    BY DeliveryFacts DEF SerialInv, EvidenceInv, SyncViews, TerminalEvents
  <1>1. CASE \A p, q \in Wanted(o) : p = q
    <2>1. fitting = {} \/ fitting = Wanted(o)
      BY <1>1
    <2> QED BY <2>1
  <1>2. CASE Deltas = {} /\ \A p \in Wanted(o) : Demand[o][p] <= InitialStock[p]
    <2>1. emitted["InventoryReserved"][o] + emitted["InventoryRejected"][o] = 0
      <3>1. ~Handled("OrderCreated", o)
        BY <1>0, HandlesFirst DEF Steps, EventTypes, TerminalEvents
      <3>2. emitted["InventoryReserved"][o] \in Nat /\ emitted["InventoryRejected"][o] \in Nat
        BY <1>0 DEF TypeOK, EventTypes
      <3> QED BY <1>0, <3>1, <3>2 DEF StepsOnce, Once
    <2>2. \A p \in Wanted(o) : d.available[p] = InitialStock[p]
      BY <1>0, <1>2, <2>1 DEF Untouched, FreshAvailable, HoldsView
    <2>3. \A p \in Wanted(o) : InitialStock[p] \in Nat /\ Demand[o][p] \in Nat
      BY <1>0, StockAssumption, DemandAssumption DEF Wanted
    <2>4. fitting = Wanted(o)
      BY <1>2, <2>2, <2>3
    <2> QED BY <2>4
  <1> QED BY <1>0, <1>1, <1>2 DEF AllOrNothing

\* So reserved units are exactly those of the orders that hold theirs where no two
\* orders want the same product and every order finds all its lines in stock or
\* has only one.
THEOREM ReservedUnitsAreHeldApart ==
  Clicks = {} /\ Apart /\ AllOrNothing => (Spec /\ []OneAtATime => []StockBacksOrders)
  <1> SUFFICES ASSUME Clicks = {}, Apart, AllOrNothing
               PROVE  Spec /\ []OneAtATime => []StockBacksOrders
    OBVIOUS
  <1>1. Spec /\ []OneAtATime => []FreshReserved /\ (Deltas = {} => []FreshAvailable)
    BY ViewsStayFresh
  <1>2. Spec /\ []OneAtATime => []SyncViews
    <2>1. StagedInv => SyncViews
      BY DEF StagedInv, RepeatInv
    <2> QED BY <2>1, StagedInvariant, PTL
  <1>3. CASE Deltas = {}
    <2>1. Init => Untouched
      BY DEF Init, Untouched, Wanted
    <2>2. SerialInv /\ Untouched /\ [Next]_vars => Untouched'
      BY <1>3, UntouchedStep
    <2>3. Spec /\ []OneAtATime => []Untouched
      BY <2>1, <2>2, SerialInvariant, PTL DEF Spec
    <2>4. Spec /\ []OneAtATime => []FreshAvailable
      BY <1>1, <1>3
    <2>5. SerialInv /\ SyncViews /\ Untouched /\ FreshAvailable => NothingPartial
      BY ReadsAllOrNothing
    <2>6. Spec /\ []OneAtATime => []NothingPartial
      BY <1>2, <2>3, <2>4, <2>5, SerialInvariant, PTL
    <2> QED BY <1>1, <2>6, ReservedUnitsAreHeld
  <1>4. CASE Deltas # {}
    <2>1. SerialInv /\ SyncViews => NothingPartial
      BY <1>4, ReadsAllOrNothing
    <2>2. Spec /\ []OneAtATime => []NothingPartial
      BY <1>2, <2>1, SerialInvariant, PTL
    <2> QED BY <1>1, <2>2, ReservedUnitsAreHeld
  <1> QED BY <1>3, <1>4
=============================================================================
