---------------------------- MODULE Choreography -----------------------------
(***************************************************************************)
(* The order choreography: the HTTP routes that create, check out, confirm *)
(* and cancel an order, the six AMQP handlers that move it along, the      *)
(* transactional outbox, the broker and the processed-events store.        *)
(*                                                                         *)
(* Every transaction runs at READ COMMITTED and takes no row lock when it  *)
(* reads an order or (in the handlers) a stock row, so it is modelled as   *)
(* one step per read and one step that applies its writes and commits:     *)
(* whatever commits in between is overwritten, as an UPDATE with the       *)
(* values computed from the earlier SELECT does.  The transactions that    *)
(* lock what they read before they write (stock adjustment, synchronous    *)
(* checkout) are single steps.                                             *)
(***************************************************************************)
EXTENDS OrderStates, Integers, Sequences, FiniteSets

CONSTANTS
  Orders,        \* orders the shoppers will submit
  SyncOrders,    \* those submitted to POST /checkout, the others to POST /orders
  Products,
  Demand,        \* Demand[o][p]: units of p in the lines of o (0: no line)
  InitialStock,  \* InitialStock[p]: available units at the start
  Deltas,        \* the signed stock adjustments operators ask for
  MaxAdjust,     \* bound: adjustments of a product add up to at most this
  Replicas,      \* application processes, each consuming every queue
  Clicks,        \* the confirm and cancel requests operators will make
  FaultKinds,    \* which of AllFaults can happen
  MaxFaults      \* bound: how many faults happen in all

AllFaults == {"republish", "crash", "reconnect"}

ASSUME OrdersAssumption == SyncOrders \subseteq Orders
ASSUME DemandAssumption == Demand \in [Orders -> [Products -> Nat]]
ASSUME StockAssumption == InitialStock \in [Products -> Nat]
ASSUME DeltaAssumption == Deltas \subseteq Int /\ MaxAdjust \in Nat
ASSUME FaultAssumption == FaultKinds \subseteq AllFaults /\ MaxFaults \in Nat

VARIABLES
  order,       \* order[o]: committed status of the orders row, or "absent"
  timeline,    \* timeline[o]: domain_events of the order, oldest first
  available,   \* available[p], reserved[p]: the inventory row of p
  reserved,
  adjusted,    \* adjusted[p]: sum of the adjustments committed for p
  payments,    \* payments[o][s]: payment rows of o with status s
  notified,    \* notified[o][ty]: notification rows of o for terminal event ty
  emitted,     \* emitted[ty][o]: outbox rows of type ty inserted for o
  pending,     \* outbox rows not yet marked published
  broker,      \* messages in the durable queues, ready or unacknowledged
  processed,   \* processed[c]: events recorded in processed_events for c
  deliveries,  \* open transactions of message handlers
  requests,    \* operator confirm and cancel requests, open or committed
  faults       \* faults so far

orderVars == <<order, timeline>>
stockVars == <<available, reserved>>
outboxVars == <<emitted, pending>>
vars == <<order, timeline, available, reserved, adjusted, payments, notified,
          emitted, pending, broker, processed, deliveries, requests, faults>>

-----------------------------------------------------------------------------
(* Events, queues and messages.                                            *)

TerminalEvents == {"OrderConfirmed", "OrderCancelled"}

EventTypes == {"OrderCreated", "InventoryReserved", "InventoryRejected",
               "OrderInventoryReserved", "PaymentAuthorized", "PaymentRejected",
               "OrderPaymentAuthorized"} \cup TerminalEvents

\* The binding table: each event type is routed to exactly one durable queue.
QueueOf ==
  [OrderCreated           |-> "inventory.order_created",
   InventoryReserved      |-> "orders.inventory_result",
   InventoryRejected      |-> "orders.inventory_result",
   OrderInventoryReserved |-> "payments.inventory_reserved",
   PaymentAuthorized      |-> "orders.payment_result",
   PaymentRejected        |-> "orders.payment_result",
   OrderPaymentAuthorized |-> "orders.payment_authorized",
   OrderConfirmed         |-> "notifications.order_terminal",
   OrderCancelled         |-> "notifications.order_terminal"]

Queues == {QueueOf[ty] : ty \in EventTypes}

Consumers == {"ProcessInventoryReservation", "ProcessOrderInventoryResult",
              "ProcessOrderInventoryReserved", "ProcessPaymentRejected",
              "ProcessOrderPaymentResult", "FinalizePaymentAuthorized",
              "ProcessOrderNotification"}

\* The idempotency names a delivery of each type claims, the first one checked
\* before anything is read.
ClaimsOf ==
  [OrderCreated           |-> <<"ProcessInventoryReservation">>,
   InventoryReserved      |-> <<"ProcessOrderInventoryResult">>,
   InventoryRejected      |-> <<"ProcessOrderInventoryResult">>,
   OrderInventoryReserved |-> <<"ProcessOrderInventoryReserved">>,
   PaymentAuthorized      |-> <<"ProcessOrderPaymentResult">>,
   PaymentRejected        |-> <<"ProcessPaymentRejected", "ProcessOrderPaymentResult">>,
   OrderPaymentAuthorized |-> <<"FinalizePaymentAuthorized">>,
   OrderConfirmed         |-> <<"ProcessOrderNotification">>,
   OrderCancelled         |-> <<"ProcessOrderNotification">>]

Wanted(o) == {p \in Products : Demand[o][p] > 0}

\* An outbox row: the n-th event of its type for its order. The row id is the
\* message id, so every copy of a row is the same event to a consumer.
Row(ty, o) == [type |-> ty, order |-> o, n |-> emitted[ty][o] + 1]

EventOf(m) == [type |-> m.type, order |-> m.order, n |-> m.n]

Message(e) == [type |-> e.type, order |-> e.order, n |-> e.n, copy |-> faults]

\* Insert one outbox row for o of each type in types.
Emit(o, types) ==
  /\ emitted' = [ty \in EventTypes |->
                   IF ty \in types THEN [emitted[ty] EXCEPT ![o] = @ + 1]
                                   ELSE emitted[ty]]
  /\ pending' = pending \cup {Row(ty, o) : ty \in types}

\* Mutant of Transition: the domain event is not recorded.
TransitionUnrecorded(o, status, event, out) ==
  /\ order' = [order EXCEPT ![o] = status]
  /\ UNCHANGED timeline
  /\ Emit(o, {out})

\* Overwrite the status of o, append to its timeline, emit what follows.
Transition(o, status, event, out) ==
  /\ order' = [order EXCEPT ![o] = status]
  /\ timeline' = [timeline EXCEPT ![o] = Append(@, event)]
  /\ Emit(o, {out})

Fault(kind) ==
  /\ kind \in FaultKinds
  /\ faults < MaxFaults
  /\ faults' = faults + 1

-----------------------------------------------------------------------------
Init ==
  /\ order = [o \in Orders |-> "absent"]
  /\ timeline = [o \in Orders |-> <<>>]
  /\ available = InitialStock
  /\ reserved = [p \in Products |-> 0]
  /\ adjusted = [p \in Products |-> 0]
  /\ payments = [o \in Orders |-> [s \in {"authorized", "declined"} |-> 0]]
  /\ notified = [o \in Orders |-> [ty \in TerminalEvents |-> 0]]
  /\ emitted = [ty \in EventTypes |-> [o \in Orders |-> 0]]
  /\ pending = {}
  /\ broker = {}
  /\ processed = [c \in Consumers |-> {}]
  /\ deliveries = {}
  /\ requests = {}
  /\ faults = 0

-----------------------------------------------------------------------------
(* HTTP routes.                                                            *)

\* POST /orders: the pending order, its timeline event and its outbox row
\* commit together.
CreateOrder(o) ==
  /\ o \notin SyncOrders
  /\ order[o] = "absent"
  /\ Transition(o, "pending", "OrderCreated", "OrderCreated")
  /\ UNCHANGED <<stockVars, adjusted, payments, notified, broker, processed,
                 deliveries, requests, faults>>

\* No handler holds an uncommitted write (a row lock) on the rows of ps.
Unlocked(ps) ==
  \A d \in deliveries :
    (d.stage = "reread" /\ d.seen = "inventory_reserved")
      => Wanted(d.msg.order) \cap ps = {}

\* POST /checkout: create, lock and check the stock, reserve, authorize, and
\* confirm or cancel in one transaction. Insufficient stock changes no row and
\* a declined payment gives back what was reserved. The notification that
\* follows the commit is best effort: it may be missing.
Checkout(o) ==
  /\ o \in SyncOrders
  /\ order[o] = "absent"
  /\ Unlocked(Wanted(o))
  /\ LET short == \E p \in Wanted(o) : available[p] < Demand[o][p]
         outcomes == IF short THEN {"short"} ELSE {"declined", "authorized"}
     IN \E outcome \in outcomes, sent \in {0, 1} :
          LET ok == outcome = "authorized"
              event == IF ok THEN "OrderConfirmed" ELSE "OrderCancelled"
          IN /\ order' = [order EXCEPT ![o] = IF ok THEN "confirmed" ELSE "cancelled"]
             /\ timeline' = [timeline EXCEPT ![o] = Append(@, "OrderCreated")]
             /\ Emit(o, {"OrderCreated", event})
             /\ notified' = [notified EXCEPT ![o][event] = @ + sent]
             /\ IF outcome = "short"
                  THEN UNCHANGED payments
                  ELSE payments' = [payments EXCEPT ![o][outcome] = @ + 1]
             /\ IF ok
                  THEN /\ available' = [p \in Products |-> available[p] - Demand[o][p]]
                       /\ reserved' = [p \in Products |-> reserved[p] + Demand[o][p]]
                  ELSE UNCHANGED stockVars
  /\ UNCHANGED <<adjusted, broker, processed, deliveries, requests, faults>>

\* POST /inventory/{p}/adjust: the row is locked, refused below zero.
AdjustStock(p, delta) ==
  /\ Unlocked({p})
  /\ available[p] + delta >= 0
  /\ adjusted[p] + delta \in -MaxAdjust..MaxAdjust
  /\ available' = [available EXCEPT ![p] = @ + delta]
  /\ adjusted' = [adjusted EXCEPT ![p] = @ + delta]
  /\ UNCHANGED <<orderVars, reserved, payments, notified, outboxVars, broker,
                 processed, deliveries, requests, faults>>

\* Mutant of Accepts: confirming needs no authorized payment.
AcceptsUnpaid(op, status) ==
  IF op = "confirm" THEN status \in {"inventory_reserved", "payment_authorized"}
                    ELSE Moves(status, "cancelled")

\* The operator's policy on the status the request read. A retry on an order
\* already there and a 409 change nothing and are no step of the model.
Accepts(op, status) ==
  IF op = "confirm" THEN status = "payment_authorized"
                    ELSE Moves(status, "cancelled")

\* POST /orders/{o}/confirm or cancel reads the order, without a lock ...
ReadForRequest(c, op, o) ==
  /\ \A q \in requests : q.click # c
  /\ Accepts(op, order[o])
  /\ requests' = requests \cup {[click |-> c, op |-> op, order |-> o, open |-> TRUE]}
  /\ UNCHANGED <<orderVars, stockVars, adjusted, payments, notified, outboxVars,
                 broker, processed, deliveries, faults>>

\* ... and writes the status it decided on. Stock is left alone.
ConfirmOrder(q) ==
  /\ q.op = "confirm"
  /\ Transition(q.order, "confirmed", "OrderConfirmed", "OrderConfirmed")

CancelOrder(q) ==
  /\ q.op = "cancel"
  /\ Transition(q.order, "cancelled", "OrderCancelled", "OrderCancelled")

CommitRequest(q) ==
  /\ q.open
  /\ ConfirmOrder(q) \/ CancelOrder(q)
  /\ requests' = (requests \ {q}) \cup {[q EXCEPT !.open = FALSE]}
  /\ UNCHANGED <<stockVars, adjusted, payments, notified, broker, processed,
                 deliveries, faults>>

-----------------------------------------------------------------------------
(* The outbox worker.                                                      *)

\* Mutant of Publish: the row is marked although the broker never got it.
PublishLost(e) ==
  /\ pending' = pending \ {e}
  /\ UNCHANGED <<orderVars, stockVars, adjusted, payments, notified, emitted, broker,
                 processed, deliveries, requests, faults>>

\* A pending row is published and its mark commits ...
Publish(e) ==
  /\ broker' = broker \cup {Message(e)}
  /\ pending' = pending \ {e}
  /\ UNCHANGED <<orderVars, stockVars, adjusted, payments, notified, emitted,
                 processed, deliveries, requests, faults>>

\* ... or the worker dies before the commit: the row stays pending and will be
\* published again under the same message id.
PublishUnmarked(e) ==
  /\ Fault("republish")
  /\ broker' = broker \cup {Message(e)}
  /\ UNCHANGED <<orderVars, stockVars, adjusted, payments, notified, outboxVars,
                 processed, deliveries, requests>>

-----------------------------------------------------------------------------
(* Delivery: one message per queue and replica (prefetch 1), one database  *)
(* transaction per message, acknowledged after the commit.                 *)

NoView == [p \in Products |-> 0]

Done(m) == EventOf(m) \in processed[ClaimsOf[m.type][1]]

\* The broker hands m to replica r; the handler asks is_processed first and
\* then reads the order (the notifier does not). An event already processed is
\* acknowledged at once.
Deliver(r, m) ==
  /\ \A d \in deliveries :
       d.attached => /\ d.msg # m
                     /\ ~(d.replica = r /\ QueueOf[d.msg.type] = QueueOf[m.type])
  /\ IF Done(m)
       THEN broker' = broker \ {m} /\ UNCHANGED deliveries
       ELSE /\ deliveries' = deliveries \cup
                 {[replica |-> r, msg |-> m, attached |-> TRUE, stage |-> "status",
                   seen |-> IF m.type \in TerminalEvents THEN "absent" ELSE order[m.order],
                   reread |-> "absent",
                   available |-> NoView, reserved |-> NoView]}
            /\ UNCHANGED broker
  /\ UNCHANGED <<orderVars, stockVars, adjusted, payments, notified, outboxVars,
                 processed, requests, faults>>

NeedsStock(d) ==
  \/ d.msg.type = "OrderCreated" /\ d.seen \notin Terminal
  \/ d.msg.type = "PaymentRejected" /\ d.seen = "inventory_reserved"

Replace(d, e) == deliveries' = (deliveries \ {d}) \cup {e}

\* The handler reads the stock rows of the order's lines (plain SELECT).
ReadStock(d) ==
  /\ d.stage = "status"
  /\ NeedsStock(d)
  /\ LET view(row) == [p \in Products |->
                         IF p \in Wanted(d.msg.order) THEN row[p] ELSE 0]
     IN Replace(d, [d EXCEPT !.stage = "stock", !.available = view(available),
                             !.reserved = view(reserved)])
  /\ UNCHANGED <<orderVars, stockVars, adjusted, payments, notified, outboxVars,
                 broker, processed, requests, faults>>

\* A PaymentRejected delivery has run the compensation (whose stock writes now
\* hold their row locks until the commit) and the orders handler starts: its own
\* is_processed check, then a second read of the order. "absent" stands for
\* having found the event processed.
RereadOrder(d) ==
  /\ d.msg.type = "PaymentRejected"
  /\ IF NeedsStock(d) THEN d.stage = "stock" /\ Unlocked(Wanted(d.msg.order))
                      ELSE d.stage = "status"
  /\ Replace(d, [d EXCEPT !.stage = "reread",
                   !.reread = IF EventOf(d.msg) \in processed["ProcessOrderPaymentResult"]
                                THEN "absent" ELSE order[d.msg.order]])
  /\ UNCHANGED <<orderVars, stockVars, adjusted, payments, notified, outboxVars,
                 broker, processed, requests, faults>>

\* Mutant of Complete: the handler forgets mark_processed.
CompleteUnclaimed(d) ==
  /\ deliveries' = deliveries \ {d}
  /\ broker' = IF d.attached THEN broker \ {d.msg} ELSE broker
  /\ UNCHANGED <<processed, adjusted, requests, faults>>

\* The transaction commits: the claims are recorded (mark_processed looks again
\* and stays silent when another delivery has committed meanwhile) and the
\* message is acknowledged, if its channel is still there.
Complete(d) ==
  /\ deliveries' = deliveries \ {d}
  /\ processed' = [c \in Consumers |->
                     IF \E i \in DOMAIN ClaimsOf[d.msg.type] : ClaimsOf[d.msg.type][i] = c
                       THEN processed[c] \cup {EventOf(d.msg)} ELSE processed[c]]
  /\ broker' = IF d.attached THEN broker \ {d.msg} ELSE broker
  /\ UNCHANGED <<adjusted, requests, faults>>

\* The other outcome of two overlapping deliveries of one event: this one looked
\* before the other committed, its INSERT meets the primary key, everything is
\* rolled back and the message is requeued. A handler that raises does the same.
Rollback(d) ==
  /\ \/ Done(d.msg)
     \/ d.msg.type = "InventoryReserved" /\ Raises(d.seen, "inventory_reserved")
                                         /\ d.seen \notin Terminal
  /\ deliveries' = deliveries \ {d}
  /\ UNCHANGED <<orderVars, stockVars, adjusted, payments, notified, outboxVars,
                 broker, processed, requests, faults>>

\* Leave the order, its timeline and the outbox as they are: the handler only
\* claims the event.
ClaimOnly == UNCHANGED <<orderVars, outboxVars>>

\* inventory: reserve the lines in their order; on the first one that does not
\* fit, the lines already saved stay saved and the rejection is emitted. The
\* order of the lines is the client's: any of the fitting ones may come first.
Reserve(d, lines) ==
  LET units(p) == IF p \in lines THEN Demand[d.msg.order][p] ELSE 0
  IN /\ Unlocked(lines)
     /\ available' = [p \in Products |->
          IF p \in lines THEN d.available[p] - units(p) ELSE available[p]]
     /\ reserved' = [p \in Products |->
          IF p \in lines THEN d.reserved[p] + units(p) ELSE reserved[p]]

\* Mutant of ProcessInventoryReservation: availability is not checked.
ReserveUnchecked(d) ==
  LET o == d.msg.order
  IN /\ d.msg.type = "OrderCreated"
     /\ Complete(d)
     /\ IF d.seen \in Terminal
          THEN UNCHANGED <<stockVars, outboxVars>>
          ELSE /\ d.stage = "stock"
               /\ Reserve(d, Wanted(o))
               /\ Emit(o, {"InventoryReserved"})
     /\ UNCHANGED <<orderVars, payments, notified>>

\* Mutant of ProcessInventoryReservation: the status of the order is ignored.
ReserveAnyStatus(d) ==
  LET o == d.msg.order
  IN /\ d.msg.type = "OrderCreated"
     /\ Complete(d)
     /\ IF d.seen \in Terminal
          THEN UNCHANGED stockVars
          ELSE d.stage = "stock" /\ Reserve(d, Wanted(o))
     /\ Emit(o, {"InventoryReserved"})
     /\ UNCHANGED <<orderVars, payments, notified>>

ProcessInventoryReservation(d) ==
  LET o == d.msg.order
      fitting == {p \in Wanted(o) : d.available[p] >= Demand[o][p]}
  IN /\ d.msg.type = "OrderCreated"
     /\ Complete(d)
     /\ \/ /\ d.seen \in Terminal
           /\ UNCHANGED <<stockVars, outboxVars>>
        \/ /\ d.stage = "stock"
           /\ fitting = Wanted(o)
           /\ Reserve(d, Wanted(o))
           /\ Emit(o, {"InventoryReserved"})
        \/ /\ d.stage = "stock"
           /\ fitting # Wanted(o)
           /\ \E saved \in SUBSET fitting : Reserve(d, saved)
           /\ Emit(o, {"InventoryRejected"})
     /\ UNCHANGED <<orderVars, payments, notified>>

\* Mutant of ProcessOrderInventoryResult: both results stage the order.
StageOnAnyResult(d) ==
  /\ Complete(d)
  /\ d.msg.type \in {"InventoryReserved", "InventoryRejected"}
  /\ IF Moves(d.seen, "inventory_reserved")
       THEN Transition(d.msg.order, "inventory_reserved", "InventoryReserved",
                       "OrderInventoryReserved")
       ELSE ClaimOnly
  /\ UNCHANGED <<stockVars, payments, notified>>

\* orders: stage the order, or cancel it for lack of stock.
ProcessOrderInventoryResult(d) ==
  LET o == d.msg.order
      live == d.seen \notin Terminal
  IN /\ Complete(d)
     /\ \/ /\ d.msg.type = "InventoryReserved"
           /\ IF live /\ Moves(d.seen, "inventory_reserved")
                THEN Transition(o, "inventory_reserved", "InventoryReserved",
                                "OrderInventoryReserved")
                ELSE ~(live /\ Raises(d.seen, "inventory_reserved")) /\ ClaimOnly
        \/ /\ d.msg.type = "InventoryRejected"
           /\ IF live
                THEN Transition(o, "cancelled", "InventoryRejected", "OrderCancelled")
                ELSE ClaimOnly
     /\ UNCHANGED <<stockVars, payments, notified>>

\* payments: charge an order seen in inventory_reserved. The total derived from
\* the catalog and the provider's policy decide; "underivable" leaves no row.
ProcessOrderInventoryReserved(d) ==
  LET o == d.msg.order
  IN /\ d.msg.type = "OrderInventoryReserved"
     /\ Complete(d)
     /\ \/ /\ d.seen # "inventory_reserved"
           /\ UNCHANGED <<payments, outboxVars>>
        \/ /\ d.seen = "inventory_reserved"
           /\ payments' = [payments EXCEPT ![o]["authorized"] = @ + 1]
           /\ Emit(o, {"PaymentAuthorized"})
        \/ /\ d.seen = "inventory_reserved"
           /\ \/ payments' = [payments EXCEPT ![o]["declined"] = @ + 1]
              \/ UNCHANGED payments
           /\ Emit(o, {"PaymentRejected"})
     /\ UNCHANGED <<orderVars, stockVars, notified>>

\* Mutant of ProcessPaymentAuthorized: the order is confirmed at once.
ConfirmOnAuthorization(d) ==
  /\ d.msg.type = "PaymentAuthorized"
  /\ Complete(d)
  /\ IF d.seen = "inventory_reserved"
       THEN Transition(d.msg.order, "confirmed", "PaymentAuthorized", "OrderConfirmed")
       ELSE ClaimOnly
  /\ UNCHANGED <<stockVars, payments, notified>>

\* orders: advance an order whose payment was authorized ...
ProcessPaymentAuthorized(d) ==
  /\ d.msg.type = "PaymentAuthorized"
  /\ Complete(d)
  /\ IF d.seen = "inventory_reserved"
       THEN Transition(d.msg.order, "payment_authorized", "PaymentAuthorized",
                       "OrderPaymentAuthorized")
       ELSE ClaimOnly
  /\ UNCHANGED <<stockVars, payments, notified>>

\* Mutant of ProcessPaymentRejected: the order is cancelled first, so that the
\* compensation's guard never lets it release.
CancelBeforeRelease(d) ==
  /\ d.msg.type = "PaymentRejected"
  /\ d.stage = "reread"
  /\ Complete(d)
  /\ IF d.reread = "inventory_reserved"
       THEN Transition(d.msg.order, "cancelled", "PaymentRejected", "OrderCancelled")
       ELSE ClaimOnly
  /\ UNCHANGED <<stockVars, payments, notified>>

\* ... and on a rejection release the reserved units, then cancel, each guarded
\* by its own read of the order.
ProcessPaymentRejected(d) ==
  LET o == d.msg.order
  IN /\ d.msg.type = "PaymentRejected"
     /\ d.stage = "reread"
     /\ Complete(d)
     /\ IF d.seen = "inventory_reserved"
          THEN /\ available' = [p \in Products |-> IF p \in Wanted(o)
                     THEN d.available[p] + Demand[o][p] ELSE available[p]]
               /\ reserved' = [p \in Products |-> IF p \in Wanted(o)
                     THEN d.reserved[p] - Demand[o][p] ELSE reserved[p]]
          ELSE UNCHANGED stockVars
     /\ IF d.reread = "inventory_reserved"
          THEN Transition(o, "cancelled", "PaymentRejected", "OrderCancelled")
          ELSE ClaimOnly
     /\ UNCHANGED <<payments, notified>>

\* orders: confirm an order still staged in payment_authorized.
FinalizePaymentAuthorized(d) ==
  /\ d.msg.type = "OrderPaymentAuthorized"
  /\ Complete(d)
  /\ IF d.seen = "payment_authorized"
       THEN Transition(d.msg.order, "confirmed", "OrderPaymentAuthorized",
                       "OrderConfirmed")
       ELSE ClaimOnly
  /\ UNCHANGED <<stockVars, payments, notified>>

\* Mutant of ProcessOrderNotification: a cancellation is claimed, not notified.
NotifyConfirmedOnly(d) ==
  /\ d.msg.type \in TerminalEvents
  /\ Complete(d)
  /\ IF d.msg.type = "OrderConfirmed"
       THEN notified' = [notified EXCEPT ![d.msg.order][d.msg.type] = @ + 1]
       ELSE UNCHANGED notified
  /\ ClaimOnly
  /\ UNCHANGED <<stockVars, payments>>

\* notifications: one row per terminal event.
ProcessOrderNotification(d) ==
  /\ d.msg.type \in TerminalEvents
  /\ Complete(d)
  /\ notified' = [notified EXCEPT ![d.msg.order][d.msg.type] = @ + 1]
  /\ ClaimOnly
  /\ UNCHANGED <<stockVars, payments>>

Handle(d) ==
  \/ ProcessInventoryReservation(d)
  \/ ProcessOrderInventoryResult(d)
  \/ ProcessOrderInventoryReserved(d)
  \/ ProcessPaymentAuthorized(d)
  \/ ProcessPaymentRejected(d)
  \/ FinalizePaymentAuthorized(d)
  \/ ProcessOrderNotification(d)

-----------------------------------------------------------------------------
(* Faults of a delivery.                                                   *)

\* The handler fails or its process dies before the commit: rolled back, and
\* the unacknowledged message is delivered again.
Crash(d) ==
  /\ Fault("crash")
  /\ deliveries' = deliveries \ {d}
  /\ UNCHANGED <<orderVars, stockVars, adjusted, payments, notified, outboxVars,
                 broker, processed, requests>>

\* The connection to the broker drops while the handler runs: the message is
\* ready again, the handler goes on, and its acknowledgement will be lost.
Reconnect(d) ==
  /\ d.attached
  /\ Fault("reconnect")
  /\ Replace(d, [d EXCEPT !.attached = FALSE])
  /\ UNCHANGED <<orderVars, stockVars, adjusted, payments, notified, outboxVars,
                 broker, processed, requests>>

-----------------------------------------------------------------------------
Shoppers == \E o \in Orders : CreateOrder(o) \/ Checkout(o)

Operators ==
  \/ \E p \in Products, delta \in Deltas : AdjustStock(p, delta)
  \/ \E c \in Clicks, op \in {"confirm", "cancel"}, o \in Orders :
        ReadForRequest(c, op, o)

\* What the running system does by itself: it settles the requests it started,
\* forwards the outbox and consumes its queues.
Settle == \E q \in requests : CommitRequest(q)

Forward == \E e \in pending : Publish(e)

Consume(queue) ==
  \/ \E r \in Replicas, m \in broker :
       QueueOf[m.type] = queue /\ Deliver(r, m)
  \/ \E d \in deliveries :
       /\ QueueOf[d.msg.type] = queue
       /\ ReadStock(d) \/ RereadOrder(d) \/ Rollback(d) \/ Handle(d)

Faults ==
  \/ \E e \in pending : PublishUnmarked(e)
  \/ \E d \in deliveries : Crash(d) \/ Reconnect(d)

Next ==
  \/ Shoppers
  \/ Operators
  \/ Settle
  \/ Forward
  \/ \E queue \in Queues : Consume(queue)
  \/ Faults

Spec == Init /\ [][Next]_vars

\* The scheduler loop and the consumer of each queue never stop while the
\* application runs, and a request that has started ends. A consumer may be kept
\* busy by a message it requeues; shoppers and operators owe nothing.
FairSpec ==
  /\ Spec
  /\ WF_vars(Settle)
  /\ WF_vars(Forward)
  /\ \A queue \in Queues : WF_vars(Consume(queue))
=============================================================================
