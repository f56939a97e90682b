-------------------------------- MODULE Runtime --------------------------------
(***************************************************************************)
(* The messaging runtime of each process: the task that publishes the      *)
(* outbox in batches, the tasks that connect the publisher and the         *)
(* consumer to the broker and retry until they do, and the shutdown.  The  *)
(* processes share the outbox table and one durable queue; what a handler  *)
(* does with an event is Choreography's subject, here it is handled or it  *)
(* is not.  Steps fall between the awaits: a process may be stopped, or    *)
(* die, between the acceptance of a message and the commit of its mark.    *)
(***************************************************************************)
EXTENDS Naturals, FiniteSets

CONSTANTS
  Workers,    \* processes that run the application
  Rows,       \* outbox rows, numbered in the order of their created_at
  Batch,      \* the batch size of the outbox worker
  MaxFaults,  \* bound: stops, crashes, outages and failures
  NoDelivery

ASSUME BatchAssumption == Rows \subseteq Nat /\ Batch \in Nat \ {0} /\ MaxFaults \in Nat
ASSUME WorkersAssumption == IsFiniteSet(Workers)
ASSUME SentinelAssumption == NoDelivery \notin [row : Rows, done : BOOLEAN]

VARIABLES
  status,    \* status[r]: what is committed of row r
  life,      \* life[w]: where w is between start and the end of stop
  sched,     \* sched[w]: the scheduler task
  locked,    \* locked[w]: rows locked by w's open transaction
  todo,      \* todo[w]: those it has not tried to publish yet
  marked,    \* marked[w]: those it has marked published, not committed
  pub,       \* pub[w]: the publisher
  cons,      \* cons[w]: the consumer
  delivery,  \* delivery[w]: the unacknowledged message w holds
  broker,    \* whether the broker answers
  bound,     \* whether the durable queue has been declared and bound
  queued,    \* queued[r]: copies of r in the queue
  copies,    \* copies[r]: copies of r the queue ever accepted
  returned,  \* rows the broker could not route to any queue
  handled,   \* rows a handler's transaction has committed
  faults

batchVars == <<sched, locked, todo, marked>>
linkVars == <<pub, cons, delivery>>
queueVars == <<bound, queued, copies, returned>>
vars == <<status, life, batchVars, linkVars, broker, queueVars, handled, faults>>

Init ==
  /\ status = [r \in Rows |-> "none"]
  /\ life = [w \in Workers |-> "down"]
  /\ sched = [w \in Workers |-> "off"]
  /\ locked = [w \in Workers |-> {}]
  /\ todo = [w \in Workers |-> {}]
  /\ marked = [w \in Workers |-> {}]
  /\ pub = [w \in Workers |-> "off"]
  /\ cons = [w \in Workers |-> "off"]
  /\ delivery = [w \in Workers |-> NoDelivery]
  /\ broker \in {"up", "down"} /\ bound = FALSE
  /\ queued = [r \in Rows |-> 0]
  /\ copies = [r \in Rows |-> 0]
  /\ returned = {} /\ handled = {}
  /\ faults = 0

Fault == faults < MaxFaults /\ faults' = faults + 1

\* A transaction that emits an event commits its outbox row.
Save(r) ==
  /\ status[r] = "none"
  /\ status' = [status EXCEPT ![r] = "pending"]
  /\ UNCHANGED <<life, batchVars, linkVars, broker, queueVars, handled, faults>>

\* MessagingRuntime.start: three tasks, and no wait for the broker.
Start(w) ==
  /\ life[w] = "down"
  /\ life' = [life EXCEPT ![w] = "up"]
  /\ sched' = [sched EXCEPT ![w] = "waiting"]
  /\ pub' = [pub EXCEPT ![w] = "connecting"]
  /\ cons' = [cons EXCEPT ![w] = "connecting"]
  /\ UNCHANGED <<status, locked, todo, marked, delivery, broker, queueVars, handled,
                 faults>>

-----------------------------------------------------------------------------
\* The outbox worker.

Pending == {r \in Rows : status[r] = "pending"}

FirstOf(S, n) == {r \in S : Cardinality({q \in S : q < r}) < n}

\* Mutant of Claimable: FOR UPDATE SKIP LOCKED is dropped.
AnyPending == Pending

\* FOR UPDATE SKIP LOCKED: the pending rows no other transaction has locked.
Claimable == Pending \ UNION {locked[w] : w \in Workers}

\* run_once opens its transaction and claims the oldest rows.
BeginBatch(w) ==
  LET batch == FirstOf(Claimable, Batch)
  IN /\ sched[w] = "waiting"
     /\ batch # {}
     /\ sched' = [sched EXCEPT ![w] = "publishing"]
     /\ locked' = [locked EXCEPT ![w] = batch]
     /\ todo' = [todo EXCEPT ![w] = batch]
     /\ UNCHANGED <<status, life, marked, linkVars, broker, queueVars, handled, faults>>

\* The next row the batch publishes.
Next1(w, r) == sched[w] = "publishing" /\ FirstOf(todo[w], 1) = {r}

Connected(w) == pub[w] = "connected" /\ broker = "up"

\* The broker accepts r: persistent, into the durable queue bound to its event
\* type, or back to the publisher when nothing is bound yet.
Accept(r) ==
  \/ /\ bound
     /\ queued' = [queued EXCEPT ![r] = @ + 1]
     /\ copies' = [copies EXCEPT ![r] = @ + 1]
     /\ UNCHANGED <<bound, returned>>
  \/ /\ ~bound
     /\ returned' = returned \cup {r}
     /\ UNCHANGED <<bound, queued, copies>>

\* Mutant of Publish: a row that could not be published is marked all the same.
PublishAndMark(w, r) ==
  /\ Next1(w, r)
  /\ todo' = [todo EXCEPT ![w] = @ \ {r}]
  /\ marked' = [marked EXCEPT ![w] = @ \cup {r}]
  /\ \/ Connected(w) /\ Accept(r)
     \/ ~Connected(w) /\ UNCHANGED queueVars
  /\ UNCHANGED <<status, life, sched, locked, linkVars, broker, handled, faults>>

\* The row is published and marked; a publisher that is not connected raises, and
\* the batch goes on with the next row.
Publish(w, r) ==
  /\ Next1(w, r)
  /\ todo' = [todo EXCEPT ![w] = @ \ {r}]
  /\ \/ Connected(w) /\ Accept(r) /\ marked' = [marked EXCEPT ![w] = @ \cup {r}]
     \/ ~Connected(w) /\ UNCHANGED <<queueVars, marked>>
  /\ UNCHANGED <<status, life, sched, locked, linkVars, broker, handled, faults>>

\* publish raises although the broker may have accepted the message: not marked.
PublishUnconfirmed(w, r) ==
  /\ Next1(w, r) /\ Connected(w)
  /\ Fault
  /\ todo' = [todo EXCEPT ![w] = @ \ {r}]
  /\ Accept(r) \/ UNCHANGED queueVars
  /\ UNCHANGED <<status, life, sched, locked, marked, linkVars, broker, handled>>

\* The transaction ends and the task is in state s.
EndBatch(w, s) ==
  /\ sched' = [sched EXCEPT ![w] = s]
  /\ locked' = [locked EXCEPT ![w] = {}]
  /\ todo' = [todo EXCEPT ![w] = {}]
  /\ marked' = [marked EXCEPT ![w] = {}]

CommitBatch(w) ==
  /\ sched[w] = "publishing" /\ todo[w] = {}
  /\ status' = [r \in Rows |-> IF r \in marked[w] THEN "published" ELSE status[r]]
  /\ EndBatch(w, "waiting")
  /\ UNCHANGED <<life, linkVars, broker, queueVars, handled, faults>>

\* Mutant of CommitFails: the exception ends the scheduler's loop.
CommitFailureEndsLoop(w) ==
  /\ sched[w] = "publishing" /\ todo[w] = {}
  /\ Fault
  /\ EndBatch(w, "off")
  /\ UNCHANGED <<status, life, linkVars, broker, queueVars, handled>>

\* The database refuses the commit: the marks are rolled back, the loop goes on.
CommitFails(w) ==
  /\ sched[w] = "publishing" /\ todo[w] = {}
  /\ Fault
  /\ EndBatch(w, "waiting")
  /\ UNCHANGED <<status, life, linkVars, broker, queueVars, handled>>

-----------------------------------------------------------------------------
\* The connections.

ConnectPublisher(w) ==
  /\ pub[w] = "connecting" /\ broker = "up"
  /\ pub' = [pub EXCEPT ![w] = "connected"]
  /\ UNCHANGED <<status, life, batchVars, cons, delivery, broker, queueVars, handled,
                 faults>>

\* The consumer's connect declares the durable queues and binds them ...
DeclareQueues(w) ==
  /\ cons[w] = "connecting" /\ broker = "up"
  /\ cons' = [cons EXCEPT ![w] = "connected"]
  /\ bound' = TRUE
  /\ UNCHANGED <<status, life, batchVars, pub, delivery, broker, queued, copies,
                 returned, handled, faults>>

\* ... and its start consumes them; if that fails the retry loop connects again.
StartConsuming(w) ==
  /\ cons[w] = "connected"
  /\ cons' = [cons EXCEPT ![w] = IF broker = "up" THEN "consuming" ELSE "connecting"]
  /\ UNCHANGED <<status, life, batchVars, pub, delivery, broker, queueVars, handled,
                 faults>>

\* One message at a time: prefetch_count is 1.
Deliver(w, r) ==
  /\ cons[w] = "consuming" /\ broker = "up"
  /\ delivery[w] = NoDelivery
  /\ queued[r] > 0
  /\ queued' = [queued EXCEPT ![r] = @ - 1]
  /\ delivery' = [delivery EXCEPT ![w] = [row |-> r, done |-> FALSE]]
  /\ UNCHANGED <<status, life, batchVars, pub, cons, broker, bound, copies, returned,
                 handled, faults>>

Holds(w, done) == delivery[w] # NoDelivery /\ delivery[w].done = done

\* The handler's transaction commits ...
Handle(w) ==
  /\ Holds(w, FALSE)
  /\ handled' = handled \cup {delivery[w].row}
  /\ delivery' = [delivery EXCEPT ![w].done = TRUE]
  /\ UNCHANGED <<status, life, batchVars, pub, cons, broker, queueVars, faults>>

\* ... and only then is the message acknowledged.
Ack(w) ==
  /\ Holds(w, TRUE)
  /\ delivery' = [delivery EXCEPT ![w] = NoDelivery]
  /\ UNCHANGED <<status, life, batchVars, pub, cons, broker, queueVars, handled, faults>>

\* Unacknowledged messages of the workers in W go back to the queue.
Requeue(W) ==
  /\ delivery' = [w \in Workers |-> IF w \in W THEN NoDelivery ELSE delivery[w]]
  /\ queued' = [r \in Rows |-> queued[r] +
       Cardinality({w \in W : delivery[w] # NoDelivery /\ delivery[w].row = r})]

\* The handler raises: its transaction is rolled back, nack(requeue=True).
HandlerFails(w) ==
  /\ Holds(w, FALSE)
  /\ Fault
  /\ Requeue({w})
  /\ UNCHANGED <<status, life, batchVars, pub, cons, broker, bound, copies, returned,
                 handled>>

\* A handler whose message is taken back may still commit.
LateCommits(W) ==
  \E S \in SUBSET {w \in W : Holds(w, FALSE)} :
    handled' = handled \cup {delivery[w].row : w \in S}

\* The broker stops or becomes unreachable. Its queues and messages are durable,
\* and robust connections come back with it.
BrokerDown ==
  /\ broker = "up"
  /\ Fault
  /\ broker' = "down"
  /\ Requeue(Workers) /\ LateCommits(Workers)
  /\ UNCHANGED <<status, life, batchVars, pub, cons, bound, copies, returned>>

BrokerUp ==
  /\ broker = "down"
  /\ broker' = "up"
  /\ UNCHANGED <<status, life, batchVars, linkVars, queueVars, handled, faults>>

-----------------------------------------------------------------------------
\* The shutdown.

\* stop sets the event and cancels the scheduler wherever it is: its transaction
\* is rolled back, what it has published stays published.
Stop(w) ==
  /\ life[w] = "up"
  /\ Fault
  /\ life' = [life EXCEPT ![w] = "stopping"]
  /\ EndBatch(w, "off")
  /\ UNCHANGED <<status, linkVars, broker, queueVars, handled>>

\* Mutant of CancelTasks: the connection attempts are awaited, not cancelled.
AwaitTasks(w) ==
  /\ life[w] = "stopping"
  /\ pub[w] # "connecting" /\ cons[w] \notin {"connecting", "connected"}
  /\ life' = [life EXCEPT ![w] = "cancelled"]
  /\ UNCHANGED <<status, batchVars, linkVars, broker, queueVars, handled, faults>>

\* Then the tasks that may still be connecting are cancelled ...
CancelTasks(w) ==
  /\ life[w] = "stopping"
  /\ life' = [life EXCEPT ![w] = "cancelled"]
  /\ pub' = [pub EXCEPT ![w] = IF @ = "connecting" THEN "off" ELSE @]
  /\ cons' = [cons EXCEPT ![w] = IF @ = "consuming" THEN @ ELSE "off"]
  /\ UNCHANGED <<status, batchVars, delivery, broker, queueVars, handled, faults>>

\* ... the publisher is closed ...
ClosePublisher(w) ==
  /\ life[w] = "cancelled"
  /\ life' = [life EXCEPT ![w] = "closing"]
  /\ pub' = [pub EXCEPT ![w] = "off"]
  /\ UNCHANGED <<status, batchVars, cons, delivery, broker, queueVars, handled, faults>>

\* ... and the consumer, whose unacknowledged message goes back to the queue.
CloseConsumer(w) ==
  /\ life[w] = "closing"
  /\ life' = [life EXCEPT ![w] = "down"]
  /\ cons' = [cons EXCEPT ![w] = "off"]
  /\ Requeue({w}) /\ LateCommits({w})
  /\ UNCHANGED <<status, batchVars, pub, broker, bound, copies, returned, faults>>

\* The process dies, or the lifespan gives up on a stop that takes too long.
Crash(w) ==
  /\ life[w] # "down"
  /\ Fault
  /\ life' = [life EXCEPT ![w] = "down"]
  /\ pub' = [pub EXCEPT ![w] = "off"]
  /\ cons' = [cons EXCEPT ![w] = "off"]
  /\ EndBatch(w, "off")
  /\ Requeue({w})
  /\ UNCHANGED <<status, broker, bound, copies, returned, handled>>

Schedule(w) ==
  \/ BeginBatch(w)
  \/ \E r \in Rows : Publish(w, r)
  \/ CommitBatch(w)

Consume(w) ==
  \/ DeclareQueues(w)
  \/ StartConsuming(w)
  \/ \E r \in Rows : Deliver(w, r)
  \/ Handle(w)
  \/ Ack(w)

Shut(w) == CancelTasks(w) \/ ClosePublisher(w) \/ CloseConsumer(w)

Fail(w) ==
  \/ \E r \in Rows : PublishUnconfirmed(w, r)
  \/ CommitFails(w)
  \/ HandlerFails(w)
  \/ Crash(w)

Next ==
  \/ \E r \in Rows : Save(r)
  \/ \E w \in Workers : \/ Start(w) \/ Stop(w)
                        \/ Schedule(w) \/ ConnectPublisher(w) \/ Consume(w)
                        \/ Shut(w) \/ Fail(w)
  \/ BrokerDown
  \/ BrokerUp

Spec == Init /\ [][Next]_vars

\* The scheduler, the two connection tasks and a stop that has begun are tasks of
\* their own on the event loop, and each keeps running. Nobody owes a start, an
\* event or the return of the broker.
FairSpec ==
  /\ Spec
  /\ \A w \in Workers : /\ WF_vars(Schedule(w)) /\ WF_vars(ConnectPublisher(w))
                        /\ WF_vars(Consume(w)) /\ WF_vars(Shut(w))

-----------------------------------------------------------------------------
\* Every variable stays in its type.
TypeOK ==
  /\ status \in [Rows -> {"none", "pending", "published"}]
  /\ life \in [Workers -> {"down", "up", "stopping", "cancelled", "closing"}]
  /\ sched \in [Workers -> {"off", "waiting", "publishing"}]
  /\ locked \in [Workers -> SUBSET Rows]
  /\ todo \in [Workers -> SUBSET Rows]
  /\ marked \in [Workers -> SUBSET Rows]
  /\ pub \in [Workers -> {"off", "connecting", "connected"}]
  /\ cons \in [Workers -> {"off", "connecting", "connected", "consuming"}]
  /\ delivery \in [Workers -> [row : Rows, done : BOOLEAN] \cup {NoDelivery}]
  /\ broker \in {"up", "down"} /\ bound \in BOOLEAN
  /\ queued \in [Rows -> Nat] /\ copies \in [Rows -> Nat]
  /\ returned \subseteq Rows /\ handled \subseteq Rows
  /\ faults \in 0..MaxFaults

\* A row committed as published is not lost: unless the broker returned it as
\* unroutable, it is in the queue, in a consumer's hands or handled, whichever
\* processes stop, die or lose the broker meanwhile.
NoEventLost ==
  \A r \in Rows :
    status[r] = "published" /\ r \notin returned =>
      \/ queued[r] > 0
      \/ \E w \in Workers : delivery[w] # NoDelivery /\ delivery[w].row = r
      \/ r \in handled

\* However many processes run a worker over the same table, an event is published
\* a second time only where something was stopped or failed: SKIP LOCKED claims a
\* row for one of them, and the commit of its mark retires it.
DuplicatesCostFaults == \A r \in Rows : copies[r] <= 1 + faults

\* "Shutdown closes": a stop ends, also while the broker is away and the
\* connections are still being tried.
StopFinishes ==
  \A w \in Workers : life[w] = "stopping" ~> life[w] = "down"

\* Once some process stays up and the broker answers, every committed event is
\* handled, except those published before any queue was there.
EveryEventHandled ==
  <>[](broker = "up" /\ \E w \in Workers : life[w] = "up")
    => \A r \in Rows : status[r] = "pending" ~> r \in handled \cup returned
=============================================================================
