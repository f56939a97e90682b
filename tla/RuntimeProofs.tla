---------------------------- MODULE RuntimeProofs -----------------------------
(***************************************************************************)
(* The messaging runtime loses no committed event and publishes none twice *)
(* for free, for every number of processes and rows, every batch size and  *)
(* every pattern of stops, crashes and outages.  The argument: a mark is   *)
(* made after the broker's answer and committed after the mark, so a mark  *)
(* is evidence of an accepted message (Evidence); and a pending row is     *)
(* locked by one transaction at a time (Batches), so an acceptance without *)
(* a mark that survives was paid with a fault (Paid).                      *)
(***************************************************************************)
EXTENDS Runtime, FiniteSetTheorems, TLAPS

\* The rows a process has marked or has still to try are distinct, among those it
\* locked, which are pending and which no other process has locked.
Batches ==
  /\ \A w \in Workers : /\ locked[w] \subseteq Pending
                        /\ todo[w] \subseteq locked[w]
                        /\ marked[w] \subseteq locked[w] \ todo[w]
                        /\ sched[w] # "publishing" => locked[w] = {}
                        /\ life[w] # "up" => sched[w] = "off"
  /\ \A v, w \in Workers : v # w => locked[v] \cap locked[w] = {}

\* The queue has r, a consumer has it, or a handler's transaction has committed it.
Kept(r) ==
  \/ queued[r] > 0
  \/ \E w \in Workers : delivery[w] # NoDelivery /\ delivery[w].row = r
  \/ r \in handled

\* A consumer about to acknowledge has committed.
Acknowledged == \A w \in Workers : Holds(w, TRUE) => delivery[w].row \in handled

Marked(r) == status[r] = "published" \/ \E w \in Workers : r \in marked[w]

\* A row is marked only after the broker answered for it.
Evidence == \A r \in Rows : Marked(r) => r \in returned \/ Kept(r)

\* Only a mark stands for a copy that no fault stands for.
Paid ==
  \A r \in Rows : /\ copies[r] <= 1 + faults
                  /\ ~Marked(r) => copies[r] <= faults

RuntimeInv == TypeOK /\ Batches /\ Acknowledged /\ Evidence /\ Paid

-----------------------------------------------------------------------------
(* What the helpers do.                                                    *)

LEMMA FirstOfIsSubset ==
  ASSUME NEW S, NEW n
  PROVE  FirstOf(S, n) \subseteq S
  BY DEF FirstOf

\* Messages that go back to the queue are not lost on the way.
LEMMA RequeueKeeps ==
  ASSUME TypeOK, NEW W \in SUBSET Workers, Requeue(W)
  PROVE  /\ delivery' \in [Workers -> [row : Rows, done : BOOLEAN] \cup {NoDelivery}]
         /\ queued' \in [Rows -> Nat]
         /\ \A r \in Rows :
              \/ queued[r] > 0
              \/ \E w \in Workers : delivery[w] # NoDelivery /\ delivery[w].row = r
              => \/ queued'[r] > 0
                 \/ \E w \in Workers : delivery'[w] # NoDelivery /\ delivery'[w].row = r
  <1> DEFINE Back(r) == {w \in W : delivery[w] # NoDelivery /\ delivery[w].row = r}
  <1>1. \A r \in Rows : queued'[r] = queued[r] + Cardinality(Back(r))
    BY DEF Requeue
  <1>2. \A r \in Rows : IsFiniteSet(Back(r))
    BY WorkersAssumption, FS_Subset
  <1>3. \A r \in Rows : /\ Cardinality(Back(r)) \in Nat
                        /\ Cardinality(Back(r)) = 0 => Back(r) = {}
    BY <1>2, FS_CardinalityType, FS_EmptySet
  <1>4. delivery' \in [Workers -> [row : Rows, done : BOOLEAN] \cup {NoDelivery}]
    BY DEF Requeue, TypeOK
  <1> HIDE DEF Back
  <1>5. queued' \in [Rows -> Nat]
    BY <1>3 DEF Requeue, TypeOK, Back
  <1>6. ASSUME NEW r \in Rows, queued[r] > 0
        PROVE  queued'[r] > 0
    BY <1>1, <1>3, <1>6 DEF TypeOK
  <1>7. ASSUME NEW r \in Rows, NEW w \in Workers, delivery[w] # NoDelivery, delivery[w].row = r
        PROVE  \/ queued'[r] > 0
               \/ delivery'[w] # NoDelivery /\ delivery'[w].row = r
    <2>1. CASE w \in W
      <3>1. Back(r) # {}
        BY <1>7, <2>1 DEF Back
      <3>2. queued[r] \in Nat /\ Cardinality(Back(r)) \in Nat /\ Cardinality(Back(r)) # 0
        BY <1>3, <3>1 DEF TypeOK
      <3>3. queued'[r] > 0
        BY <1>1, <3>2
      <3> QED BY <3>3
    <2>2. CASE w \notin W
      BY <1>7, <2>2 DEF Requeue
    <2> QED BY <2>1, <2>2
  <1> QED BY <1>4, <1>5, <1>6, <1>7

LEMMA LateCommitsAdd ==
  ASSUME TypeOK, NEW W \in SUBSET Workers, LateCommits(W)
  PROVE  handled \subseteq handled' /\ handled' \subseteq Rows
  <1>1. PICK S \in SUBSET {w \in W : Holds(w, FALSE)} :
          handled' = handled \cup {delivery[w].row : w \in S}
    BY DEF LateCommits
  <1>2. \A w \in S : delivery[w].row \in Rows
    BY DEF Holds, TypeOK
  <1> QED BY <1>1, <1>2 DEF TypeOK

\* What the answer of the broker changes.
LEMMA AcceptKeeps ==
  ASSUME TypeOK, NEW r \in Rows, Accept(r)
  PROVE  /\ bound' = bound
         /\ queued' \in [Rows -> Nat] /\ copies' \in [Rows -> Nat]
         /\ returned \subseteq returned' /\ returned' \subseteq Rows
         /\ r \in returned' \/ queued'[r] > 0
         /\ \A q \in Rows : /\ queued[q] > 0 => queued'[q] > 0
                            /\ q # r => copies'[q] = copies[q]
                            /\ copies'[q] <= copies[q] + 1
  BY DEF Accept, TypeOK

-----------------------------------------------------------------------------
(* Type correctness.                                                       *)

LEMMA EndBatchType ==
  ASSUME TypeOK, NEW w \in Workers, NEW s \in {"off", "waiting"}, EndBatch(w, s)
  PROVE  /\ sched' \in [Workers -> {"off", "waiting", "publishing"}]
         /\ locked' \in [Workers -> SUBSET Rows]
         /\ todo' \in [Workers -> SUBSET Rows]
         /\ marked' \in [Workers -> SUBSET Rows]
  BY DEF EndBatch, TypeOK

LEMMA InitType == Init => TypeOK
  <1>1. 0 \in 0..MaxFaults
    BY BatchAssumption
  <1> SUFFICES ASSUME Init PROVE TypeOK
    OBVIOUS
  <1>2. /\ status \in [Rows -> {"none", "pending", "published"}]
        /\ queued \in [Rows -> Nat] /\ copies \in [Rows -> Nat]
        /\ returned \subseteq Rows /\ handled \subseteq Rows
    BY DEF Init
  <1>3. /\ locked \in [Workers -> SUBSET Rows]
        /\ todo \in [Workers -> SUBSET Rows]
        /\ marked \in [Workers -> SUBSET Rows]
    BY DEF Init
  <1>4. /\ life \in [Workers -> {"down", "up", "stopping", "cancelled", "closing"}]
        /\ sched \in [Workers -> {"off", "waiting", "publishing"}]
        /\ pub \in [Workers -> {"off", "connecting", "connected"}]
        /\ cons \in [Workers -> {"off", "connecting", "connected", "consuming"}]
        /\ delivery \in [Workers -> [row : Rows, done : BOOLEAN] \cup {NoDelivery}]
    BY DEF Init
  <1>5. broker \in {"up", "down"} /\ bound \in BOOLEAN /\ faults \in 0..MaxFaults
    BY <1>1 DEF Init
  <1> QED BY <1>2, <1>3, <1>4, <1>5 DEF TypeOK

LEMMA ScheduleType ==
  ASSUME TypeOK, NEW w \in Workers, Schedule(w)
  PROVE  TypeOK'
  <1>1. CASE BeginBatch(w)
    <2>1. FirstOf(Claimable, Batch) \subseteq Rows
      BY FirstOfIsSubset DEF Claimable, Pending
    <2> QED BY <1>1, <2>1 DEF BeginBatch, TypeOK, linkVars, queueVars
  <1>2. ASSUME NEW r \in Rows, Publish(w, r)
        PROVE  TypeOK'
    <2>1. CASE Accept(r)
      BY <1>2, <2>1, AcceptKeeps DEF Publish, TypeOK, linkVars
    <2>2. CASE UNCHANGED queueVars
      BY <1>2, <2>2 DEF Publish, TypeOK, linkVars, queueVars
    <2> QED BY <1>2, <2>1, <2>2 DEF Publish, queueVars
  <1>3. CASE CommitBatch(w)
    BY <1>3, EndBatchType DEF CommitBatch, TypeOK, linkVars, queueVars
  <1> QED BY <1>1, <1>2, <1>3 DEF Schedule

LEMMA ConsumeType ==
  ASSUME TypeOK, NEW w \in Workers, Consume(w)
  PROVE  TypeOK'
  <1>1. CASE DeclareQueues(w)
    BY <1>1 DEF DeclareQueues, TypeOK, batchVars
  <1>2. CASE StartConsuming(w)
    BY <1>2 DEF StartConsuming, TypeOK, batchVars, queueVars
  <1>3. ASSUME NEW r \in Rows, Deliver(w, r)
        PROVE  TypeOK'
    <2>1. queued' \in [Rows -> Nat]
      BY <1>3 DEF Deliver, TypeOK
    <2>2. delivery' \in [Workers -> [row : Rows, done : BOOLEAN] \cup {NoDelivery}]
      BY <1>3 DEF Deliver, TypeOK
    <2> QED BY <1>3, <2>1, <2>2 DEF Deliver, TypeOK, batchVars
  <1>4. CASE Handle(w)
    <2>1. delivery[w] \in [row : Rows, done : BOOLEAN]
      BY <1>4 DEF Handle, Holds, TypeOK
    <2>2. [delivery[w] EXCEPT !.done = TRUE] \in [row : Rows, done : BOOLEAN]
      BY <2>1
    <2>3. delivery' \in [Workers -> [row : Rows, done : BOOLEAN] \cup {NoDelivery}]
      BY <1>4, <2>2 DEF Handle, TypeOK
    <2> QED BY <1>4, <2>1, <2>3 DEF Handle, TypeOK, batchVars, queueVars
  <1>5. CASE Ack(w)
    BY <1>5 DEF Ack, TypeOK, batchVars, queueVars
  <1> QED BY <1>1, <1>2, <1>3, <1>4, <1>5 DEF Consume

LEMMA ShutType ==
  ASSUME TypeOK, NEW w \in Workers, Shut(w)
  PROVE  TypeOK'
  <1>1. CASE CancelTasks(w)
    BY <1>1 DEF CancelTasks, TypeOK, batchVars, queueVars
  <1>2. CASE ClosePublisher(w)
    BY <1>2 DEF ClosePublisher, TypeOK, batchVars, queueVars
  <1>3. CASE CloseConsumer(w)
    <2>1. handled' \subseteq Rows
      BY <1>3, LateCommitsAdd DEF CloseConsumer
    <2>2. /\ delivery' \in [Workers -> [row : Rows, done : BOOLEAN] \cup {NoDelivery}]
          /\ queued' \in [Rows -> Nat]
      BY <1>3, RequeueKeeps DEF CloseConsumer
    <2> QED BY <1>3, <2>1, <2>2 DEF CloseConsumer, TypeOK, batchVars
  <1> QED BY <1>1, <1>2, <1>3 DEF Shut

LEMMA FailType ==
  ASSUME TypeOK, NEW w \in Workers, Fail(w) \/ Stop(w)
  PROVE  TypeOK'
  <1> USE DEF Fault
  <1>0. Fault => faults' \in 0..MaxFaults
    BY BatchAssumption DEF TypeOK
  <1>1. ASSUME NEW r \in Rows, PublishUnconfirmed(w, r)
        PROVE  TypeOK'
    <2>1. CASE Accept(r)
      BY <1>0, <1>1, <2>1, AcceptKeeps DEF PublishUnconfirmed, TypeOK, linkVars
    <2>2. CASE UNCHANGED queueVars
      BY <1>0, <1>1, <2>2 DEF PublishUnconfirmed, TypeOK, linkVars, queueVars
    <2> QED BY <1>1, <2>1, <2>2 DEF PublishUnconfirmed
  <1>2. CASE CommitFails(w)
    BY <1>0, <1>2, EndBatchType DEF CommitFails, TypeOK, linkVars, queueVars
  <1>3. CASE HandlerFails(w)
    BY <1>0, <1>3, RequeueKeeps DEF HandlerFails, TypeOK, batchVars
  <1>4. CASE Crash(w)
    BY <1>0, <1>4, RequeueKeeps, EndBatchType DEF Crash, TypeOK
  <1>5. CASE Stop(w)
    BY <1>0, <1>5, EndBatchType DEF Stop, TypeOK, linkVars, queueVars
  <1> QED BY <1>1, <1>2, <1>3, <1>4, <1>5 DEF Fail

LEMMA BrokerDownType ==
  ASSUME TypeOK, BrokerDown
  PROVE  TypeOK'
  <1>1. faults' \in 0..MaxFaults
    BY BatchAssumption DEF BrokerDown, Fault, TypeOK
  <1>2. /\ delivery' \in [Workers -> [row : Rows, done : BOOLEAN] \cup {NoDelivery}]
        /\ queued' \in [Rows -> Nat]
        /\ handled' \subseteq Rows
    BY RequeueKeeps, LateCommitsAdd DEF BrokerDown
  <1> QED BY <1>1, <1>2 DEF BrokerDown, TypeOK, batchVars

\* Whatever is published, lost, requeued and shut down, every variable keeps its
\* type; a delivery always names a row.
THEOREM RuntimeTypeCorrect == Spec => []TypeOK
  <1>1. TypeOK /\ [Next]_vars => TypeOK'
    <2> SUFFICES ASSUME TypeOK, [Next]_vars PROVE TypeOK'
      OBVIOUS
    <2>1. ASSUME NEW r \in Rows, Save(r)
          PROVE  TypeOK'
      BY <2>1 DEF Save, TypeOK, batchVars, linkVars, queueVars
    <2>2. ASSUME NEW w \in Workers, Start(w)
          PROVE  TypeOK'
      BY <2>2 DEF Start, TypeOK, queueVars
    <2>3. ASSUME NEW w \in Workers, ConnectPublisher(w)
          PROVE  TypeOK'
      BY <2>3 DEF ConnectPublisher, TypeOK, batchVars, queueVars
    <2>4. CASE BrokerUp
      BY <2>4 DEF BrokerUp, TypeOK, batchVars, linkVars, queueVars
    <2>5. CASE UNCHANGED vars
      BY <2>5 DEF vars, TypeOK, batchVars, linkVars, queueVars
    <2> QED BY <2>1, <2>2, <2>3, <2>4, <2>5, ScheduleType, ConsumeType, ShutType, FailType,
               BrokerDownType DEF Next
  <1> QED BY <1>1, InitType, PTL DEF Spec

-----------------------------------------------------------------------------
(* The batches.                                                            *)

LEMMA EndBatchBatches ==
  ASSUME TypeOK, Batches, NEW w \in Workers, NEW s \in {"off", "waiting"}, EndBatch(w, s),
         \A v \in Workers : life'[v] # "up" => IF v = w THEN s = "off" ELSE life[v] # "up",
         \A r \in Pending : r \in Pending' \/ r \in marked[w]
  PROVE  Batches'
  <1>1. /\ locked'[w] = {} /\ todo'[w] = {} /\ marked'[w] = {} /\ sched'[w] = s
        /\ \A v \in Workers \ {w} : /\ locked'[v] = locked[v] /\ todo'[v] = todo[v]
                                    /\ marked'[v] = marked[v] /\ sched'[v] = sched[v]
    BY DEF EndBatch, TypeOK
  <1>2. \A v \in Workers \ {w} : locked[v] \subseteq Pending'
    BY DEF Batches
  <1>3. \A v \in Workers : life'[v] # "up" => sched'[v] = "off"
    BY <1>1 DEF Batches
  <1>4. \A v \in Workers : /\ locked'[v] \subseteq Pending'
                           /\ todo'[v] \subseteq locked'[v]
                           /\ marked'[v] \subseteq locked'[v] \ todo'[v]
                           /\ sched'[v] # "publishing" => locked'[v] = {}
    BY <1>1, <1>2 DEF Batches
  <1>5. \A u, v \in Workers : u # v => locked'[u] \cap locked'[v] = {}
    BY <1>1 DEF Batches
  <1> QED BY <1>3, <1>4, <1>5 DEF Batches

LEMMA TriedBatches ==
  ASSUME TypeOK, Batches, NEW w \in Workers, NEW r \in Rows, Next1(w, r),
         todo' = [todo EXCEPT ![w] = @ \ {r}],
         marked' = marked \/ marked' = [marked EXCEPT ![w] = @ \cup {r}],
         UNCHANGED <<status, life, sched, locked>>
  PROVE  Batches'
  <1>1. r \in todo[w]
    BY FirstOfIsSubset DEF Next1
  <1>2. \A v \in Workers : /\ todo'[v] = IF v = w THEN todo[v] \ {r} ELSE todo[v]
                           /\ marked'[v] \subseteq IF v = w THEN marked[v] \cup {r} ELSE marked[v]
    BY DEF TypeOK
  <1>3. Pending' = Pending
    BY DEF Pending
  <1>4. \A v \in Workers : /\ locked'[v] \subseteq Pending'
                           /\ todo'[v] \subseteq locked'[v]
                           /\ marked'[v] \subseteq locked'[v] \ todo'[v]
    <2> SUFFICES ASSUME NEW v \in Workers
                 PROVE  /\ locked'[v] \subseteq Pending'
                        /\ todo'[v] \subseteq locked'[v]
                        /\ marked'[v] \subseteq locked'[v] \ todo'[v]
      OBVIOUS
    <2>1. /\ locked'[v] = locked[v] /\ locked[v] \subseteq Pending
          /\ todo[v] \subseteq locked[v] /\ marked[v] \subseteq locked[v] \ todo[v]
      BY DEF Batches
    <2>2. CASE v = w
      BY <1>1, <1>2, <1>3, <2>1, <2>2
    <2>3. CASE v # w
      BY <1>2, <1>3, <2>1, <2>3
    <2> QED BY <2>2, <2>3
  <1> QED BY <1>4 DEF Batches

\* The structure of the batches survives every step.
LEMMA BatchesKept ==
  ASSUME TypeOK, Batches, [Next]_vars
  PROVE  Batches'
  <1>1. CASE UNCHANGED <<status, life, batchVars>>
    BY <1>1 DEF Batches, Pending, batchVars
  <1>2. ASSUME NEW r \in Rows, Save(r)
        PROVE  Batches'
    <2>1. Pending \subseteq Pending'
      BY <1>2 DEF Save, Pending, TypeOK
    <2> QED BY <1>2, <2>1 DEF Save, Batches, batchVars
  <1>3. ASSUME NEW w \in Workers, Start(w) \/ Shut(w)
        PROVE  Batches'
    <2>1. CASE Start(w)
      BY <1>3, <2>1 DEF Start, Batches, Pending, TypeOK
    <2>2. CASE Shut(w)
      BY <1>3, <2>2 DEF Shut, CancelTasks, ClosePublisher, CloseConsumer, batchVars, Batches,
                   Pending, TypeOK
    <2> QED BY <1>3, <2>1, <2>2
  <1>4. ASSUME NEW w \in Workers, BeginBatch(w)
        PROVE  Batches'
    <2> DEFINE batch == FirstOf(Claimable, Batch)
    <2>1. batch \subseteq Pending /\ \A v \in Workers : batch \cap locked[v] = {}
      BY FirstOfIsSubset DEF Claimable
    <2>2. /\ locked' = [locked EXCEPT ![w] = batch] /\ todo' = [todo EXCEPT ![w] = batch]
          /\ sched' = [sched EXCEPT ![w] = "publishing"] /\ sched[w] = "waiting"
          /\ UNCHANGED <<status, life, marked>>
      BY <1>4 DEF BeginBatch
    <2> HIDE DEF batch
    <2>3. marked[w] = {} /\ life[w] = "up"
      BY <2>2 DEF Batches
    <2>4. \A v \in Workers :
            /\ locked'[v] = IF v = w THEN batch ELSE locked[v]
            /\ todo'[v] = IF v = w THEN batch ELSE todo[v]
            /\ sched'[v] = IF v = w THEN "publishing" ELSE sched[v]
      BY <2>2 DEF TypeOK
    <2> QED BY <2>1, <2>2, <2>3, <2>4 DEF Batches, Pending
  <1>5. ASSUME NEW w \in Workers, NEW r \in Rows, Publish(w, r) \/ PublishUnconfirmed(w, r)
        PROVE  Batches'
    BY <1>5, TriedBatches DEF Publish, PublishUnconfirmed
  <1>6. ASSUME NEW w \in Workers, CommitBatch(w)
        PROVE  Batches'
    <2>1. \A r \in Pending : r \in Pending' \/ r \in marked[w]
      BY <1>6 DEF CommitBatch, Pending
    <2>2. \A v \in Workers : life'[v] # "up" => v # w /\ life[v] # "up"
      BY <1>6 DEF CommitBatch, Batches
    <2> QED BY <1>6, <2>1, <2>2, EndBatchBatches DEF CommitBatch
  <1>7. ASSUME NEW w \in Workers, CommitFails(w) \/ Stop(w) \/ Crash(w)
        PROVE  Batches'
    <2>1. Pending' = Pending
      BY <1>7 DEF CommitFails, Stop, Crash, Pending
    <2>2. CASE CommitFails(w)
      <3>1. \A v \in Workers : life'[v] # "up" => v # w /\ life[v] # "up"
        BY <2>2 DEF CommitFails, Batches
      <3> QED BY <2>1, <2>2, <3>1, EndBatchBatches DEF CommitFails
    <2>3. \A v \in Workers \ {w} : life'[v] = life[v] \/ ~(Stop(w) \/ Crash(w))
      BY DEF Stop, Crash, TypeOK
    <2>4. CASE Stop(w)
      BY <2>1, <2>3, <2>4, EndBatchBatches DEF Stop
    <2>5. CASE Crash(w)
      BY <2>1, <2>3, <2>5, EndBatchBatches DEF Crash
    <2> QED BY <1>7, <2>2, <2>4, <2>5
  <1>8. ASSUME NEW w \in Workers, ConnectPublisher(w) \/ Consume(w) \/ HandlerFails(w)
        PROVE  UNCHANGED <<status, life, batchVars>>
    BY <1>8 DEF ConnectPublisher, Consume, DeclareQueues, StartConsuming, Deliver, Handle, Ack,
                HandlerFails
  <1>9. CASE BrokerDown \/ BrokerUp \/ UNCHANGED vars
    BY <1>9, <1>1 DEF BrokerDown, BrokerUp, vars
  <1> QED BY <1>1, <1>2, <1>3, <1>4, <1>5, <1>6, <1>7, <1>8, <1>9 DEF Next, Schedule, Fail

-----------------------------------------------------------------------------
(* Nothing accepted is lost.                                               *)

\* Once the broker has answered for r, r stays in the queue, with a consumer or
\* handled, or stays returned.
LEMMA KeptStays ==
  ASSUME TypeOK, Acknowledged, [Next]_vars, NEW r \in Rows, r \in returned \/ Kept(r)
  PROVE  (r \in returned \/ Kept(r))'
  <1>1. CASE UNCHANGED <<delivery, queued, handled, returned>>
    BY <1>1 DEF Kept
  <1>2. ASSUME NEW w \in Workers, NEW q \in Rows, Publish(w, q) \/ PublishUnconfirmed(w, q)
        PROVE  (r \in returned \/ Kept(r))'
    <2>1. CASE Accept(q)
      BY <1>2, <2>1, AcceptKeeps DEF Publish, PublishUnconfirmed, Kept, linkVars
    <2>2. CASE UNCHANGED queueVars
      BY <1>2, <2>2 DEF Publish, PublishUnconfirmed, Kept, linkVars, queueVars
    <2> QED BY <1>2, <2>1, <2>2 DEF Publish, PublishUnconfirmed, queueVars
  <1>3. ASSUME NEW w \in Workers, NEW q \in Rows, Deliver(w, q)
        PROVE  (r \in returned \/ Kept(r))'
    <2>1. /\ delivery'[w] = [row |-> q, done |-> FALSE]
          /\ \A v \in Workers \ {w} : delivery'[v] = delivery[v]
          /\ \A x \in Rows : x # q => queued'[x] = queued[x]
          /\ delivery[w] = NoDelivery /\ returned' = returned /\ handled' = handled
      BY <1>3 DEF Deliver, TypeOK
    <2>2. CASE r = q
      <3>1. delivery'[w].row = r
        BY <2>1, <2>2
      <3>2. CASE delivery'[w] # NoDelivery
        BY <3>1, <3>2 DEF Kept
      <3>3. CASE delivery'[w] = NoDelivery
        <4>1. [row |-> q, done |-> FALSE] \in [row : Rows, done : BOOLEAN]
          OBVIOUS
        <4> QED BY <2>1, <3>3, <4>1, SentinelAssumption
      <3> QED BY <3>2, <3>3
    <2>3. CASE r # q
      BY <2>1, <2>3 DEF Kept
    <2> QED BY <2>2, <2>3
  <1>4. ASSUME NEW w \in Workers, Handle(w)
        PROVE  (r \in returned \/ Kept(r))'
    <2>1. /\ handled' = handled \cup {delivery[w].row}
          /\ \A v \in Workers \ {w} : delivery'[v] = delivery[v]
          /\ queued' = queued /\ returned' = returned
      BY <1>4 DEF Handle, TypeOK, queueVars
    <2> QED BY <2>1 DEF Kept
  <1>5. ASSUME NEW w \in Workers, Ack(w)
        PROVE  (r \in returned \/ Kept(r))'
    <2>1. /\ \A v \in Workers \ {w} : delivery'[v] = delivery[v]
          /\ queued' = queued /\ returned' = returned /\ handled' = handled
          /\ delivery[w].row \in handled
      BY <1>5 DEF Ack, TypeOK, queueVars, Acknowledged
    <2> QED BY <2>1 DEF Kept
  <1>6. ASSUME NEW W \in SUBSET Workers, Requeue(W), returned' = returned,
               handled \subseteq handled'
        PROVE  (r \in returned \/ Kept(r))'
    BY <1>6, RequeueKeeps DEF Kept
  <1>7. ASSUME NEW w \in Workers, HandlerFails(w) \/ Crash(w) \/ CloseConsumer(w)
        PROVE  (r \in returned \/ Kept(r))'
    <2>1. {w} \in SUBSET Workers
      OBVIOUS
    <2>2. CASE HandlerFails(w)
      BY <1>6, <2>1, <2>2 DEF HandlerFails
    <2>3. CASE Crash(w)
      BY <1>6, <2>1, <2>3 DEF Crash
    <2>4. CASE CloseConsumer(w)
      <3>1. handled \subseteq handled'
        BY <2>1, <2>4, LateCommitsAdd DEF CloseConsumer
      <3> QED BY <1>6, <2>1, <2>4, <3>1 DEF CloseConsumer
    <2> QED BY <1>7, <2>2, <2>3, <2>4
  <1>8. CASE BrokerDown
    <2>1. handled \subseteq handled'
      BY <1>8, LateCommitsAdd DEF BrokerDown
    <2> QED BY <1>6, <1>8, <2>1 DEF BrokerDown
  <1>9. ASSUME NEW w \in Workers,
               \/ Start(w) \/ Stop(w) \/ BeginBatch(w) \/ CommitBatch(w) \/ CommitFails(w)
               \/ ConnectPublisher(w) \/ DeclareQueues(w) \/ StartConsuming(w)
               \/ CancelTasks(w) \/ ClosePublisher(w)
        PROVE  UNCHANGED <<delivery, queued, handled, returned>>
    BY <1>9 DEF Start, Stop, BeginBatch, CommitBatch, CommitFails, ConnectPublisher,
                DeclareQueues, StartConsuming, CancelTasks, ClosePublisher, linkVars, queueVars
  <1>10. ASSUME \/ \E q \in Rows : Save(q)
                \/ BrokerUp \/ UNCHANGED vars
         PROVE  UNCHANGED <<delivery, queued, handled, returned>>
    BY <1>10 DEF Save, BrokerUp, vars, linkVars, queueVars
  <1> QED BY <1>1, <1>2, <1>3, <1>4, <1>5, <1>7, <1>8, <1>9, <1>10
          DEF Next, Schedule, Consume, Shut, Fail

\* An acknowledgement follows a commit.
LEMMA AcknowledgedKept ==
  ASSUME TypeOK, Acknowledged, [Next]_vars
  PROVE  Acknowledged'
  <1>1. CASE UNCHANGED delivery /\ handled \subseteq handled'
    BY <1>1 DEF Acknowledged, Holds
  <1>2. ASSUME NEW w \in Workers, Handle(w)
        PROVE  Acknowledged'
    <2>1. /\ handled' = handled \cup {delivery[w].row}
          /\ delivery[w] \in [row : Rows, done : BOOLEAN]
          /\ delivery'[w] = [delivery[w] EXCEPT !.done = TRUE]
          /\ \A v \in Workers \ {w} : delivery'[v] = delivery[v]
      BY <1>2 DEF Handle, Holds, TypeOK
    <2>2. delivery'[w].row = delivery[w].row
      BY <2>1
    <2> QED BY <2>1, <2>2 DEF Acknowledged, Holds
  <1>3. ASSUME NEW w \in Workers, NEW q \in Rows, Deliver(w, q)
        PROVE  Acknowledged'
    <2>1. /\ delivery'[w] = [row |-> q, done |-> FALSE]
          /\ \A v \in Workers \ {w} : delivery'[v] = delivery[v]
          /\ handled' = handled
      BY <1>3 DEF Deliver, TypeOK
    <2>2. delivery'[w].done = FALSE
      BY <2>1
    <2> QED BY <2>1, <2>2 DEF Acknowledged, Holds
  <1>4. ASSUME NEW W \in SUBSET Workers, Requeue(W), handled \subseteq handled'
        PROVE  Acknowledged'
    BY <1>4 DEF Requeue, Acknowledged, Holds
  <1>5. ASSUME NEW w \in Workers, Ack(w)
        PROVE  Acknowledged'
    BY <1>5 DEF Ack, Acknowledged, Holds, TypeOK
  <1>6. ASSUME NEW w \in Workers, HandlerFails(w) \/ Crash(w) \/ CloseConsumer(w)
        PROVE  Acknowledged'
    <2>1. Requeue({w}) /\ {w} \in SUBSET Workers
      BY <1>6 DEF HandlerFails, Crash, CloseConsumer
    <2>2. handled \subseteq handled'
      BY <1>6, LateCommitsAdd DEF HandlerFails, Crash, CloseConsumer
    <2> QED BY <1>4, <2>1, <2>2
  <1>7. CASE BrokerDown
    <2>1. handled \subseteq handled'
      BY <1>7, LateCommitsAdd DEF BrokerDown
    <2> QED BY <1>4, <1>7, <2>1 DEF BrokerDown
  <1>8. ASSUME NEW w \in Workers,
               \/ Start(w) \/ Stop(w) \/ BeginBatch(w) \/ CommitBatch(w) \/ CommitFails(w)
               \/ ConnectPublisher(w) \/ DeclareQueues(w) \/ StartConsuming(w)
               \/ CancelTasks(w) \/ ClosePublisher(w)
               \/ \E q \in Rows : Publish(w, q) \/ PublishUnconfirmed(w, q)
        PROVE  UNCHANGED delivery /\ handled \subseteq handled'
    BY <1>8 DEF Start, Stop, BeginBatch, CommitBatch, CommitFails, ConnectPublisher, Publish,
                PublishUnconfirmed, DeclareQueues, StartConsuming, CancelTasks, ClosePublisher,
                linkVars
  <1>9. ASSUME \/ \E q \in Rows : Save(q)
               \/ BrokerUp \/ UNCHANGED vars
        PROVE  UNCHANGED delivery /\ handled \subseteq handled'
    BY <1>9 DEF Save, BrokerUp, vars, linkVars
  <1> QED BY <1>1, <1>2, <1>3, <1>5, <1>6, <1>7, <1>8, <1>9
          DEF Next, Schedule, Consume, Shut, Fail

-----------------------------------------------------------------------------
(* Marks and what they stand for.                                          *)

\* A row becomes marked only by a publication the broker has answered.
LEMMA MarksAreAnswered ==
  ASSUME TypeOK, Batches, [Next]_vars, NEW r \in Rows, Marked(r)', ~Marked(r)
  PROVE  \E w \in Workers : Publish(w, r) /\ Accept(r)
  <1>1. CASE UNCHANGED <<status, marked>>
    BY <1>1 DEF Marked
  <1>2. ASSUME NEW w \in Workers, NEW q \in Rows, Publish(w, q)
        PROVE  \E v \in Workers : Publish(v, r) /\ Accept(r)
    <2>1. status' = status
      BY <1>2 DEF Publish
    <2>2. marked' = marked \/ (Accept(q) /\ marked' = [marked EXCEPT ![w] = @ \cup {q}])
      BY <1>2 DEF Publish, queueVars
    <2>3. marked' # marked
      BY <2>1 DEF Marked
    <2>4. \A v \in Workers : marked'[v] \subseteq marked[v] \cup {q}
      BY <2>2, <2>3 DEF TypeOK
    <2>5. r = q
      BY <2>1, <2>4 DEF Marked
    <2> QED BY <1>2, <2>2, <2>3, <2>5
  <1>3. ASSUME NEW w \in Workers, CommitBatch(w)
        PROVE  FALSE
    <2>1. status' = [q \in Rows |-> IF q \in marked[w] THEN "published" ELSE status[q]]
      BY <1>3 DEF CommitBatch
    <2>2. \A v \in Workers : marked'[v] \subseteq marked[v]
      BY <1>3 DEF CommitBatch, EndBatch, TypeOK
    <2> QED BY <2>1, <2>2 DEF Marked
  <1>4. ASSUME NEW w \in Workers, CommitFails(w) \/ Stop(w) \/ Crash(w)
        PROVE  FALSE
    <2>1. status' = status
      BY <1>4 DEF CommitFails, Stop, Crash
    <2>2. EndBatch(w, "off") \/ EndBatch(w, "waiting")
      BY <1>4 DEF CommitFails, Stop, Crash
    <2>3. \A v \in Workers : marked'[v] \subseteq marked[v]
      BY <2>2 DEF EndBatch, TypeOK
    <2> QED BY <2>1, <2>3 DEF Marked
  <1>5. ASSUME NEW q \in Rows, Save(q)
        PROVE  FALSE
    <2>1. /\ marked' = marked
          /\ status'[r] = status[r] \/ status'[r] = "pending"
      BY <1>5 DEF Save, TypeOK, batchVars
    <2> QED BY <2>1 DEF Marked
  <1>6. ASSUME NEW w \in Workers,
               \/ Start(w) \/ BeginBatch(w) \/ ConnectPublisher(w) \/ Consume(w) \/ Shut(w)
               \/ HandlerFails(w) \/ \E q \in Rows : PublishUnconfirmed(w, q)
        PROVE  UNCHANGED <<status, marked>>
    BY <1>6 DEF Start, BeginBatch, ConnectPublisher, Consume, DeclareQueues, StartConsuming,
                Deliver, Handle, Ack, Shut, CancelTasks, ClosePublisher, CloseConsumer,
                HandlerFails, PublishUnconfirmed, batchVars
  <1>7. CASE BrokerDown \/ BrokerUp \/ UNCHANGED vars
    BY <1>1, <1>7 DEF BrokerDown, BrokerUp, vars, batchVars
  <1> QED BY <1>1, <1>2, <1>3, <1>4, <1>5, <1>6, <1>7 DEF Next, Schedule, Fail

LEMMA EvidenceKept ==
  ASSUME TypeOK, Batches, Acknowledged, Evidence, [Next]_vars
  PROVE  Evidence'
  <1> SUFFICES ASSUME NEW r \in Rows, Marked(r)'
               PROVE  (r \in returned \/ Kept(r))'
    BY DEF Evidence
  <1>1. CASE Marked(r)
    BY <1>1, KeptStays DEF Evidence
  <1>2. CASE ~Marked(r)
    <2>1. Accept(r)
      BY <1>2, MarksAreAnswered
    <2> QED BY <2>1, AcceptKeeps DEF Kept
  <1> QED BY <1>1, <1>2

\* A mark that is dropped before its commit costs a fault.
LEMMA DroppedMarksCost ==
  ASSUME TypeOK, Batches, [Next]_vars, NEW r \in Rows, Marked(r), ~Marked(r)'
  PROVE  faults' = faults + 1 /\ copies' = copies
  <1>1. CASE UNCHANGED <<status, marked>>
    BY <1>1 DEF Marked
  <1>2. ASSUME NEW w \in Workers, NEW q \in Rows, Publish(w, q)
        PROVE  FALSE
    <2>1. /\ status' = status
          /\ \A v \in Workers : marked[v] \subseteq marked'[v]
      BY <1>2 DEF Publish, TypeOK
    <2> QED BY <2>1 DEF Marked
  <1>3. ASSUME NEW w \in Workers, CommitBatch(w)
        PROVE  FALSE
    <2>1. /\ status'[r] = IF r \in marked[w] THEN "published" ELSE status[r]
          /\ \A v \in Workers \ {w} : marked'[v] = marked[v]
      BY <1>3 DEF CommitBatch, EndBatch, TypeOK
    <2> QED BY <2>1 DEF Marked
  <1>4. ASSUME NEW w \in Workers, CommitFails(w) \/ Stop(w) \/ Crash(w)
        PROVE  faults' = faults + 1 /\ copies' = copies
    BY <1>4 DEF CommitFails, Stop, Crash, Fault, queueVars
  <1>5. ASSUME NEW q \in Rows, Save(q)
        PROVE  FALSE
    <2>1. /\ marked' = marked
          /\ status[r] = "published" => status'[r] = "published"
      BY <1>5 DEF Save, TypeOK, batchVars
    <2> QED BY <2>1 DEF Marked
  <1>6. ASSUME NEW w \in Workers,
               \/ Start(w) \/ BeginBatch(w) \/ ConnectPublisher(w) \/ Consume(w) \/ Shut(w)
               \/ HandlerFails(w) \/ \E q \in Rows : PublishUnconfirmed(w, q)
        PROVE  UNCHANGED <<status, marked>>
    BY <1>6 DEF Start, BeginBatch, ConnectPublisher, Consume, DeclareQueues, StartConsuming,
                Deliver, Handle, Ack, Shut, CancelTasks, ClosePublisher, CloseConsumer,
                HandlerFails, PublishUnconfirmed, batchVars
  <1>7. CASE BrokerDown \/ BrokerUp \/ UNCHANGED vars
    BY <1>1, <1>7 DEF BrokerDown, BrokerUp, vars, batchVars
  <1> QED BY <1>1, <1>2, <1>3, <1>4, <1>5, <1>6, <1>7 DEF Next, Schedule, Fail

\* A copy is made of a row nobody has marked, and marks it or costs a fault.
LEMMA CopiesCost ==
  ASSUME TypeOK, Batches, [Next]_vars, NEW r \in Rows, copies'[r] # copies[r]
  PROVE  /\ copies'[r] <= copies[r] + 1
         /\ ~Marked(r)
         /\ (Marked(r)' /\ faults' = faults) \/ faults' = faults + 1
  <1>1. CASE UNCHANGED copies
    BY <1>1
  <1>2. ASSUME NEW w \in Workers, NEW q \in Rows, Publish(w, q) \/ PublishUnconfirmed(w, q)
        PROVE  /\ copies'[r] <= copies[r] + 1
               /\ ~Marked(r)
               /\ (Marked(r)' /\ faults' = faults) \/ faults' = faults + 1
    <2>1. Accept(q)
      BY <1>2 DEF Publish, PublishUnconfirmed, queueVars
    <2>2. r = q /\ copies'[r] <= copies[r] + 1
      BY <2>1, AcceptKeeps
    <2>3. r \in todo[w]
      BY <1>2, <2>2, FirstOfIsSubset DEF Publish, PublishUnconfirmed, Next1
    <2>4. ~Marked(r)
      <3>1. r \in locked[w] /\ r \notin marked[w]
        BY <2>3 DEF Batches
      <3>2. \A v \in Workers : r \notin marked[v]
        BY <3>1 DEF Batches
      <3> QED BY <3>1, <3>2 DEF Batches, Marked, Pending
    <2>5. CASE Publish(w, q)
      <3>1. marked' = [marked EXCEPT ![w] = @ \cup {r}] /\ faults' = faults
        BY <2>2, <2>5 DEF Publish, queueVars
      <3>2. r \in marked'[w]
        BY <3>1 DEF TypeOK
      <3> QED BY <2>2, <2>4, <3>1, <3>2 DEF Marked
    <2>6. CASE PublishUnconfirmed(w, q)
      BY <2>2, <2>4, <2>6 DEF PublishUnconfirmed, Fault
    <2> QED BY <1>2, <2>5, <2>6
  <1>3. ASSUME NEW w \in Workers,
               \/ Start(w) \/ Stop(w) \/ BeginBatch(w) \/ CommitBatch(w) \/ ConnectPublisher(w)
               \/ Consume(w) \/ Shut(w) \/ CommitFails(w) \/ HandlerFails(w) \/ Crash(w)
        PROVE  UNCHANGED copies
    BY <1>3 DEF Start, Stop, BeginBatch, CommitBatch, ConnectPublisher, Consume, DeclareQueues,
                StartConsuming, Deliver, Handle, Ack, Shut, CancelTasks, ClosePublisher,
                CloseConsumer, CommitFails, HandlerFails, Crash, queueVars
  <1>4. ASSUME (\E q \in Rows : Save(q)) \/ BrokerDown \/ BrokerUp \/ UNCHANGED vars
        PROVE  UNCHANGED copies
    BY <1>4 DEF Save, BrokerDown, BrokerUp, vars, queueVars
  <1> QED BY <1>1, <1>2, <1>3, <1>4 DEF Next, Schedule, Fail

LEMMA PaidKept ==
  ASSUME TypeOK, TypeOK', Batches, Paid, [Next]_vars
  PROVE  Paid'
  <1>1. faults' = faults \/ faults' = faults + 1
    BY DEF Next, Save, Start, Stop, Schedule, BeginBatch, Publish, CommitBatch, ConnectPublisher,
           Consume, DeclareQueues, StartConsuming, Deliver, Handle, Ack, Shut, CancelTasks,
           ClosePublisher, CloseConsumer, Fail, PublishUnconfirmed, CommitFails, HandlerFails,
           Crash, BrokerDown, BrokerUp, Fault, vars
  <1> SUFFICES ASSUME NEW r \in Rows
               PROVE  /\ copies'[r] <= 1 + faults'
                      /\ ~Marked(r)' => copies'[r] <= faults'
    BY DEF Paid
  <1>2. /\ copies[r] \in Nat /\ copies'[r] \in Nat /\ faults \in Nat /\ faults' \in Nat
        /\ copies[r] <= 1 + faults
        /\ ~Marked(r) => copies[r] <= faults
    BY BatchAssumption DEF TypeOK, Paid
  <1>3. CASE copies'[r] # copies[r]
    BY <1>2, <1>3, CopiesCost
  <1>4. CASE copies'[r] = copies[r] /\ Marked(r) /\ ~Marked(r)'
    BY <1>2, <1>4, DroppedMarksCost
  <1>5. CASE copies'[r] = copies[r] /\ (~Marked(r) \/ Marked(r)')
    BY <1>1, <1>2, <1>5
  <1> QED BY <1>3, <1>4, <1>5

-----------------------------------------------------------------------------
(* The theorems.                                                           *)

LEMMA RuntimeInvariant == Spec => []RuntimeInv
  <1>1. Init => RuntimeInv
    <2> SUFFICES ASSUME Init PROVE RuntimeInv
      OBVIOUS
    <2>1. Batches
      BY DEF Init, Batches
    <2>2. Acknowledged
      BY DEF Init, Acknowledged, Holds
    <2>3. \A r \in Rows : ~Marked(r)
      BY DEF Init, Marked
    <2>4. Evidence
      BY <2>3 DEF Evidence
    <2>5. Paid
      BY DEF Init, Paid
    <2> QED BY <2>1, <2>2, <2>4, <2>5, InitType DEF RuntimeInv
  <1>2. TypeOK /\ TypeOK' /\ RuntimeInv /\ [Next]_vars => RuntimeInv'
    BY BatchesKept, AcknowledgedKept, EvidenceKept, PaidKept DEF RuntimeInv
  <1> QED BY <1>1, <1>2, RuntimeTypeCorrect, PTL DEF Spec

\* A row committed as published is in the queue, with a consumer or handled, or
\* was returned as unroutable: marks are committed after the broker's answer, and
\* acknowledgements follow the handler's commit.
THEOREM CommittedEventsAreKept == Spec => []NoEventLost
  <1>1. RuntimeInv => NoEventLost
    BY DEF RuntimeInv, Evidence, Marked, Kept, NoEventLost
  <1> QED BY <1>1, RuntimeInvariant, PTL

\* Every copy of an event after its first stands for a stop or a failure, however
\* many processes drain the outbox: FOR UPDATE SKIP LOCKED gives a row to one
\* batch at a time, and its commit retires it.
THEOREM EveryCopyIsPaid == Spec => []DuplicatesCostFaults
  <1>1. RuntimeInv => DuplicatesCostFaults
    BY DEF RuntimeInv, Paid, DuplicatesCostFaults
  <1> QED BY <1>1, RuntimeInvariant, PTL
=============================================================================
