------------------------- MODULE CheckoutClaimProofs -------------------------
(***************************************************************************)
(* The checkout claim keeps its promise for every number of requests, keys *)
(* and payloads, every collision of lock numbers and every pattern of      *)
(* failures.  The argument: whoever runs commerce for a key holds its lock *)
(* and found no row (Held, Untaken), and rows and orders are written by    *)
(* the same commit, so each is evidence of the other (Recorded, Rowed).    *)
(***************************************************************************)
EXTENDS CheckoutClaim, TLAPS

\* A request between its claim and the end of its transaction has its key's lock.
Held ==
  \A a \in Attempts :
    /\ pc[a] \in {"locked", "replayed", "conflict"} => lock[Mine(a)] = a
    /\ pc[a] = "placing" /\ Keyed(a) => lock[Mine(a)] = a

\* A completed row names a committed order of its key and payload ...
Recorded ==
  \A k \in Keys :
    rows[k] # NoRow =>
      /\ rows[k].order \in orders
      /\ request[rows[k].order] = [key |-> k, payload |-> rows[k].payload]

\* ... and a committed order with a key has the row of that key.
Rowed ==
  \A o \in orders :
    Keyed(o) => /\ rows[request[o].key] # NoRow
                /\ rows[request[o].key].order = o

\* The key of a request that runs commerce has no row yet.
Untaken ==
  \A a \in Attempts : pc[a] = "placing" /\ Keyed(a) => rows[request[a].key] = NoRow

\* An attempt past its commit has placed its order, an answered one has ended.
Placed ==
  \A a \in Attempts :
    /\ pc[a] \in {"committed", "notified"} => a \in orders
    /\ a \in orders => pc[a] \in {"committed", "notified", "ended"}
    /\ answer[a] # NoAnswer => pc[a] = "ended"

\* What a replay or a conflict is about to answer is right.
Found ==
  \A a \in Attempts :
    /\ pc[a] = "replayed" => /\ found[a] \in orders
                             /\ request[found[a]] = request[a]
    /\ pc[a] = "conflict" => \E o \in orders : /\ request[o].key = request[a].key
                                               /\ request[o].payload # request[a].payload

ClaimInv == Held /\ Recorded /\ Rowed /\ Untaken /\ Placed /\ Found
            /\ AnswersAgree /\ RefusedForCause

\* Every request in flight was sent, so its key and payload are what they are for
\* good; this is the type invariant the claim's code relies on.
THEOREM ClaimTypeCorrect == Spec => []TypeOK
<1>1. Init => TypeOK
  BY SentinelsAssumption, CrashAssumption DEF Init, TypeOK, Keyed, Stages
<1>2. TypeOK /\ [Next]_vars => TypeOK'
  <2> SUFFICES ASSUME TypeOK, [Next]_vars PROVE TypeOK'
    OBVIOUS
  <2>1. CASE UNCHANGED vars
    BY <2>1 DEF vars, TypeOK, Keyed
  <2>2. ASSUME NEW a \in Attempts, Send(a) PROVE TypeOK'
    <3> PICK r \in Request : /\ request' = [request EXCEPT ![a] = r]
                             /\ pc' = [pc EXCEPT ![a] = IF r.key = NoKey THEN "placing" ELSE "waiting"]
      BY <2>2 DEF Send
    <3>1. r # NoRequest
      BY SentinelsAssumption
    <3> QED
      BY <2>2, <3>1 DEF Send, TypeOK, Keyed, Stages
  <2>3. ASSUME NEW a \in Attempts, AcquireClaimLock(a) PROVE TypeOK'
    BY <2>3 DEF AcquireClaimLock, TypeOK, Keyed, Stages
  <2>4. ASSUME NEW a \in Attempts, ClaimNew(a) PROVE TypeOK'
    BY <2>4 DEF ClaimNew, TypeOK, Keyed, Stages
  <2>5. ASSUME NEW a \in Attempts, ClaimReplay(a) PROVE TypeOK'
    <3>1. request[a].key \in Keys
      BY <2>5 DEF ClaimReplay, TypeOK, Keyed, Request
    <3>2. rows[request[a].key].order \in Attempts
      BY <2>5, <3>1 DEF ClaimReplay, TypeOK
    <3> QED
      BY <2>5, <3>2 DEF ClaimReplay, TypeOK, Keyed, Stages
  <2>6. ASSUME NEW a \in Attempts, ClaimConflict(a) PROVE TypeOK'
    BY <2>6 DEF ClaimConflict, TypeOK, Keyed, Stages
  <2>7. ASSUME NEW a \in Attempts, Close(a) PROVE TypeOK'
    BY <2>7 DEF Close, TypeOK, Keyed, Stages, Released
  <2>8. ASSUME NEW a \in Attempts, Fail(a) PROVE TypeOK'
    BY <2>8 DEF Fail, TypeOK, Keyed, Stages, Released
  <2>9. ASSUME NEW a \in Attempts, Commit(a) PROVE TypeOK'
    BY <2>9 DEF Commit, TypeOK, Keyed, Stages, Released, Request
  <2>10. ASSUME NEW a \in Attempts, Notify(a) PROVE TypeOK'
    BY <2>10 DEF Notify, TypeOK, Keyed, Stages
  <2>11. ASSUME NEW a \in Attempts, Reply(a) PROVE TypeOK'
    BY <2>11 DEF Reply, TypeOK, Keyed, Stages
  <2>12. ASSUME NEW a \in Attempts, Crash(a) PROVE TypeOK'
    BY <2>12, CrashAssumption DEF Crash, TypeOK, Keyed, Stages, Released
  <2> QED
    BY <2>1, <2>2, <2>3, <2>4, <2>5, <2>6, <2>7, <2>8, <2>9, <2>10, <2>11, <2>12
       DEF Next, Checkout
<1> QED
  BY <1>1, <1>2, PTL DEF Spec

\* What a request that was sent carries.
LEMMA SentIsTyped ==
  ASSUME TypeOK, NEW a \in Attempts, pc[a] # "idle"
  PROVE  /\ request[a] \in Request
         /\ Keyed(a) => request[a].key \in Keys /\ Mine(a) \in Locks
BY DEF TypeOK, Request, Keyed, Mine, Locks

LEMMA SendKeepsClaim ==
  ASSUME TypeOK, ClaimInv, NEW a \in Attempts, Send(a)
  PROVE  ClaimInv'
<1>1. /\ a \notin orders /\ answer[a] = NoAnswer
      /\ \A b \in Attempts \ {a} : request'[b] = request[b] /\ pc'[b] = pc[b]
      /\ pc'[a] \in {"placing", "waiting"} /\ (Keyed(a)' => pc'[a] = "waiting")
      /\ orders \subseteq Attempts
  BY DEF Send, TypeOK, ClaimInv, Placed, Keyed
<1>2. Held'
  BY <1>1, SentinelsAssumption DEF Send, ClaimInv, Held, Keyed, Mine, TypeOK
<1>3. Recorded'
  BY <1>1, SentinelsAssumption DEF Send, ClaimInv, Recorded, Keyed, Mine, TypeOK
<1>4. Rowed'
  BY <1>1, SentinelsAssumption DEF Send, ClaimInv, Rowed, Keyed, Mine, TypeOK
<1>5. Untaken'
  BY <1>1, SentinelsAssumption DEF Send, ClaimInv, Untaken, Keyed, Mine, TypeOK
<1>6. Placed'
  BY <1>1, SentinelsAssumption DEF Send, ClaimInv, Placed, Keyed, Mine, TypeOK
<1>7. Found'
  BY <1>1, SentinelsAssumption DEF Send, ClaimInv, Found, Keyed, Mine, TypeOK
<1>8. AnswersAgree'
  BY <1>1, SentinelsAssumption DEF Send, ClaimInv, AnswersAgree, Keyed, Mine, TypeOK
<1>9. RefusedForCause'
  BY <1>1, SentinelsAssumption DEF Send, ClaimInv, RefusedForCause, Keyed, Mine, TypeOK
<1> QED
  BY <1>2, <1>3, <1>4, <1>5, <1>6, <1>7, <1>8, <1>9 DEF ClaimInv

LEMMA AcquireClaimLockKeepsClaim ==
  ASSUME TypeOK, ClaimInv, NEW a \in Attempts, AcquireClaimLock(a)
  PROVE  ClaimInv'
<1>1. \A b \in Attempts : pc[b] # "idle" =>
        request[b] \in Request /\ (Keyed(b) => request[b].key \in Keys /\ Mine(b) \in Locks)
  BY SentIsTyped
<1>2. Held'
  BY <1>1, SentinelsAssumption DEF AcquireClaimLock, ClaimInv, Held, Keyed, Mine, TypeOK
<1>3. Recorded'
  BY DEF AcquireClaimLock, ClaimInv, Recorded
<1>4. Rowed'
  BY DEF AcquireClaimLock, ClaimInv, Rowed, Keyed
<1>5. Untaken'
  BY DEF AcquireClaimLock, ClaimInv, Untaken, Keyed
<1>6. Placed'
  BY DEF AcquireClaimLock, ClaimInv, Placed
<1>7. Found'
  BY DEF AcquireClaimLock, ClaimInv, Found
<1>8. AnswersAgree'
  BY DEF AcquireClaimLock, ClaimInv, AnswersAgree, Keyed
<1>9. RefusedForCause'
  BY DEF AcquireClaimLock, ClaimInv, RefusedForCause
<1> QED
  BY <1>2, <1>3, <1>4, <1>5, <1>6, <1>7, <1>8, <1>9 DEF ClaimInv

LEMMA ClaimNewKeepsClaim ==
  ASSUME TypeOK, ClaimInv, NEW a \in Attempts, ClaimNew(a)
  PROVE  ClaimInv'
<1>2. Held'
  BY DEF ClaimNew, ClaimInv, Held, Keyed, Mine
<1>3. Recorded'
  BY DEF ClaimNew, ClaimInv, Recorded
<1>4. Rowed'
  BY DEF ClaimNew, ClaimInv, Rowed, Keyed
<1>5. Untaken'
  BY DEF ClaimNew, ClaimInv, Untaken, Keyed
<1>6. Placed'
  BY DEF ClaimNew, ClaimInv, Placed
<1>7. Found'
  BY DEF ClaimNew, ClaimInv, Found
<1>8. AnswersAgree'
  BY DEF ClaimNew, ClaimInv, AnswersAgree, Keyed
<1>9. RefusedForCause'
  BY DEF ClaimNew, ClaimInv, RefusedForCause
<1> QED
  BY <1>2, <1>3, <1>4, <1>5, <1>6, <1>7, <1>8, <1>9 DEF ClaimInv

LEMMA ClaimReplayKeepsClaim ==
  ASSUME TypeOK, ClaimInv, NEW a \in Attempts, ClaimReplay(a)
  PROVE  ClaimInv'
<1>1. \A b \in Attempts : pc[b] # "idle" =>
        request[b] \in Request /\ (Keyed(b) => request[b].key \in Keys /\ Mine(b) \in Locks)
  BY SentIsTyped
<1>2. Held'
  BY DEF ClaimReplay, ClaimInv, Held, Keyed, Mine
<1>3. Recorded'
  BY DEF ClaimReplay, ClaimInv, Recorded
<1>4. Rowed'
  BY DEF ClaimReplay, ClaimInv, Rowed, Keyed
<1>5. Untaken'
  BY DEF ClaimReplay, ClaimInv, Untaken, Keyed
<1>6. Placed'
  BY DEF ClaimReplay, ClaimInv, Placed
<1>7. Found'
  <2>1. request[a] \in Request /\ request[a].key \in Keys /\ Keyed(a)
    BY SentIsTyped DEF ClaimReplay, TypeOK
  <2>2. request[a] = [key |-> request[a].key, payload |-> request[a].payload]
    BY <2>1 DEF Request
  <2>3. /\ rows[request[a].key].order \in orders
        /\ request[rows[request[a].key].order] = request[a]
    BY <2>1, <2>2 DEF ClaimReplay, ClaimInv, Recorded
  <2> QED
    BY <2>3 DEF ClaimReplay, ClaimInv, Found, TypeOK
<1>8. AnswersAgree'
  BY DEF ClaimReplay, ClaimInv, AnswersAgree, Keyed
<1>9. RefusedForCause'
  BY DEF ClaimReplay, ClaimInv, RefusedForCause
<1> QED
  BY <1>2, <1>3, <1>4, <1>5, <1>6, <1>7, <1>8, <1>9 DEF ClaimInv

LEMMA ClaimConflictKeepsClaim ==
  ASSUME TypeOK, ClaimInv, NEW a \in Attempts, ClaimConflict(a)
  PROVE  ClaimInv'
<1>1. \A b \in Attempts : pc[b] # "idle" =>
        request[b] \in Request /\ (Keyed(b) => request[b].key \in Keys /\ Mine(b) \in Locks)
  BY SentIsTyped
<1>2. Held'
  BY DEF ClaimConflict, ClaimInv, Held, Keyed, Mine
<1>3. Recorded'
  BY DEF ClaimConflict, ClaimInv, Recorded
<1>4. Rowed'
  BY DEF ClaimConflict, ClaimInv, Rowed, Keyed
<1>5. Untaken'
  BY DEF ClaimConflict, ClaimInv, Untaken, Keyed
<1>6. Placed'
  BY DEF ClaimConflict, ClaimInv, Placed
<1>7. Found'
  <2>1. request[a] \in Request /\ request[a].key \in Keys /\ Keyed(a)
    BY SentIsTyped DEF ClaimConflict, TypeOK
  <2> DEFINE o == rows[request[a].key].order
  <2>2. o \in orders /\ request[o] = [key |-> request[a].key,
                                     payload |-> rows[request[a].key].payload]
    BY <2>1 DEF ClaimConflict, ClaimInv, Recorded
  <2>3. request[o].key = request[a].key /\ request[o].payload # request[a].payload
    BY <2>2 DEF ClaimConflict
  <2> HIDE DEF o
  <2> QED
    BY <2>2, <2>3 DEF ClaimConflict, ClaimInv, Found, TypeOK
<1>8. AnswersAgree'
  BY DEF ClaimConflict, ClaimInv, AnswersAgree, Keyed
<1>9. RefusedForCause'
  BY DEF ClaimConflict, ClaimInv, RefusedForCause
<1> QED
  BY <1>2, <1>3, <1>4, <1>5, <1>6, <1>7, <1>8, <1>9 DEF ClaimInv

LEMMA CloseKeepsClaim ==
  ASSUME TypeOK, ClaimInv, NEW a \in Attempts, Close(a)
  PROVE  ClaimInv'
<1>1. \A b \in Attempts : pc[b] # "idle" =>
        request[b] \in Request /\ (Keyed(b) => request[b].key \in Keys /\ Mine(b) \in Locks)
  BY SentIsTyped
<1>2. Held'
  BY <1>1, SentinelsAssumption DEF Close, ClaimInv, Held, Keyed, Mine, Released, TypeOK
<1>3. Recorded'
  BY DEF Close, ClaimInv, Recorded
<1>4. Rowed'
  BY DEF Close, ClaimInv, Rowed, Keyed
<1>5. Untaken'
  BY DEF Close, ClaimInv, Untaken, Keyed
<1>6. Placed'
  BY DEF Close, ClaimInv, Placed, TypeOK
<1>7. Found'
  BY DEF Close, ClaimInv, Found
<1>8. AnswersAgree'
  BY <1>1, SentinelsAssumption DEF Close, ClaimInv, AnswersAgree, Keyed, Found, TypeOK
<1>9. RefusedForCause'
  BY <1>1, SentinelsAssumption DEF Close, ClaimInv, RefusedForCause, Found, TypeOK
<1> QED
  BY <1>2, <1>3, <1>4, <1>5, <1>6, <1>7, <1>8, <1>9 DEF ClaimInv

LEMMA FailKeepsClaim ==
  ASSUME TypeOK, ClaimInv, NEW a \in Attempts, Fail(a)
  PROVE  ClaimInv'
<1>1. \A b \in Attempts : pc[b] # "idle" =>
        request[b] \in Request /\ (Keyed(b) => request[b].key \in Keys /\ Mine(b) \in Locks)
  BY SentIsTyped
<1>2. Held'
  BY <1>1, SentinelsAssumption DEF Fail, ClaimInv, Held, Keyed, Mine, Released, TypeOK
<1>3. Recorded'
  BY DEF Fail, ClaimInv, Recorded
<1>4. Rowed'
  BY DEF Fail, ClaimInv, Rowed, Keyed
<1>5. Untaken'
  BY DEF Fail, ClaimInv, Untaken, Keyed
<1>6. Placed'
  BY DEF Fail, ClaimInv, Placed
<1>7. Found'
  BY DEF Fail, ClaimInv, Found
<1>8. AnswersAgree'
  BY DEF Fail, ClaimInv, AnswersAgree, Keyed
<1>9. RefusedForCause'
  BY DEF Fail, ClaimInv, RefusedForCause
<1> QED
  BY <1>2, <1>3, <1>4, <1>5, <1>6, <1>7, <1>8, <1>9 DEF ClaimInv

LEMMA CommitKeepsClaim ==
  ASSUME TypeOK, ClaimInv, NEW a \in Attempts, Commit(a)
  PROVE  ClaimInv'
<1>1. \A b \in Attempts : pc[b] # "idle" =>
        request[b] \in Request /\ (Keyed(b) => request[b].key \in Keys /\ Mine(b) \in Locks)
  BY SentIsTyped
<1>2. Held'
  BY <1>1, SentinelsAssumption DEF Commit, ClaimInv, Held, Keyed, Mine, Released, TypeOK
<1>3. Recorded'
  <2>1. CASE ~Keyed(a)
    BY <2>1 DEF Commit, ClaimInv, Recorded
  <2>2. CASE Keyed(a)
    <3>1. request[a] \in Request /\ request[a].key \in Keys
      BY <2>2, SentIsTyped DEF Commit
    <3>2. request[a] = [key |-> request[a].key, payload |-> request[a].payload]
      BY <3>1 DEF Request
    <3>3. /\ rows' = [rows EXCEPT ![request[a].key] =
                       [payload |-> request[a].payload, order |-> a]]
          /\ orders' = orders \cup {a} /\ request' = request
      BY <2>2 DEF Commit
    <3>4. rows'[request[a].key] = [payload |-> request[a].payload, order |-> a]
      BY <3>1, <3>3 DEF TypeOK
    <3>5. \A k \in Keys \ {request[a].key} : rows'[k] = rows[k]
      BY <3>1, <3>3 DEF TypeOK
    <3> QED
      BY <3>2, <3>3, <3>4, <3>5 DEF ClaimInv, Recorded
  <2> QED
    BY <2>1, <2>2
<1>4. Rowed'
  <2>1. CASE ~Keyed(a)
    BY <2>1 DEF Commit, ClaimInv, Rowed, Keyed
  <2>2. CASE Keyed(a)
    <3>1. request[a] \in Request /\ request[a].key \in Keys
      BY <2>2, SentIsTyped DEF Commit
    <3>2. rows[request[a].key] = NoRow
      BY <2>2 DEF Commit, ClaimInv, Untaken
    <3>3. \A o \in orders : Keyed(o) => request[o].key # request[a].key
      BY <3>2 DEF ClaimInv, Rowed
    <3>4. /\ rows' = [rows EXCEPT ![request[a].key] =
                       [payload |-> request[a].payload, order |-> a]]
          /\ orders' = orders \cup {a} /\ request' = request
      BY <2>2 DEF Commit
    <3>5. rows'[request[a].key] = [payload |-> request[a].payload, order |-> a]
      BY <3>1, <3>4 DEF TypeOK
    <3>6. rows'[request[a].key] # NoRow /\ rows'[request[a].key].order = a
      BY <3>1, <3>5, NoRowAssumption DEF Request
    <3>7. \A o \in orders : Keyed(o) => rows'[request[o].key] = rows[request[o].key]
      BY <3>3, <3>4 DEF TypeOK
    <3> QED
      BY <3>4, <3>6, <3>7 DEF ClaimInv, Rowed, Keyed
  <2> QED
    BY <2>1, <2>2
<1>5. Untaken'
  <2>1. ASSUME NEW b \in Attempts \ {a}, pc[b] = "placing", Keyed(b), Keyed(a)
        PROVE  request[b].key # request[a].key
    BY <2>1 DEF Commit, ClaimInv, Held, Mine
  <2> QED
    BY <2>1 DEF Commit, ClaimInv, Untaken, Keyed, TypeOK
<1>6. Placed'
  BY DEF Commit, ClaimInv, Placed, TypeOK
<1>7. Found'
  BY DEF Commit, ClaimInv, Found
<1>8. AnswersAgree'
  BY DEF Commit, ClaimInv, AnswersAgree, Keyed
<1>9. RefusedForCause'
  BY DEF Commit, ClaimInv, RefusedForCause
<1> QED
  BY <1>2, <1>3, <1>4, <1>5, <1>6, <1>7, <1>8, <1>9 DEF ClaimInv

LEMMA NotifyKeepsClaim ==
  ASSUME TypeOK, ClaimInv, NEW a \in Attempts, Notify(a)
  PROVE  ClaimInv'
<1>2. Held'
  BY DEF Notify, ClaimInv, Held, Keyed, Mine
<1>3. Recorded'
  BY DEF Notify, ClaimInv, Recorded
<1>4. Rowed'
  BY DEF Notify, ClaimInv, Rowed, Keyed
<1>5. Untaken'
  BY DEF Notify, ClaimInv, Untaken, Keyed
<1>6. Placed'
  BY DEF Notify, ClaimInv, Placed
<1>7. Found'
  BY DEF Notify, ClaimInv, Found
<1>8. AnswersAgree'
  BY DEF Notify, ClaimInv, AnswersAgree, Keyed
<1>9. RefusedForCause'
  BY DEF Notify, ClaimInv, RefusedForCause
<1> QED
  BY <1>2, <1>3, <1>4, <1>5, <1>6, <1>7, <1>8, <1>9 DEF ClaimInv

LEMMA ReplyKeepsClaim ==
  ASSUME TypeOK, ClaimInv, NEW a \in Attempts, Reply(a)
  PROVE  ClaimInv'
<1>1. \A b \in Attempts : pc[b] # "idle" =>
        request[b] \in Request /\ (Keyed(b) => request[b].key \in Keys /\ Mine(b) \in Locks)
  BY SentIsTyped
<1>2. Held'
  BY DEF Reply, ClaimInv, Held, Keyed, Mine
<1>3. Recorded'
  BY DEF Reply, ClaimInv, Recorded
<1>4. Rowed'
  BY DEF Reply, ClaimInv, Rowed, Keyed
<1>5. Untaken'
  BY DEF Reply, ClaimInv, Untaken, Keyed
<1>6. Placed'
  BY DEF Reply, ClaimInv, Placed, TypeOK
<1>7. Found'
  BY DEF Reply, ClaimInv, Found
<1>8. AnswersAgree'
  BY DEF Reply, ClaimInv, AnswersAgree, Keyed, Placed, TypeOK
<1>9. RefusedForCause'
  BY <1>1, SentinelsAssumption DEF Reply, ClaimInv, RefusedForCause, TypeOK
<1> QED
  BY <1>2, <1>3, <1>4, <1>5, <1>6, <1>7, <1>8, <1>9 DEF ClaimInv

LEMMA CrashKeepsClaim ==
  ASSUME TypeOK, ClaimInv, NEW a \in Attempts, Crash(a)
  PROVE  ClaimInv'
<1>1. \A b \in Attempts : pc[b] # "idle" =>
        request[b] \in Request /\ (Keyed(b) => request[b].key \in Keys /\ Mine(b) \in Locks)
  BY SentIsTyped
<1>2. Held'
  BY <1>1, SentinelsAssumption DEF Crash, ClaimInv, Held, Keyed, Mine, Released, TypeOK
<1>3. Recorded'
  BY DEF Crash, ClaimInv, Recorded
<1>4. Rowed'
  BY DEF Crash, ClaimInv, Rowed, Keyed
<1>5. Untaken'
  BY DEF Crash, ClaimInv, Untaken, Keyed
<1>6. Placed'
  BY DEF Crash, ClaimInv, Placed
<1>7. Found'
  BY DEF Crash, ClaimInv, Found
<1>8. AnswersAgree'
  BY DEF Crash, ClaimInv, AnswersAgree, Keyed
<1>9. RefusedForCause'
  BY DEF Crash, ClaimInv, RefusedForCause
<1> QED
  BY <1>2, <1>3, <1>4, <1>5, <1>6, <1>7, <1>8, <1>9 DEF ClaimInv

LEMMA ClaimInvariant == Spec => [](TypeOK /\ ClaimInv)
<1>1. Init => ClaimInv
  BY SentinelsAssumption DEF Init, ClaimInv, Held, Recorded, Rowed, Untaken, Placed,
     Found, AnswersAgree, RefusedForCause
<1>2. TypeOK /\ ClaimInv /\ [Next]_vars => ClaimInv'
  <2> SUFFICES ASSUME TypeOK, ClaimInv, [Next]_vars PROVE ClaimInv'
    OBVIOUS
  <2>1. CASE UNCHANGED vars
    BY <2>1 DEF vars, ClaimInv, Held, Recorded, Rowed, Untaken, Placed, Found,
       AnswersAgree, RefusedForCause, Keyed, Mine
  <2> QED
    BY <2>1, SendKeepsClaim, AcquireClaimLockKeepsClaim, ClaimNewKeepsClaim, ClaimReplayKeepsClaim,
       ClaimConflictKeepsClaim, CloseKeepsClaim, FailKeepsClaim, CommitKeepsClaim,
       NotifyKeepsClaim, ReplyKeepsClaim, CrashKeepsClaim
       DEF Next, Checkout
<1> QED
  BY <1>1, <1>2, ClaimTypeCorrect, PTL DEF Spec

\* A key places at most one order, because an order and the row that answers for it
\* are the work of one commit made under the key's lock.
THEOREM AtMostOneOrder == Spec => []OneOrderPerKey
<1>1. ClaimInv => OneOrderPerKey
  BY DEF ClaimInv, Rowed, OneOrderPerKey, Keyed
<1> QED
  BY <1>1, ClaimInvariant, PTL

\* Whatever was lost and retried, all answers to a key name its one order, and were
\* given to the payload that placed it.
THEOREM AnswersAlwaysAgree == Spec => []AnswersAgree
<1>1. ClaimInv => AnswersAgree
  BY DEF ClaimInv
<1> QED
  BY <1>1, ClaimInvariant, PTL

\* A client is told of a conflict only when there is one.
THEOREM RefusalsHaveCause == Spec => []RefusedForCause
<1>1. ClaimInv => RefusedForCause
  BY DEF ClaimInv
<1> QED
  BY <1>1, ClaimInvariant, PTL

\* Locks, rows, rollbacks and crashes implement the promise made to clients: every
\* step is a step of KeyedCheckout or changes nothing a client can see.
THEOREM ClaimKeepsPromise == Spec => KeepsPromise
<1>1. Init => Promise!Init
  BY DEF Init, Promise!Init
<1>2. TypeOK /\ ClaimInv /\ [Next]_vars => [Promise!Next]_<<request, orders, answer>>
  <2> SUFFICES ASSUME TypeOK, ClaimInv, [Next]_vars,
                      ~(UNCHANGED <<request, orders, answer>>)
               PROVE  Promise!Next
    OBVIOUS
  <2>1. PICK a \in Attempts : Send(a) \/ Commit(a) \/ Close(a) \/ Reply(a)
    BY DEF Next, vars, Checkout, AcquireClaimLock, ClaimNew, ClaimReplay, ClaimConflict,
       Fail, Notify, Crash
  <2>2. CASE Send(a)
    <3>1. Promise!Send(a)
      BY <2>2 DEF Send, Promise!Send, Request, Promise!Request, TypeOK
    <3> QED
      BY <3>1 DEF Promise!Next
  <2>3. CASE Commit(a)
    <3>1. \A o \in orders : Keyed(a) => request[o].key # request[a].key
      BY <2>3 DEF Commit, ClaimInv, Rowed, Untaken, Keyed
    <3>2. Promise!Place(a)
      BY <2>3, <3>1 DEF Commit, Promise!Place, Promise!SameKey, Keyed, TypeOK
    <3> QED
      BY <3>2 DEF Promise!Next
  <2>4. CASE Close(a)
    <3>1. Keyed(a) /\ request[a] # NoRequest
      BY <2>4 DEF Close, TypeOK
    <3>2. CASE pc[a] = "replayed"
      <4>1. Promise!Answer(a, found[a]) /\ found[a] \in Attempts
        BY <2>4, <3>1, <3>2 DEF Close, ClaimInv, Found, Promise!Answer,
           Promise!SameKey, Keyed, TypeOK
      <4> QED
        BY <4>1 DEF Promise!Next
    <3>3. CASE pc[a] = "conflict"
      <4>1. Promise!Refuse(a)
        BY <2>4, <3>1, <3>3 DEF Close, ClaimInv, Found, Promise!Refuse,
           Promise!SameKey, Keyed
      <4> QED
        BY <4>1 DEF Promise!Next
    <3> QED
      BY <2>4, <3>2, <3>3 DEF Close
  <2>5. CASE Reply(a)
    <3>1. Promise!Answer(a, a)
      BY <2>5 DEF Reply, ClaimInv, Placed, Promise!Answer, TypeOK
    <3> QED
      BY <3>1 DEF Promise!Next
  <2> QED
    BY <2>1, <2>2, <2>3, <2>4, <2>5
<1> QED
  BY <1>1, <1>2, ClaimInvariant, PTL DEF Spec, KeepsPromise, Promise!Spec
=============================================================================
