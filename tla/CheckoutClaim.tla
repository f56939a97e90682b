---------------------------- MODULE CheckoutClaim ----------------------------
(***************************************************************************)
(* The idempotency claim around POST /checkout.  A keyed request takes a   *)
(* transaction-scoped advisory lock, reads the key's row and either        *)
(* replays, refuses, or runs commerce; the order and the completed row     *)
(* commit in one transaction, which frees the lock.  Requests run          *)
(* concurrently, fail, die before or after their commit, and are retried.  *)
(* What commerce does to orders, stock and payments is Choreography's.     *)
(***************************************************************************)
EXTENDS Naturals

CONSTANTS
  Attempts, Keys, Payloads, NoKey, NoRequest, NoAnswer, Conflict,
  LockOf,      \* LockOf[k]: hash of "Checkout:k", the advisory lock's number
  NoRow,
  NoOne,
  MaxCrashes   \* bound: attempts that die

Locks == {LockOf[k] : k \in Keys}

Request == [key : Keys \cup {NoKey}, payload : Payloads]

ASSUME SentinelsAssumption ==
  /\ NoKey \notin Keys
  /\ NoRequest \notin Request
  /\ NoAnswer \notin Attempts \cup {Conflict}
  /\ Conflict \notin Attempts
  /\ NoOne \notin Attempts
ASSUME NoRowAssumption == NoRow \notin [payload : Payloads, order : Attempts]
ASSUME CrashAssumption == MaxCrashes \in Nat

VARIABLES
  request,     \* request[a]: the key and the payload a sent
  pc,          \* pc[a]: how far a got
  orders,      \* committed orders, each named after the attempt that placed it
  rows,        \* rows[k]: committed completed row of processed_events, or NoRow
  lock,        \* lock[l]: the attempt whose transaction holds advisory lock l
  found,       \* found[a]: the order in the response a read from the row
  answer,      \* answer[a]: what a's client was told
  crashes

vars == <<request, pc, orders, rows, lock, found, answer, crashes>>

Promise == INSTANCE KeyedCheckout

Keyed(a) == request[a].key # NoKey

Mine(a) == LockOf[request[a].key]

\* The end of a's transaction frees the lock it holds.
Released(a) == [l \in Locks |-> IF lock[l] = a THEN NoOne ELSE lock[l]]

Init ==
  /\ request = [a \in Attempts |-> NoRequest]
  /\ pc = [a \in Attempts |-> "idle"]
  /\ orders = {}
  /\ rows = [k \in Keys |-> NoRow]
  /\ lock = [l \in Locks |-> NoOne]
  /\ found = [a \in Attempts |-> NoOne]
  /\ answer = [a \in Attempts |-> NoAnswer]
  /\ crashes = 0

\* A client sends a checkout, its first or a retry, with a key or without.
Send(a) ==
  /\ pc[a] = "idle"
  /\ \E r \in Request :
       /\ request' = [request EXCEPT ![a] = r]
       /\ pc' = [pc EXCEPT ![a] = IF r.key = NoKey THEN "placing" ELSE "waiting"]
  /\ UNCHANGED <<orders, rows, lock, found, answer, crashes>>

\* Mutant of AcquireClaimLock: the lock does not exclude anyone.
AcquireNothing(a) ==
  /\ pc[a] = "waiting"
  /\ pc' = [pc EXCEPT ![a] = "locked"]
  /\ UNCHANGED <<request, orders, rows, lock, found, answer, crashes>>

AcquireClaimLock(a) ==
  /\ pc[a] = "waiting"
  /\ lock[Mine(a)] = NoOne
  /\ lock' = [lock EXCEPT ![Mine(a)] = a]
  /\ pc' = [pc EXCEPT ![a] = "locked"]
  /\ UNCHANGED <<request, orders, rows, found, answer, crashes>>

\* The key has no completed row: run commerce.
ClaimNew(a) ==
  /\ pc[a] = "locked"
  /\ rows[request[a].key] = NoRow
  /\ pc' = [pc EXCEPT ![a] = "placing"]
  /\ UNCHANGED <<request, orders, rows, lock, found, answer, crashes>>

\* It has one, for the same payload: read its response.
ClaimReplay(a) ==
  /\ pc[a] = "locked"
  /\ rows[request[a].key] # NoRow
  /\ rows[request[a].key].payload = request[a].payload
  /\ found' = [found EXCEPT ![a] = rows[request[a].key].order]
  /\ pc' = [pc EXCEPT ![a] = "replayed"]
  /\ UNCHANGED <<request, orders, rows, lock, answer, crashes>>

\* It has one, for another payload.
ClaimConflict(a) ==
  /\ pc[a] = "locked"
  /\ rows[request[a].key] # NoRow
  /\ rows[request[a].key].payload # request[a].payload
  /\ pc' = [pc EXCEPT ![a] = "conflict"]
  /\ UNCHANGED <<request, orders, rows, lock, found, answer, crashes>>

\* The session of a request that placed nothing closes, and it is answered.
Close(a) ==
  /\ pc[a] \in {"replayed", "conflict"}
  /\ lock' = Released(a)
  /\ answer' = [answer EXCEPT ![a] = IF pc[a] = "replayed" THEN found[a] ELSE Conflict]
  /\ pc' = [pc EXCEPT ![a] = "ended"]
  /\ UNCHANGED <<request, orders, rows, found, crashes>>

\* Mutant of Fail: the session stays open, and with it the lock.
FailOpen(a) ==
  /\ pc[a] = "placing"
  /\ pc' = [pc EXCEPT ![a] = "ended"]
  /\ UNCHANGED <<request, orders, rows, lock, found, answer, crashes>>

\* 404, 422 or 500: the transaction rolls back, and the claim with it.
Fail(a) ==
  /\ pc[a] = "placing"
  /\ lock' = Released(a)
  /\ pc' = [pc EXCEPT ![a] = "ended"]
  /\ UNCHANGED <<request, orders, rows, found, answer, crashes>>

\* Mutant of Commit: the response is cached by a later transaction, or never.
CommitUncached(a) ==
  /\ pc[a] = "placing"
  /\ orders' = orders \cup {a}
  /\ lock' = Released(a)
  /\ pc' = [pc EXCEPT ![a] = "committed"]
  /\ UNCHANGED <<request, rows, found, answer, crashes>>

\* The order, confirmed or cancelled, and the completed row commit together.
Commit(a) ==
  /\ pc[a] = "placing"
  /\ orders' = orders \cup {a}
  /\ rows' = IF Keyed(a)
             THEN [rows EXCEPT ![request[a].key] =
                     [payload |-> request[a].payload, order |-> a]]
             ELSE rows
  /\ lock' = Released(a)
  /\ pc' = [pc EXCEPT ![a] = "committed"]
  /\ UNCHANGED <<request, found, answer, crashes>>

\* The notification's own transaction commits or fails; then the reply.
Notify(a) ==
  /\ pc[a] = "committed"
  /\ pc' = [pc EXCEPT ![a] = "notified"]
  /\ UNCHANGED <<request, orders, rows, lock, found, answer, crashes>>

Reply(a) ==
  /\ pc[a] = "notified"
  /\ answer' = [answer EXCEPT ![a] = a]
  /\ pc' = [pc EXCEPT ![a] = "ended"]
  /\ UNCHANGED <<request, orders, rows, lock, found, crashes>>

\* The process dies or the reply is lost: what is uncommitted is rolled back, and
\* the client does not know.
Crash(a) ==
  /\ pc[a] \notin {"idle", "ended"}
  /\ crashes < MaxCrashes
  /\ crashes' = crashes + 1
  /\ lock' = Released(a)
  /\ pc' = [pc EXCEPT ![a] = "ended"]
  /\ UNCHANGED <<request, orders, rows, found, answer>>

Checkout(a) ==
  \/ AcquireClaimLock(a)
  \/ ClaimNew(a) \/ ClaimReplay(a) \/ ClaimConflict(a)
  \/ Close(a)
  \/ Fail(a)
  \/ Commit(a)
  \/ Notify(a)
  \/ Reply(a)

Next == \E a \in Attempts : Send(a) \/ Checkout(a) \/ Crash(a)

Spec == Init /\ [][Next]_vars

\* The server runs every request it received to its end.
FairSpec == Spec /\ \A a \in Attempts : WF_vars(Checkout(a))

-----------------------------------------------------------------------------
Stages == {"idle", "waiting", "locked", "placing", "replayed", "conflict",
           "committed", "notified", "ended"}

\* Every variable stays in its type; a request that runs was sent, one that claims
\* has a key, and one that replays has a response.
TypeOK ==
  /\ request \in [Attempts -> Request \cup {NoRequest}]
  /\ pc \in [Attempts -> Stages]
  /\ orders \subseteq Attempts
  /\ rows \in [Keys -> [payload : Payloads, order : Attempts] \cup {NoRow}]
  /\ lock \in [Locks -> Attempts \cup {NoOne}]
  /\ found \in [Attempts -> Attempts \cup {NoOne}]
  /\ answer \in [Attempts -> Attempts \cup {NoAnswer, Conflict}]
  /\ crashes \in 0..MaxCrashes
  /\ \A a \in Attempts :
       /\ pc[a] = "idle" <=> request[a] = NoRequest
       /\ pc[a] \in {"waiting", "locked", "replayed", "conflict"} => Keyed(a)
       /\ pc[a] = "replayed" => found[a] \in Attempts

\* Executing a checkout at most once per key: however its requests race, fail and
\* are retried, a key has at most one committed order.
OneOrderPerKey ==
  \A o, q \in orders : Keyed(o) /\ request[o].key = request[q].key => o = q

\* Every answer to a key, replayed or not, is the one committed order of that key,
\* placed for the very payload that is being answered.
AnswersAgree ==
  \A a \in Attempts :
    answer[a] \in Attempts =>
      /\ answer[a] \in orders
      /\ request[answer[a]] = request[a]
      /\ ~Keyed(a) => answer[a] = a

\* A request is refused only because its key already placed an order for another
\* payload: a failed or abandoned attempt never makes its own retry conflict.
RefusedForCause ==
  \A a \in Attempts :
    answer[a] = Conflict =>
      \E o \in orders : /\ request[o].key = request[a].key
                        /\ request[o].payload # request[a].payload

\* The claim protocol keeps the promise made to clients.
KeepsPromise == Promise!Spec

\* No request waits for a key's lock for ever.
EveryAttemptEnds == \A a \in Attempts : pc[a] = "waiting" ~> pc[a] = "ended"
=============================================================================
