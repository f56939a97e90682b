--------------------------- MODULE CredentialsProofs ---------------------------
(***************************************************************************)
(* For any number of requests, hosts and addresses, any limits, windows    *)
(* and clock: no window of a bucket lets through more than its limit, a    *)
(* Retry-After is honest, an address has one account, and the answers      *)
(* agree with the accounts.                                                *)
(***************************************************************************)
EXTENDS Credentials, FiniteSetTheorems, TLAPS

Waiting == [key : Keys, until : Nat]

LEMMA DivBounds ==
  ASSUME NEW x \in Nat, NEW s \in Nat \ {0}
  PROVE  /\ (x \div s) \in Nat
         /\ s * (x \div s) <= x
         /\ x < s * (x \div s) + s
  BY Z3

\* Rounding up to whole seconds loses nothing and adds less than a second.
LEMMA SecondsRoundUp ==
  ASSUME NEW t \in Nat
  PROVE  /\ Seconds(t) \in Nat
         /\ Second * Seconds(t) \in Nat
         /\ Second * Seconds(t) >= t
         /\ Second * Seconds(t) < t + Second
<1> DEFINE y == t + Second - 1
<1>1. Second \in Nat \ {0}
  BY LimiterAssumption
<1>2. y \in Nat
  BY <1>1
<1> HIDE DEF y
<1>3. (y \div Second) \in Nat /\ Second * (y \div Second) <= y /\ y < Second * (y \div Second) + Second
  BY <1>1, <1>2, DivBounds
<1>4. Second * (y \div Second) \in Nat
  BY <1>1, <1>3
<1> QED
  BY <1>1, <1>3, <1>4 DEF Seconds, y

LEMMA Positive ==
  /\ Second \in Nat \ {0}
  /\ \A k \in Keys : Windows[k.limiter] \in Nat \ {0} /\ Limits[k.limiter] \in Nat \ {0}
  BY LimiterAssumption DEF Keys

LEMMA BudgetsAreKeys ==
  ASSUME NEW f \in Forms
  PROVE  /\ Budgets(f) \subseteq Keys
         /\ f.kind = "login" => LoginKey(f) \in Keys /\ LoginHostKey(f) \in Keys
         /\ f.kind = "register" => RegisterKey(f) \in Keys
         /\ LoginKey(f) # LoginHostKey(f)
<1>1. f.host \in Hosts /\ f.email \in Emails /\ f.kind \in {"login", "register"}
  BY FormAssumption
<1> QED
  BY <1>1 DEF Budgets, Keys, Limiters, LoginKey, LoginHostKey, RegisterKey

-----------------------------------------------------------------------------
(* An arrival, whichever route: every bucket keeps what is fresh and gains  *)
(* the request only while it has room.                                      *)

Bucket(r, k) ==
  \/ attempts'[k] = attempts[k]
  \/ attempts'[k] = Fresh(k)
  \/ HasRoom(k) /\ attempts'[k] = Fresh(k) \cup {r}

Arrival(r, f) ==
  /\ Arrive(r, f)
  /\ attempts' \in [Keys -> SUBSET Requests]
  /\ \A k \in Keys : Bucket(r, k)
  /\ \/ /\ LetThrough(r)
        /\ \A k \in Budgets(f) : HasRoom(k) /\ attempts'[k] = Fresh(k) \cup {r}
     \/ \E k \in Keys : Refuse(r, k) /\ ~HasRoom(k) /\ attempts'[k] = Fresh(k)

LEMMA FreshTyped ==
  ASSUME TypeOK, NEW k \in Keys
  PROVE  Fresh(k) \subseteq attempts[k] /\ attempts[k] \subseteq Requests
  BY DEF Fresh, TypeOK

LEMMA ArriveLoginArrives ==
  ASSUME TypeOK, NEW r \in Requests, NEW f \in Forms, ArriveLogin(r, f)
  PROVE  Arrival(r, f)
<1> DEFINE a == LoginKey(f)
           h == LoginHostKey(f)
<1>1. f.kind = "login" /\ a \in Keys /\ h \in Keys /\ a # h /\ Budgets(f) = {a, h}
  BY BudgetsAreKeys DEF ArriveLogin, Budgets
<1>2. Fresh(a) \subseteq Requests /\ Fresh(h) \subseteq Requests
  BY <1>1, FreshTyped
<1>3. attempts \in [Keys -> SUBSET Requests] /\ Arrive(r, f)
  BY DEF TypeOK, ArriveLogin
<1>4. CASE /\ ~HasRoom(a)
           /\ attempts' = [attempts EXCEPT ![a] = Fresh(a)]
           /\ Refuse(r, a)
  BY <1>1, <1>2, <1>3, <1>4 DEF Arrival, Bucket
<1>5. CASE /\ HasRoom(a) /\ ~HasRoom(h)
           /\ attempts' = [attempts EXCEPT ![a] = Fresh(a) \cup {r}, ![h] = Fresh(h)]
           /\ Refuse(r, h)
  BY <1>1, <1>2, <1>3, <1>5 DEF Arrival, Bucket
<1>6. CASE /\ HasRoom(a) /\ HasRoom(h)
           /\ attempts' = [attempts EXCEPT ![a] = Fresh(a) \cup {r}, ![h] = Fresh(h) \cup {r}]
           /\ LetThrough(r)
  BY <1>1, <1>2, <1>3, <1>6 DEF Arrival, Bucket
<1> QED
  BY <1>4, <1>5, <1>6 DEF ArriveLogin

LEMMA ArriveRegisterArrives ==
  ASSUME TypeOK, NEW r \in Requests, NEW f \in Forms, ArriveRegister(r, f)
  PROVE  Arrival(r, f)
<1> DEFINE k == RegisterKey(f)
<1>1. f.kind = "register" /\ k \in Keys /\ Budgets(f) = {k}
  BY BudgetsAreKeys DEF ArriveRegister, Budgets
<1>2. Fresh(k) \subseteq Requests
  BY <1>1, FreshTyped
<1>3. attempts \in [Keys -> SUBSET Requests] /\ Arrive(r, f)
  BY DEF TypeOK, ArriveRegister
<1> QED
  BY <1>1, <1>2, <1>3 DEF ArriveRegister, Arrival, Bucket

\* Every step is an arrival, a step of a request under way, a tick or a restart.
LEMMA Steps ==
  ASSUME TypeOK, [Next]_vars
  PROVE  \/ \E r \in Requests, f \in Forms : Arrival(r, f)
         \/ \E r \in Requests : Handle(r)
         \/ Tick
         \/ Restart
         \/ UNCHANGED vars
  BY ArriveLoginArrives, ArriveRegisterArrives DEF Next

-----------------------------------------------------------------------------
(* Types.                                                                  *)

LEMMA RefusalTyped ==
  ASSUME TypeOK, NEW r \in Requests, NEW k \in Keys, Refuse(r, k)
  PROVE  /\ waits' \in [Requests -> Waiting \cup {NoWait}]
         /\ pc' = [pc EXCEPT ![r] = "refused"]
         /\ served' = served
<1>1. PICK q \in Fresh(k) :
        waits' = [waits EXCEPT ![r] =
          [key |-> k, until |-> now + Second * Seconds(at[q] + Windows[k.limiter] - now)]]
  BY DEF Refuse
<1>2. q \in Requests /\ at[q] \in Nat /\ now \in Nat /\ at[q] > now - Windows[k.limiter]
  BY FreshTyped, BoundsAssumption DEF Fresh, TypeOK
<1>3. at[q] + Windows[k.limiter] - now \in Nat
  BY <1>2, Positive
<1>4. now + Second * Seconds(at[q] + Windows[k.limiter] - now) \in Nat
  BY <1>2, <1>3, SecondsRoundUp
<1> QED
  BY <1>1, <1>4 DEF Waiting, TypeOK, Refuse

LEMMA ArrivalTyped ==
  ASSUME TypeOK, NEW r \in Requests, NEW f \in Forms, Arrival(r, f)
  PROVE  TypeOK'
<1>1. /\ now' = now /\ form' = [form EXCEPT ![r] = f] /\ at' = [at EXCEPT ![r] = now]
      /\ before' = [before EXCEPT ![r] = {q \in Requests : pc[q] = "created"}]
      /\ inserting' = inserting /\ users' = users /\ restarts' = restarts
      /\ attempts' \in [Keys -> SUBSET Requests]
  BY DEF Arrival, Arrive
<1>2. /\ now' \in 0..MaxTime /\ form' \in [Requests -> Forms \cup {NoForm}]
      /\ at' \in [Requests -> 0..MaxTime] /\ before' \in [Requests -> SUBSET Requests]
      /\ inserting' \subseteq Requests /\ users' \subseteq Requests
      /\ restarts' \in 0..MaxRestarts
  BY <1>1 DEF TypeOK
<1>3. CASE LetThrough(r)
  BY <1>1, <1>2, <1>3 DEF LetThrough, TypeOK, Open
<1>4. ASSUME NEW k \in Keys, Refuse(r, k)
      PROVE  TypeOK'
  BY <1>1, <1>2, <1>4, RefusalTyped DEF TypeOK, Open, Waiting
<1> QED
  BY <1>3, <1>4 DEF Arrival

LEMMA HandleTyped ==
  ASSUME TypeOK, NEW r \in Requests, Handle(r)
  PROVE  TypeOK'
<1>1. /\ UNCHANGED <<now, attempts, form, at, served, waits, before, restarts>>
      /\ inserting' \subseteq inserting \cup {r} /\ users' \subseteq users \cup {r}
  BY DEF Handle, limiterVars, Authenticate, IssueTokens, FindFree, Insert, Commit
<1>2. pc' \in [Requests -> Open \cup {"idle", "refused", "unauthorized", "loggedin",
                                      "conflict", "created", "dead"}]
  BY DEF Handle, TypeOK, Open, Authenticate, IssueTokens, FindFree, Insert, Commit
<1> QED
  BY <1>1, <1>2 DEF TypeOK

LEMMA TypeInit == Init => TypeOK
  BY BoundsAssumption DEF Init, TypeOK, Open

LEMMA TypeNext ==
  ASSUME TypeOK, [Next]_vars
  PROVE  TypeOK'
<1>1. CASE \E r \in Requests, f \in Forms : Arrival(r, f)
  BY <1>1, ArrivalTyped
<1>2. CASE \E r \in Requests : Handle(r)
  BY <1>2, HandleTyped
<1>3. CASE Tick
  BY <1>3, BoundsAssumption DEF Tick, limiterVars, TypeOK
<1>4. CASE Restart
  BY <1>4, BoundsAssumption DEF Restart, TypeOK, Open
<1>5. CASE UNCHANGED vars
  BY <1>5 DEF vars, TypeOK
<1> QED
  BY <1>1, <1>2, <1>3, <1>4, <1>5, Steps

\* Every reachable state of the credential routes is well typed.
THEOREM CredentialsTypeCorrect == Spec => []TypeOK
<1> QED
  BY TypeInit, TypeNext, PTL DEF Spec

-----------------------------------------------------------------------------
(* Counting requests.                                                      *)

LEMMA CountPart ==
  ASSUME NEW S \in SUBSET Requests, NEW T \in SUBSET S
  PROVE  /\ Cardinality(S) \in Nat /\ Cardinality(T) \in Nat
         /\ Cardinality(T) <= Cardinality(S)
<1>1. IsFiniteSet(S)
  BY BoundsAssumption, FS_Subset
<1> QED
  BY <1>1, FS_Subset, FS_CardinalityType

LEMMA CountOneMore ==
  ASSUME NEW S \in SUBSET Requests, NEW r \in Requests
  PROVE  Cardinality(S \cup {r}) <= Cardinality(S) + 1
<1>1. IsFiniteSet(S)
  BY BoundsAssumption, FS_Subset
<1>2. Cardinality(S) \in Nat
  BY <1>1, FS_CardinalityType
<1>3. Cardinality(S \cup {r}) = IF r \in S THEN Cardinality(S) ELSE Cardinality(S) + 1
  BY <1>1, FS_AddElement
<1> QED
  BY <1>2, <1>3

LEMMA CountOneLess ==
  ASSUME NEW S \in SUBSET Requests, NEW q \in S, NEW T \in SUBSET (S \ {q})
  PROVE  Cardinality(T) < Cardinality(S)
<1>1. IsFiniteSet(S)
  BY BoundsAssumption, FS_Subset
<1>2. IsFiniteSet(S \ {q}) /\ Cardinality(S \ {q}) = Cardinality(S) - 1
  BY <1>1, FS_RemoveElement
<1> QED
  BY <1>1, <1>2, FS_Subset, FS_CardinalityType

-----------------------------------------------------------------------------
(* The limiter.                                                            *)

\* The requests let through in the window of bucket k that ends at t.
Window(k, t) ==
  {r \in served : k \in Budgets(form[r]) /\ at[r] \in t - Windows[k.limiter] + 1 .. t}

\* A request that has not arrived is in no bucket and waits for nothing.
Untouched ==
  \A r \in Requests :
    pc[r] = "idle" => /\ r \notin served /\ waits[r] = NoWait
                      /\ \A k \in Keys : r \notin attempts[k]

Seen == \A r \in Requests : at[r] <= now

\* The buckets forget nothing that is still in the window.
Recorded ==
  \A r \in served, k \in Keys :
    k \in Budgets(form[r]) /\ at[r] > now - Windows[k.limiter] => r \in attempts[k]

Full == \A k \in Keys : Cardinality(attempts[k]) <= Limits[k.limiter]

\* Of what the bucket counted when r was refused, the part that is still in the
\* window when r may come back; and the part that still is a second earlier.
Outlasting(r) ==
  {q \in attempts[waits[r].key] :
     at[q] <= at[r] /\ at[q] > waits[r].until - Windows[waits[r].key.limiter]}

Lasting(r) ==
  {q \in attempts[waits[r].key] :
     at[q] + Windows[waits[r].key.limiter] > waits[r].until - Second}

Promised ==
  \A r \in Requests :
    waits[r] # NoWait =>
      LET k == waits[r].key
      IN /\ at[r] + Second <= waits[r].until
         /\ Cardinality(Outlasting(r)) < Limits[k.limiter]
         /\ now <= waits[r].until - Second => Cardinality(Lasting(r)) >= Limits[k.limiter]

LimiterInv == Untouched /\ Seen /\ Recorded /\ Full /\ AttemptsLimited /\ Promised

LEMMA WaitTyped ==
  ASSUME TypeOK, NEW r \in Requests, waits[r] # NoWait
  PROVE  waits[r].key \in Keys /\ waits[r].until \in Nat
  BY DEF TypeOK

\* While the refused request must still wait a second, its bucket has no room.
LEMMA NoRoomYet ==
  ASSUME TypeOK, Promised, NEW r \in Requests, waits[r] # NoWait,
         now <= waits[r].until - Second
  PROVE  ~HasRoom(waits[r].key)
<1> DEFINE k == waits[r].key
<1>1. k \in Keys /\ waits[r].until \in Nat
  BY WaitTyped
<1>2. now \in Nat /\ \A q \in Requests : at[q] \in Nat
  BY BoundsAssumption DEF TypeOK
<1>3. Lasting(r) \subseteq Fresh(k)
  BY <1>1, <1>2, FreshTyped, Positive DEF Lasting, Fresh
<1>4. Cardinality(Lasting(r)) <= Cardinality(Fresh(k)) /\ Cardinality(Fresh(k)) \in Nat
      /\ Cardinality(Lasting(r)) \in Nat
  BY <1>1, <1>3, CountPart, FreshTyped
<1> QED
  BY <1>1, <1>4, Positive DEF Promised, HasRoom

LEMMA PromisedIsHonest ==
  ASSUME TypeOK, LimiterInv
  PROVE  HonestRetryAfter
<1> SUFFICES ASSUME NEW r \in Requests, waits[r] # NoWait
             PROVE  LET k == waits[r].key
                    IN /\ now >= waits[r].until /\ (\A q \in attempts[k] : at[q] <= at[r])
                            => HasRoom(k)
                       /\ now <= waits[r].until - Second => ~HasRoom(k)
  BY DEF HonestRetryAfter
<1> DEFINE k == waits[r].key
<1>1. k \in Keys /\ waits[r].until \in Nat
  BY WaitTyped
<1>2. now \in Nat /\ \A q \in Requests : at[q] \in Nat
  BY BoundsAssumption DEF TypeOK
<1>3. ASSUME now >= waits[r].until, \A q \in attempts[k] : at[q] <= at[r]
      PROVE  HasRoom(k)
  <2>1. Fresh(k) \subseteq Outlasting(r)
    BY <1>1, <1>2, <1>3, FreshTyped, Positive DEF Outlasting, Fresh
  <2>2. Outlasting(r) \subseteq Requests
    BY <1>1, FreshTyped DEF Outlasting
  <2>3. Cardinality(Fresh(k)) <= Cardinality(Outlasting(r)) /\ Cardinality(Fresh(k)) \in Nat
        /\ Cardinality(Outlasting(r)) \in Nat
    BY <2>1, <2>2, CountPart
  <2> QED
    BY <1>1, <2>3, Positive DEF LimiterInv, Promised, HasRoom
<1> QED
  BY <1>3, NoRoomYet DEF LimiterInv

\* What an arrival leaves as it was, and what it does to the buckets.
LEMMA ArrivalFacts ==
  ASSUME TypeOK, Untouched, NEW r \in Requests, NEW f \in Forms, Arrival(r, f)
  PROVE  /\ now' = now /\ pc[r] = "idle" /\ pc'[r] \in {"admitted", "refused"}
         /\ form'[r] = f /\ at'[r] = now
         /\ \A q \in Requests \ {r} : /\ form'[q] = form[q] /\ at'[q] = at[q]
                                      /\ pc'[q] = pc[q] /\ waits'[q] = waits[q]
         /\ r \notin served /\ served' \subseteq served \cup {r} /\ waits[r] = NoWait
         /\ \A k \in Keys :
              /\ r \notin attempts[k] /\ r \notin Fresh(k)
              /\ Fresh(k) \subseteq attempts'[k] /\ attempts'[k] \subseteq attempts[k] \cup {r}
              /\ r \in attempts'[k] => HasRoom(k) /\ attempts'[k] = Fresh(k) \cup {r}
<1>1. /\ pc[r] = "idle" /\ now' = now /\ form' = [form EXCEPT ![r] = f]
      /\ at' = [at EXCEPT ![r] = now]
  BY DEF Arrival, Arrive
<1>2. /\ form'[r] = f /\ at'[r] = now
      /\ \A q \in Requests \ {r} : form'[q] = form[q] /\ at'[q] = at[q]
  BY <1>1 DEF TypeOK
<1>3. /\ pc'[r] \in {"admitted", "refused"}
      /\ \A q \in Requests \ {r} : pc'[q] = pc[q] /\ waits'[q] = waits[q]
      /\ served' \subseteq served \cup {r}
  BY DEF Arrival, LetThrough, Refuse, TypeOK
<1>4. r \notin served /\ waits[r] = NoWait /\ \A k \in Keys : r \notin attempts[k]
  BY <1>1 DEF Untouched
<1>5. ASSUME NEW k \in Keys
      PROVE  /\ r \notin attempts[k] /\ r \notin Fresh(k)
             /\ Fresh(k) \subseteq attempts'[k] /\ attempts'[k] \subseteq attempts[k] \cup {r}
             /\ r \in attempts'[k] => HasRoom(k) /\ attempts'[k] = Fresh(k) \cup {r}
  BY <1>4, FreshTyped DEF Arrival, Bucket
<1> QED
  BY <1>1, <1>2, <1>3, <1>4, <1>5

LEMMA ArrivalUntouched ==
  ASSUME TypeOK, LimiterInv, NEW r \in Requests, NEW f \in Forms, Arrival(r, f)
  PROVE  Untouched' /\ Seen'
<1>1. Untouched
  BY DEF LimiterInv
<1>2. now \in Int /\ Seen
  BY BoundsAssumption DEF TypeOK, LimiterInv
<1> QED
  BY <1>1, <1>2, ArrivalFacts DEF Untouched, Seen

LEMMA ArrivalRecorded ==
  ASSUME TypeOK, LimiterInv, NEW r \in Requests, NEW f \in Forms, Arrival(r, f)
  PROVE  Recorded'
<1>1. Untouched /\ Recorded
  BY DEF LimiterInv
<1> SUFFICES ASSUME NEW q \in served', NEW k \in Keys, k \in Budgets(form'[q]),
                    at'[q] > now' - Windows[k.limiter]
             PROVE  q \in attempts'[k]
  BY DEF Recorded
<1>2. CASE q = r
  <2>1. LetThrough(r)
    BY <1>1, <1>2, ArrivalFacts DEF Arrival, Refuse
  <2>2. \A b \in Budgets(f) : attempts'[b] = Fresh(b) \cup {r}
    BY <2>1, <1>1, ArrivalFacts DEF Arrival, LetThrough, Refuse
  <2> QED
    BY <1>1, <1>2, <2>2, ArrivalFacts
<1>3. CASE q # r
  <2>1. q \in served /\ q \in Requests
    BY <1>1, <1>3, ArrivalFacts DEF TypeOK
  <2>2. form'[q] = form[q] /\ at'[q] = at[q] /\ now' = now
    BY <1>1, <1>3, <2>1, ArrivalFacts
  <2>3. q \in attempts[k] /\ at[q] > now - Windows[k.limiter]
    BY <1>1, <2>1, <2>2 DEF Recorded
  <2> QED
    BY <1>1, <2>3, ArrivalFacts DEF Fresh
<1> QED
  BY <1>2, <1>3

LEMMA ArrivalFull ==
  ASSUME TypeOK, LimiterInv, NEW r \in Requests, NEW f \in Forms, Arrival(r, f)
  PROVE  Full'
<1>1. Untouched /\ Full
  BY DEF LimiterInv
<1> SUFFICES ASSUME NEW k \in Keys
             PROVE  Cardinality(attempts'[k]) <= Limits[k.limiter]
  BY DEF Full
<1>2. attempts[k] \subseteq Requests /\ Fresh(k) \subseteq attempts[k]
  BY FreshTyped
<1>3. CASE r \in attempts'[k]
  <2>1. Cardinality(Fresh(k)) < Limits[k.limiter] /\ attempts'[k] = Fresh(k) \cup {r}
    BY <1>1, <1>3, ArrivalFacts DEF HasRoom
  <2>2. Cardinality(attempts'[k]) <= Cardinality(Fresh(k)) + 1
    BY <1>2, <2>1, CountOneMore
  <2>3. Cardinality(Fresh(k)) \in Nat /\ Cardinality(attempts'[k]) \in Nat
    BY <1>2, <2>1, CountPart
  <2> QED
    BY <2>1, <2>2, <2>3, Positive
<1>4. CASE r \notin attempts'[k]
  <2>1. attempts'[k] \subseteq attempts[k]
    BY <1>1, <1>4, ArrivalFacts
  <2>2. /\ Cardinality(attempts'[k]) \in Nat /\ Cardinality(attempts[k]) \in Nat
        /\ Cardinality(attempts'[k]) <= Cardinality(attempts[k])
    BY <1>2, <2>1, CountPart
  <2> QED
    BY <1>1, <2>2, Positive DEF Full
<1> QED
  BY <1>3, <1>4

LEMMA ArrivalLimited ==
  ASSUME TypeOK, LimiterInv, NEW r \in Requests, NEW f \in Forms, Arrival(r, f)
  PROVE  AttemptsLimited'
<1>1. Untouched /\ Recorded /\ Seen /\ now \in Nat /\ served \subseteq Requests
  BY BoundsAssumption DEF LimiterInv, TypeOK
<1>2. \A k \in Keys, t \in 0..now : Cardinality(Window(k, t)) <= Limits[k.limiter]
  BY DEF LimiterInv, AttemptsLimited, Window
<1> SUFFICES ASSUME NEW k \in Keys, NEW t \in 0..now
             PROVE  Cardinality(Window(k, t)') <= Limits[k.limiter]
  BY <1>1, ArrivalFacts DEF AttemptsLimited, Window
<1>3. Window(k, t)' \subseteq Window(k, t) \cup {r} /\ Window(k, t) \subseteq Requests
  BY <1>1, ArrivalFacts DEF Window
<1>4. CASE r \notin Window(k, t)'
  <2>1. Window(k, t)' \subseteq Window(k, t)
    BY <1>3, <1>4
  <2>2. /\ Cardinality(Window(k, t)') <= Cardinality(Window(k, t))
        /\ Cardinality(Window(k, t)') \in Nat /\ Cardinality(Window(k, t)) \in Nat
    BY <1>3, <2>1, CountPart
  <2> QED
    BY <1>2, <2>2, Positive
<1>5. CASE r \in Window(k, t)'
  <2>1. t = now /\ r \in served' /\ k \in Budgets(f)
    BY <1>1, <1>5, ArrivalFacts DEF Window
  <2>2. HasRoom(k) /\ Fresh(k) \subseteq Requests
    BY <1>1, <2>1, ArrivalFacts, FreshTyped DEF Arrival, Refuse
  <2>3. Window(k, t) \subseteq Fresh(k)
    BY <1>1, <2>1, Positive DEF Window, Recorded, Fresh, TypeOK
  <2>4. Window(k, t)' \subseteq Fresh(k) \cup {r}
    BY <1>3, <2>3
  <2>5. Fresh(k) \cup {r} \subseteq Requests
    BY <2>2
  <2>6. /\ Cardinality(Window(k, t)') <= Cardinality(Fresh(k) \cup {r})
        /\ Cardinality(Window(k, t)') \in Nat /\ Cardinality(Fresh(k) \cup {r}) \in Nat
    BY <2>4, <2>5, CountPart
  <2>7. Cardinality(Fresh(k) \cup {r}) <= Cardinality(Fresh(k)) + 1 /\ Cardinality(Fresh(k)) \in Nat
    BY <2>2, CountOneMore, CountPart
  <2> QED
    BY <2>2, <2>6, <2>7, Positive DEF HasRoom
<1> QED
  BY <1>4, <1>5

\* What was promised to q is not touched by the arrival of another request: one
\* that arrives in the same tick finds no room in the bucket that refused q.
LEMMA ArrivalKeepsPromise ==
  ASSUME TypeOK, LimiterInv, NEW r \in Requests, NEW f \in Forms, Arrival(r, f),
         NEW q \in Requests \ {r}, waits[q] # NoWait
  PROVE  /\ Cardinality(Outlasting(q)') < Limits[waits[q].key.limiter]
         /\ now <= waits[q].until - Second =>
              Cardinality(Lasting(q)') >= Limits[waits[q].key.limiter]
<1> DEFINE k == waits[q].key
           u == waits[q].until
<1>1. Untouched /\ Promised /\ Seen
  BY DEF LimiterInv
<1>2. k \in Keys /\ u \in Nat
  BY WaitTyped
<1>3. now \in Nat /\ now' = now /\ \A x \in Requests : at[x] \in Nat /\ at[x] <= now
  BY <1>1, BoundsAssumption, ArrivalFacts DEF TypeOK, Seen
<1>4. /\ r \notin attempts[k] /\ Fresh(k) \subseteq attempts'[k]
      /\ attempts'[k] \subseteq attempts[k] \cup {r}
      /\ r \in attempts'[k] => HasRoom(k)
      /\ at'[r] = now /\ waits'[q] = waits[q]
      /\ \A x \in Requests \ {r} : at'[x] = at[x]
  BY <1>1, <1>2, ArrivalFacts
<1>5. attempts[k] \subseteq Requests /\ attempts'[k] \subseteq Requests
  BY <1>2, <1>4, FreshTyped
<1>6. at[q] + Second <= u /\ Cardinality(Outlasting(q)) < Limits[k.limiter]
  BY <1>1 DEF Promised
<1>7. Outlasting(q)' = {x \in attempts'[k] : at'[x] <= at[q] /\ at'[x] > u - Windows[k.limiter]}
  BY <1>4 DEF Outlasting
<1>8. now = at[q] => r \notin attempts'[k]
  BY <1>1, <1>3, <1>4, <1>6, <1>2, NoRoomYet, Positive
<1>9. Outlasting(q)' \subseteq Outlasting(q)
  <2> SUFFICES ASSUME NEW x \in attempts'[k], at'[x] <= at[q], at'[x] > u - Windows[k.limiter]
               PROVE  x \in Outlasting(q)
    BY <1>7
  <2>1. x # r
    BY <1>3, <1>4, <1>8
  <2> QED
    BY <2>1, <1>4, <1>5 DEF Outlasting
<1>10. /\ Cardinality(Outlasting(q)') <= Cardinality(Outlasting(q))
       /\ Cardinality(Outlasting(q)') \in Nat /\ Cardinality(Outlasting(q)) \in Nat
  BY <1>5, <1>9, CountPart DEF Outlasting
<1>11. ASSUME now <= u - Second
       PROVE  Cardinality(Lasting(q)') >= Limits[k.limiter]
  <2>1. Lasting(q)' = {x \in attempts'[k] : at'[x] + Windows[k.limiter] > u - Second}
    BY <1>4 DEF Lasting
  <2>2. Lasting(q) \subseteq Fresh(k)
    BY <1>2, <1>3, <1>5, <1>11, Positive DEF Lasting, Fresh
  <2>3. Lasting(q) \subseteq Lasting(q)'
    BY <2>1, <2>2, <1>4, <1>5 DEF Lasting
  <2>4. /\ Cardinality(Lasting(q)) <= Cardinality(Lasting(q)')
        /\ Cardinality(Lasting(q)') \in Nat /\ Cardinality(Lasting(q)) \in Nat
    BY <1>5, <2>1, <2>3, CountPart
  <2> QED
    BY <1>1, <1>2, <1>11, <2>4, Positive DEF Promised
<1> QED
  BY <1>2, <1>6, <1>10, <1>11, Positive

\* A refusal: the oldest attempt will have left by the time that is told, and all
\* of them are still there a second earlier.
LEMMA RefusalPromises ==
  ASSUME TypeOK, LimiterInv, NEW r \in Requests, NEW f \in Forms, Arrival(r, f),
         NEW k \in Keys, Refuse(r, k), ~HasRoom(k), attempts'[k] = Fresh(k)
  PROVE  /\ waits'[r].key = k
         /\ at'[r] + Second <= waits'[r].until
         /\ Cardinality(Outlasting(r)') < Limits[k.limiter]
         /\ Cardinality(Lasting(r)') >= Limits[k.limiter]
<1> DEFINE w == Windows[k.limiter]
<1>1. Untouched /\ Full
  BY DEF LimiterInv
<1>2. PICK q \in Fresh(k) :
        /\ \A x \in Fresh(k) : at[q] <= at[x]
        /\ waits' = [waits EXCEPT ![r] =
             [key |-> k, until |-> now + Second * Seconds(at[q] + w - now)]]
  BY DEF Refuse
<1> DEFINE d == at[q] + w - now
           u == now + Second * Seconds(d)
<1>3. attempts[k] \subseteq Requests /\ Fresh(k) \subseteq attempts[k]
  BY FreshTyped
<1>4. now \in Nat /\ w \in Nat \ {0} /\ Second \in Nat \ {0} /\ \A x \in Requests : at[x] \in Nat
  BY BoundsAssumption, Positive DEF TypeOK
<1>5. d \in Nat \ {0}
  BY <1>2, <1>3, <1>4 DEF Fresh
<1>6. Seconds(d) \in Nat /\ Second * Seconds(d) \in Nat
      /\ Second * Seconds(d) >= d /\ Second * Seconds(d) < d + Second
  BY <1>5, SecondsRoundUp
<1> HIDE DEF w
<1>7. waits'[r].key = k /\ waits'[r].until = u
  BY <1>2 DEF TypeOK
<1>8. at'[r] = now /\ \A x \in Fresh(k) : x \in Requests /\ at'[x] = at[x]
  BY <1>1, <1>3, ArrivalFacts
<1>9. Second * Seconds(d) >= Second
  <2>1. Seconds(d) # 0
    BY <1>4, <1>5, <1>6
  <2>2. PICK c \in Nat : Seconds(d) = c + 1
    <3>1. Seconds(d) - 1 \in Nat /\ Seconds(d) = (Seconds(d) - 1) + 1
      BY <2>1, <1>6
    <3> QED
      BY <3>1
  <2>3. Second * (c + 1) = Second * c + Second /\ Second * c \in Nat
    BY <1>4, <2>2, Z3
  <2> QED
    BY <1>4, <2>2, <2>3
<1>10. u \in Nat /\ at[q] + w <= u /\ at[q] + w > u - Second
  BY <1>2, <1>3, <1>4, <1>5, <1>6
<1>11. Outlasting(r)' \subseteq Fresh(k) \ {q}
  <2>1. Outlasting(r)' = {x \in Fresh(k) : at'[x] <= at'[r] /\ at'[x] > u - w}
    BY <1>7 DEF Outlasting, w
  <2>2. ~(at[q] > u - w)
    BY <1>2, <1>3, <1>4, <1>10
  <2> QED
    BY <2>1, <2>2, <1>2, <1>8
<1>12. Fresh(k) \subseteq Lasting(r)' /\ Lasting(r)' \subseteq Fresh(k)
  <2>1. Lasting(r)' = {x \in Fresh(k) : at'[x] + w > u - Second}
    BY <1>7 DEF Lasting, w
  <2>2. \A x \in Fresh(k) : at[x] + w > u - Second
    BY <1>2, <1>3, <1>4, <1>10
  <2> QED
    BY <2>1, <2>2, <1>8
<1>13. Cardinality(Outlasting(r)') < Cardinality(Fresh(k))
  BY <1>3, <1>11, CountOneLess
<1>14. /\ Cardinality(Fresh(k)) <= Cardinality(attempts[k])
       /\ Cardinality(Fresh(k)) \in Nat /\ Cardinality(attempts[k]) \in Nat
       /\ Cardinality(Outlasting(r)') \in Nat
  BY <1>3, <1>11, CountPart
<1>15. Lasting(r)' = Fresh(k)
  BY <1>12
<1> QED
  BY <1>1, <1>4, <1>6, <1>7, <1>8, <1>9, <1>13, <1>14, <1>15, Positive DEF Full, HasRoom

LEMMA ArrivalPromised ==
  ASSUME TypeOK, LimiterInv, NEW r \in Requests, NEW f \in Forms, Arrival(r, f)
  PROVE  Promised'
<1>1. Untouched /\ Promised
  BY DEF LimiterInv
<1> SUFFICES ASSUME NEW q \in Requests, waits'[q] # NoWait
             PROVE  LET k == waits'[q].key
                    IN /\ at'[q] + Second <= waits'[q].until
                       /\ Cardinality(Outlasting(q)') < Limits[k.limiter]
                       /\ now' <= waits'[q].until - Second =>
                            Cardinality(Lasting(q)') >= Limits[k.limiter]
  BY DEF Promised
<1>2. CASE q # r
  BY <1>1, <1>2, ArrivalFacts, ArrivalKeepsPromise DEF Promised
<1>3. CASE q = r
  <2>1. ~LetThrough(r)
    BY <1>1, <1>3, ArrivalFacts DEF LetThrough
  <2>2. PICK k \in Keys : Refuse(r, k) /\ ~HasRoom(k) /\ attempts'[k] = Fresh(k)
    BY <2>1 DEF Arrival
  <2> QED
    BY <1>3, <2>2, RefusalPromises
<1> QED
  BY <1>2, <1>3

LEMMA ArrivalLimiter ==
  ASSUME TypeOK, LimiterInv, NEW r \in Requests, NEW f \in Forms, Arrival(r, f)
  PROVE  LimiterInv'
  BY ArrivalUntouched, ArrivalRecorded, ArrivalFull, ArrivalLimited, ArrivalPromised
     DEF LimiterInv

LEMMA HandleFacts ==
  ASSUME TypeOK, NEW r \in Requests, Handle(r)
  PROVE  /\ UNCHANGED <<now, attempts, form, at, served, waits, before>>
         /\ pc[r] \in Open /\ pc' = [pc EXCEPT ![r] = pc'[r]] /\ pc'[r] # "idle"
  BY DEF Handle, limiterVars, TypeOK, Open, Authenticate, IssueTokens, FindFree, Insert, Commit

LEMMA LimiterKept ==
  ASSUME LimiterInv, UNCHANGED <<now, attempts, form, at, served, waits>>,
         \A q \in Requests : pc'[q] = "idle" => pc[q] = "idle"
  PROVE  LimiterInv'
<1>1. Untouched' /\ Seen'
  BY DEF LimiterInv, Untouched, Seen
<1>2. Recorded'
  BY DEF LimiterInv, Recorded
<1>3. Full'
  BY DEF LimiterInv, Full
<1>4. AttemptsLimited'
  <2>1. \A k \in Keys, t \in 0..now : Window(k, t)' = Window(k, t)
    BY DEF Window
  <2>2. \A k \in Keys, t \in 0..now : Cardinality(Window(k, t)) <= Limits[k.limiter]
    BY DEF LimiterInv, AttemptsLimited, Window
  <2>3. \A k \in Keys, t \in 0..now' : Cardinality(Window(k, t)') <= Limits[k.limiter]
    BY <2>1, <2>2
  <2> QED
    BY <2>3 DEF AttemptsLimited, Window
<1>5. Promised'
  <2>1. \A r \in Requests : Outlasting(r)' = Outlasting(r) /\ Lasting(r)' = Lasting(r)
    BY DEF Outlasting, Lasting
  <2> QED
    BY <2>1 DEF LimiterInv, Promised
<1> QED
  BY <1>1, <1>2, <1>3, <1>4, <1>5 DEF LimiterInv

LEMMA HandleLimiter ==
  ASSUME TypeOK, LimiterInv, NEW r \in Requests, Handle(r)
  PROVE  LimiterInv'
<1>1. /\ UNCHANGED <<now, attempts, form, at, served, waits>>
      /\ \A q \in Requests : pc'[q] = "idle" => pc[q] = "idle"
  BY HandleFacts DEF TypeOK
<1> QED
  BY <1>1, LimiterKept

LEMMA TickLimiter ==
  ASSUME TypeOK, LimiterInv, Tick
  PROVE  LimiterInv'
<1>1. /\ UNCHANGED <<attempts, form, at, served, waits, pc>> /\ now' = now + 1
      /\ now \in Nat /\ \A q \in Requests : at[q] \in Nat
  BY BoundsAssumption DEF Tick, limiterVars, TypeOK
<1>2. Untouched' /\ Seen' /\ Full'
  BY <1>1 DEF LimiterInv, Untouched, Seen, Full
<1>3. Recorded'
  BY <1>1, Positive DEF LimiterInv, Recorded, TypeOK
<1>4. AttemptsLimited'
  <2> SUFFICES ASSUME NEW k \in Keys, NEW t \in 0 .. now + 1
               PROVE  Cardinality(Window(k, t)) <= Limits[k.limiter]
    BY <1>1 DEF AttemptsLimited, Window
  <2>1. CASE t \in 0..now
    BY <2>1 DEF LimiterInv, AttemptsLimited, Window
  <2>2. CASE t = now + 1
    <3>1. Window(k, t) \subseteq Window(k, now) /\ Window(k, now) \subseteq Requests
      BY <1>1, <2>2, Positive DEF Window, LimiterInv, Seen, TypeOK
    <3>2. Cardinality(Window(k, now)) <= Limits[k.limiter]
      BY <1>1 DEF LimiterInv, AttemptsLimited, Window
    <3>3. /\ Cardinality(Window(k, t)) <= Cardinality(Window(k, now))
          /\ Cardinality(Window(k, t)) \in Nat /\ Cardinality(Window(k, now)) \in Nat
      BY <3>1, CountPart
    <3> QED
      BY <3>2, <3>3, Positive
  <2> QED
    BY <1>1, <2>1, <2>2
<1>5. Promised'
  <2> SUFFICES ASSUME NEW r \in Requests, waits[r] # NoWait
               PROVE  LET k == waits[r].key
                      IN /\ at[r] + Second <= waits[r].until
                         /\ Cardinality(Outlasting(r)) < Limits[k.limiter]
                         /\ now + 1 <= waits[r].until - Second =>
                              Cardinality(Lasting(r)) >= Limits[k.limiter]
    BY <1>1 DEF Promised, Outlasting, Lasting
  <2>1. waits[r].until \in Nat
    BY WaitTyped
  <2> QED
    BY <1>1, <2>1, Positive DEF LimiterInv, Promised
<1> QED
  BY <1>2, <1>3, <1>4, <1>5 DEF LimiterInv

\* With nothing counted and nobody waiting, there is nothing to keep.
LEMMA EmptyLimiter ==
  ASSUME TypeOK, served = {}, attempts = [k \in Keys |-> {}],
         waits = [r \in Requests |-> NoWait], Seen
  PROVE  LimiterInv
<1>1. Cardinality({}) = 0
  BY FS_EmptySet
<1>2. Full
  BY <1>1, Positive DEF Full
<1>3. AttemptsLimited
  <2>1. \A k \in Keys, t \in 0..now : Window(k, t) = {}
    BY DEF Window
  <2> QED
    BY <1>1, <2>1, Positive DEF AttemptsLimited, Window
<1> QED
  BY <1>2, <1>3 DEF LimiterInv, Untouched, Recorded, Promised

LEMMA LimiterInit ==
  ASSUME Init
  PROVE  LimiterInv
<1>1. TypeOK
  BY TypeInit
<1>2. Seen
  BY DEF Init, Seen
<1> QED
  BY <1>1, <1>2, EmptyLimiter DEF Init

LEMMA RestartLimiter ==
  ASSUME TypeOK, LimiterInv, Restart, TypeOK'
  PROVE  LimiterInv'
<1>1. Seen'
  BY DEF Restart, LimiterInv, Seen
<1>2. /\ served' = {} /\ attempts' = [k \in Keys |-> {}]
      /\ waits' = [r \in Requests |-> NoWait]
  BY DEF Restart
<1>3. Cardinality({}) = 0
  BY FS_EmptySet
<1>4. Full'
  BY <1>2, <1>3, Positive DEF Full
<1>5. AttemptsLimited'
  <2>1. \A k \in Keys, t \in 0..now' : Window(k, t)' = {}
    BY <1>2 DEF Window
  <2>2. \A k \in Keys, t \in 0..now' : Cardinality(Window(k, t)') <= Limits[k.limiter]
    BY <1>3, <2>1, Positive
  <2> QED
    BY <2>2 DEF AttemptsLimited, Window
<1> QED
  BY <1>1, <1>2, <1>4, <1>5 DEF LimiterInv, Untouched, Recorded, Promised

LEMMA LimiterNext ==
  ASSUME TypeOK, LimiterInv, [Next]_vars, TypeOK'
  PROVE  LimiterInv'
<1>1. CASE \E r \in Requests, f \in Forms : Arrival(r, f)
  BY <1>1, ArrivalLimiter
<1>2. CASE \E r \in Requests : Handle(r)
  BY <1>2, HandleLimiter
<1>3. CASE Tick
  BY <1>3, TickLimiter
<1>4. CASE Restart
  BY <1>4, RestartLimiter
<1>5. CASE UNCHANGED vars
  BY <1>5, LimiterKept DEF vars
<1> QED
  BY <1>1, <1>2, <1>3, <1>4, <1>5, Steps

LEMMA LimiterAlways == Spec => [](TypeOK /\ LimiterInv)
<1>1. Init => TypeOK /\ LimiterInv
  BY TypeInit, LimiterInit
<1>2. TypeOK /\ LimiterInv /\ [Next]_vars => (TypeOK /\ LimiterInv)'
  BY TypeNext, LimiterNext
<1> QED
  BY <1>1, <1>2, PTL DEF Spec

\* However requests arrive, in whatever window: no bucket lets through more than
\* its limit.
THEOREM WindowsAreLimited == Spec => []AttemptsLimited
<1>1. TypeOK /\ LimiterInv => AttemptsLimited
  BY DEF LimiterInv
<1> QED
  BY <1>1, LimiterAlways, PTL

\* Every Retry-After is honest and less than a second too long.
THEOREM WaitsAreHonest == Spec => []HonestRetryAfter
<1>1. TypeOK /\ LimiterInv => HonestRetryAfter
  BY PromisedIsHonest
<1> QED
  BY <1>1, LimiterAlways, PTL

-----------------------------------------------------------------------------
(* The accounts.                                                           *)

\* An address is inserted once, committed or not.
Distinct ==
  \A u, v \in users \cup inserting : form[u].email = form[v].email => u = v

\* A transaction in doubt has its row inserted, an answer given has it committed.
RowsMatch ==
  \A r \in Requests : /\ pc[r] = "inserted" <=> r \in inserting
                      /\ pc[r] = "created" <=> r \in users
                      /\ before[r] \subseteq users

\* Why a request was answered as it was.
Grounds ==
  \A r \in Requests :
    /\ pc[r] = "conflict" => Found(r) # {}
    /\ pc[r] \in {"authenticated", "loggedin"} =>
         \E u \in Found(r) : form[u].password = form[r].password
    /\ pc[r] = "unauthorized" =>
         \A q \in SameEmail(r, before[r]) : form[q].password # form[r].password

AccountInv == Distinct /\ RowsMatch /\ Grounds

LEMMA ArrivalAccounts ==
  ASSUME TypeOK, Untouched, AccountInv, NEW r \in Requests, NEW f \in Forms, Arrival(r, f)
  PROVE  AccountInv'
<1>1. /\ users' = users /\ inserting' = inserting
      /\ before' = [before EXCEPT ![r] = {q \in Requests : pc[q] = "created"}]
      /\ pc[r] = "idle" /\ pc'[r] \in {"admitted", "refused"}
      /\ \A q \in Requests \ {r} : form'[q] = form[q] /\ pc'[q] = pc[q]
  BY ArrivalFacts DEF Arrival, Arrive
<1>2. users \subseteq Requests /\ inserting \subseteq Requests
      /\ \A q \in Requests \ {r} : before'[q] = before[q]
  BY <1>1 DEF TypeOK
<1>3. r \notin users /\ r \notin inserting /\ \A q \in Requests : r \notin before[q]
  BY <1>1 DEF AccountInv, RowsMatch
<1>4. Distinct'
  BY <1>1, <1>2, <1>3 DEF AccountInv, Distinct
<1>5. RowsMatch'
  <2>1. before'[r] \subseteq users
    BY <1>1 DEF AccountInv, RowsMatch, TypeOK
  <2> QED
    BY <2>1, <1>1, <1>2, <1>3 DEF AccountInv, RowsMatch
<1>6. Grounds'
  <2> SUFFICES ASSUME NEW q \in Requests \ {r}
               PROVE  /\ pc[q] = "conflict" => Found(q)' # {}
                      /\ pc[q] \in {"authenticated", "loggedin"} =>
                           \E u \in Found(q)' : form'[u].password = form[q].password
                      /\ pc[q] = "unauthorized" =>
                           \A x \in SameEmail(q, before[q])' : form'[x].password # form[q].password
    BY <1>1, <1>2 DEF Grounds
  <2>1. Found(q)' = Found(q) /\ \A u \in Found(q) : form'[u] = form[u]
    BY <1>1, <1>2, <1>3 DEF Found
  <2>2. before[q] \subseteq Requests \ {r} /\ before'[q] = before[q]
    BY <1>2, <1>3 DEF TypeOK
  <2>3. SameEmail(q, before[q])' = SameEmail(q, before[q])
        /\ \A x \in SameEmail(q, before[q]) : form'[x] = form[x]
    BY <1>1, <2>2 DEF SameEmail
  <2> QED
    BY <2>1, <2>3 DEF AccountInv, Grounds
<1> QED
  BY <1>4, <1>5, <1>6 DEF AccountInv

\* A step that only moves pc[r], and inserts or commits at most r's own row, keeps
\* what was settled for the others.
LEMMA OthersKeepGrounds ==
  ASSUME TypeOK, Grounds, NEW r \in Requests, NEW p,
         UNCHANGED <<form, before>>, users \subseteq users', pc' = [pc EXCEPT ![r] = p],
         \/ p \notin {"conflict", "authenticated", "loggedin", "unauthorized"}
         \/ p = "conflict" /\ Found(r) # {}
         \/ p \in {"authenticated", "loggedin"}
              /\ \E u \in Found(r) : form[u].password = form[r].password
         \/ p = "unauthorized"
              /\ \A q \in SameEmail(r, before[r]) : form[q].password # form[r].password
  PROVE  Grounds'
<1> SUFFICES ASSUME NEW q \in Requests
             PROVE  /\ pc'[q] = "conflict" => Found(q)' # {}
                    /\ pc'[q] \in {"authenticated", "loggedin"} =>
                         \E u \in Found(q)' : form[u].password = form[q].password
                    /\ pc'[q] = "unauthorized" =>
                         \A x \in SameEmail(q, before[q])' : form[x].password # form[q].password
  BY DEF Grounds
<1>1. Found(q) \subseteq Found(q)'
  BY DEF Found
<1>2. SameEmail(q, before[q])' = SameEmail(q, before[q])
  BY DEF SameEmail
<1>3. pc'[r] = p /\ (q # r => pc'[q] = pc[q])
  BY DEF TypeOK
<1>4. CASE q # r
  BY <1>1, <1>2, <1>3, <1>4 DEF Grounds
<1>5. CASE q = r
  BY <1>1, <1>2, <1>3, <1>5
<1> QED
  BY <1>4, <1>5

LEMMA HandleAccounts ==
  ASSUME TypeOK, AccountInv, NEW r \in Requests, Handle(r)
  PROVE  AccountInv'
<1>1. Distinct /\ RowsMatch /\ Grounds
  BY DEF AccountInv
<1>2. UNCHANGED <<form, before>> /\ users \subseteq Requests
      /\ pc = [q \in Requests |-> pc[q]]
  BY HandleFacts DEF TypeOK
<1>3. before[r] \subseteq users
  BY <1>1 DEF RowsMatch
<1>4. CASE Authenticate(r)
  <2>1. UNCHANGED <<users, inserting>>
    BY <1>4 DEF Authenticate
  <2>2. CASE \E u \in Found(r) : form[u].password = form[r].password
    <3>1. pc' = [pc EXCEPT ![r] = "authenticated"] /\ pc[r] = "admitted"
      BY <1>4, <2>2 DEF Authenticate
    <3>2. Grounds'
      BY <1>1, <1>2, <2>1, <2>2, <3>1, OthersKeepGrounds
    <3> QED
      BY <1>1, <1>2, <2>1, <3>1, <3>2 DEF AccountInv, Distinct, RowsMatch
  <2>3. CASE ~ \E u \in Found(r) : form[u].password = form[r].password
    <3>1. pc' = [pc EXCEPT ![r] = "unauthorized"] /\ pc[r] = "admitted"
      BY <1>4, <2>3 DEF Authenticate
    <3>2. SameEmail(r, before[r]) \subseteq Found(r)
      BY <1>3 DEF SameEmail, Found
    <3>3. Grounds'
      BY <1>1, <1>2, <2>1, <2>3, <3>1, <3>2, OthersKeepGrounds
    <3> QED
      BY <1>1, <1>2, <2>1, <3>1, <3>3 DEF AccountInv, Distinct, RowsMatch
  <2> QED
    BY <2>2, <2>3
<1>5. CASE IssueTokens(r)
  <2>1. UNCHANGED <<users, inserting>> /\ pc' = [pc EXCEPT ![r] = "loggedin"]
        /\ pc[r] = "authenticated"
    BY <1>5 DEF IssueTokens
  <2>2. Grounds'
    BY <1>1, <1>2, <2>1, OthersKeepGrounds DEF Grounds
  <2> QED
    BY <1>1, <1>2, <2>1, <2>2 DEF AccountInv, Distinct, RowsMatch
<1>6. CASE FindFree(r)
  <2>1. PICK p \in {"free", "conflict"} :
          /\ pc' = [pc EXCEPT ![r] = p] /\ pc[r] = "admitted"
          /\ p = "conflict" => Found(r) # {}
          /\ UNCHANGED <<users, inserting>>
    BY <1>6 DEF FindFree
  <2>2. Grounds'
    BY <1>1, <1>2, <2>1, OthersKeepGrounds
  <2> QED
    BY <1>1, <1>2, <2>1, <2>2 DEF AccountInv, Distinct, RowsMatch
<1>7. CASE Insert(r)
  <2>1. users' = users /\ pc[r] = "free" /\ SameEmail(r, inserting) = {}
    BY <1>7 DEF Insert
  <2>2. CASE /\ Found(r) = {} /\ inserting' = inserting \cup {r}
             /\ pc' = [pc EXCEPT ![r] = "inserted"]
    <3>1. Grounds'
      BY <1>1, <1>2, <2>1, <2>2, OthersKeepGrounds
    <3>2. Distinct'
      BY <1>1, <1>2, <2>1, <2>2 DEF Distinct, Found, SameEmail
    <3>3. RowsMatch'
      BY <1>1, <1>2, <2>1, <2>2 DEF RowsMatch
    <3> QED
      BY <3>1, <3>2, <3>3 DEF AccountInv
  <2>3. CASE /\ Found(r) # {} /\ inserting' = inserting
             /\ pc' = [pc EXCEPT ![r] = "conflict"]
    <3>1. Grounds'
      BY <1>1, <1>2, <2>1, <2>3, OthersKeepGrounds
    <3> QED
      BY <1>1, <1>2, <2>1, <2>3, <3>1 DEF AccountInv, Distinct, RowsMatch
  <2> QED
    BY <1>7, <2>2, <2>3 DEF Insert
<1>8. CASE Commit(r)
  <2>1. /\ users' = users \cup {r} /\ inserting' = inserting \ {r} /\ pc[r] = "inserted"
        /\ pc' = [pc EXCEPT ![r] = "created"]
    BY <1>8 DEF Commit
  <2>2. Grounds'
    BY <1>1, <1>2, <2>1, OthersKeepGrounds
  <2>3. Distinct'
    BY <1>1, <1>2, <2>1 DEF Distinct, RowsMatch
  <2>4. RowsMatch'
    BY <1>1, <1>2, <2>1 DEF RowsMatch
  <2> QED
    BY <2>2, <2>3, <2>4 DEF AccountInv
<1> QED
  BY <1>4, <1>5, <1>6, <1>7, <1>8 DEF Handle

LEMMA RestartAccounts ==
  ASSUME TypeOK, AccountInv, Restart
  PROVE  AccountInv'
<1>1. /\ UNCHANGED <<form, before, users>> /\ inserting' = {}
      /\ pc' = [r \in Requests |-> IF pc[r] \in Open THEN "dead" ELSE pc[r]]
  BY DEF Restart
<1>2. Distinct' /\ RowsMatch'
  BY <1>1 DEF AccountInv, Distinct, RowsMatch, Open
<1>3. Grounds'
  BY <1>1 DEF AccountInv, Grounds, Found, SameEmail, Open
<1> QED
  BY <1>2, <1>3 DEF AccountInv

LEMMA AccountsKept ==
  ASSUME AccountInv, UNCHANGED <<form, before, users, inserting, pc>>
  PROVE  AccountInv'
  BY DEF AccountInv, Distinct, RowsMatch, Grounds, Found, SameEmail

LEMMA AccountsNext ==
  ASSUME TypeOK, Untouched, AccountInv, [Next]_vars
  PROVE  AccountInv'
<1>1. CASE \E r \in Requests, f \in Forms : Arrival(r, f)
  BY <1>1, ArrivalAccounts
<1>2. CASE \E r \in Requests : Handle(r)
  BY <1>2, HandleAccounts
<1>3. CASE Tick
  BY <1>3, AccountsKept DEF Tick, limiterVars
<1>4. CASE Restart
  BY <1>4, RestartAccounts
<1>5. CASE UNCHANGED vars
  BY <1>5, AccountsKept DEF vars
<1> QED
  BY <1>1, <1>2, <1>3, <1>4, <1>5, Steps

\* However registrations race and die, an address has one account and every answer
\* agrees with the accounts.
THEOREM AnswersAgreeWithAccounts == Spec => []AnswersMatchAccounts
<1>1. Init => AccountInv
  BY DEF Init, AccountInv, Distinct, RowsMatch, Grounds
<1>2. TypeOK /\ LimiterInv /\ AccountInv /\ [Next]_vars => AccountInv'
  BY AccountsNext DEF LimiterInv
<1>3. AccountInv => AnswersMatchAccounts
  BY DEF AccountInv, Distinct, RowsMatch, Grounds, AnswersMatchAccounts
<1> QED
  BY <1>1, <1>2, <1>3, LimiterAlways, PTL DEF Spec
=============================================================================
