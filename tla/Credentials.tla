------------------------------ MODULE Credentials ------------------------------
(***************************************************************************)
(* The credential routes of the iam context, POST /iam/register and        *)
(* POST /iam/login, and the sliding-window rate limiter in front of them.  *)
(* One process serves the requests on one event loop: the limiter has no   *)
(* await and runs in one step, each SQL statement is another.  The clock   *)
(* is an integer of ticks finer than a second, because a refusal is told   *)
(* to come back in whole seconds.  The limiter lives in the memory of the  *)
(* process and a restart forgets it; the accounts live in PostgreSQL.      *)
(***************************************************************************)
EXTENDS Integers, FiniteSets

CONSTANTS
  Requests,     \* numbered in the order in which they arrive
  Hosts, Emails, Passwords,
  Forms,        \* what clients send
  Limits,       \* Limits[l]: attempts that limiter l allows in its window
  Windows,      \* Windows[l]: its window, in ticks
  Second,       \* ticks in a second
  MaxTime,      \* bound: where the clock stops
  MaxRestarts,  \* bound: restarts of the process
  NoEmail, NoForm, NoWait

Limiters == {"login", "login-host", "register"}

ASSUME LimiterAssumption ==
  /\ Limits \in [Limiters -> Nat \ {0}]
  /\ Windows \in [Limiters -> Nat \ {0}]
  /\ Second \in Nat \ {0}
ASSUME BoundsAssumption ==
  /\ Requests \subseteq Nat /\ IsFiniteSet(Requests)
  /\ MaxTime \in Nat /\ MaxRestarts \in Nat
ASSUME FormAssumption ==
  Forms \subseteq [kind : {"login", "register"}, host : Hosts, email : Emails,
                   password : Passwords]
ASSUME NullAssumption == NoEmail \notin Emails

Keys == [limiter : Limiters, host : Hosts, email : Emails \cup {NoEmail}]

ASSUME NoFormAssumption ==
  /\ NoForm \notin Forms
  /\ NoWait \notin [key : Keys, until : Nat]

VARIABLES
  now,       \* the process's monotonic clock
  attempts,  \* attempts[k]: the requests whose time is in k's bucket
  form,      \* form[r]: what r asks
  at,        \* at[r]: when the limiter saw r
  served,    \* requests this process has let through to the accounts
  waits,     \* waits[r]: the bucket that refused r and when it may come back
  pc,        \* pc[r]: what r has done
  before,    \* before[r]: the registrations answered 201 when r arrived
  inserting, \* registrations whose row is inserted but not committed
  users,     \* registrations whose row is committed
  restarts

limiterVars == <<attempts, form, at, served, waits, before>>
vars == <<now, attempts, form, at, served, waits, pc, before, inserting, users,
          restarts>>

LoginKey(f) == [limiter |-> "login", host |-> f.host, email |-> f.email]
LoginHostKey(f) == [limiter |-> "login-host", host |-> f.host, email |-> NoEmail]
RegisterKey(f) == [limiter |-> "register", host |-> f.host, email |-> NoEmail]

\* The budgets a request is counted against.
Budgets(f) ==
  IF f.kind = "login" THEN {LoginKey(f), LoginHostKey(f)} ELSE {RegisterKey(f)}

Init ==
  /\ now = 0
  /\ attempts = [k \in Keys |-> {}]
  /\ form = [r \in Requests |-> NoForm]
  /\ at = [r \in Requests |-> 0]
  /\ served = {}
  /\ waits = [r \in Requests |-> NoWait]
  /\ pc = [r \in Requests |-> "idle"]
  /\ before = [r \in Requests |-> {}]
  /\ inserting = {} /\ users = {}
  /\ restarts = 0

\* The attempts of a bucket that are still within the window.
Fresh(k) == {q \in attempts[k] : at[q] > now - Windows[k.limiter]}

\* Mutant of HasRoom: one attempt more than the limit.
HasRoomForOneMore(k) == Cardinality(Fresh(k)) <= Limits[k.limiter]

HasRoom(k) == Cardinality(Fresh(k)) < Limits[k.limiter]

\* Mutant of Seconds: rounded down, and never less than one.
SecondsDown(t) == IF t < Second THEN 1 ELSE t \div Second

\* Whole seconds, rounded up.
Seconds(t) == (t + Second - 1) \div Second

\* 429: the oldest attempt in the bucket decides the Retry-After.
Refuse(r, k) ==
  /\ \E q \in Fresh(k) :
       /\ \A x \in Fresh(k) : at[q] <= at[x]
       /\ waits' = [waits EXCEPT ![r] =
            [key |-> k,
             until |-> now + Second * Seconds(at[q] + Windows[k.limiter] - now)]]
  /\ pc' = [pc EXCEPT ![r] = "refused"]
  /\ UNCHANGED served

LetThrough(r) ==
  /\ served' = served \cup {r}
  /\ pc' = [pc EXCEPT ![r] = "admitted"]
  /\ UNCHANGED waits

Arrive(r, f) ==
  /\ pc[r] = "idle"
  /\ \A q \in Requests : q < r => pc[q] # "idle"
  /\ form' = [form EXCEPT ![r] = f]
  /\ at' = [at EXCEPT ![r] = now]
  /\ before' = [before EXCEPT ![r] = {q \in Requests : pc[q] = "created"}]
  /\ UNCHANGED <<now, inserting, users, restarts>>

\* enforce_login_rate_limit: the account's bucket first, whose attempt stays
\* counted even when the host's bucket refuses it.
ArriveLogin(r, f) ==
  LET account == LoginKey(f)
      host == LoginHostKey(f)
  IN /\ f.kind = "login"
     /\ Arrive(r, f)
     /\ \/ /\ ~HasRoom(account)
           /\ attempts' = [attempts EXCEPT ![account] = Fresh(account)]
           /\ Refuse(r, account)
        \/ /\ HasRoom(account) /\ ~HasRoom(host)
           /\ attempts' = [attempts EXCEPT ![account] = Fresh(account) \cup {r},
                                           ![host] = Fresh(host)]
           /\ Refuse(r, host)
        \/ /\ HasRoom(account) /\ HasRoom(host)
           /\ attempts' = [attempts EXCEPT ![account] = Fresh(account) \cup {r},
                                           ![host] = Fresh(host) \cup {r}]
           /\ LetThrough(r)

\* enforce_register_rate_limit.
ArriveRegister(r, f) ==
  LET k == RegisterKey(f)
  IN /\ f.kind = "register"
     /\ Arrive(r, f)
     /\ \/ /\ ~HasRoom(k)
           /\ attempts' = [attempts EXCEPT ![k] = Fresh(k)]
           /\ Refuse(r, k)
        \/ /\ HasRoom(k)
           /\ attempts' = [attempts EXCEPT ![k] = Fresh(k) \cup {r}]
           /\ LetThrough(r)

\* get_by_email: the committed account of the address, if there is one.
Found(r) == {u \in users : form[u].email = form[r].email}

\* authenticate_user reads the account and verifies the password against it,
\* or against a dummy: no account and a wrong password are one generic 401.
Authenticate(r) ==
  /\ pc[r] = "admitted"
  /\ form[r].kind = "login"
  /\ pc' = [pc EXCEPT ![r] =
       IF \E u \in Found(r) : form[u].password = form[r].password
         THEN "authenticated" ELSE "unauthorized"]
  /\ UNCHANGED <<now, limiterVars, inserting, users, restarts>>

\* The refresh token's row is inserted and committed: 200.
IssueTokens(r) ==
  /\ pc[r] = "authenticated"
  /\ pc' = [pc EXCEPT ![r] = "loggedin"]
  /\ UNCHANGED <<now, limiterVars, inserting, users, restarts>>

\* register_user looks the address up before it hashes the password.
FindFree(r) ==
  /\ pc[r] = "admitted"
  /\ form[r].kind = "register"
  /\ pc' = [pc EXCEPT ![r] = IF Found(r) = {} THEN "free" ELSE "conflict"]
  /\ UNCHANGED <<now, limiterVars, inserting, users, restarts>>

SameEmail(r, S) == {q \in S : form[q].email = form[r].email}

\* Mutant of Insert: an uncommitted row of the address is a conflict already.
InsertOrConflict(r) ==
  /\ pc[r] = "free"
  /\ \/ /\ SameEmail(r, users \cup inserting) = {}
        /\ inserting' = inserting \cup {r}
        /\ pc' = [pc EXCEPT ![r] = "inserted"]
     \/ /\ SameEmail(r, users \cup inserting) # {}
        /\ pc' = [pc EXCEPT ![r] = "conflict"]
        /\ UNCHANGED inserting
  /\ UNCHANGED <<now, limiterVars, users, restarts>>

\* add flushes the row: the unique index makes it wait for a transaction that
\* has inserted the address; if that one commits, the flush fails, the session
\* is rolled back and the answer is a 409.
Insert(r) ==
  /\ pc[r] = "free"
  /\ SameEmail(r, inserting) = {}
  /\ \/ /\ Found(r) = {}
        /\ inserting' = inserting \cup {r}
        /\ pc' = [pc EXCEPT ![r] = "inserted"]
     \/ /\ Found(r) # {}
        /\ pc' = [pc EXCEPT ![r] = "conflict"]
        /\ UNCHANGED inserting
  /\ UNCHANGED <<now, limiterVars, users, restarts>>

\* Mutant of Commit: the answer is given with the transaction open.
LeaveOpen(r) ==
  /\ pc[r] = "inserted"
  /\ pc' = [pc EXCEPT ![r] = "created"]
  /\ UNCHANGED <<now, limiterVars, inserting, users, restarts>>

\* The route commits, then answers 201.
Commit(r) ==
  /\ pc[r] = "inserted"
  /\ users' = users \cup {r}
  /\ inserting' = inserting \ {r}
  /\ pc' = [pc EXCEPT ![r] = "created"]
  /\ UNCHANGED <<now, limiterVars, restarts>>

Open == {"admitted", "authenticated", "free", "inserted"}

Tick ==
  /\ now < MaxTime
  /\ now' = now + 1
  /\ UNCHANGED <<limiterVars, pc, inserting, users, restarts>>

\* The process dies and a fresh app starts with empty buckets; the database
\* rolls back what was not committed, and nobody answers what was under way.
Restart ==
  /\ restarts < MaxRestarts
  /\ restarts' = restarts + 1
  /\ attempts' = [k \in Keys |-> {}]
  /\ served' = {}
  /\ waits' = [r \in Requests |-> NoWait]
  /\ inserting' = {}
  /\ pc' = [r \in Requests |-> IF pc[r] \in Open THEN "dead" ELSE pc[r]]
  /\ UNCHANGED <<now, form, at, before, users>>

Handle(r) ==
  \/ Authenticate(r)
  \/ IssueTokens(r)
  \/ FindFree(r)
  \/ Insert(r)
  \/ Commit(r)

Next ==
  \/ \E r \in Requests, f \in Forms : ArriveLogin(r, f) \/ ArriveRegister(r, f)
  \/ \E r \in Requests : Handle(r)
  \/ Tick
  \/ Restart

Spec == Init /\ [][Next]_vars

\* The event loop keeps running what has been let through. Clients owe nothing,
\* and neither the clock nor a restart is counted on.
FairSpec == Spec /\ \A r \in Requests : WF_vars(Handle(r))

-----------------------------------------------------------------------------
\* Every variable stays in its type; a bucket never outgrows its limit.
TypeOK ==
  /\ now \in 0..MaxTime
  /\ attempts \in [Keys -> SUBSET Requests]
  /\ form \in [Requests -> Forms \cup {NoForm}]
  /\ at \in [Requests -> 0..MaxTime]
  /\ served \subseteq Requests
  /\ waits \in [Requests -> [key : Keys, until : Nat] \cup {NoWait}]
  /\ pc \in [Requests -> Open \cup {"idle", "refused", "unauthorized", "loggedin",
                                    "conflict", "created", "dead"}]
  /\ before \in [Requests -> SUBSET Requests]
  /\ inserting \subseteq Requests
  /\ users \subseteq Requests
  /\ restarts \in 0..MaxRestarts

\* "Login allows 10 attempts per account plus 60 per origin per 60-second
\* window, registration allows 20 per origin" (README.md:17): wherever a window
\* is laid, one process lets no more than that through to the accounts.
AttemptsLimited ==
  \A k \in Keys, t \in 0..now :
    Cardinality({r \in served : /\ k \in Budgets(form[r])
                                /\ at[r] \in t - Windows[k.limiter] + 1 .. t})
      <= Limits[k.limiter]

\* A Retry-After is honest and less than a second too long: once it has passed
\* the bucket that refused has room again, unless others were counted since, and
\* until its last second there is none.
HonestRetryAfter ==
  \A r \in Requests :
    waits[r] # NoWait =>
      LET k == waits[r].key
      IN /\ now >= waits[r].until /\ (\A q \in attempts[k] : at[q] <= at[r])
              => HasRoom(k)
         /\ now <= waits[r].until - Second => ~HasRoom(k)

\* However registrations race and die, an address has one account, and the
\* answers agree with the accounts: 201 has its row, 409 and 200 have theirs, and
\* a 401 is never given to the right password of an account whose registration
\* was answered before the login was sent.
AnswersMatchAccounts ==
  /\ \A u, v \in users : form[u].email = form[v].email => u = v
  /\ \A r \in Requests :
       /\ pc[r] = "created" => r \in users
       /\ pc[r] = "conflict" => Found(r) # {}
       /\ pc[r] = "loggedin" => \E u \in Found(r) : form[u].password = form[r].password
       /\ pc[r] = "unauthorized" =>
            \A q \in SameEmail(r, before[r]) : form[q].password # form[r].password

\* A request that was let through is answered, also when its insert waits for
\* another's, unless the process dies.
EveryRequestAnswered ==
  \A r \in Requests : pc[r] \in Open ~> pc[r] \notin Open
=============================================================================
