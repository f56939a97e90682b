---------------------------- MODULE RefreshTokens ----------------------------
(***************************************************************************)
(* Refresh-token rotation of the iam context.  A login opens a family with *)
(* one token; POST /iam/refresh spends a token and mints its successor;    *)
(* presenting a spent token revokes the family.  Requests run concurrently *)
(* at READ COMMITTED: one step per SQL statement that other transactions   *)
(* can tell apart, row locks held until the commit, and an UPDATE that     *)
(* only ever touches rows its own snapshot saw.                            *)
(***************************************************************************)
EXTENDS Naturals, FiniteSets

CONSTANTS
  Families,    \* logins
  Requests,    \* POST /iam/refresh requests, each presenting one token
  MaxTokens,   \* bound: tokens minted in a family
  MaxCrashes,  \* bound: requests that die before their commit
  NoToken

\* The n-th token minted in its family. Values are random, so no two are equal.
Token == [family : Families, n : 1..MaxTokens]

ASSUME BoundsAssumption == MaxTokens \in Nat \ {0} /\ MaxCrashes \in Nat
ASSUME NoTokenAssumption == NoToken \notin Token

VARIABLES
  minted,     \* minted[f]: tokens of f inserted so far, committed or not
  issued,     \* committed refresh_tokens rows
  consumed,   \* those with a consumed_at
  revoked,    \* those with a revoked_at
  expired,    \* families past their absolute expiry
  pc,         \* pc[r]: what r has done
  token,      \* token[r]: the token r presents
  successor,  \* successor[r]: the token r minted
  locks,      \* locks[r]: rows locked by r's transaction
  wants,      \* wants[r]: rows r's running statement must lock
  racing,     \* racing[r]: tokens in flight when r started to revoke
  crashes

rowVars == <<minted, issued, consumed, revoked, expired>>
vars == <<minted, issued, consumed, revoked, expired, pc, token, successor,
          locks, wants, racing, crashes>>

FamilyRows(f) == {t \in issued : t.family = f}

Live(t) == t \in issued /\ t \notin consumed /\ t \notin revoked

Free(r, t) == \A q \in Requests \ {r} : t \notin locks[q]

Init ==
  /\ minted = [f \in Families |-> 0]
  /\ issued = {} /\ consumed = {} /\ revoked = {} /\ expired = {}
  /\ pc = [r \in Requests |-> "idle"]
  /\ token = [r \in Requests |-> NoToken]
  /\ successor = [r \in Requests |-> NoToken]
  /\ locks = [r \in Requests |-> {}]
  /\ wants = [r \in Requests |-> {}]
  /\ racing = [r \in Requests |-> {}]
  /\ crashes = 0

\* POST /iam/login: the first token of a new family.
Login(f) ==
  /\ minted[f] = 0
  /\ minted' = [minted EXCEPT ![f] = 1]
  /\ issued' = issued \cup {[family |-> f, n |-> 1]}
  /\ UNCHANGED <<consumed, revoked, expired, pc, token, successor, locks, wants,
                 racing, crashes>>

\* The expiry every token of the family inherits passes.
Expire(f) ==
  /\ minted[f] > 0
  /\ expired' = expired \cup {f}
  /\ UNCHANGED <<minted, issued, consumed, revoked, pc, token, successor, locks,
                 wants, racing, crashes>>

\* A request presents t, new or old, and reads its row without a lock.
Read(r, t) ==
  /\ pc[r] = "idle"
  /\ t \in issued
  /\ token' = [token EXCEPT ![r] = t]
  /\ pc' = [pc EXCEPT ![r] =
       CASE t \in revoked \/ t.family \in expired -> "rejected"
         [] t \in consumed /\ t \notin revoked /\ t.family \notin expired -> "replay"
         [] OTHER -> "spend"]
  /\ UNCHANGED <<rowVars, successor, locks, wants, racing, crashes>>

\* Mint the successor of the token r has just locked and marked.
Mint(r) ==
  LET f == token[r].family
  IN /\ minted[f] < MaxTokens
     /\ minted' = [minted EXCEPT ![f] = @ + 1]
     /\ successor' = [successor EXCEPT ![r] = [family |-> f, n |-> minted[f] + 1]]
     /\ pc' = [pc EXCEPT ![r] = "minted"]

\* Mutant of Consume: the UPDATE has no "consumed_at IS NULL".
ConsumeTwice(r) ==
  /\ pc[r] = "spend"
  /\ Free(r, token[r])
  /\ locks' = [locks EXCEPT ![r] = {token[r]}]
  /\ \/ token[r] \notin revoked /\ Mint(r)
     \/ /\ token[r] \in revoked
        /\ pc' = [pc EXCEPT ![r] = "replay"]
        /\ UNCHANGED <<minted, successor>>
  /\ UNCHANGED <<issued, consumed, revoked, expired, token, wants, racing, crashes>>

\* Mutant of Consume: the UPDATE has no "revoked_at IS NULL".
ConsumeRevoked(r) ==
  /\ pc[r] = "spend"
  /\ Free(r, token[r])
  /\ locks' = [locks EXCEPT ![r] = {token[r]}]
  /\ \/ token[r] \notin consumed /\ Mint(r)
     \/ /\ token[r] \in consumed
        /\ pc' = [pc EXCEPT ![r] = "replay"]
        /\ UNCHANGED <<minted, successor>>
  /\ UNCHANGED <<issued, consumed, revoked, expired, token, wants, racing, crashes>>

\* Lock the row, then spend it unless it was spent or revoked meanwhile; having
\* lost that race is a replay.
Consume(r) ==
  /\ pc[r] = "spend"
  /\ Free(r, token[r])
  /\ locks' = [locks EXCEPT ![r] = {token[r]}]
  /\ \/ token[r] \notin consumed \cup revoked /\ Mint(r)
     \/ /\ token[r] \in consumed \cup revoked
        /\ pc' = [pc EXCEPT ![r] = "replay"]
        /\ UNCHANGED <<minted, successor>>
  /\ UNCHANGED <<issued, consumed, revoked, expired, token, wants, racing, crashes>>

\* The rotation commits: the spent row and its successor become visible.
CommitRotation(r) ==
  /\ pc[r] = "minted"
  /\ issued' = issued \cup {successor[r]}
  /\ consumed' = consumed \cup {token[r]}
  /\ locks' = [locks EXCEPT ![r] = {}]
  /\ pc' = [pc EXCEPT ![r] = "rotated"]
  /\ UNCHANGED <<minted, revoked, expired, token, successor, wants, racing, crashes>>

InFlight(f) ==
  {successor[q] : q \in {q \in Requests : pc[q] = "minted" /\ token[q].family = f}}

\* Mutant of StartRevoke: the family is not locked before it is updated.
RevokeUnlocked(r) ==
  /\ pc[r] = "replay"
  /\ wants' = [wants EXCEPT ![r] = FamilyRows(token[r].family) \ revoked]
  /\ racing' = [racing EXCEPT ![r] = InFlight(token[r].family)]
  /\ pc' = [pc EXCEPT ![r] = "updating"]
  /\ UNCHANGED <<rowVars, token, successor, locks, crashes>>

\* revoke_family: SELECT ... FOR UPDATE of the family's rows as they are now ...
StartRevoke(r) ==
  /\ pc[r] = "replay"
  /\ wants' = [wants EXCEPT ![r] = FamilyRows(token[r].family)]
  /\ racing' = [racing EXCEPT ![r] = InFlight(token[r].family)]
  /\ pc' = [pc EXCEPT ![r] = "locking"]
  /\ UNCHANGED <<rowVars, token, successor, locks, crashes>>

\* ... each row is waited for and locked, in no particular order ...
LockRow(r) ==
  /\ pc[r] \in {"locking", "updating"}
  /\ \E t \in wants[r] \ locks[r] :
       /\ Free(r, t)
       /\ locks' = [locks EXCEPT ![r] = @ \cup {t}]
  /\ UNCHANGED <<rowVars, pc, token, successor, wants, racing, crashes>>

\* ... then the UPDATE, a statement with a snapshot of its own ...
StartUpdate(r) ==
  /\ pc[r] = "locking"
  /\ wants[r] \subseteq locks[r]
  /\ wants' = [wants EXCEPT ![r] = FamilyRows(token[r].family) \ revoked]
  /\ pc' = [pc EXCEPT ![r] = "updating"]
  /\ UNCHANGED <<rowVars, token, successor, locks, racing, crashes>>

\* Mutant of CommitRevoke: the transaction is left open.
RevokeLeftOpen(r) ==
  /\ pc[r] = "updating"
  /\ wants[r] \subseteq locks[r]
  /\ revoked' = revoked \cup wants[r]
  /\ pc' = [pc EXCEPT ![r] = "revoked"]
  /\ UNCHANGED <<minted, issued, consumed, expired, token, successor, locks, wants,
                 racing, crashes>>

\* ... and the route commits the revocation although it answers 401.
CommitRevoke(r) ==
  /\ pc[r] = "updating"
  /\ wants[r] \subseteq locks[r]
  /\ revoked' = revoked \cup wants[r]
  /\ locks' = [locks EXCEPT ![r] = {}]
  /\ pc' = [pc EXCEPT ![r] = "revoked"]
  /\ UNCHANGED <<minted, issued, consumed, expired, token, successor, wants, racing,
                 crashes>>

Open == {"spend", "replay", "minted", "locking", "updating"}

RollBack(r) ==
  /\ locks' = [locks EXCEPT ![r] = {}]
  /\ pc' = [pc EXCEPT ![r] = "failed"]
  /\ UNCHANGED <<rowVars, token, successor, wants, racing>>

\* The rows r waits for.
Awaited(r) ==
  IF pc[r] \in {"locking", "updating"} THEN wants[r] \ locks[r]
  ELSE IF pc[r] = "spend" THEN {token[r]} ELSE {}

\* The database aborts one of a set of transactions that wait on each other.
Deadlock(r) ==
  /\ \E W \in SUBSET Requests :
       /\ r \in W
       /\ \A w \in W : /\ Awaited(w) # {}
                       /\ \A t \in Awaited(w) : \E q \in W \ {w} : t \in locks[q]
  /\ RollBack(r)
  /\ UNCHANGED crashes

\* The process or its connection dies: everything uncommitted is rolled back.
Crash(r) ==
  /\ pc[r] \in Open
  /\ crashes < MaxCrashes
  /\ crashes' = crashes + 1
  /\ RollBack(r)

Refresh(r) ==
  \/ Consume(r)
  \/ CommitRotation(r)
  \/ StartRevoke(r)
  \/ LockRow(r)
  \/ StartUpdate(r)
  \/ CommitRevoke(r)
  \/ Deadlock(r)

Next ==
  \/ \E f \in Families : Login(f) \/ Expire(f)
  \/ \E r \in Requests, t \in Token : Read(r, t)
  \/ \E r \in Requests : Refresh(r) \/ Crash(r)

Spec == Init /\ [][Next]_vars

\* A request that has started keeps running: the database grants locks, breaks
\* deadlocks and commits. Clients owe nothing and the clock need not advance.
FairSpec == Spec /\ \A r \in Requests : WF_vars(Refresh(r))

-----------------------------------------------------------------------------
\* Every variable stays in its type, and only issued tokens are consumed or
\* revoked.
TypeOK ==
  /\ minted \in [Families -> 0..MaxTokens]
  /\ issued \subseteq Token
  /\ consumed \subseteq issued
  /\ revoked \subseteq issued
  /\ expired \subseteq Families
  /\ pc \in [Requests -> Open \cup {"idle", "rejected", "rotated", "revoked", "failed"}]
  /\ token \in [Requests -> Token \cup {NoToken}]
  /\ successor \in [Requests -> Token \cup {NoToken}]
  /\ locks \in [Requests -> SUBSET Token]
  /\ wants \in [Requests -> SUBSET Token]
  /\ racing \in [Requests -> SUBSET (Token \cup {NoToken})]
  /\ crashes \in 0..MaxCrashes

\* "Consumption is atomic so a concurrent double-spend cannot let two rotations
\* win": no two requests are answered with a successor of the same token.
NoTwoWinners ==
  \A q, r \in Requests :
    pc[q] = "rotated" /\ pc[r] = "rotated" /\ token[q] = token[r] => q = r

\* However requests race, replay and die, at most one token of a family can be
\* spent at any time.
OneLiveToken ==
  \A t, u \in issued : Live(t) /\ Live(u) /\ t.family = u.family => t = u

\* "A token whose family was revoked cannot be spent at all": a rotation that
\* read the row before the revocation does not commit after it.
RevokedIsNeverSpent ==
  [][\A t \in revoked : t \in consumed' => t \in consumed]_vars

\* "Revocation serializes with an in-flight rotation so the successor it mints
\* cannot escape it."
RacingSuccessorIsRevoked ==
  \A r \in Requests : pc[r] = "revoked" => racing[r] \cap issued \subseteq revoked

\* Requests that wait for each other's rows are all answered in the end.
EveryRequestAnswered ==
  \A r \in Requests : pc[r] \in Open ~> pc[r] \notin Open
=============================================================================
