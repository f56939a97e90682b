------------------------- MODULE RefreshTokensProofs -------------------------
(***************************************************************************)
(* The safety of refresh-token rotation for every set of families and      *)
(* requests: a row in flight is locked and live, so no other rotation can  *)
(* spend it and no revocation can pass it by.                              *)
(***************************************************************************)
EXTENDS RefreshTokens, TLAPS

-----------------------------------------------------------------------------
(* Type correctness.                                                       *)

LEMMA TypeInit == Init => TypeOK
  BY BoundsAssumption, NoTokenAssumption DEF Init, TypeOK

LEMMA FamilyRowsType ==
  ASSUME TypeOK, NEW f
  PROVE  FamilyRows(f) \subseteq issued /\ FamilyRows(f) \subseteq Token
  BY DEF FamilyRows, TypeOK

LEMMA MintType ==
  ASSUME TypeOK, NEW r \in Requests, token[r] \in Token, Mint(r)
  PROVE  /\ minted' \in [Families -> 0..MaxTokens]
         /\ successor' \in [Requests -> Token \cup {NoToken}]
         /\ successor'[r] \in Token
         /\ successor'[r].family = token[r].family
         /\ successor'[r].n = minted[token[r].family] + 1
         /\ minted'[token[r].family] = minted[token[r].family] + 1
         /\ \A f \in Families : minted[f] <= minted'[f]
         /\ \A q \in Requests : q # r => successor'[q] = successor[q]
  <1> DEFINE f == token[r].family
             s == [family |-> f, n |-> minted[f] + 1]
  <1>1. f \in Families /\ \A g \in Families : minted[g] \in 0..MaxTokens
    BY DEF Token, TypeOK
  <1>2. minted[f] < MaxTokens
    BY DEF Mint
  <1>3. s \in Token
    BY <1>1, <1>2, BoundsAssumption DEF Token
  <1>4. /\ minted' = [minted EXCEPT ![f] = @ + 1]
        /\ successor' = [successor EXCEPT ![r] = s]
    BY DEF Mint
  <1>5. \A g \in Families : minted'[g] = IF g = f THEN minted[f] + 1 ELSE minted[g]
    BY <1>1, <1>4 DEF TypeOK
  <1>6. \A g \in Families : minted'[g] \in 0..MaxTokens /\ minted[g] <= minted'[g]
    BY <1>1, <1>2, <1>5, BoundsAssumption
  <1>7. minted' \in [Families -> 0..MaxTokens]
    BY <1>4, <1>6 DEF TypeOK
  <1>8. s.family = f /\ s.n = minted[f] + 1
    OBVIOUS
  <1> HIDE DEF s
  <1>9. /\ successor' \in [Requests -> Token \cup {NoToken}]
        /\ successor'[r] = s
        /\ \A q \in Requests : q # r => successor'[q] = successor[q]
    BY <1>3, <1>4 DEF TypeOK
  <1> QED BY <1>1, <1>3, <1>5, <1>6, <1>7, <1>8, <1>9

-----------------------------------------------------------------------------
(* The inductive invariant.                                                *)

\* Whoever has read a token read a committed row.
Started == \A r \in Requests : pc[r] # "idle" => token[r] \in issued

\* Only committed rows are locked or waited for.
RowsOnly == \A r \in Requests : wants[r] \subseteq issued /\ locks[r] \subseteq issued

\* A row has one locker.
LocksApart ==
  \A q, r \in Requests : q # r => locks[q] \cap locks[r] = {}

Numbered == \A t \in issued : t.n <= minted[t.family]

\* A rotation in flight holds the lock of the token it spends, which is live, and
\* has a successor nobody has seen.
Holding(r) ==
  /\ token[r] \in locks[r]
  /\ Live(token[r])
  /\ successor[r] \in Token \ issued
  /\ successor[r].family = token[r].family
  /\ successor[r].n <= minted[token[r].family]

MintedIsHeld == \A r \in Requests : pc[r] = "minted" => Holding(r)

\* Values are random: no two rotations mint the same successor.
MintedApart ==
  \A q, r \in Requests :
    pc[q] = "minted" /\ pc[r] = "minted" /\ successor[q] = successor[r] => q = r

SpentIsConsumed ==
  \A r \in Requests : pc[r] = "rotated" => token[r] \in consumed

Safe ==
  /\ Started /\ RowsOnly /\ LocksApart /\ Numbered /\ MintedIsHeld /\ MintedApart
  /\ SpentIsConsumed /\ OneLiveToken /\ NoTwoWinners

SafeInv == TypeOK /\ Safe

LEMMA SafeInit == Init => SafeInv
  BY TypeInit
     DEF Init, SafeInv, Safe, Started, RowsOnly, LocksApart, Numbered, MintedIsHeld,
         MintedApart, SpentIsConsumed, OneLiveToken, NoTwoWinners

LEMMA TypeStep ==
  ASSUME TypeOK, Started, RowsOnly, MintedIsHeld, [Next]_vars
  PROVE  TypeOK'
  <1>1. CASE UNCHANGED vars
    BY <1>1 DEF TypeOK, vars, Open
  <1>2. ASSUME NEW f \in Families, Login(f)
        PROVE  TypeOK'
    <2>1. [family |-> f, n |-> 1] \in Token
      BY BoundsAssumption DEF Token
    <2> QED BY <1>2, <2>1, BoundsAssumption DEF Login, TypeOK, Open
  <1>3. ASSUME NEW f \in Families, Expire(f)
        PROVE  TypeOK'
    BY <1>3 DEF Expire, TypeOK, Open
  <1>4. ASSUME NEW r \in Requests, NEW t \in Token, Read(r, t)
        PROVE  TypeOK'
    BY <1>4 DEF Read, TypeOK, Open, rowVars
  <1>5. ASSUME NEW r \in Requests, Consume(r)
        PROVE  TypeOK'
    <2>1. token[r] \in Token
      BY <1>5 DEF Consume, Started, TypeOK
    <2>2. locks' \in [Requests -> SUBSET Token]
      BY <1>5, <2>1 DEF Consume, TypeOK
    <2>3. CASE Mint(r)
      <3>1. pc' = [pc EXCEPT ![r] = "minted"]
        BY <2>3 DEF Mint
      <3> QED BY <1>5, <2>1, <2>2, <2>3, <3>1, MintType DEF Consume, TypeOK, Open
    <2>4. CASE ~Mint(r)
      BY <1>5, <2>2, <2>4 DEF Consume, TypeOK, Open
    <2> QED BY <2>3, <2>4
  <1>6. ASSUME NEW r \in Requests, CommitRotation(r)
        PROVE  TypeOK'
    BY <1>6 DEF CommitRotation, TypeOK, Open, MintedIsHeld, Holding, Live
  <1>7. ASSUME NEW r \in Requests, StartRevoke(r)
        PROVE  TypeOK'
    <2>1. InFlight(token[r].family) \subseteq Token \cup {NoToken}
      BY DEF InFlight, TypeOK
    <2> QED BY <1>7, <2>1, FamilyRowsType DEF StartRevoke, TypeOK, Open, rowVars
  <1>8. ASSUME NEW r \in Requests, LockRow(r)
        PROVE  TypeOK'
    BY <1>8 DEF LockRow, TypeOK, Open, rowVars
  <1>9. ASSUME NEW r \in Requests, StartUpdate(r)
        PROVE  TypeOK'
    BY <1>9, FamilyRowsType DEF StartUpdate, TypeOK, Open, rowVars
  <1>10. ASSUME NEW r \in Requests, CommitRevoke(r)
         PROVE  TypeOK'
    BY <1>10 DEF CommitRevoke, TypeOK, Open, RowsOnly
  <1>11. ASSUME NEW r \in Requests, Deadlock(r) \/ Crash(r)
         PROVE  TypeOK'
    BY <1>11, BoundsAssumption DEF Deadlock, Crash, RollBack, TypeOK, Open, rowVars
  <1> QED
    BY <1>1, <1>2, <1>3, <1>4, <1>5, <1>6, <1>7, <1>8, <1>9, <1>10, <1>11
       DEF Next, Refresh

-----------------------------------------------------------------------------
(* Every step preserves it.                                                *)

LEMMA LoginSafe ==
  ASSUME SafeInv, NEW f \in Families, Login(f)
  PROVE  Safe'
  <1> DEFINE t == [family |-> f, n |-> 1]
  <1>1. /\ TypeOK /\ Safe
        /\ issued' = issued \cup {t} /\ t.family = f /\ t.n = 1
        /\ UNCHANGED <<consumed, revoked, pc, token, successor, locks, wants>>
    BY DEF Login, SafeInv
  <1>2. \A g \in Families : minted'[g] = IF g = f THEN 1 ELSE minted[g]
    BY <1>1 DEF Login, TypeOK
  <1>3. \A u \in issued : u.family # f
    BY <1>1 DEF Login, Safe, Numbered, TypeOK, Token
  <1> HIDE DEF t
  <1>4. Numbered'
    BY <1>1, <1>2, <1>3 DEF Safe, Numbered, TypeOK, Token
  <1>5. MintedIsHeld'
    BY <1>1, <1>2, <1>3 DEF Safe, MintedIsHeld, Holding, Live, TypeOK, Token
  <1>6. OneLiveToken'
    BY <1>1, <1>3 DEF Safe, OneLiveToken, Live, TypeOK
  <1>7. Started' /\ RowsOnly' /\ LocksApart' /\ MintedApart' /\ SpentIsConsumed' /\ NoTwoWinners'
    BY <1>1 DEF Safe, Started, RowsOnly, LocksApart, MintedApart, SpentIsConsumed, NoTwoWinners
  <1> QED BY <1>4, <1>5, <1>6, <1>7 DEF Safe

LEMMA ReadSafe ==
  ASSUME SafeInv, NEW r \in Requests, NEW t \in Token, Read(r, t)
  PROVE  Safe'
  <1>1. /\ TypeOK /\ Safe /\ t \in issued /\ pc[r] = "idle"
        /\ UNCHANGED <<minted, issued, consumed, revoked, successor, locks, wants>>
    BY DEF Read, SafeInv, rowVars
  <1>2. /\ pc'[r] \notin {"idle", "minted", "rotated"} /\ token'[r] = t
        /\ \A q \in Requests : q # r => pc'[q] = pc[q] /\ token'[q] = token[q]
    BY <1>1 DEF Read, TypeOK
  <1>3. Started' /\ SpentIsConsumed' /\ NoTwoWinners'
    BY <1>1, <1>2 DEF Safe, Started, SpentIsConsumed, NoTwoWinners
  <1>4. MintedIsHeld' /\ MintedApart'
    BY <1>1, <1>2 DEF Safe, MintedIsHeld, MintedApart, Holding, Live
  <1>5. Numbered' /\ OneLiveToken' /\ RowsOnly' /\ LocksApart'
    BY <1>1 DEF Safe, Numbered, OneLiveToken, Live, RowsOnly, LocksApart
  <1> QED BY <1>3, <1>4, <1>5 DEF Safe

LEMMA ConsumeSafe ==
  ASSUME SafeInv, NEW r \in Requests, Consume(r)
  PROVE  Safe'
  <1> DEFINE t == token[r]
  <1>1. /\ TypeOK /\ Safe /\ pc[r] = "spend" /\ Free(r, t) /\ t \in issued /\ t \in Token
        /\ UNCHANGED <<issued, consumed, revoked, token, wants>>
    BY DEF Consume, SafeInv, Safe, Started, TypeOK
  <1>2. /\ locks'[r] = {t}
        /\ \A q \in Requests : q # r => locks'[q] = locks[q] /\ t \notin locks[q]
    BY <1>1 DEF Consume, Free, TypeOK
  <1>3. /\ pc'[r] \in {"minted", "replay"}
        /\ \A q \in Requests : q # r => pc'[q] = pc[q]
    BY <1>1 DEF Consume, Mint, TypeOK
  <1>4. Started' /\ SpentIsConsumed' /\ NoTwoWinners' /\ OneLiveToken'
    BY <1>1, <1>3 DEF Safe, Started, SpentIsConsumed, NoTwoWinners, OneLiveToken, Live
  <1>5. RowsOnly' /\ LocksApart'
    BY <1>1, <1>2 DEF Safe, RowsOnly, LocksApart
  <1>6. CASE t \notin consumed \cup revoked /\ Mint(r)
    <2>1. /\ successor'[r] \in Token
          /\ successor'[r].family = t.family
          /\ successor'[r].n = minted[t.family] + 1
          /\ minted'[t.family] = minted[t.family] + 1
          /\ \A f \in Families : minted[f] <= minted'[f]
          /\ \A q \in Requests : q # r => successor'[q] = successor[q]
          /\ minted' \in [Families -> 0..MaxTokens]
      BY <1>1, <1>6, MintType
    <2>2. \A f \in Families : minted[f] \in Nat /\ minted'[f] \in Nat
      BY <1>1, <2>1, BoundsAssumption DEF TypeOK
    <2>3. t.family \in Families /\ \A u \in issued : u.family \in Families /\ u.n \in Nat
      BY <1>1 DEF TypeOK, Token
    <2>4. Numbered'
      BY <1>1, <2>1, <2>2, <2>3 DEF Safe, Numbered
    <2>5. successor'[r] \notin issued
      BY <1>1, <2>1, <2>2, <2>3 DEF Safe, Numbered
    <2>6. Holding(r)'
      BY <1>1, <1>2, <1>6, <2>1, <2>2, <2>3, <2>5 DEF Holding, Live
    <2>7. ASSUME NEW q \in Requests, q # r, pc[q] = "minted"
          PROVE  Holding(q)' /\ successor'[q] # successor'[r]
      <3>1. Holding(q)
        BY <1>1, <2>7 DEF Safe, MintedIsHeld
      <3>2. successor[q] \in Token /\ successor[q].n \in Nat /\ token[q].family \in Families
        BY <1>1, <3>1 DEF Holding, Live, TypeOK, Token
      <3> QED BY <1>1, <1>2, <2>1, <2>2, <2>3, <2>7, <3>1, <3>2 DEF Holding, Live
    <2>8. MintedIsHeld' /\ MintedApart'
      BY <1>1, <1>3, <2>1, <2>6, <2>7 DEF Safe, MintedIsHeld, MintedApart
    <2> QED BY <1>4, <1>5, <2>4, <2>8 DEF Safe
  <1>7. CASE pc'[r] = "replay" /\ UNCHANGED <<minted, successor>>
    <2>1. Numbered' /\ MintedApart'
      BY <1>1, <1>3, <1>7 DEF Safe, Numbered, MintedApart
    <2>2. MintedIsHeld'
      BY <1>1, <1>2, <1>3, <1>7 DEF Safe, MintedIsHeld, Holding, Live
    <2> QED BY <1>4, <1>5, <2>1, <2>2 DEF Safe
  <1>8. (t \notin consumed \cup revoked /\ Mint(r))
          \/ (pc'[r] = "replay" /\ UNCHANGED <<minted, successor>>)
    BY <1>1 DEF Consume, TypeOK
  <1> QED BY <1>6, <1>7, <1>8

LEMMA CommitRotationSafe ==
  ASSUME SafeInv, NEW r \in Requests, CommitRotation(r)
  PROVE  Safe'
  <1> DEFINE t == token[r]
             s == successor[r]
  <1>1. /\ TypeOK /\ Safe /\ pc[r] = "minted" /\ Holding(r)
        /\ issued' = issued \cup {s} /\ consumed' = consumed \cup {t}
        /\ UNCHANGED <<minted, revoked, token, successor, wants>>
    BY DEF CommitRotation, SafeInv, Safe, MintedIsHeld
  <1>2. /\ pc'[r] = "rotated" /\ locks'[r] = {}
        /\ \A q \in Requests : q # r => pc'[q] = pc[q] /\ locks'[q] = locks[q]
    BY <1>1 DEF CommitRotation, TypeOK
  <1>3. /\ Live(t) /\ t \in locks[r] /\ s \in Token \ issued
        /\ s.family = t.family /\ s.n <= minted[t.family]
    BY <1>1 DEF Holding
  <1> HIDE DEF t, s
  <1>4. Started' /\ RowsOnly' /\ LocksApart' /\ Numbered'
    BY <1>1, <1>2, <1>3 DEF Safe, Started, RowsOnly, LocksApart, Numbered
  <1>5. ASSUME NEW q \in Requests, q # r, pc[q] = "minted"
        PROVE  Holding(q)'
    <2>1. Holding(q) /\ token[q] # t /\ successor[q] # s
      BY <1>1, <1>3, <1>5 DEF Safe, MintedIsHeld, MintedApart, LocksApart, Holding, s
    <2> QED BY <1>1, <1>2, <1>5, <2>1 DEF Holding, Live
  <1>6. MintedIsHeld' /\ MintedApart'
    BY <1>1, <1>2, <1>5 DEF Safe, MintedIsHeld, MintedApart
  <1>7. SpentIsConsumed'
    BY <1>1, <1>2 DEF Safe, SpentIsConsumed, t
  <1>8. NoTwoWinners'
    BY <1>1, <1>2, <1>3 DEF Safe, SpentIsConsumed, NoTwoWinners, Live, t
  <1>9. OneLiveToken'
    BY <1>1, <1>3 DEF Safe, OneLiveToken, Live
  <1> QED BY <1>4, <1>6, <1>7, <1>8, <1>9 DEF Safe

\* Starting to revoke, starting the update and taking one more lock leave every
\* row and every rotation in flight alone.
LEMMA WaitSafe ==
  ASSUME SafeInv, NEW r \in Requests, StartRevoke(r) \/ StartUpdate(r) \/ LockRow(r)
  PROVE  Safe'
  <1>1. /\ TypeOK /\ Safe /\ pc[r] \in {"replay", "locking", "updating"}
        /\ UNCHANGED <<minted, issued, consumed, revoked, token, successor>>
    BY DEF StartRevoke, StartUpdate, LockRow, SafeInv, rowVars
  <1>2. /\ pc'[r] \in {"locking", "updating"}
        /\ \A q \in Requests : q # r => pc'[q] = pc[q]
    BY <1>1 DEF StartRevoke, StartUpdate, LockRow, TypeOK
  <1>3. /\ wants'[r] \subseteq issued
        /\ \A q \in Requests : q # r => wants'[q] = wants[q]
    BY <1>1, FamilyRowsType DEF StartRevoke, StartUpdate, LockRow, TypeOK, Safe, RowsOnly
  <1>4. /\ locks[r] \subseteq locks'[r]
        /\ \A u \in locks'[r] \ locks[r] : u \in wants[r] /\ Free(r, u)
        /\ \A q \in Requests : q # r => locks'[q] = locks[q]
    BY <1>1 DEF StartRevoke, StartUpdate, LockRow, TypeOK
  <1>5. Started' /\ SpentIsConsumed' /\ NoTwoWinners' /\ OneLiveToken' /\ Numbered'
    BY <1>1, <1>2 DEF Safe, Started, SpentIsConsumed, NoTwoWinners, OneLiveToken, Live, Numbered
  <1>6. RowsOnly'
    BY <1>1, <1>3, <1>4 DEF Safe, RowsOnly
  <1>7. LocksApart'
    BY <1>1, <1>4 DEF Safe, LocksApart, Free
  <1>8. MintedIsHeld' /\ MintedApart'
    BY <1>1, <1>2, <1>4 DEF Safe, MintedIsHeld, MintedApart, Holding, Live
  <1> QED BY <1>5, <1>6, <1>7, <1>8 DEF Safe

LEMMA CommitRevokeSafe ==
  ASSUME SafeInv, NEW r \in Requests, CommitRevoke(r)
  PROVE  Safe'
  <1>1. /\ TypeOK /\ Safe /\ pc[r] = "updating" /\ wants[r] \subseteq locks[r]
        /\ revoked' = revoked \cup wants[r]
        /\ UNCHANGED <<minted, issued, consumed, token, successor, wants>>
    BY DEF CommitRevoke, SafeInv
  <1>2. /\ pc'[r] = "revoked" /\ locks'[r] = {}
        /\ \A q \in Requests : q # r => pc'[q] = pc[q] /\ locks'[q] = locks[q]
    BY <1>1 DEF CommitRevoke, TypeOK
  <1>3. Started' /\ RowsOnly' /\ LocksApart' /\ Numbered' /\ SpentIsConsumed' /\ NoTwoWinners'
    BY <1>1, <1>2 DEF Safe, Started, RowsOnly, LocksApart, Numbered, SpentIsConsumed, NoTwoWinners
  <1>4. OneLiveToken'
    BY <1>1 DEF Safe, OneLiveToken, Live
  <1>5. ASSUME NEW q \in Requests, q # r, pc[q] = "minted"
        PROVE  Holding(q)'
    <2>1. Holding(q) /\ token[q] \notin wants[r]
      BY <1>1, <1>5 DEF Safe, MintedIsHeld, LocksApart, Holding
    <2> QED BY <1>1, <1>2, <1>5, <2>1 DEF Holding, Live
  <1>6. MintedIsHeld' /\ MintedApart'
    BY <1>1, <1>2, <1>5 DEF Safe, MintedIsHeld, MintedApart
  <1> QED BY <1>3, <1>4, <1>6 DEF Safe

LEMMA RollBackSafe ==
  ASSUME SafeInv, NEW r \in Requests, pc[r] # "idle", RollBack(r)
  PROVE  Safe'
  <1>1. /\ TypeOK /\ Safe
        /\ UNCHANGED <<minted, issued, consumed, revoked, token, successor, wants>>
    BY DEF RollBack, SafeInv, rowVars
  <1>2. /\ pc'[r] = "failed" /\ locks'[r] = {}
        /\ \A q \in Requests : q # r => pc'[q] = pc[q] /\ locks'[q] = locks[q]
    BY <1>1 DEF RollBack, TypeOK
  <1>3. RowsOnly' /\ LocksApart' /\ Numbered' /\ SpentIsConsumed' /\ NoTwoWinners' /\ OneLiveToken'
    BY <1>1, <1>2 DEF Safe, RowsOnly, LocksApart, Numbered, SpentIsConsumed, NoTwoWinners,
                      OneLiveToken, Live
  <1>4. MintedIsHeld' /\ MintedApart'
    BY <1>1, <1>2 DEF Safe, MintedIsHeld, MintedApart, Holding, Live
  <1> QED BY <1>1, <1>2, <1>3, <1>4 DEF Safe, Started

LEMMA SafeStep ==
  ASSUME SafeInv, [Next]_vars
  PROVE  SafeInv'
  <1>1. TypeOK'
    BY TypeStep DEF SafeInv, Safe
  <1>2. CASE UNCHANGED vars
    BY <1>1, <1>2 DEF SafeInv, Safe, Started, RowsOnly, LocksApart, Numbered, MintedIsHeld, Holding,
                MintedApart, SpentIsConsumed, OneLiveToken, NoTwoWinners, Live, vars
  <1>3. ASSUME NEW f \in Families, Expire(f)
        PROVE  Safe'
    BY <1>3 DEF Expire, SafeInv, Safe, Started, RowsOnly, LocksApart, Numbered, MintedIsHeld,
                Holding, MintedApart, SpentIsConsumed, OneLiveToken, NoTwoWinners, Live
  <1>4. ASSUME NEW r \in Requests, Deadlock(r) \/ Crash(r)
        PROVE  Safe'
    <2>1. pc[r] # "idle" /\ RollBack(r)
      BY <1>4 DEF Deadlock, Crash, Awaited, Open
    <2> QED BY <2>1, RollBackSafe
  <1>5. CASE Next
    BY <1>1, <1>3, <1>4, <1>5, LoginSafe, ReadSafe, ConsumeSafe, CommitRotationSafe, WaitSafe,
       CommitRevokeSafe DEF Next, Refresh, SafeInv
  <1> QED BY <1>2, <1>5

LEMMA SafeInvariant == Spec => []SafeInv
  BY SafeInit, SafeStep, PTL DEF Spec

\* The rows, requests and locks stay well formed in every run.
THEOREM RefreshTypeCorrect == Spec => []TypeOK
  <1>1. SafeInv => TypeOK
    BY DEF SafeInv
  <1> QED BY <1>1, SafeInvariant, PTL

\* However many requests present the same token, one of them gets a successor.
THEOREM OneWinnerPerToken == Spec => []NoTwoWinners
  <1>1. SafeInv => NoTwoWinners
    BY DEF SafeInv, Safe
  <1> QED BY <1>1, SafeInvariant, PTL

\* At most one token of a family can be spent, whatever races, replays or dies.
THEOREM OneLiveTokenPerFamily == Spec => []OneLiveToken
  <1>1. SafeInv => OneLiveToken
    BY DEF SafeInv, Safe
  <1> QED BY <1>1, SafeInvariant, PTL

\* Once revoked, a token is never spent.
THEOREM RevokedStaysUnspent == Spec => RevokedIsNeverSpent
  <1> DEFINE Kept == \A t \in revoked : t \in consumed' => t \in consumed
  <1>1. ASSUME SafeInv, [Next]_vars
        PROVE  [Kept]_vars
    <2>1. ASSUME NEW r \in Requests, CommitRotation(r)
          PROVE  Kept
      <3>1. consumed' = consumed \cup {token[r]} /\ token[r] \notin revoked
        BY <1>1, <2>1 DEF CommitRotation, SafeInv, Safe, MintedIsHeld, Holding, Live
      <3> QED BY <3>1
    <2>2. CASE UNCHANGED consumed
      BY <2>2
    <2>3. Next => \/ \E r \in Requests : CommitRotation(r)
                  \/ UNCHANGED consumed
      BY DEF Next, Refresh, Login, Expire, Read, Consume, StartRevoke, LockRow, StartUpdate,
             CommitRevoke, Deadlock, Crash, RollBack, rowVars
    <2> QED BY <1>1, <2>1, <2>2, <2>3 DEF vars
  <1> QED BY <1>1, SafeInvariant, PTL DEF Spec, RevokedIsNeverSpent

-----------------------------------------------------------------------------
(* Revocation and the rotations it races with.                             *)

\* A racing successor was numbered before the revocation began; it is in flight
\* behind a row the revocation waits for, or it is committed and about to be
\* revoked, or it never will be committed.
Raced(r) ==
  /\ pc[r] = "idle" => racing[r] = {}
  /\ \A s \in racing[r] : s \in Token /\ s.family = token[r].family
                                      /\ s.n <= minted[s.family]
  /\ pc[r] = "locking" =>
       \A q \in Requests : pc[q] = "minted" /\ successor[q] \in racing[r]
                             => token[q] \in wants[r]
  /\ pc[r] \in {"updating", "revoked"} =>
       \A q \in Requests : ~(pc[q] = "minted" /\ successor[q] \in racing[r])
  /\ pc[r] = "updating" => racing[r] \cap issued \subseteq wants[r] \cup revoked
  /\ pc[r] = "revoked" => racing[r] \cap issued \subseteq revoked

RaceInv == \A r \in Requests : Raced(r)

LEMMA RaceInit == Init => RaceInv
  BY DEF Init, RaceInv, Raced

\* A step that leaves r's own request alone, mints only new tokens and commits no
\* successor that may not be committed leaves r's race as it was.
LEMMA RaceKept ==
  ASSUME SafeInv, SafeInv', RaceInv, NEW r \in Requests,
         pc'[r] = pc[r], token'[r] = token[r], racing'[r] = racing[r], wants'[r] = wants[r],
         \A f \in Families : minted[f] <= minted'[f],
         \A q \in Requests : pc'[q] = "minted" =>
            \/ pc[q] = "minted" /\ successor'[q] = successor[q] /\ token'[q] = token[q]
            \/ successor'[q] \notin racing[r],
         \A s \in issued' \ issued : s \in racing[r] =>
            \E q \in Requests : pc[q] = "minted" /\ successor[q] = s,
         revoked \subseteq revoked'
  PROVE  Raced(r)'
  <1>1. Raced(r)
    BY DEF RaceInv
  <1>2. \A f \in Families : minted[f] \in Nat /\ minted'[f] \in Nat
    BY BoundsAssumption DEF SafeInv, TypeOK
  <1>3. \A s \in racing[r] : s \in Token /\ s.family = token[r].family
                                         /\ s.n <= minted'[s.family]
    <2>1. \A s \in racing[r] : s.family \in Families /\ s.n \in Nat
      BY <1>1 DEF Raced, Token
    <2> QED BY <1>1, <1>2, <2>1 DEF Raced
  <1> QED BY <1>1, <1>3 DEF Raced

\* A request that has nothing to revoke (any more) races with nobody.
LEMMA RaceIdle ==
  ASSUME SafeInv, SafeInv', RaceInv, NEW r \in Requests,
         pc'[r] \notin {"idle", "locking", "updating", "revoked"},
         pc[r] = "idle" \/ token'[r] = token[r], racing'[r] = racing[r],
         \A f \in Families : minted[f] <= minted'[f]
  PROVE  Raced(r)'
  <1>1. Raced(r)
    BY DEF RaceInv
  <1>2. \A f \in Families : minted[f] \in Nat /\ minted'[f] \in Nat
    BY BoundsAssumption DEF SafeInv, TypeOK
  <1>3. \A s \in racing[r] : s.family \in Families /\ s.n \in Nat
    BY <1>1 DEF Raced, Token
  <1> QED BY <1>1, <1>2, <1>3 DEF Raced

LEMMA RaceRevoke ==
  ASSUME SafeInv, SafeInv', RaceInv, NEW r \in Requests,
         StartRevoke(r) \/ StartUpdate(r) \/ CommitRevoke(r)
  PROVE  Raced(r)'
  <1>1. Raced(r) /\ TypeOK /\ Safe
    BY DEF RaceInv, SafeInv
  <1>2. UNCHANGED <<minted, issued, token, successor>>
    BY DEF StartRevoke, StartUpdate, CommitRevoke, rowVars
  <1>3. \A q \in Requests : pc[q] = "minted" => Holding(q)
    BY <1>1 DEF Safe, MintedIsHeld
  <1> DEFINE f == token[r].family
  <1>4. CASE StartRevoke(r)
    <2>1. /\ racing'[r] = InFlight(f) /\ wants'[r] = FamilyRows(f)
          /\ pc'[r] = "locking" /\ \A q \in Requests : q # r => pc'[q] = pc[q]
      BY <1>1, <1>4 DEF StartRevoke, TypeOK
    <2>2. \A s \in InFlight(f) : \E q \in Requests :
            pc[q] = "minted" /\ token[q].family = f /\ successor[q] = s
      BY DEF InFlight
    <2>3. \A s \in InFlight(f) : s \in Token /\ s.family = f /\ s.n <= minted[s.family]
      BY <1>3, <2>2 DEF Holding
    <2>4. \A q \in Requests : pc[q] = "minted" /\ successor[q] \in InFlight(f)
            => token[q] \in FamilyRows(f)
      BY <1>1, <1>3, <2>2 DEF Safe, MintedApart, Holding, Live, FamilyRows
    <2> QED BY <1>2, <2>1, <2>3, <2>4 DEF Raced
  <1>5. CASE StartUpdate(r)
    <2>1. /\ racing' = racing /\ wants'[r] = FamilyRows(f) \ revoked /\ wants[r] \subseteq locks[r]
          /\ revoked' = revoked /\ pc[r] = "locking"
          /\ pc'[r] = "updating" /\ \A q \in Requests : q # r => pc'[q] = pc[q]
      BY <1>1, <1>5 DEF StartUpdate, TypeOK, rowVars
    <2>2. \A q \in Requests : ~(pc[q] = "minted" /\ successor[q] \in racing[r])
      BY <1>1, <1>3, <2>1 DEF Safe, LocksApart, Holding, Raced
    <2>3. racing[r] \cap issued \subseteq wants'[r] \cup revoked
      BY <1>1, <2>1 DEF Raced, FamilyRows
    <2> QED BY <1>1, <1>2, <2>1, <2>2, <2>3 DEF Raced
  <1>6. CASE CommitRevoke(r)
    <2>1. /\ racing' = racing /\ revoked' = revoked \cup wants[r] /\ pc[r] = "updating"
          /\ pc'[r] = "revoked" /\ \A q \in Requests : q # r => pc'[q] = pc[q]
      BY <1>1, <1>6 DEF CommitRevoke, TypeOK
    <2> QED BY <1>1, <1>2, <2>1 DEF Raced
  <1> QED BY <1>4, <1>5, <1>6

LEMMA RaceStep ==
  ASSUME SafeInv, SafeInv', RaceInv, [Next]_vars
  PROVE  RaceInv'
  <1> SUFFICES ASSUME NEW r \in Requests
               PROVE  Raced(r)'
    BY DEF RaceInv
  <1>1. TypeOK /\ Safe /\ Raced(r)
    BY DEF SafeInv, RaceInv
  <1>2. CASE UNCHANGED vars
    BY <1>1, <1>2 DEF Raced, vars
  <1>3. ASSUME NEW f \in Families, Login(f)
        PROVE  Raced(r)'
    <2>1. \A g \in Families : minted[g] <= minted'[g] /\ minted[g] \in Nat
      BY <1>1, <1>3, BoundsAssumption DEF Login, TypeOK
    <2>2. \A s \in issued' \ issued : s \notin racing[r]
      BY <1>1, <1>3, <2>1 DEF Login, Raced
    <2>3. UNCHANGED <<pc, token, racing, wants, successor, revoked>>
      BY <1>3 DEF Login
    <2> QED BY <2>1, <2>2, <2>3, RaceKept
  <1>4. ASSUME NEW f \in Families, Expire(f)
        PROVE  Raced(r)'
    BY <1>1, <1>4 DEF Expire, Raced
  <1>5. ASSUME NEW q \in Requests, NEW t \in Token, Read(q, t)
        PROVE  Raced(r)'
    <2>1. /\ UNCHANGED <<minted, issued, revoked, successor, racing, wants>> /\ pc[q] = "idle"
          /\ pc'[q] \notin {"idle", "minted", "locking", "updating", "revoked"}
          /\ \A p \in Requests : p # q => pc'[p] = pc[p] /\ token'[p] = token[p]
      BY <1>1, <1>5 DEF Read, TypeOK, rowVars
    <2>2. \A f \in Families : minted[f] <= minted'[f]
      BY <1>1, <2>1, BoundsAssumption DEF TypeOK
    <2>3. CASE r = q
      BY <2>1, <2>2, <2>3, RaceIdle
    <2>4. CASE r # q
      BY <2>1, <2>2, <2>4, RaceKept
    <2> QED BY <2>3, <2>4
  <1>6. ASSUME NEW q \in Requests, Consume(q)
        PROVE  Raced(r)'
    <2>1. /\ UNCHANGED <<issued, revoked, token, racing, wants>> /\ pc[q] = "spend"
          /\ token[q] \in Token
      BY <1>1, <1>6 DEF Consume, Safe, Started, TypeOK
    <2>2. /\ pc'[q] \in {"minted", "replay"}
          /\ \A p \in Requests : p # q => pc'[p] = pc[p]
      BY <1>1, <1>6 DEF Consume, Mint, TypeOK
    <2>3. /\ \A f \in Families : minted[f] <= minted'[f]
          /\ \A p \in Requests : p # q => successor'[p] = successor[p]
          /\ pc'[q] = "minted" => successor'[q] \notin racing[r]
      <3>1. CASE Mint(q)
        <4>1. /\ \A f \in Families : minted[f] <= minted'[f]
              /\ \A p \in Requests : p # q => successor'[p] = successor[p]
              /\ successor'[q] \in Token
              /\ successor'[q].n = minted[token[q].family] + 1
              /\ successor'[q].family = token[q].family
          BY <1>1, <2>1, <3>1, MintType
        <4>2. minted[token[q].family] \in Nat
          BY <1>1, <2>1, BoundsAssumption DEF TypeOK, Token
        <4> QED BY <1>1, <4>1, <4>2 DEF Raced
      <3>2. CASE pc'[q] = "replay" /\ UNCHANGED <<minted, successor>>
        BY <1>1, <3>2, BoundsAssumption DEF TypeOK
      <3> QED BY <1>1, <1>6, <3>1, <3>2 DEF Consume, TypeOK
    <2>4. CASE r = q
      BY <2>1, <2>2, <2>3, <2>4, RaceIdle
    <2>5. CASE r # q
      BY <2>1, <2>2, <2>3, <2>5, RaceKept
    <2> QED BY <2>4, <2>5
  <1>7. ASSUME NEW q \in Requests, CommitRotation(q)
        PROVE  Raced(r)'
    <2>1. /\ UNCHANGED <<minted, revoked, token, successor, racing, wants>> /\ pc[q] = "minted"
          /\ pc'[q] = "rotated" /\ \A p \in Requests : p # q => pc'[p] = pc[p]
          /\ issued' = issued \cup {successor[q]}
      BY <1>1, <1>7 DEF CommitRotation, TypeOK
    <2>2. \A f \in Families : minted[f] <= minted'[f]
      BY <1>1, <2>1, BoundsAssumption DEF TypeOK
    <2>3. CASE r = q
      BY <2>1, <2>2, <2>3, RaceIdle
    <2>4. CASE r # q
      BY <2>1, <2>2, <2>4, RaceKept
    <2> QED BY <2>3, <2>4
  <1>8. ASSUME NEW q \in Requests, StartRevoke(q) \/ StartUpdate(q) \/ CommitRevoke(q)
        PROVE  Raced(r)'
    <2>1. /\ UNCHANGED <<minted, issued, token, successor>> /\ revoked \subseteq revoked'
          /\ pc'[q] # "minted" /\ \A p \in Requests : p # q =>
               pc'[p] = pc[p] /\ racing'[p] = racing[p] /\ wants'[p] = wants[p]
      BY <1>1, <1>8 DEF StartRevoke, StartUpdate, CommitRevoke, TypeOK, rowVars
    <2>2. \A f \in Families : minted[f] <= minted'[f]
      BY <1>1, <2>1, BoundsAssumption DEF TypeOK
    <2>3. CASE r = q
      BY <1>8, <2>3, RaceRevoke
    <2>4. CASE r # q
      BY <2>1, <2>2, <2>4, RaceKept
    <2> QED BY <2>3, <2>4
  <1>9. ASSUME NEW q \in Requests, LockRow(q)
        PROVE  Raced(r)'
    <2>1. UNCHANGED <<minted, issued, revoked, pc, token, successor, racing, wants>>
      BY <1>9 DEF LockRow, rowVars
    <2> QED BY <1>1, <2>1 DEF Raced
  <1>10. ASSUME NEW q \in Requests, Deadlock(q) \/ Crash(q)
        PROVE  Raced(r)'
    <2>1. /\ UNCHANGED <<minted, issued, revoked, token, successor, racing, wants>>
          /\ pc'[q] = "failed" /\ \A p \in Requests : p # q => pc'[p] = pc[p]
      BY <1>1, <1>10 DEF Deadlock, Crash, RollBack, TypeOK, rowVars
    <2>2. \A f \in Families : minted[f] <= minted'[f]
      BY <1>1, <2>1, BoundsAssumption DEF TypeOK
    <2>3. CASE r = q
      BY <2>1, <2>2, <2>3, RaceIdle
    <2>4. CASE r # q
      BY <2>1, <2>2, <2>4, RaceKept
    <2> QED BY <2>3, <2>4
  <1> QED
    BY <1>2, <1>3, <1>4, <1>5, <1>6, <1>7, <1>8, <1>9, <1>10 DEF Next, Refresh

\* A rotation in flight when a revocation begins does not save its successor.
THEOREM RacingSuccessorsAreRevoked == Spec => []RacingSuccessorIsRevoked
  <1>1. SafeInv /\ SafeInv' /\ RaceInv /\ [Next]_vars => RaceInv'
    BY RaceStep
  <1>2. RaceInv => RacingSuccessorIsRevoked
    BY DEF RaceInv, Raced, RacingSuccessorIsRevoked
  <1> QED BY <1>1, <1>2, RaceInit, SafeInvariant, PTL DEF Spec
=============================================================================
