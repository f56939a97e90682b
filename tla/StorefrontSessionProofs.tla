----------------------- MODULE StorefrontSessionProofs -----------------------
(***************************************************************************)
(* The storefront's session for any number of tabs, requests, logins and   *)
(* token pairs: a page never replays a refresh token, a session one page   *)
(* keeps to itself is never revoked, and a page that is out stays out.     *)
(***************************************************************************)
EXTENDS StorefrontSession, TLAPS

-----------------------------------------------------------------------------
(* The inductive invariant.                                                *)

\* The refresh token a page sends next, has sent, or is about to be handed. A page
\* whose refresh is under way never sends the one in its memory: the answer
\* replaces it or clears it.
Held(t) ==
  IF refreshing[t].pc = "none" THEN page[t].refresh
  ELSE IF refreshing[t].pc = "sent" THEN refreshing[t].token
  ELSE refreshing[t].granted

\* What a page sends to renew its pair is a token.
SentIsToken == \A t \in Tabs : refreshing[t].pc = "sent" => refreshing[t].token \in Token

Minted(token) == token # NoToken => token.n <= minted[token.family]

\* Only tokens the server has minted are anywhere.
Numbered ==
  /\ Minted(storage.refresh)
  /\ \A x \in abandoned : Minted(x)
  /\ \A t \in Tabs : Minted(Held(t)) /\ \A x \in presented[t] : Minted(x)

\* A page holds no token it has sent, but for the one under way.
Fresh ==
  \A t \in Tabs : Held(t) # NoToken /\ refreshing[t].pc # "sent"
    => Held(t) \notin presented[t]

\* The token of a family no page found in localStorage is unspent and in one place.
HeldAlone ==
  \A t \in Tabs : Held(t) # NoToken /\ Held(t).family \notin shared =>
    /\ Held(t).n = minted[Held(t).family]
    /\ \A u \in Tabs \ {t} : Held(u) # NoToken => Held(u).family # Held(t).family
    /\ \A x \in abandoned : x.family # Held(t).family

AbandonedAlone ==
  \A x \in abandoned : x.family \notin shared =>
    /\ x.n = minted[x.family]
    /\ \A y \in abandoned : y.family = x.family => y = x

Safe ==
  /\ SentIsToken /\ Numbered /\ Fresh /\ HeldAlone /\ AbandonedAlone
  /\ OnlySharedFamiliesAreRevoked

SafeInv == TypeOK /\ Safe

-----------------------------------------------------------------------------
(* Type correctness.                                                       *)

LEMMA TypeInit == Init => TypeOK
  BY BoundsAssumption
     DEF Init, TypeOK, Pair, Holding, Cleared, NoRefresh, Idle, Calls

LEMMA ActType ==
  ASSUME TypeOK, Act
  PROVE  actions' \in 0..MaxActions
  BY BoundsAssumption DEF TypeOK, Act

LEMMA RotateType ==
  ASSUME TypeOK, NEW token \in Token, NEW granted \in Token \cup {NoToken},
         Rotate(token, granted)
  PROVE  /\ minted' \in [Families -> 0..MaxTokens]
         /\ revoked' \subseteq Families
         /\ \A f \in Families : minted[f] <= minted'[f]
  <1>1. token.family \in Families /\ token.n \in 1..MaxTokens
    BY DEF Token
  <1>2. \A f \in Families : minted[f] \in 0..MaxTokens
    BY DEF TypeOK
  <1>3. CASE /\ token.n = minted[token.family] /\ token.n < MaxTokens
             /\ minted' = [minted EXCEPT ![token.family] = token.n + 1]
             /\ UNCHANGED revoked
    <2>1. token.n + 1 \in 0..MaxTokens
      BY <1>1, <1>3, BoundsAssumption
    <2> QED BY <1>1, <1>2, <1>3, <2>1 DEF TypeOK
  <1>4. CASE UNCHANGED minted /\ revoked' \in {revoked, revoked \cup {token.family}}
    BY <1>1, <1>2, <1>4 DEF TypeOK
  <1> QED BY <1>3, <1>4 DEF Rotate, serverVars

LEMMA FirstToken ==
  ASSUME NEW f \in Families
  PROVE  [family |-> f, n |-> 1] \in Token
  BY BoundsAssumption DEF Token

LEMMA StartType ==
  ASSUME TypeOK, NEW t \in Tabs, NEW s \in Slots,
         NEW kind \in {"page", "login", "register"}, Start(t, s, kind)
  PROVE  TypeOK'
  <1>1. Request(kind, page[t].access, FALSE) \in Calls
    BY DEF TypeOK, Request, Calls
  <1>2. call' \in [Tabs -> [Slots -> Calls]]
    BY <1>1 DEF TypeOK, Start
  <1> QED BY <1>2, ActType DEF TypeOK, Start, serverVars, historyVars

LEMMA LoadType ==
  ASSUME TypeOK, SentIsToken, NEW t \in Tabs, Load(t)
  PROVE  TypeOK'
  <1> PICK access \in {storage.access, NoToken} : Load(t)!(access)
    BY DEF Load
  <1>1. access \in Token \cup {NoToken}
    BY DEF TypeOK
  <1>2. Request("restore", access, FALSE) \in Calls /\ Idle \in Calls
    BY <1>1 DEF Request, Calls, Idle
  <1>3. call' \in [Tabs -> [Slots -> Calls]]
    BY <1>2 DEF TypeOK
  <1>4. page' \in [Tabs -> [access : Token \cup {NoToken}, refresh : Token \cup {NoToken},
                            status : {"loading", "authenticated", "anonymous"}]]
    BY <1>1 DEF TypeOK
  <1>5. storage' \in [access : Token \cup {NoToken}, refresh : Token \cup {NoToken}]
    BY <1>1 DEF TypeOK
  <1>6. refreshing' \in [Tabs -> [pc : {"none", "sent", "answered"},
                                  token : Token \cup {NoToken},
                                  granted : Token \cup {NoToken}]]
    BY DEF TypeOK, NoRefresh
  <1>7. abandoned' \subseteq Token
    BY DEF TypeOK, SentIsToken
  <1>8. shared' \subseteq Families
    BY DEF TypeOK, Token
  <1>9. presented' \in [Tabs -> SUBSET Token]
    BY DEF TypeOK
  <1> QED BY <1>3, <1>4, <1>5, <1>6, <1>7, <1>8, <1>9, ActType DEF TypeOK, serverVars

LEMMA RefreshType ==
  ASSUME TypeOK, SentIsToken, NEW t \in Tabs, RefreshStep(t)
  PROVE  TypeOK'
  <1>1. CASE AnswerRefresh(t)
    <2>1. refreshing[t].token \in Token
      BY <1>1 DEF AnswerRefresh, SentIsToken
    <2>2. PICK granted \in Token \cup {NoToken} :
            /\ Rotate(refreshing[t].token, granted)
            /\ refreshing' = [refreshing EXCEPT ![t].pc = "answered", ![t].granted = granted]
      BY <1>1 DEF AnswerRefresh
    <2>0. [refreshing[t] EXCEPT !.pc = "answered", !.granted = granted]
            \in [pc : {"none", "sent", "answered"}, token : Token \cup {NoToken},
                 granted : Token \cup {NoToken}]
      BY DEF TypeOK
    <2>3. refreshing' \in [Tabs -> [pc : {"none", "sent", "answered"},
                                    token : Token \cup {NoToken},
                                    granted : Token \cup {NoToken}]]
      BY <2>0, <2>2 DEF TypeOK
    <2> QED BY <1>1, <2>1, <2>2, <2>3, RotateType DEF TypeOK, AnswerRefresh, historyVars
  <1>2. CASE Renewed(t)
    <2> DEFINE token == refreshing[t].granted
    <2>1. token \in Token
      BY <1>2 DEF Renewed, TypeOK
    <2>2. \A s \in Slots : Request(call[t][s].kind, token, TRUE) \in Calls
      BY <2>1 DEF TypeOK, Request, Calls
    <2>3. call' \in [Tabs -> [Slots -> Calls]]
      BY <1>2, <2>2 DEF TypeOK, Renewed
    <2>4. page' \in [Tabs -> [access : Token \cup {NoToken}, refresh : Token \cup {NoToken},
                              status : {"loading", "authenticated", "anonymous"}]]
      BY <1>2, <2>1 DEF TypeOK, Renewed, Holding
    <2> QED BY <1>2, <2>1, <2>3, <2>4
            DEF TypeOK, Renewed, Pair, NoRefresh, serverVars, historyVars
  <1>3. CASE NotRenewed(t)
    <2>1. call' \in [Tabs -> [Slots -> Calls]]
      BY <1>3 DEF TypeOK, NotRenewed, Idle, Calls
    <2>2. abandoned' \subseteq Token
      BY <1>3 DEF TypeOK, NotRenewed, SentIsToken
    <2>3. page' \in [Tabs -> [access : Token \cup {NoToken}, refresh : Token \cup {NoToken},
                              status : {"loading", "authenticated", "anonymous"}]]
      BY <1>3 DEF TypeOK, NotRenewed, Cleared, Holding
    <2> QED BY <1>3, <2>1, <2>2, <2>3
            DEF TypeOK, NotRenewed, Pair, NoRefresh, serverVars, historyVars
  <1> QED BY <1>1, <1>2, <1>3 DEF RefreshStep

LEMMA CallType ==
  ASSUME TypeOK, NEW t \in Tabs, NEW s \in Slots, CallStep(t, s)
  PROVE  TypeOK'
  <1> DEFINE Pages == [access : Token \cup {NoToken}, refresh : Token \cup {NoToken},
                       status : {"loading", "authenticated", "anonymous"}]
  <1>0. Idle \in Calls
    BY DEF Idle, Calls
  <1>1. CASE LoggedIn(t, s)
    <2>1. PICK f \in Families : LoggedIn(t, s)!2!(f)
      BY <1>1 DEF LoggedIn
    <2> DEFINE token == [family |-> f, n |-> 1]
    <2>2. token \in Token
      BY FirstToken
    <2> HIDE DEF token
    <2>3. Request("welcome", token, FALSE) \in Calls
      BY <2>2 DEF Request, Calls
    <2>4. call' \in [Tabs -> [Slots -> Calls]]
      BY <2>1, <2>3 DEF TypeOK, token
    <2>5. page' \in [Tabs -> Pages]
      BY <2>1, <2>2 DEF TypeOK, Holding, token
    <2>6. storage' = Pair(token)
      BY <2>1 DEF token
    <2>7. minted' \in [Families -> 0..MaxTokens]
      BY <2>1, BoundsAssumption DEF TypeOK
    <2> QED BY <1>1, <2>2, <2>4, <2>5, <2>6, <2>7 DEF TypeOK, LoggedIn, Pair, historyVars
  <1>2. CASE Answered(t, s)
    <2>0. Request("login", page[t].access, FALSE) \in Calls
      BY DEF TypeOK, Request, Calls
    <2>b. [page[t] EXCEPT !.status = "authenticated"] \in Pages
      <3>1. page[t] \in Pages
        BY DEF TypeOK
      <3> QED BY <3>1
    <2>a. PICK c \in Calls : call' = [call EXCEPT ![t][s] = c]
      BY <1>0, <1>2, <2>0 DEF Answered
    <2>1. call' \in [Tabs -> [Slots -> Calls]]
      BY <2>a DEF TypeOK
    <2>2. page' \in [Tabs -> Pages]
      <3>1. CASE page' = [page EXCEPT ![t] = [page[t] EXCEPT !.status = "authenticated"]]
        BY <2>b, <3>1 DEF TypeOK
      <3> QED BY <1>2, <3>1 DEF TypeOK, Answered
    <2> QED BY <1>2, <2>1, <2>2 DEF TypeOK, Answered, serverVars, historyVars
  <1>3. CASE Failed(t, s)
    <2>1. call' \in [Tabs -> [Slots -> Calls]]
      BY <1>0, <1>3 DEF TypeOK, Failed
    <2>2. page' \in [Tabs -> Pages]
      BY <1>3 DEF TypeOK, Failed
    <2> QED BY <1>3, <2>1, <2>2 DEF TypeOK, Failed, serverVars, historyVars
  <1>4. CASE Renew(t, s)
    <2>0. Waiting(call[t][s].kind, call[t][s].sent) \in Calls
      BY DEF TypeOK, Calls, Waiting
    <2>a. call' = [call EXCEPT ![t][s] = Waiting(call[t][s].kind, call[t][s].sent)]
      BY <1>4 DEF Renew
    <2>1. call' \in [Tabs -> [Slots -> Calls]]
      BY <2>0, <2>a DEF TypeOK
    <2>2. CASE UNCHANGED <<refreshing, presented>>
      BY <1>4, <2>1, <2>2 DEF TypeOK, Renew, serverVars
    <2>3. CASE /\ refreshing[t].pc = "none"
               /\ refreshing' = [refreshing EXCEPT ![t] =
                    [pc |-> "sent", token |-> RefreshToken(t), granted |-> NoToken]]
               /\ presented' = [presented EXCEPT ![t] = @ \cup {RefreshToken(t)}]
      <3>1. RefreshToken(t) \in Token
        BY <1>4, <2>3 DEF TypeOK, Renew, MayRenew, RefreshToken
      <3>2. /\ refreshing' \in [Tabs -> [pc : {"none", "sent", "answered"},
                                         token : Token \cup {NoToken},
                                         granted : Token \cup {NoToken}]]
            /\ presented' \in [Tabs -> SUBSET Token]
        BY <2>3, <3>1 DEF TypeOK
      <3> QED BY <1>4, <2>1, <3>2 DEF TypeOK, Renew, serverVars
    <2> QED BY <1>4, <2>2, <2>3 DEF Renew
  <1>5. CASE Unauthorized(t, s)
    <2>1. call' \in [Tabs -> [Slots -> Calls]]
      BY <1>0, <1>5 DEF TypeOK, Unauthorized
    <2>2. page' \in [Tabs -> Pages]
      BY <1>5 DEF TypeOK, Unauthorized, Cleared, Holding
    <2> QED BY <1>5, <2>1, <2>2 DEF TypeOK, Unauthorized, Pair, serverVars, historyVars
  <1> QED BY <1>1, <1>2, <1>3, <1>4, <1>5 DEF CallStep

LEMMA TypeStep ==
  ASSUME TypeOK, SentIsToken, [Next]_vars
  PROVE  TypeOK'
  <1>1. CASE UNCHANGED vars
    BY <1>1 DEF TypeOK, vars
  <1>2. ASSUME NEW t \in Tabs, NEW s \in Slots,
               Fetch(t, s) \/ Submit(t, s, "login") \/ Submit(t, s, "register")
        PROVE  TypeOK'
    BY <1>2, StartType DEF Fetch, Submit
  <1>3. ASSUME NEW t \in Tabs, Logout(t)
        PROVE  TypeOK'
    <2>1. page' \in [Tabs -> [access : Token \cup {NoToken}, refresh : Token \cup {NoToken},
                              status : {"loading", "authenticated", "anonymous"}]]
      BY <1>3 DEF TypeOK, Logout, Cleared, Holding
    <2> QED BY <1>3, <2>1 DEF TypeOK, Logout, Pair, serverVars, historyVars
  <1>4. CASE AnswerAbandoned
    <2>1. PICK token \in abandoned, granted \in Token \cup {NoToken} :
            Rotate(token, granted) /\ abandoned' = abandoned \ {token}
      BY <1>4 DEF AnswerAbandoned
    <2>2. token \in Token
      BY <2>1 DEF TypeOK
    <2> QED BY <1>4, <2>1, <2>2, RotateType DEF TypeOK, AnswerAbandoned, historyVars
  <1> QED BY <1>1, <1>2, <1>3, <1>4, LoadType, RefreshType, CallType DEF Next

-----------------------------------------------------------------------------
(* The steps.                                                              *)

LEMMA SafeInit == Init => SafeInv
  BY TypeInit
     DEF Init, SafeInv, Safe, Held, SentIsToken, Numbered, Minted, Fresh, HeldAlone,
         AbandonedAlone, OnlySharedFamiliesAreRevoked, Pair, Holding, Cleared, NoRefresh

LEMMA HeldType ==
  ASSUME TypeOK, NEW t \in Tabs
  PROVE  /\ Held(t) \in Token \cup {NoToken}
         /\ Held(t) # NoToken => Held(t).family \in Families /\ Held(t).n \in 1..MaxTokens
  BY DEF TypeOK, Held, Token

\* A step in which only t acts, without the server: what t holds stays or goes,
\* and what it has sent grows by what it sends.
Quiet(t) ==
  /\ UNCHANGED <<minted, revoked, abandoned, shared>>
  /\ \A u \in Tabs \ {t} : /\ Held(u)' = Held(u) /\ presented'[u] = presented[u]
                            /\ refreshing'[u] = refreshing[u]
  /\ storage'.refresh \in {storage.refresh, NoToken, Held(t)}
  /\ Held(t)' \in {Held(t), NoToken}
  /\ \/ presented'[t] = presented[t] /\ refreshing'[t] = refreshing[t]
     \/ presented'[t] = presented[t] /\ refreshing'[t].pc = "none" /\ refreshing[t].pc # "sent"
     \/ /\ presented'[t] = presented[t] \cup {Held(t)} /\ refreshing'[t].pc = "sent"
        /\ refreshing'[t].token \in Token /\ Held(t) # NoToken

LEMMA QuietStep ==
  ASSUME SafeInv, NEW t \in Tabs, Quiet(t)
  PROVE  Safe'
  <1>1. SentIsToken'
    BY DEF Quiet, SafeInv, Safe, SentIsToken
  <1>2. Numbered'
    BY DEF Quiet, SafeInv, Safe, Numbered, Minted
  <1>3. Fresh'
    BY DEF Quiet, SafeInv, Safe, Fresh
  <1>4. HeldAlone'
    BY DEF Quiet, SafeInv, Safe, HeldAlone
  <1>5. AbandonedAlone' /\ OnlySharedFamiliesAreRevoked'
    BY DEF Quiet, SafeInv, Safe, AbandonedAlone, OnlySharedFamiliesAreRevoked
  <1> QED BY <1>1, <1>2, <1>3, <1>4, <1>5 DEF Safe

LEMMA StatusOnly ==
  ASSUME TypeOK, NEW t \in Tabs, NEW s \in Slots, Answered(t, s) \/ Failed(t, s)
  PROVE  /\ UNCHANGED refreshing
         /\ \A u \in Tabs : /\ page'[u].refresh = page[u].refresh
                            /\ page'[u].access = page[u].access
  <1>1. PICK status \in {"loading", "authenticated", "anonymous"} :
          page' = [page EXCEPT ![t].status = status]
    <2>1. page[t] = [page[t] EXCEPT !.status = page[t].status]
      BY DEF TypeOK
    <2>2. page = [page EXCEPT ![t] = page[t]]
      BY DEF TypeOK
    <2>3. page[t].status \in {"loading", "authenticated", "anonymous"}
      BY DEF TypeOK
    <2>4. page = [page EXCEPT ![t].status = page[t].status]
      BY <2>1, <2>2
    <2> QED BY <2>3, <2>4 DEF Answered, Failed
  <1>2. \A u \in Tabs : page'[u].refresh = page[u].refresh /\ page'[u].access = page[u].access
    BY <1>1 DEF TypeOK
  <1> QED BY <1>2 DEF Answered, Failed

LEMMA QuietSteps ==
  ASSUME SafeInv, NEW t \in Tabs,
         \/ \E s \in Slots, kind \in {"page", "login", "register"} : Start(t, s, kind)
         \/ \E s \in Slots : Answered(t, s) \/ Failed(t, s) \/ Renew(t, s) \/ Unauthorized(t, s)
         \/ NotRenewed(t) /\ refreshing[t].pc = "answered"
  PROVE  Quiet(t)
  <1>0. TypeOK
    BY DEF SafeInv
  <1>1. ASSUME NEW s \in Slots, NEW kind \in {"page", "login", "register"}, Start(t, s, kind)
        PROVE  Quiet(t)
    BY <1>1 DEF Start, Quiet, Held, serverVars, historyVars
  <1>2. ASSUME NEW s \in Slots, Answered(t, s) \/ Failed(t, s)
        PROVE  Quiet(t)
    <2>2. \A u \in Tabs : page'[u].refresh = page[u].refresh
      BY <1>0, <1>2, StatusOnly
    <2> QED BY <1>2, <2>2 DEF Answered, Failed, Quiet, Held, serverVars, historyVars
  <1>3. ASSUME NEW s \in Slots, Renew(t, s)
        PROVE  Quiet(t)
    <2>1. CASE UNCHANGED <<refreshing, presented>>
      BY <1>3, <2>1 DEF Renew, Quiet, Held, serverVars
    <2>2. CASE /\ refreshing[t].pc = "none"
               /\ refreshing' = [refreshing EXCEPT ![t] =
                    [pc |-> "sent", token |-> RefreshToken(t), granted |-> NoToken]]
               /\ presented' = [presented EXCEPT ![t] = @ \cup {RefreshToken(t)}]
      <3>1. RefreshToken(t) \in Token /\ RefreshToken(t) # NoToken
        BY <1>0, <1>3, <2>2 DEF TypeOK, Renew, MayRenew, RefreshToken
      <3>2. Held(t) = RefreshToken(t)
        BY <2>2 DEF Held, RefreshToken
      <3>3. /\ refreshing'[t] = [pc |-> "sent", token |-> RefreshToken(t), granted |-> NoToken]
            /\ presented'[t] = presented[t] \cup {RefreshToken(t)}
            /\ \A u \in Tabs \ {t} : refreshing'[u] = refreshing[u] /\ presented'[u] = presented[u]
        BY <1>0, <2>2 DEF TypeOK
      <3>4. Held(t)' = Held(t) /\ \A u \in Tabs \ {t} : Held(u)' = Held(u)
        BY <1>3, <3>2, <3>3 DEF Held, Renew
      <3> QED BY <1>3, <3>1, <3>2, <3>3, <3>4 DEF Renew, Quiet, serverVars
    <2> QED BY <1>3, <2>1, <2>2 DEF Renew
  <1>4. ASSUME NEW s \in Slots, Unauthorized(t, s)
        PROVE  Quiet(t)
    BY <1>0, <1>4
       DEF Unauthorized, Quiet, Held, serverVars, historyVars, TypeOK, Pair, Cleared, Holding
  <1>5. CASE NotRenewed(t) /\ refreshing[t].pc = "answered"
    BY <1>0, <1>5
       DEF NotRenewed, Quiet, Held, serverVars, historyVars, TypeOK, Pair, Cleared, Holding,
           NoRefresh
  <1> QED BY <1>1, <1>2, <1>3, <1>4, <1>5

LEMMA LogoutQuiet ==
  ASSUME SafeInv, NEW t \in Tabs, Logout(t)
  PROVE  Quiet(t)
  <1>0. TypeOK
    BY DEF SafeInv
  <1> QED BY <1>0 DEF Logout, Quiet, Held, serverVars, historyVars, TypeOK, Pair, Cleared,
                      Holding

LEMMA RenewedQuiet ==
  ASSUME SafeInv, NEW t \in Tabs, Renewed(t)
  PROVE  Quiet(t)
  <1>0. TypeOK
    BY DEF SafeInv
  <1> QED BY <1>0 DEF Renewed, Quiet, Held, serverVars, historyVars, TypeOK, Pair, Holding,
                      NoRefresh

\* A step that changes no page and no request but what the server does with one
\* refresh token: it was the family's last, or the family is shared.
LEMMA RotateEffect ==
  ASSUME TypeOK, NEW token \in Token, Minted(token),
         token.family \in shared \/ token.n = minted[token.family],
         OnlySharedFamiliesAreRevoked,
         NEW granted \in Token \cup {NoToken}, Rotate(token, granted)
  PROVE  /\ revoked' \subseteq shared
         /\ \A f \in Families : minted[f] <= minted'[f]
         /\ \A f \in Families \ {token.family} : minted'[f] = minted[f]
         /\ granted # NoToken => /\ granted.family = token.family
                                /\ granted.n = minted'[token.family]
                                /\ granted.n > minted[token.family]
  <1>1. token.family \in Families /\ token.n \in 1..MaxTokens
    BY DEF Token
  <1>2. \A f \in Families : minted[f] \in 0..MaxTokens
    BY DEF TypeOK
  <1>3. \A f \in Families : minted[f] <= minted'[f]
    BY RotateType
  <1>4. CASE /\ token.n = minted[token.family]
             /\ granted = [family |-> token.family, n |-> token.n + 1]
             /\ minted' = [minted EXCEPT ![token.family] = token.n + 1]
             /\ UNCHANGED revoked
    <2>1. granted.family = token.family /\ granted.n = token.n + 1
      BY <1>4
    <2>2. minted'[token.family] = token.n + 1
      BY <1>1, <1>4 DEF TypeOK
    <2>3. \A f \in Families \ {token.family} : minted'[f] = minted[f]
      BY <1>4 DEF TypeOK
    <2> QED BY <1>1, <1>2, <1>3, <1>4, <2>1, <2>2, <2>3 DEF OnlySharedFamiliesAreRevoked
  <1>5. CASE granted = NoToken /\ UNCHANGED serverVars
    BY <1>2, <1>5 DEF serverVars, OnlySharedFamiliesAreRevoked
  <1>6. CASE /\ token.n # minted[token.family] /\ granted = NoToken
             /\ revoked' = revoked \cup {token.family} /\ UNCHANGED minted
    BY <1>2, <1>6 DEF OnlySharedFamiliesAreRevoked
  <1> QED BY <1>4, <1>5, <1>6 DEF Rotate

LEMMA AnswerRefreshStep ==
  ASSUME SafeInv, NEW t \in Tabs, AnswerRefresh(t)
  PROVE  Safe'
  <1> DEFINE token == refreshing[t].token
  <1>0. TypeOK /\ Safe
    BY DEF SafeInv
  <1>1. token \in Token /\ token # NoToken /\ Held(t) = token
    BY <1>0, NoTokenAssumption DEF AnswerRefresh, Safe, SentIsToken, Held
  <1> HIDE DEF token
  <1>2. PICK granted \in Token \cup {NoToken} :
          /\ Rotate(token, granted)
          /\ refreshing' = [refreshing EXCEPT ![t].pc = "answered", ![t].granted = granted]
    BY DEF AnswerRefresh, token
  <1>3. /\ refreshing'[t].pc = "answered" /\ refreshing'[t].granted = granted
        /\ \A u \in Tabs \ {t} : refreshing'[u] = refreshing[u]
    BY <1>0, <1>2 DEF TypeOK
  <1>4. UNCHANGED <<abandoned, storage, page, presented, shared>>
    BY DEF AnswerRefresh, historyVars
  <1>5. Held(t)' = granted /\ \A u \in Tabs \ {t} : Held(u)' = Held(u)
    BY <1>3, <1>4 DEF Held
  <1>6. token.family \in shared \/ token.n = minted[token.family]
    BY <1>0, <1>1 DEF Safe, HeldAlone
  <1>7. Minted(token) /\ OnlySharedFamiliesAreRevoked
    BY <1>0, <1>1 DEF Safe, Numbered
  <1>8. /\ revoked' \subseteq shared
        /\ \A f \in Families : minted[f] <= minted'[f]
        /\ \A f \in Families \ {token.family} : minted'[f] = minted[f]
        /\ granted # NoToken => /\ granted.family = token.family
                               /\ granted.n = minted'[token.family]
                               /\ granted.n > minted[token.family]
    BY <1>0, <1>1, <1>2, <1>6, <1>7, RotateEffect
  <1>9. /\ \A f \in Families : minted[f] \in Nat /\ minted'[f] \in Nat
        /\ token.family \in Families
    BY <1>0, <1>1, <1>2, RotateType DEF TypeOK, Token
  <1>10. /\ \A u \in Tabs : Held(u) # NoToken =>
               Held(u).family \in Families /\ Held(u).n \in Nat
         /\ \A x \in abandoned : x.family \in Families /\ x.n \in Nat
         /\ \A u \in Tabs : \A x \in presented[u] :
              x.family \in Families /\ x.n \in Nat /\ x # NoToken
         /\ storage.refresh # NoToken =>
              storage.refresh.family \in Families /\ storage.refresh.n \in Nat
    BY <1>0, HeldType, NoTokenAssumption DEF TypeOK, Token
  <1>11. SentIsToken'
    BY <1>0, <1>3 DEF Safe, SentIsToken
  <1>12. Numbered'
    BY <1>0, <1>4, <1>5, <1>8, <1>9, <1>10 DEF Safe, Numbered, Minted
  <1>13. Fresh'
    BY <1>0, <1>3, <1>4, <1>5, <1>8, <1>9, <1>10 DEF Safe, Numbered, Minted, Fresh
  <1>14. HeldAlone'
    <2>1. ASSUME NEW u \in Tabs, Held(u)' # NoToken, Held(u)'.family \notin shared
          PROVE  /\ Held(u)'.n = minted'[Held(u)'.family]
                 /\ \A v \in Tabs \ {u} : Held(v)' # NoToken => Held(v)'.family # Held(u)'.family
                 /\ \A x \in abandoned : x.family # Held(u)'.family
      <3>1. CASE u = t
        BY <1>0, <1>1, <1>5, <1>8, <2>1, <3>1 DEF Safe, HeldAlone
      <3>2. CASE u # t
        <4>1. Held(u)' = Held(u) /\ Held(u).family # token.family
          BY <1>0, <1>1, <1>5, <2>1, <3>2 DEF Safe, HeldAlone
        <4> QED BY <1>0, <1>1, <1>5, <1>8, <1>10, <2>1, <3>2, <4>1 DEF Safe, HeldAlone
      <3> QED BY <3>1, <3>2
    <2> QED BY <1>4, <2>1 DEF HeldAlone
  <1>15. AbandonedAlone'
    BY <1>0, <1>1, <1>4, <1>6, <1>8, <1>10 DEF Safe, AbandonedAlone, HeldAlone
  <1>16. OnlySharedFamiliesAreRevoked'
    BY <1>4, <1>8 DEF OnlySharedFamiliesAreRevoked
  <1> QED BY <1>11, <1>12, <1>13, <1>14, <1>15, <1>16 DEF Safe

LEMMA AnswerAbandonedStep ==
  ASSUME SafeInv, AnswerAbandoned
  PROVE  Safe'
  <1>0. TypeOK /\ Safe
    BY DEF SafeInv
  <1>1. PICK token \in abandoned, granted \in Token \cup {NoToken} :
          Rotate(token, granted) /\ abandoned' = abandoned \ {token}
    BY DEF AnswerAbandoned
  <1>2. token \in Token /\ token # NoToken
    BY <1>0, NoTokenAssumption DEF TypeOK
  <1>3. UNCHANGED <<storage, page, refreshing, presented, shared>>
    BY DEF AnswerAbandoned, historyVars
  <1>4. \A u \in Tabs : Held(u)' = Held(u)
    BY <1>3 DEF Held
  <1>5. /\ token.family \in shared \/ token.n = minted[token.family]
        /\ Minted(token) /\ OnlySharedFamiliesAreRevoked
    BY <1>0 DEF Safe, AbandonedAlone, Numbered
  <1>6. /\ revoked' \subseteq shared
        /\ \A f \in Families : minted[f] <= minted'[f]
        /\ \A f \in Families \ {token.family} : minted'[f] = minted[f]
    BY <1>0, <1>1, <1>2, <1>5, RotateEffect
  <1>7. /\ \A f \in Families : minted[f] \in Nat /\ minted'[f] \in Nat
        /\ token.family \in Families
    BY <1>0, <1>1, <1>2, RotateType DEF TypeOK, Token
  <1>8. /\ \A u \in Tabs : Held(u) # NoToken =>
              Held(u).family \in Families /\ Held(u).n \in Nat
        /\ \A x \in abandoned : x.family \in Families /\ x.n \in Nat
        /\ \A u \in Tabs : \A x \in presented[u] :
             x.family \in Families /\ x.n \in Nat /\ x # NoToken
        /\ storage.refresh # NoToken =>
             storage.refresh.family \in Families /\ storage.refresh.n \in Nat
    BY <1>0, HeldType, NoTokenAssumption DEF TypeOK, Token
  <1>9. SentIsToken' /\ Fresh'
    BY <1>0, <1>3, <1>4 DEF Safe, SentIsToken, Fresh
  <1>10. Numbered'
    BY <1>0, <1>1, <1>3, <1>4, <1>6, <1>7, <1>8 DEF Safe, Numbered, Minted
  <1>11. HeldAlone'
    BY <1>0, <1>1, <1>3, <1>4, <1>6, <1>8 DEF Safe, HeldAlone
  <1>12. AbandonedAlone'
    BY <1>0, <1>1, <1>3, <1>6, <1>8 DEF Safe, AbandonedAlone
  <1>13. OnlySharedFamiliesAreRevoked'
    BY <1>3, <1>6 DEF OnlySharedFamiliesAreRevoked
  <1> QED BY <1>9, <1>10, <1>11, <1>12, <1>13 DEF Safe

LEMMA LostRefreshStep ==
  ASSUME SafeInv, NEW t \in Tabs, NotRenewed(t), refreshing[t].pc = "sent"
  PROVE  Safe'
  <1>0. TypeOK /\ Safe
    BY DEF SafeInv
  <1>1. Held(t) \in Token /\ Held(t) # NoToken /\ abandoned' = abandoned \cup {Held(t)}
    BY <1>0, NoTokenAssumption DEF NotRenewed, Held, Safe, SentIsToken
  <1>2. /\ UNCHANGED <<minted, revoked, presented, shared>>
        /\ storage'.refresh = NoToken
        /\ refreshing'[t] = NoRefresh /\ page'[t].refresh = NoToken
        /\ \A u \in Tabs \ {t} : refreshing'[u] = refreshing[u] /\ page'[u] = page[u]
    BY <1>0 DEF NotRenewed, TypeOK, serverVars, historyVars, Pair, Cleared, Holding
  <1>3. Held(t)' = NoToken /\ \A u \in Tabs \ {t} : Held(u)' = Held(u)
    BY <1>2 DEF Held, NoRefresh
  <1>4. SentIsToken' /\ Fresh'
    BY <1>0, <1>2, <1>3 DEF Safe, SentIsToken, Fresh, NoRefresh
  <1>5. Numbered'
    BY <1>0, <1>1, <1>2, <1>3 DEF Safe, Numbered, Minted
  <1>6. HeldAlone'
    BY <1>0, <1>1, <1>2, <1>3 DEF Safe, HeldAlone
  <1>7. AbandonedAlone' /\ OnlySharedFamiliesAreRevoked'
    BY <1>0, <1>1, <1>2 DEF Safe, AbandonedAlone, HeldAlone, OnlySharedFamiliesAreRevoked
  <1> QED BY <1>4, <1>5, <1>6, <1>7 DEF Safe

LEMMA LoadStep ==
  ASSUME SafeInv, NEW t \in Tabs, Load(t)
  PROVE  Safe'
  <1>0. TypeOK /\ Safe
    BY DEF SafeInv
  <1>1. /\ UNCHANGED <<minted, revoked>>
        /\ storage'.refresh = storage.refresh
        /\ page'[t].refresh = storage.refresh /\ refreshing'[t] = NoRefresh
        /\ presented'[t] = {}
        /\ \A u \in Tabs \ {t} : /\ refreshing'[u] = refreshing[u] /\ page'[u] = page[u]
                                /\ presented'[u] = presented[u]
        /\ shared \subseteq shared'
        /\ storage.refresh # NoToken => storage.refresh.family \in shared'
    BY <1>0 DEF Load, TypeOK, serverVars
  <1>2. Held(t)' = storage.refresh /\ \A u \in Tabs \ {t} : Held(u)' = Held(u)
    BY <1>1 DEF Held, NoRefresh
  <1>3. \/ abandoned' = abandoned
        \/ abandoned' = abandoned \cup {Held(t)} /\ Held(t) # NoToken
    BY <1>0, NoTokenAssumption DEF Load, Held, Safe, SentIsToken
  <1>4. SentIsToken' /\ Fresh'
    BY <1>0, <1>1, <1>2 DEF Safe, SentIsToken, Fresh, NoRefresh
  <1>5. Numbered'
    BY <1>0, <1>1, <1>2, <1>3 DEF Safe, Numbered, Minted
  <1>6. HeldAlone'
    BY <1>0, <1>1, <1>2, <1>3 DEF Safe, HeldAlone
  <1>7. AbandonedAlone' /\ OnlySharedFamiliesAreRevoked'
    BY <1>0, <1>1, <1>3 DEF Safe, AbandonedAlone, HeldAlone, OnlySharedFamiliesAreRevoked
  <1> QED BY <1>4, <1>5, <1>6, <1>7 DEF Safe

LEMMA LoggedInStep ==
  ASSUME SafeInv, NEW t \in Tabs, NEW s \in Slots, LoggedIn(t, s)
  PROVE  Safe'
  <1>0. TypeOK /\ Safe
    BY DEF SafeInv
  <1>1. PICK f \in Families : LoggedIn(t, s)!2!(f)
    BY DEF LoggedIn
  <1> DEFINE token == [family |-> f, n |-> 1]
  <1>2. token \in Token /\ token # NoToken /\ token.family = f /\ token.n = 1
    BY FirstToken, NoTokenAssumption
  <1>3. /\ page' = [page EXCEPT ![t] = Holding(token, @.status)]
        /\ storage' = Pair(token) /\ minted[f] = 0
    BY <1>1
  <1> HIDE DEF token
  <1>4. UNCHANGED <<revoked, abandoned, refreshing, presented, shared>>
    BY DEF LoggedIn, historyVars
  <1>5. minted'[f] = 1 /\ \A g \in Families \ {f} : minted'[g] = minted[g]
    BY <1>0, <1>1 DEF TypeOK
  <1>6. /\ page'[t].refresh = token /\ storage'.refresh = token
        /\ \A u \in Tabs \ {t} : page'[u] = page[u]
    BY <1>0, <1>3 DEF TypeOK, Holding, Pair
  <1>7. /\ \A u \in Tabs \ {t} : Held(u)' = Held(u)
        /\ Held(t)' = IF refreshing[t].pc = "none" THEN token ELSE Held(t)
    BY <1>4, <1>6 DEF Held
  <1>8. /\ \A u \in Tabs : Held(u) # NoToken =>
              Held(u).family \in Families \ {f} /\ Held(u).n \in Nat
        /\ \A x \in abandoned : x.family \in Families \ {f} /\ x.n \in Nat
        /\ \A u \in Tabs : \A x \in presented[u] :
             x.family \in Families \ {f} /\ x.n \in Nat /\ x # NoToken
    <2>1. ASSUME NEW x \in Token, Minted(x)
          PROVE  x.family \in Families \ {f} /\ x.n \in Nat /\ x # NoToken
      BY <1>3, <2>1, NoTokenAssumption DEF Token, Minted
    <2>2. /\ \A u \in Tabs : Held(u) # NoToken => Held(u) \in Token /\ Minted(Held(u))
          /\ \A x \in abandoned : x \in Token /\ Minted(x)
          /\ \A u \in Tabs : \A x \in presented[u] : x \in Token /\ Minted(x)
      BY <1>0, HeldType DEF TypeOK, Safe, Numbered
    <2> QED BY <2>1, <2>2
  <1>9. SentIsToken'
    BY <1>0, <1>4 DEF Safe, SentIsToken
  <1>10. Numbered'
    BY <1>0, <1>2, <1>4, <1>5, <1>6, <1>7, <1>8 DEF Safe, Numbered, Minted
  <1>11. Fresh'
    BY <1>0, <1>2, <1>4, <1>7, <1>8 DEF Safe, Fresh
  <1>12. HeldAlone'
    BY <1>0, <1>2, <1>4, <1>5, <1>7, <1>8 DEF Safe, HeldAlone
  <1>13. AbandonedAlone' /\ OnlySharedFamiliesAreRevoked'
    BY <1>0, <1>4, <1>5, <1>8 DEF Safe, AbandonedAlone, OnlySharedFamiliesAreRevoked
  <1> QED BY <1>9, <1>10, <1>11, <1>12, <1>13 DEF Safe

LEMMA SafeStep ==
  ASSUME SafeInv, [Next]_vars
  PROVE  SafeInv'
  <1>0. TypeOK'
    BY TypeStep DEF SafeInv, Safe
  <1> SUFFICES Safe'
    BY <1>0 DEF SafeInv
  <1>1. CASE UNCHANGED vars
    <2>1. \A t \in Tabs : Held(t)' = Held(t)
      BY <1>1 DEF vars, Held
    <2>2. SentIsToken' /\ Numbered' /\ Fresh'
      BY <1>1, <2>1 DEF vars, SafeInv, Safe, SentIsToken, Numbered, Minted, Fresh
    <2>3. HeldAlone' /\ AbandonedAlone' /\ OnlySharedFamiliesAreRevoked'
      BY <1>1, <2>1
         DEF vars, SafeInv, Safe, HeldAlone, AbandonedAlone, OnlySharedFamiliesAreRevoked
    <2> QED BY <2>2, <2>3 DEF Safe
  <1>3. ASSUME NEW t \in Tabs, NEW s \in Slots,
               Fetch(t, s) \/ Submit(t, s, "login") \/ Submit(t, s, "register")
        PROVE  Safe'
    BY <1>3, QuietSteps, QuietStep DEF Fetch, Submit
  <1>4. ASSUME NEW t \in Tabs, NEW s \in Slots, CallStep(t, s)
        PROVE  Safe'
    BY <1>4, QuietSteps, QuietStep, LoggedInStep DEF CallStep
  <1>5. ASSUME NEW t \in Tabs, RefreshStep(t)
        PROVE  Safe'
    <2>1. CASE NotRenewed(t) /\ refreshing[t].pc = "sent"
      BY <2>1, LostRefreshStep
    <2>2. CASE NotRenewed(t) /\ refreshing[t].pc = "answered"
      BY <2>2, QuietSteps, QuietStep
    <2>3. CASE Renewed(t)
      <3>1. Quiet(t)
        BY <2>3, RenewedQuiet
      <3> QED BY <3>1, QuietStep
    <2>4. CASE AnswerRefresh(t)
      BY <2>4, AnswerRefreshStep
    <2> QED BY <1>5, <2>1, <2>2, <2>3, <2>4 DEF RefreshStep, NotRenewed
  <1>6. ASSUME NEW t \in Tabs, Logout(t) \/ Load(t)
        PROVE  Safe'
    <2>1. CASE Logout(t)
      <3>1. Quiet(t)
        BY <2>1, LogoutQuiet
      <3> QED BY <3>1, QuietStep
    <2> QED BY <1>6, <2>1, LoadStep
  <1>7. CASE AnswerAbandoned
    BY <1>7, AnswerAbandonedStep
  <1> QED BY <1>1, <1>3, <1>4, <1>5, <1>6, <1>7 DEF Next

-----------------------------------------------------------------------------
(* The results.                                                            *)

LEMMA Safety == Spec => []SafeInv
  BY SafeInit, SafeStep, PTL DEF Spec

\* Type correctness.
THEOREM SessionTypeCorrect == Spec => []TypeOK
  <1>1. SafeInv => TypeOK
    BY DEF SafeInv
  <1> QED BY <1>1, Safety, PTL

\* However its requests are answered and whatever other pages do, the session of
\* a login that no page found in localStorage is never revoked as replayed.
THEOREM KeptSessionsSurvive == Spec => []OnlySharedFamiliesAreRevoked
  <1>1. SafeInv => OnlySharedFamiliesAreRevoked
    BY DEF SafeInv, Safe
  <1> QED BY <1>1, Safety, PTL

\* A page never sends one refresh token twice.
THEOREM PagesNeverReplay == Spec => NeverReplays
  <1>1. ASSUME SafeInv, [Next]_vars, NEW t \in Tabs, refreshing'[t].pc = "sent",
               refreshing[t] # refreshing'[t]
        PROVE  refreshing'[t].token \notin presented[t]
    <2>0. TypeOK /\ Fresh
      BY <1>1 DEF SafeInv, Safe
    <2>1. PICK s \in Slots : Renew(t, s)
      <3>1. CASE UNCHANGED refreshing
        BY <1>1, <3>1
      <3>2. ASSUME NEW u \in Tabs, NEW s \in Slots, CallStep(u, s), ~UNCHANGED refreshing
            PROVE  u = t /\ Renew(t, s)
        BY <1>1, <2>0, <3>2
           DEF TypeOK, CallStep, LoggedIn, Answered, Failed, Unauthorized, Renew
      <3>3. ASSUME NEW u \in Tabs, AnswerRefresh(u) \/ Renewed(u) \/ NotRenewed(u) \/ Load(u)
            PROVE  FALSE
        <4>1. ASSUME NEW new, new.pc # "sent", refreshing' = [refreshing EXCEPT ![u] = new]
              PROVE  FALSE
          BY <1>1, <2>0, <4>1 DEF TypeOK
        <4>2. CASE Renewed(u)
          BY <4>1, <4>2 DEF Renewed, NoRefresh
        <4>3. CASE NotRenewed(u)
          BY <4>1, <4>3 DEF NotRenewed, NoRefresh
        <4>4. CASE Load(u)
          BY <4>1, <4>4 DEF Load, NoRefresh
        <4>5. CASE AnswerRefresh(u)
          <5>1. PICK granted \in Token \cup {NoToken} :
                  refreshing' = [refreshing EXCEPT ![u].pc = "answered", ![u].granted = granted]
            BY <4>5 DEF AnswerRefresh
          <5>2. /\ refreshing'[u].pc = "answered"
                /\ \A v \in Tabs \ {u} : refreshing'[v] = refreshing[v]
            BY <2>0, <5>1 DEF TypeOK
          <5> QED BY <1>1, <5>2
        <4> QED BY <3>3, <4>2, <4>3, <4>4, <4>5
      <3> QED BY <1>1, <3>1, <3>2, <3>3
              DEF Next, vars, Fetch, Submit, Start, RefreshStep, Logout, AnswerAbandoned
    <2>2. /\ refreshing[t].pc = "none"
          /\ refreshing'[t].token = page[t].refresh /\ page[t].refresh # NoToken
      BY <1>1, <2>0, <2>1 DEF TypeOK, Renew, MayRenew, RefreshToken
    <2> QED BY <2>0, <2>2 DEF Fresh, Held
  <1>2. SafeInv /\ [Next]_vars =>
          \A t \in Tabs : refreshing'[t].pc = "sent" /\ refreshing[t] # refreshing'[t]
            => refreshing'[t].token \notin presented[t]
    BY <1>1
  <1> QED BY <1>2, Safety, PTL DEF Spec, NeverReplays

\* After a logout a page gets a pair only from its own refresh sent before it, or
\* from a login: other answers, and what other tabs store, bring none.
THEOREM PairsComeFromPendingAnswers == Spec => OnlyPendingAnswersRestore
  <1> DEFINE NoneStarted(t) ==
               refreshing'[t].pc # "none" =>
                 refreshing[t].pc # "none" /\ refreshing'[t].token = refreshing[t].token
             StillNone(t) == page'[t].access = NoToken /\ page'[t].refresh = NoToken
             Allowed(t) ==
               NoneStarted(t) /\ (StillNone(t) \/ PairFromRefresh(t) \/ PairFromLogin(t))
  <1>1. ASSUME TypeOK, [Next]_vars, NEW t \in Tabs, Tokenless(t), ~Load(t)
        PROVE  Allowed(t)
    <2>1. CASE UNCHANGED <<page, refreshing>>
      BY <1>1, <2>1 DEF Tokenless
    <2>2. ASSUME NEW u \in Tabs, NEW s \in Slots, CallStep(u, s)
          PROVE  Allowed(t)
      <3>1. CASE LoggedIn(u, s)
        <4>1. PICK f \in Families :
                /\ minted[f] = 0
                /\ page' = [page EXCEPT ![u] = Holding([family |-> f, n |-> 1], @.status)]
          BY <3>1 DEF LoggedIn
        <4>2. NoneStarted(t)
          BY <3>1 DEF LoggedIn
        <4>3. u # t => StillNone(t)
          BY <1>1, <4>1 DEF TypeOK, Tokenless
        <4>4. u = t => PairFromLogin(t)
          <5>1. u = t => page'[t].refresh.family = f
            BY <1>1, <4>1 DEF TypeOK, Holding
          <5> QED BY <3>1, <4>1, <5>1 DEF LoggedIn, PairFromLogin
        <4> QED BY <4>2, <4>3, <4>4
      <3>2. CASE Answered(u, s) \/ Failed(u, s)
        BY <1>1, <3>2, StatusOnly DEF Tokenless
      <3>3. CASE Renew(u, s)
        BY <1>1, <3>3 DEF TypeOK, Tokenless, Renew, MayRenew, RefreshToken
      <3>4. CASE Unauthorized(u, s)
        BY <1>1, <3>4 DEF TypeOK, Tokenless, Unauthorized, Cleared, Holding
      <3> QED BY <2>2, <3>1, <3>2, <3>3, <3>4 DEF CallStep
    <2>3. ASSUME NEW u \in Tabs, RefreshStep(u)
          PROVE  Allowed(t)
      <3>1. CASE AnswerRefresh(u)
        BY <1>1, <3>1 DEF TypeOK, Tokenless, AnswerRefresh
      <3>2. CASE Renewed(u)
        BY <1>1, <3>2 DEF TypeOK, Tokenless, Renewed, Holding, NoRefresh, PairFromRefresh
      <3>3. CASE NotRenewed(u)
        BY <1>1, <3>3 DEF TypeOK, Tokenless, NotRenewed, Cleared, Holding, NoRefresh
      <3> QED BY <2>3, <3>1, <3>2, <3>3 DEF RefreshStep
    <2>4. ASSUME NEW u \in Tabs, Logout(u) \/ Load(u)
          PROVE  Allowed(t)
      <3>1. /\ \A v \in Tabs \ {u} : page'[v] = page[v] /\ refreshing'[v] = refreshing[v]
            /\ u = t => Logout(t)
        BY <1>1, <2>4 DEF TypeOK, Logout, Load
      <3> QED BY <1>1, <3>1 DEF TypeOK, Tokenless, Logout, Cleared, Holding
    <2> QED BY <1>1, <2>1, <2>2, <2>3, <2>4
            DEF Next, vars, Fetch, Submit, Start, AnswerAbandoned
  <1>2. TypeOK /\ [Next]_vars =>
          [\A t \in Tabs : Tokenless(t) /\ ~Load(t) =>
             /\ refreshing'[t].pc # "none" =>
                  refreshing[t].pc # "none" /\ refreshing'[t].token = refreshing[t].token
             /\ \/ page'[t].access = NoToken /\ page'[t].refresh = NoToken
                \/ PairFromRefresh(t)
                \/ PairFromLogin(t)]_vars
    BY <1>1
  <1> QED BY <1>2, SessionTypeCorrect, PTL DEF Spec, OnlyPendingAnswersRestore
=============================================================================
