-------------------------- MODULE StorefrontSession --------------------------
(***************************************************************************)
(* The auth session of the storefront: every browser tab keeps the token   *)
(* pair in memory, all tabs share one copy in localStorage, and a request  *)
(* that comes back 401 renews the pair once for all the requests of its    *)
(* page and is sent again.  A step is one callback of a page, which no     *)
(* other callback of that page interrupts.  Answers come in any order or   *)
(* not at all.  Of the server only POST /iam/refresh keeps state that      *)
(* matters here (what RefreshTokens promises, one step per request); any   *)
(* other request is answered at the step that takes its answer.  Time is   *)
(* not modelled: whether a token has expired is left open at each use.     *)
(***************************************************************************)
EXTENDS Naturals

CONSTANTS
  Tabs,
  Slots,      \* bound: requests a page has under way
  Families,   \* bound: logins that succeed
  MaxTokens,  \* bound: pairs minted in a family
  MaxActions, \* bound: requests a shopper starts and pages a shopper loads
  NoToken

\* The n-th pair of its family stands for its access and its refresh token.
Token == [family : Families, n : 1..MaxTokens]

ASSUME SlotsAssumption == Slots # {}
ASSUME BoundsAssumption == MaxTokens \in Nat \ {0} /\ MaxActions \in Nat
ASSUME NoTokenAssumption == NoToken \notin Token

VARIABLES
  minted,      \* minted[f]: pairs the server has minted in f
  revoked,     \* families revoked because a spent token came back
  abandoned,   \* refresh tokens in requests whose page no longer waits
  storage,     \* the pair in localStorage
  page,        \* page[t]: the pair in memory and the status that t shows
  refreshing,  \* refreshing[t]: the refresh that t's requests share
  call,        \* call[t][s]: a request of t
  presented,   \* presented[t]: refresh tokens the page in t has sent
  shared,      \* families whose refresh token a page found in localStorage
  actions

serverVars == <<minted, revoked>>
historyVars == <<presented, shared>>
vars == <<minted, revoked, abandoned, storage, page, refreshing, call,
          presented, shared, actions>>

Idle == [kind |-> "none", pc |-> "idle", sent |-> NoToken, retried |-> FALSE]

NoRefresh == [pc |-> "none", token |-> NoToken, granted |-> NoToken]

Pair(token) == [access |-> token, refresh |-> token]

Holding(token, status) == [access |-> token, refresh |-> token, status |-> status]

Cleared == Holding(NoToken, "anonymous")

Request(kind, token, retried) ==
  [kind |-> kind, pc |-> "sent", sent |-> token, retried |-> retried]

Waiting(kind, token) ==
  [kind |-> kind, pc |-> "waiting", sent |-> token, retried |-> FALSE]

Init ==
  /\ minted = [f \in Families |-> 0]
  /\ revoked = {} /\ abandoned = {} /\ shared = {}
  /\ actions = 0
  /\ storage = Pair(NoToken)
  /\ page = [t \in Tabs |-> Cleared]
  /\ refreshing = [t \in Tabs |-> NoRefresh]
  /\ call = [t \in Tabs |-> [s \in Slots |-> Idle]]
  /\ presented = [t \in Tabs |-> {}]

-----------------------------------------------------------------------------
(* What a shopper does. *)

Act == actions < MaxActions /\ actions' = actions + 1

\* A request starts, with the access token the page holds then.
Start(t, s, kind) ==
  /\ Act /\ call[t][s].pc = "idle"
  /\ call' = [call EXCEPT ![t][s] = Request(kind, page[t].access, FALSE)]
  /\ UNCHANGED <<serverVars, abandoned, storage, page, refreshing, historyVars>>

\* A page shows something or sends a form: any request but those below.
Fetch(t, s) == Start(t, s, "page")

\* The two forms' buttons are off only while the session is being restored.
Submit(t, s, kind) == page[t].status # "loading" /\ Start(t, s, kind)

Logout(t) ==
  /\ page[t].status = "authenticated"
  /\ page' = [page EXCEPT ![t] = Cleared]
  /\ storage' = Pair(NoToken)
  /\ UNCHANGED <<serverVars, abandoned, refreshing, call, historyVars, actions>>

\* A page loads in t, in the place of the one that was there. It drops an access
\* token that is past its exp, and without one it starts anonymous.
Load(t) ==
  \E access \in {storage.access, NoToken} :
    LET slot == CHOOSE s \in Slots : TRUE IN
    /\ Act
    /\ storage' = [storage EXCEPT !.access = access]
    /\ page' = [page EXCEPT ![t] =
                 [access |-> access, refresh |-> storage.refresh,
                  status |-> IF access = NoToken THEN "anonymous" ELSE "loading"]]
    /\ call' = [call EXCEPT ![t] = [s \in Slots |->
                 IF s = slot /\ access # NoToken
                 THEN Request("restore", access, FALSE) ELSE Idle]]
    /\ refreshing' = [refreshing EXCEPT ![t] = NoRefresh]
    /\ abandoned' = abandoned \cup (IF refreshing[t].pc = "sent"
                                    THEN {refreshing[t].token} ELSE {})
    /\ presented' = [presented EXCEPT ![t] = {}]
    /\ shared' = shared \cup (IF storage.refresh = NoToken
                              THEN {} ELSE {storage.refresh.family})
    /\ UNCHANGED serverVars

-----------------------------------------------------------------------------
(* POST /iam/refresh on the server. *)

\* It mints the successor of token, or refuses a token that has expired, or
\* revokes the family of one that was spent before.
Rotate(token, granted) ==
  LET f == token.family IN
  \/ /\ token.n = minted[f] /\ f \notin revoked /\ token.n < MaxTokens
     /\ granted = [family |-> f, n |-> token.n + 1]
     /\ minted' = [minted EXCEPT ![f] = token.n + 1]
     /\ UNCHANGED revoked
  \/ /\ token.n = minted[f] /\ granted = NoToken
     /\ UNCHANGED serverVars
  \/ /\ token.n # minted[f] /\ granted = NoToken
     /\ revoked' = revoked \cup {f}
     /\ UNCHANGED minted

AnswerRefresh(t) ==
  /\ refreshing[t].pc = "sent"
  /\ \E granted \in Token \cup {NoToken} :
       /\ Rotate(refreshing[t].token, granted)
       /\ refreshing' = [refreshing EXCEPT ![t].pc = "answered", ![t].granted = granted]
  /\ UNCHANGED <<abandoned, storage, page, call, historyVars, actions>>

\* A refresh nobody waits for reaches the server after all.
AnswerAbandoned ==
  /\ \E token \in abandoned, granted \in Token \cup {NoToken} :
       /\ Rotate(token, granted)
       /\ abandoned' = abandoned \ {token}
  /\ UNCHANGED <<storage, page, refreshing, call, historyVars, actions>>

-----------------------------------------------------------------------------
(* What a page does with an answer. *)

\* A login is answered with the pair of a new family, which the page stores
\* before it asks for the user.
LoggedIn(t, s) ==
  /\ call[t][s].pc = "sent" /\ call[t][s].kind = "login"
  /\ \E f \in Families :
       LET token == [family |-> f, n |-> 1] IN
       /\ minted[f] = 0
       /\ minted' = [minted EXCEPT ![f] = 1]
       /\ page' = [page EXCEPT ![t] = Holding(token, @.status)]
       /\ storage' = Pair(token)
       /\ call' = [call EXCEPT ![t][s] = Request("welcome", token, FALSE)]
  /\ UNCHANGED <<revoked, abandoned, refreshing, historyVars, actions>>

\* Any other 2xx: registering goes on to a login, the user makes the session.
Answered(t, s) ==
  /\ call[t][s].pc = "sent"
  /\ \/ /\ call[t][s].kind = "register"
        /\ call' = [call EXCEPT ![t][s] = Request("login", page[t].access, FALSE)]
        /\ UNCHANGED page
     \/ /\ call[t][s].kind \in {"restore", "welcome"} /\ call[t][s].sent # NoToken
        /\ page' = [page EXCEPT ![t].status = "authenticated"]
        /\ call' = [call EXCEPT ![t][s] = Idle]
     \/ /\ call[t][s].kind = "page"
        /\ call' = [call EXCEPT ![t][s] = Idle]
        /\ UNCHANGED page
  /\ UNCHANGED <<serverVars, abandoned, storage, refreshing, historyVars, actions>>

\* No answer, or a status that is neither 2xx nor 401.
Failed(t, s) ==
  /\ call[t][s].pc = "sent"
  /\ page' = [page EXCEPT ![t].status = IF call[t][s].kind = "page" THEN @ ELSE "anonymous"]
  /\ call' = [call EXCEPT ![t][s] = Idle]
  /\ UNCHANGED <<serverVars, abandoned, storage, refreshing, historyVars, actions>>

\* 401: a wrong password, or an access token that is missing or has expired.
Refused(t, s) == call[t][s].pc = "sent" /\ call[t][s].kind # "register"

\* Mutants: the token is read from localStorage, or sent even if there is none.
StoredRefreshToken(t) == storage.refresh

\* The token a refresh of t sends: the one the page holds in memory.
RefreshToken(t) == page[t].refresh

\* A request may wait for a renewal once, and only if it carried a token.
MayRenew(t, s) ==
  /\ ~call[t][s].retried /\ call[t][s].sent # NoToken
  /\ refreshing[t].pc # "none" \/ RefreshToken(t) # NoToken

\* A 401 joins the refresh under way, or starts one.
Renew(t, s) ==
  /\ Refused(t, s) /\ MayRenew(t, s)
  /\ call' = [call EXCEPT ![t][s] = Waiting(@.kind, @.sent)]
  /\ \/ /\ refreshing[t].pc = "none"
        /\ refreshing' = [refreshing EXCEPT ![t] =
             [pc |-> "sent", token |-> RefreshToken(t), granted |-> NoToken]]
        /\ presented' = [presented EXCEPT ![t] = @ \cup {RefreshToken(t)}]
     \/ /\ refreshing[t].pc # "none"
        /\ UNCHANGED <<refreshing, presented>>
  /\ UNCHANGED <<serverVars, abandoned, storage, page, shared, actions>>

\* onUnauthorized: a 401 with nothing left to try ends the session.
Unauthorized(t, s) ==
  /\ Refused(t, s) /\ ~MayRenew(t, s)
  /\ page' = [page EXCEPT ![t] = Cleared]
  /\ storage' = Pair(NoToken)
  /\ call' = [call EXCEPT ![t][s] = Idle]
  /\ UNCHANGED <<serverVars, abandoned, refreshing, historyVars, actions>>

\* Mutant: only the request that started the refresh would be sent again.
RenewedForOne(t) ==
  LET token == refreshing[t].granted IN
  /\ refreshing[t].pc = "answered" /\ token # NoToken
  /\ page' = [page EXCEPT ![t] = Holding(token, @.status)]
  /\ storage' = Pair(token)
  /\ refreshing' = [refreshing EXCEPT ![t] = NoRefresh]
  /\ \E s \in Slots : call[t][s].pc = "waiting" /\ call' = [call EXCEPT ![t][s] =
                       Request(@.kind, token, TRUE)]
  /\ UNCHANGED <<serverVars, abandoned, historyVars, actions>>

\* The new pair is stored and every request that waited is sent again with it.
Renewed(t) ==
  LET token == refreshing[t].granted IN
  /\ refreshing[t].pc = "answered" /\ token # NoToken
  /\ page' = [page EXCEPT ![t] = Holding(token, @.status)]
  /\ storage' = Pair(token)
  /\ refreshing' = [refreshing EXCEPT ![t] = NoRefresh]
  /\ call' = [call EXCEPT ![t] = [s \in Slots |->
               IF @[s].pc = "waiting" THEN Request(@[s].kind, token, TRUE) ELSE @[s]]]
  /\ UNCHANGED <<serverVars, abandoned, historyVars, actions>>

\* Mutant: the pair survives a refresh that was not answered.
KeptPair(t) ==
  /\ refreshing[t].pc \in {"sent", "answered"}
  /\ refreshing' = [refreshing EXCEPT ![t] = NoRefresh]
  /\ call' = [call EXCEPT ![t] = [s \in Slots |->
               IF @[s].pc = "waiting" THEN Idle ELSE @[s]]]
  /\ UNCHANGED <<serverVars, abandoned, storage, page, historyVars, actions>>

\* The refresh is refused, or its answer never comes: the requests that waited
\* for it end the session.
NotRenewed(t) ==
  /\ \/ /\ refreshing[t].pc = "answered" /\ UNCHANGED abandoned
     \/ /\ refreshing[t].pc = "sent"
        /\ abandoned' = abandoned \cup {refreshing[t].token}
  /\ page' = [page EXCEPT ![t] = Cleared]
  /\ storage' = Pair(NoToken)
  /\ refreshing' = [refreshing EXCEPT ![t] = NoRefresh]
  /\ call' = [call EXCEPT ![t] = [s \in Slots |->
               IF @[s].pc = "waiting" THEN Idle ELSE @[s]]]
  /\ UNCHANGED <<serverVars, historyVars, actions>>

-----------------------------------------------------------------------------
CallStep(t, s) ==
  \/ LoggedIn(t, s) \/ Answered(t, s) \/ Failed(t, s)
  \/ Renew(t, s) \/ Unauthorized(t, s)

RefreshStep(t) == AnswerRefresh(t) \/ Renewed(t) \/ NotRenewed(t)

Next ==
  \/ \E t \in Tabs, s \in Slots :
       \/ Fetch(t, s) \/ Submit(t, s, "login") \/ Submit(t, s, "register")
       \/ CallStep(t, s)
  \/ \E t \in Tabs : Logout(t) \/ Load(t) \/ RefreshStep(t)
  \/ AnswerAbandoned

\* A browser settles every fetch, with an answer or with an error; a shopper
\* need not do anything.
Fairness ==
  \A t \in Tabs : WF_vars(RefreshStep(t)) /\ \A s \in Slots : WF_vars(CallStep(t, s))

Spec == Init /\ [][Next]_vars /\ Fairness

-----------------------------------------------------------------------------
Calls == [kind : {"none", "page", "login", "register", "restore", "welcome"},
          pc : {"idle", "sent", "waiting"},
          sent : Token \cup {NoToken}, retried : BOOLEAN]

\* The values the variables take.
TypeOK ==
  /\ minted \in [Families -> 0..MaxTokens]
  /\ revoked \subseteq Families /\ shared \subseteq Families
  /\ abandoned \subseteq Token
  /\ storage \in [access : Token \cup {NoToken}, refresh : Token \cup {NoToken}]
  /\ page \in [Tabs -> [access : Token \cup {NoToken}, refresh : Token \cup {NoToken},
                        status : {"loading", "authenticated", "anonymous"}]]
  /\ refreshing \in [Tabs -> [pc : {"none", "sent", "answered"},
                              token : Token \cup {NoToken},
                              granted : Token \cup {NoToken}]]
  /\ call \in [Tabs -> [Slots -> Calls]]
  /\ presented \in [Tabs -> SUBSET Token]
  /\ actions \in 0..MaxActions

\* However its requests are answered, a page never sends one refresh token
\* twice: to the server that would be a replay, which revokes the family
\* (createSingleflight, runRefresh).
NeverReplays ==
  [][\A t \in Tabs : refreshing'[t].pc = "sent" /\ refreshing[t] # refreshing'[t]
       => refreshing'[t].token \notin presented[t]]_vars

\* A shopper who keeps to one page, never reloaded, never loses the session to
\* the server's defence against replays: a family is revoked only if a page
\* found its refresh token in localStorage.
OnlySharedFamiliesAreRevoked == revoked \subseteq shared

\* What a logout, or a 401 with nothing left to try, leaves of a page.
Tokenless(t) == page[t].access = NoToken /\ page[t].refresh = NoToken

\* The answer a page without tokens takes a pair from: that of the refresh which
\* was under way, or that of a login, whose family is a new one.
PairFromRefresh(t) ==
  refreshing[t].pc = "answered" /\ page'[t].refresh = refreshing[t].granted

PairFromLogin(t) ==
  \E s \in Slots : /\ call[t][s].pc = "sent" /\ call[t][s].kind = "login"
                   /\ minted[page'[t].refresh.family] = 0

\* Of the answers that arrive after a logout only two bring a pair: that of the
\* page's own refresh sent before it and that of a login. Other 401s never do, not
\* even with the pair that another tab has stored meanwhile: a page without tokens
\* starts no refresh ("token-less 401s must not mint a session").
OnlyPendingAnswersRestore ==
  [][\A t \in Tabs : Tokenless(t) /\ ~Load(t) =>
       /\ refreshing'[t].pc # "none" =>
            refreshing[t].pc # "none" /\ refreshing'[t].token = refreshing[t].token
       /\ \/ page'[t].access = NoToken /\ page'[t].refresh = NoToken
          \/ PairFromRefresh(t)
          \/ PairFromLogin(t)]_vars

\* Every request of a page ends, also one that waits for a refresh another
\* request started: nothing is retried for ever or left waiting.
EveryCallEnds ==
  \A t \in Tabs, s \in Slots : call[t][s].pc # "idle" ~> call[t][s].pc = "idle"
=============================================================================
