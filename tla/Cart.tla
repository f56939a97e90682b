-------------------------------- MODULE Cart ---------------------------------
(***************************************************************************)
(* One shopper's cart under concurrent requests, and the checkouts that    *)
(* empty it.  Cart routes serialize on the cart row, which the first of    *)
(* them creates; a checkout reads and deletes the lines without that lock. *)
(* One step per SQL statement that another transaction can tell apart, at  *)
(* READ COMMITTED.  The operator changes the catalog meanwhile.            *)
(***************************************************************************)
EXTENDS Naturals, FiniteSets

CONSTANTS
  Requests,      \* GET, POST, PATCH and DELETE requests of the shopper
  Checkouts,     \* cart-backed checkouts of the shopper
  Products,      \* product ids, numbered in their order
  Currencies,
  MaxQuantity,   \* MAX_QUANTITY, 10000 in the code
  MaxLines,      \* MAX_LINES, 100 in the code
  MaxAttempts,   \* _MAX_CREATE_ATTEMPTS
  MaxUpdates,    \* bound: catalog updates
  MaxCrashes,    \* bound: requests that die before their commit
  NoOne,
  NoCall

Transactions == Requests \cup Checkouts

Quantities == 0..MaxQuantity

Call ==
  [op : {"get"}] \cup [op : {"remove"}, p : Products]
    \cup [op : {"add", "put"}, p : Products, n : 1..MaxQuantity]

ASSUME LimitsAssumption ==
  /\ MaxQuantity \in Nat \ {0} /\ MaxLines \in Nat \ {0} /\ MaxAttempts \in Nat \ {0}
  /\ MaxUpdates \in Nat /\ MaxCrashes \in Nat
ASSUME CurrenciesAssumption == Currencies # {}
ASSUME NamesAssumption ==
  Requests \cap Checkouts = {} /\ NoOne \notin Requests /\ NoCall \notin Call

ASSUME ProductsAssumption == Products \subseteq Nat /\ IsFiniteSet(Products)

VARIABLES
  product,    \* product[p]: [currency, active] in the catalog
  cart,       \* TRUE when the carts row is committed
  holder,     \* the request that locked the carts row, or inserted it
  lines,      \* lines[p]: committed quantity of p, 0 when there is no row
  pc,         \* pc[t]: how far transaction t got
  call,       \* call[r]: what request r asks for
  price,      \* price[r]: the currency r read for the product it adds
  seen,       \* seen[r]: quantity of the line when r read it
  found,      \* found[r]: quantity of the line when r looked for it to save it
  writes,     \* writes[t]: products whose rows t changed and holds
  attempts,   \* attempts[r]: rounds of get_or_create
  updates,
  crashes

catalogVars == <<product, updates>>
vars == <<product, cart, holder, lines, pc, call, price, seen, found, writes,
          attempts, updates, crashes>>

Sequential == INSTANCE SequentialCart

Held(f) == {p \in Products : f[p] > 0}

Init ==
  /\ product \in [Products -> [currency : Currencies, active : {TRUE}]]
  /\ cart \in BOOLEAN     \* a shopper with no cart yet, or with an empty one
  /\ holder = NoOne
  /\ lines = [p \in Products |-> 0]
  /\ pc = [t \in Transactions |-> "idle"]
  /\ call = [r \in Requests |-> NoCall]
  /\ price = [r \in Requests |-> CHOOSE c \in Currencies : TRUE]
  /\ seen = [r \in Requests |-> 0]
  /\ found = [r \in Requests |-> 0]
  /\ writes = [t \in Transactions |-> {}]
  /\ attempts = [r \in Requests |-> 0]
  /\ updates = 0
  /\ crashes = 0

\* PATCH /catalog/{id}: another currency, or shown or hidden.
UpdateProduct(p) ==
  /\ updates < MaxUpdates
  /\ \E c \in Currencies, b \in BOOLEAN :
       product' = [product EXCEPT ![p] = [currency |-> c, active |-> b]]
  /\ updates' = updates + 1
  /\ UNCHANGED <<cart, holder, lines, pc, call, price, seen, found, writes, attempts,
                 crashes>>

Goto(t, stage) == pc' = [pc EXCEPT ![t] = stage]

\* The end of a transaction, without its writes.
RollBack(t) ==
  /\ Goto(t, "failed")
  /\ holder' = IF holder = t THEN NoOne ELSE holder
  /\ writes' = [writes EXCEPT ![t] = {}]
  /\ UNCHANGED <<cart, lines, call, price, seen, found, attempts>>

\* A request arrives; add and put need an active product, 404 otherwise.
Start(r) ==
  /\ pc[r] = "idle"
  /\ \E c \in Call :
       /\ call' = [call EXCEPT ![r] = c]
       /\ IF c.op \in {"add", "put"}
          THEN /\ Goto(r, IF product[c.p].active THEN "cart" ELSE "failed")
               /\ price' = [price EXCEPT ![r] = product[c.p].currency]
          ELSE Goto(r, "cart") /\ UNCHANGED price
  /\ UNCHANGED <<catalogVars, cart, holder, lines, seen, found, writes, attempts, crashes>>

\* Where a request goes once it has its cart row.
AfterCart(r) == CASE call[r].op = "get" -> "committing"
                  [] call[r].op = "remove" -> "looking"
                  [] OTHER -> "reading"

\* Mutant of LockCart: the row is read without FOR UPDATE.
ReadCart(r) ==
  /\ pc[r] = "cart"
  /\ Goto(r, IF cart THEN AfterCart(r) ELSE "inserting")
  /\ attempts' = [attempts EXCEPT ![r] = @ + 1]
  /\ UNCHANGED <<catalogVars, cart, holder, lines, call, price, seen, found, writes,
                 crashes>>

\* get_or_create, one round: lock the committed row, or see none ...
LockCart(r) ==
  /\ pc[r] = "cart"
  /\ IF attempts[r] = MaxAttempts
     THEN RollBack(r)
     ELSE /\ cart => holder = NoOne
          /\ holder' = IF cart THEN r ELSE holder
          /\ Goto(r, IF cart THEN AfterCart(r) ELSE "inserting")
          /\ attempts' = [attempts EXCEPT ![r] = @ + 1]
          /\ UNCHANGED <<cart, lines, call, price, seen, found, writes>>
  /\ UNCHANGED <<catalogVars, crashes>>

\* Mutant of InsertCart: the race is lost as soon as someone is inserting.
InsertOrLose(r) ==
  /\ pc[r] = "inserting"
  /\ \/ /\ ~cart /\ holder = NoOne
        /\ holder' = r
        /\ Goto(r, AfterCart(r))
     \/ /\ cart \/ holder # NoOne
        /\ Goto(r, "cart")
        /\ UNCHANGED holder
  /\ UNCHANGED <<catalogVars, cart, lines, call, price, seen, found, writes, attempts,
                 crashes>>

\* ... and insert it: wait for an uncommitted one, lose to a committed one.
InsertCart(r) ==
  /\ pc[r] = "inserting"
  /\ \/ /\ ~cart /\ holder = NoOne
        /\ holder' = r
        /\ Goto(r, AfterCart(r))
     \/ /\ cart
        /\ Goto(r, "cart")
        /\ UNCHANGED holder
  /\ UNCHANGED <<catalogVars, cart, lines, call, price, seen, found, writes, attempts,
                 crashes>>

\* Products whose lines the cart view shows.
Visible == {p \in Held(lines) : product[p].active}

\* The first of them pins the currency of the cart.
CurrencyFits(r) ==
  \A p \in Visible :
    (\A q \in Visible : p <= q) => product[p].currency = price[r]

\* 409 or 404 otherwise.
Accepts(r) ==
  LET p == call[r].p
  IN \/ call[r].op = "put" /\ lines[p] > 0
     \/ /\ call[r].op = "add"
        /\ CurrencyFits(r)
        /\ lines[p] + call[r].n <= MaxQuantity
        /\ lines[p] > 0 \/ Cardinality(Held(lines)) < MaxLines

\* list_lines or get_line, the catalog, and the checks on them.
Read(r) ==
  /\ pc[r] = "reading"
  /\ IF Accepts(r)
     THEN /\ seen' = [seen EXCEPT ![r] = lines[call[r].p]]
          /\ Goto(r, "looking")
          /\ UNCHANGED <<cart, holder, lines, call, price, found, writes, attempts>>
     ELSE RollBack(r)
  /\ UNCHANGED <<catalogVars, crashes>>

\* save_line and delete_line look for the row.
Look(r) ==
  /\ pc[r] = "looking"
  /\ found' = [found EXCEPT ![r] = lines[call[r].p]]
  /\ Goto(r, "saving")
  /\ UNCHANGED <<catalogVars, cart, holder, lines, call, price, seen, writes, attempts,
                 crashes>>

\* The quantity a request leaves its line with.
Target(r) == CASE call[r].op = "add" -> seen[r] + call[r].n
               [] call[r].op = "put" -> call[r].n
               [] OTHER -> 0

Unlocked(t, P) == \A u \in Transactions \ {t} : writes[u] \cap P = {}

\* The flush: nothing when the row is as wanted, an INSERT when there was none, an
\* UPDATE or a DELETE otherwise. Those wait for a checkout that deletes the row, and
\* an UPDATE whose row is gone fails (StaleDataError, 500).
Save(r) ==
  LET p == call[r].p
  IN /\ pc[r] = "saving"
     /\ \/ /\ found[r] = Target(r)
           /\ Goto(r, "committing")
           /\ UNCHANGED <<holder, writes, cart, lines, call, price, seen, found, attempts>>
        \/ /\ found[r] # Target(r)
           /\ Unlocked(r, {p})
           /\ IF found[r] > 0 /\ lines[p] = 0 /\ Target(r) > 0
              THEN RollBack(r)
              ELSE /\ writes' = [writes EXCEPT ![r] = {p}]
                   /\ Goto(r, "committing")
                   /\ UNCHANGED <<holder, cart, lines, call, price, seen, found, attempts>>
     /\ UNCHANGED <<catalogVars, crashes>>

\* Mutant of Commit: the transaction is left open after the answer.
CommitLate(r) ==
  /\ pc[r] = "committing"
  /\ Goto(r, "done")
  /\ UNCHANGED <<catalogVars, cart, holder, lines, call, price, seen, found, writes,
                 attempts, crashes>>

Commit(r) ==
  /\ pc[r] = "committing"
  /\ lines' = [p \in Products |-> IF p \in writes[r] THEN Target(r) ELSE lines[p]]
  /\ cart' = TRUE
  /\ holder' = NoOne
  /\ writes' = [writes EXCEPT ![r] = {}]
  /\ Goto(r, "done")
  /\ UNCHANGED <<catalogVars, call, price, seen, found, attempts, crashes>>

\* POST /checkout with a cart_id reads the lines and the catalog; 404 and 422 when
\* there is nothing to order or the currencies are mixed.
StartCheckout(c) ==
  /\ pc[c] = "idle"
  /\ cart
  /\ Goto(c, IF Visible # {} /\ Cardinality({product[p].currency : p \in Visible}) = 1
             THEN "ordering" ELSE "failed")
  /\ UNCHANGED <<catalogVars, cart, holder, lines, call, price, seen, found, writes,
                 attempts, crashes>>

\* Payment and stock allow the order: delete every line that is there by now, hidden
\* ones too ...
ClearLines(c) ==
  /\ pc[c] = "ordering"
  /\ Unlocked(c, Held(lines))
  /\ writes' = [writes EXCEPT ![c] = Held(lines)]
  /\ Goto(c, "clearing")
  /\ UNCHANGED <<catalogVars, cart, holder, lines, call, price, seen, found, attempts,
                 crashes>>

\* ... and commit them with the order.
CommitCheckout(c) ==
  /\ pc[c] = "clearing"
  /\ lines' = [p \in Products |-> IF p \in writes[c] THEN 0 ELSE lines[p]]
  /\ writes' = [writes EXCEPT ![c] = {}]
  /\ Goto(c, "done")
  /\ UNCHANGED <<catalogVars, cart, holder, call, price, seen, found, attempts, crashes>>

\* They do not: the order is cancelled and the cart left as it is.
CancelCheckout(c) ==
  /\ pc[c] = "ordering"
  /\ Goto(c, "done")
  /\ UNCHANGED <<catalogVars, cart, holder, lines, call, price, seen, found, writes,
                 attempts, crashes>>

Ended == {"done", "failed"}

\* A request dies before its commit.
Crash(t) ==
  /\ pc[t] \notin Ended \cup {"idle"}
  /\ crashes < MaxCrashes
  /\ crashes' = crashes + 1
  /\ RollBack(t)
  /\ UNCHANGED catalogVars

Serve(r) == \/ LockCart(r) \/ InsertCart(r)
            \/ Read(r) \/ Look(r) \/ Save(r) \/ Commit(r)

Checkout(c) == ClearLines(c) \/ CommitCheckout(c) \/ CancelCheckout(c)

Next ==
  \/ \E p \in Products : UpdateProduct(p)
  \/ \E r \in Requests : Start(r) \/ Serve(r)
  \/ \E c \in Checkouts : StartCheckout(c) \/ Checkout(c)
  \/ \E t \in Transactions : Crash(t)

Spec == Init /\ [][Next]_vars

\* The server runs what it has started.
FairSpec ==
  /\ Spec
  /\ \A r \in Requests : WF_vars(Serve(r))
  /\ \A c \in Checkouts : WF_vars(Checkout(c))

-----------------------------------------------------------------------------
Stages == Ended \cup {"idle", "cart", "inserting", "reading", "looking", "saving",
                      "committing", "ordering", "clearing"}

\* Every variable stays in its type.
TypeOK ==
  /\ product \in [Products -> [currency : Currencies, active : BOOLEAN]]
  /\ cart \in BOOLEAN
  /\ holder \in Requests \cup {NoOne}
  /\ lines \in [Products -> Quantities]
  /\ pc \in [Transactions -> Stages]
  /\ call \in [Requests -> Call \cup {NoCall}]
  /\ price \in [Requests -> Currencies]
  /\ seen \in [Requests -> Quantities]
  /\ found \in [Requests -> Quantities]
  /\ writes \in [Transactions -> SUBSET Products]
  /\ attempts \in [Requests -> 0..MaxAttempts]
  /\ updates \in 0..MaxUpdates
  /\ crashes \in 0..MaxCrashes

\* The cart never holds more lines than MAX_LINES, although the number is checked
\* before the line is inserted.
LinesWithinLimit == Cardinality(Held(lines)) <= MaxLines

\* "A loser rolls back its poisoned transaction and re-reads": two rounds are always
\* enough, so no shopper is answered 500 for creating a cart twice at once.
CreationNeverExhausted == \A r \in Requests : attempts[r] <= 2

\* Until a checkout ends, which may have deleted lines.
NoneOrdered == \A c \in Checkouts : pc[c] # "done"

\* "Line increments serialize on the cart row": until a checkout ends, each commit
\* does to the cart what its request says, as if requests ran one at a time.
EditsAreSequential ==
  Sequential!Init /\ [][NoneOrdered' => [Sequential!Next]_lines]_vars

\* What the API says the call of r does to the cart.
AsAsked(r) ==
  CASE call[r].op = "add" -> Sequential!Add(call[r].p, call[r].n)
    [] call[r].op = "put" -> Sequential!Put(call[r].p, call[r].n)
    [] call[r].op = "remove" -> Sequential!Remove(call[r].p)
    [] OTHER -> lines' = lines

\* No increment is lost: until a checkout ends, a request that is answered 2xx has
\* done all of what it says to the cart as it was at its commit.
CommitsAsAsked ==
  [][\A r \in Requests :
       NoneOrdered /\ pc[r] # "done" /\ pc'[r] = "done" => AsAsked(r)]_vars

\* No request waits for ever for the cart row, an insertion race or a line.
EveryRequestEnds ==
  \A t \in Transactions : pc[t] # "idle" ~> pc[t] \in Ended
=============================================================================
