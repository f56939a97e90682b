------------------------------- MODULE Catalog --------------------------------
(***************************************************************************)
(* The catalog and its stock under concurrent requests of operators: list,  *)
(* create, PATCH and adjust.  One step per SQL statement that another        *)
(* transaction can tell apart, at READ COMMITTED: a product is saved without *)
(* a lock from what two reads returned, stock is adjusted under its row lock.*)
(***************************************************************************)
EXTENDS Integers

CONSTANTS
  Requests,      \* numbered in the order they are sent
  Products,
  Fields,        \* columns of catalog_products an operator edits
  Nullable,      \* those that may be null: the description
  Values,        \* what a column may hold
  Deltas,        \* signed stock deltas
  MaxInteger,    \* what the integer column of inventory holds, 2^31 - 1
  MaxFaults,     \* bound: requests that die before their commit, answers that are lost
  Null, NoRow, NoStock, NoCall, NoOne

Rows == {row \in [Fields -> Values \cup {Null}] :
           \A f \in Fields : row[f] = Null => f \in Nullable}

Quantities == 0..MaxInteger

\* A PATCH carries the fields its sender asks to change.
Changes == UNION {[F -> Values \cup {Null}] : F \in SUBSET Fields}

Call == [op : {"list"}]
          \cup [op : {"create"}, p : Products, row : Rows]
          \cup [op : {"patch"}, p : Products, changes : Changes]
          \cup [op : {"adjust"}, p : Products, delta : Deltas]

ASSUME RequestsAssumption == Requests \subseteq Nat
ASSUME ColumnsAssumption ==
  /\ Nullable \subseteq Fields /\ Null \notin Values /\ Deltas \subseteq Int
  /\ MaxInteger \in Nat /\ MaxFaults \in Nat
ASSUME NullsAssumption == 
  /\ NoRow \notin Rows /\ NoStock \notin Int
  /\ NoCall \notin Call /\ NoOne \notin Requests

VARIABLES
  product,    \* product[p]: its committed row
  stock,      \* stock[p]: committed available quantity, or no inventory row
  inserter,   \* inserter[p]: the request that inserted p and has not committed
  locker,     \* locker[p]: the request that locked the inventory row of p
  call,       \* call[r]: what request r asks for
  pc,         \* pc[r]: how far r got
  read,       \* read[r]: products as r has read them, or saves and answers them
  dirty,      \* dirty[r]: columns that r writes
  units,      \* units[r]: quantities r has read, and its answer
  faults

catalogVars == <<product, stock, inserter, locker, call, pc, read, dirty, units, faults>>

CatalogInit ==
  /\ product \in [Products -> Rows \cup {NoRow}]
  /\ stock \in [Products -> Quantities \cup {NoStock}]
  /\ \A p \in Products : product[p] # NoRow => stock[p] # NoStock
  /\ inserter = [p \in Products |-> NoOne]
  /\ locker = [p \in Products |-> NoOne]
  /\ call = [r \in Requests |-> NoCall]
  /\ pc = [r \in Requests |-> "idle"]
  /\ read = [r \in Requests |-> [p \in Products |-> NoRow]]
  /\ dirty = [r \in Requests |-> {}]
  /\ units = [r \in Requests |-> [p \in Products |-> NoStock]]
  /\ faults = 0

At(r, stage, op) == pc[r] = stage /\ call[r].op = op

Goto(r, stage) == pc' = [pc EXCEPT ![r] = stage]

Send(r, c) ==
  /\ pc[r] = "idle"
  /\ \A q \in Requests : q < r => pc[q] # "idle"
  /\ call' = [call EXCEPT ![r] = c]
  /\ Goto(r, "sent")
  /\ UNCHANGED <<product, stock, inserter, locker, read, dirty, units, faults>>

\* GET /operator/catalog: every product, then the stock of those products.
ListProducts(r) ==
  /\ At(r, "sent", "list")
  /\ read' = [read EXCEPT ![r] = product]
  /\ Goto(r, "joining")
  /\ UNCHANGED <<product, stock, inserter, locker, call, dirty, units, faults>>

JoinStock(r) ==
  /\ At(r, "joining", "list")
  /\ units' = [units EXCEPT ![r] =
                 [p \in Products |-> IF read[r][p] = NoRow THEN NoStock ELSE stock[p]]]
  /\ Goto(r, "ok")
  /\ UNCHANGED <<product, stock, inserter, locker, call, read, dirty, faults>>

\* A request ends without having changed anything ...
RollBack(r) ==
  /\ Goto(r, "refused")
  /\ inserter' = [p \in Products |-> IF inserter[p] = r THEN NoOne ELSE inserter[p]]
  /\ locker' = [p \in Products |-> IF locker[p] = r THEN NoOne ELSE locker[p]]
  /\ UNCHANGED <<product, stock, call, read, dirty, units>>

\* ... and is answered 404, 409, 422 or 500.
Refuse(r) == RollBack(r) /\ UNCHANGED faults

\* POST /catalog: 409 when the id is taken.
FindFree(r) ==
  LET p == call[r].p
  IN /\ At(r, "sent", "create")
     /\ IF product[p] # NoRow
        THEN Refuse(r)
        ELSE /\ read' = [read EXCEPT ![r][p] = call[r].row]
             /\ Goto(r, "saving")
             /\ UNCHANGED <<product, stock, inserter, locker, call, dirty, units, faults>>

\* A null is a field that is not asked for.
Merge(row, changes) ==
  [f \in Fields |-> IF f \in DOMAIN changes /\ changes[f] # Null
                    THEN changes[f] ELSE row[f]]

\* PATCH /catalog/{id}: read the product and merge the changes, or 404.
FindProduct(r) ==
  LET p == call[r].p
  IN /\ At(r, "sent", "patch")
     /\ IF product[p] = NoRow
        THEN Refuse(r)
        ELSE /\ read' = [read EXCEPT ![r][p] = Merge(product[p], call[r].changes)]
             /\ Goto(r, "saving")
             /\ UNCHANGED <<product, stock, inserter, locker, call, dirty, units, faults>>

\* save looks for the row, again.  If it is there now, also for a creation, the flush
\* will write the columns that differ from it.
SaveProduct(r) ==
  LET p == call[r].p
  IN /\ pc[r] = "saving"
     /\ IF product[p] = NoRow
        THEN Goto(r, "inserting") /\ UNCHANGED dirty
        ELSE /\ dirty' = [dirty EXCEPT ![r] = {f \in Fields : read[r][p][f] # product[p][f]}]
             /\ Goto(r, "writing")
     /\ UNCHANGED <<product, stock, inserter, locker, call, read, units, faults>>

\* Mutant of InsertProduct: the product is committed before its stock is seeded.
InsertAndCommit(r) ==
  LET p == call[r].p
  IN /\ pc[r] = "inserting"
     /\ inserter[p] = NoOne
     /\ IF product[p] # NoRow
        THEN Refuse(r)
        ELSE /\ product' = [product EXCEPT ![p] = read[r][p]]
             /\ Goto(r, "seeding")
             /\ UNCHANGED <<stock, inserter, locker, call, read, dirty, units, faults>>

\* The flush waits for another request that inserts the product: 409 if that commits.
InsertProduct(r) ==
  LET p == call[r].p
  IN /\ pc[r] = "inserting"
     /\ inserter[p] = NoOne
     /\ IF product[p] # NoRow
        THEN Refuse(r)
        ELSE /\ inserter' = [inserter EXCEPT ![p] = r]
             /\ Goto(r, "seeding")
             /\ UNCHANGED <<product, stock, locker, call, read, dirty, units, faults>>

\* Stock that has no row yet is seeded at zero.
Seed(p) == stock' = [stock EXCEPT ![p] = IF @ = NoStock THEN 0 ELSE @]

SeedAndCommit(r) ==
  LET p == call[r].p
  IN /\ pc[r] = "seeding"
     /\ Seed(p)
     /\ product' = [product EXCEPT ![p] = read[r][p]]
     /\ inserter' = [inserter EXCEPT ![p] = NoOne]
     /\ Goto(r, "ok")
     /\ UNCHANGED <<locker, call, read, dirty, units, faults>>

\* The UPDATE of those columns, once nobody else is writing the row, and the commit.
WriteProduct(r) ==
  LET p == call[r].p
  IN /\ pc[r] = "writing"
     /\ product' = [product EXCEPT ![p] =
                      [f \in Fields |-> IF f \in dirty[r] THEN read[r][p][f] ELSE @[f]]]
     /\ IF call[r].op = "create" THEN Seed(p) ELSE UNCHANGED stock
     /\ Goto(r, "ok")
     /\ UNCHANGED <<inserter, locker, call, read, dirty, units, faults>>

\* Mutant of LockStock: the row is read without FOR UPDATE.
ReadStock(r) ==
  LET p == call[r].p
  IN /\ At(r, "sent", "adjust")
     /\ IF stock[p] = NoStock \/ stock[p] + call[r].delta \notin Quantities
        THEN Refuse(r)
        ELSE /\ units' = [units EXCEPT ![r][p] = stock[p] + call[r].delta]
             /\ Goto(r, "adjusting")
             /\ UNCHANGED <<product, stock, inserter, locker, call, read, dirty, faults>>

\* POST /inventory/{id}/adjust: lock the row; 404 when there is none, 422 when the
\* stock would be negative, 500 when it would not fit the column.
LockStock(r) ==
  LET p == call[r].p
  IN /\ At(r, "sent", "adjust")
     /\ locker[p] = NoOne
     /\ IF stock[p] = NoStock \/ stock[p] + call[r].delta \notin Quantities
        THEN Refuse(r)
        ELSE /\ locker' = [locker EXCEPT ![p] = r]
             /\ units' = [units EXCEPT ![r][p] = stock[p] + call[r].delta]
             /\ Goto(r, "adjusting")
             /\ UNCHANGED <<product, stock, inserter, call, read, dirty, faults>>

WriteStock(r) ==
  LET p == call[r].p
  IN /\ At(r, "adjusting", "adjust")
     /\ stock' = [stock EXCEPT ![p] = units[r][p]]
     /\ locker' = [locker EXCEPT ![p] = NoOne]
     /\ Goto(r, "ok")
     /\ UNCHANGED <<product, inserter, call, read, dirty, units, faults>>

\* A request dies before its commit.
CrashRequest(r) ==
  /\ pc[r] \notin {"idle", "ok", "refused"}
  /\ faults < MaxFaults
  /\ faults' = faults + 1
  /\ RollBack(r)

Serve(r) == \/ ListProducts(r) \/ JoinStock(r)
            \/ FindFree(r) \/ FindProduct(r) \/ SaveProduct(r)
            \/ InsertProduct(r) \/ SeedAndCommit(r) \/ WriteProduct(r)
            \/ LockStock(r) \/ WriteStock(r)

-----------------------------------------------------------------------------
Stages == {"idle", "sent", "joining", "inserting", "seeding", "saving", "writing",
           "adjusting", "ok", "refused"}

\* Every variable stays in its type.
CatalogTypeOK ==
  /\ product \in [Products -> Rows \cup {NoRow}]
  /\ stock \in [Products -> Quantities \cup {NoStock}]
  /\ inserter \in [Products -> Requests \cup {NoOne}]
  /\ locker \in [Products -> Requests \cup {NoOne}]
  /\ call \in [Requests -> Call \cup {NoCall}]
  /\ pc \in [Requests -> Stages]
  /\ read \in [Requests -> [Products -> Rows \cup {NoRow}]]
  /\ dirty \in [Requests -> SUBSET Fields]
  /\ units \in [Requests -> [Products -> Quantities \cup {NoStock}]]
  /\ faults \in 0..MaxFaults

\* r answers 200 to an adjustment of p.
Adjusts(r, p) == At(r, "adjusting", "adjust") /\ call[r].p = p /\ pc'[r] = "ok"

\* "Concurrent adjustments serialize instead of losing updates": stock that exists
\* changes by exactly the delta of each request that is answered 200, and not otherwise.
AdjustmentsAdd ==
  [][\A p \in Products : stock[p] # NoStock =>
       IF \E r \in Requests : Adjusts(r, p)
       THEN \A r \in Requests : Adjusts(r, p) => stock'[p] = stock[p] + call[r].delta
       ELSE stock'[p] = stock[p]]_catalogVars

\* "Every catalog product is reservable without a separate provisioning step": no
\* operator is shown a product without stock, although the list is read in two steps.
ListedIsStocked ==
  \A r \in Requests : At(r, "ok", "list") =>
    \A p \in Products : read[r][p] # NoRow => units[r][p] # NoStock
=============================================================================
