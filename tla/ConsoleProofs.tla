---------------------------- MODULE ConsoleProofs -----------------------------
(***************************************************************************)
(* The operators' pages and the catalog behind them, for any number of      *)
(* requests, products, columns and pages: stock is the sum of what was      *)
(* answered, lists show stock, and answers meet the forms they are about.    *)
(***************************************************************************)
EXTENDS Console, TLAPS

-----------------------------------------------------------------------------
(* The inductive invariant: what a request that has come this far knows.    *)

Requested == \A r \in Requests : pc[r] # "idle" => call[r] \in Call

Stocked == \A p \in Products : product[p] # NoRow => stock[p] # NoStock

\* The products a list has read are there still, and have stock.
Joining ==
  \A r \in Requests : pc[r] = "joining" =>
    \A p \in Products : read[r][p] # NoRow => product[p] # NoRow

Saving(r) ==
  /\ call[r].op \in {"create", "patch"}
  /\ read[r][call[r].p] \in Rows
  /\ pc[r] = "writing" => product[call[r].p] # NoRow

\* What is saved is a row, and what is updated is there.
SavesRows ==
  \A r \in Requests :
    pc[r] \in {"saving", "inserting", "seeding", "writing"} => Saving(r)

PatchesAnswerRows ==
  \A r \in Requests : At(r, "ok", "patch") => read[r][call[r].p] \in Rows

Holding(r) ==
  LET p == call[r].p
  IN /\ call[r].op = "adjust"
     /\ locker[p] = r
     /\ stock[p] # NoStock
     /\ units[r][p] \in Quantities
     /\ units[r][p] = stock[p] + call[r].delta

\* A request that adjusts stock holds its row, and the sum it computed is still right.
Adjusting == \A r \in Requests : pc[r] = "adjusting" => Holding(r)

CatalogInv ==
  /\ CatalogTypeOK
  /\ Requested /\ Stocked /\ Joining /\ SavesRows /\ PatchesAnswerRows /\ Adjusting
  /\ ListedIsStocked

-----------------------------------------------------------------------------
(* Calls and rows.                                                          *)

LEMMA CallFields ==
  ASSUME NEW c \in Call
  PROVE  /\ c.op \in {"list", "create", "patch", "adjust"}
         /\ c.op # "list" => c.p \in Products
         /\ c.op = "create" => c.row \in Rows
         /\ c.op = "patch" => c.changes \in Changes
         /\ c.op = "adjust" => c.delta \in Deltas
  BY DEF Call

LEMMA MergedIsRow ==
  ASSUME NEW row \in Rows, NEW changes \in Changes
  PROVE  Merge(row, changes) \in Rows
  <1>1. PICK F \in SUBSET Fields : changes \in [F -> Values \cup {Null}]
    BY DEF Changes
  <1>2. \A f \in Fields : f \in DOMAIN changes /\ changes[f] # Null =>
          changes[f] \in Values
    BY <1>1
  <1>3. \A f \in Fields : row[f] \in Values \cup {Null} /\ (row[f] = Null => f \in Nullable)
    BY DEF Rows
  <1> QED BY <1>2, <1>3, ColumnsAssumption DEF Merge, Rows

LEMMA WrittenIsRow ==
  ASSUME NEW a \in Rows, NEW b \in Rows, NEW F \in SUBSET Fields
  PROVE  [f \in Fields |-> IF f \in F THEN a[f] ELSE b[f]] \in Rows
  BY DEF Rows

LEMMA RowIsThere == \A row \in Rows : row # NoRow
  BY NullsAssumption

LEMMA QuantityIsStock == \A n \in Quantities : n \in Int /\ n # NoStock
  BY ColumnsAssumption, NullsAssumption DEF Quantities

-----------------------------------------------------------------------------
(* The requests, one lemma for each group of steps.                         *)

LEMMA CatalogInvInit == CatalogInit => CatalogInv
  <1> SUFFICES ASSUME CatalogInit PROVE CatalogInv
    OBVIOUS
  <1>1. CatalogTypeOK
    BY ColumnsAssumption DEF CatalogInit, CatalogTypeOK, Stages
  <1> QED BY <1>1
          DEF CatalogInit, CatalogInv, Requested, Stocked, Joining, SavesRows,
              PatchesAnswerRows, Adjusting, ListedIsStocked, At

\* Sending changes nothing that another request knows.
LEMMA SendInv ==
  ASSUME CatalogInv, NEW r \in Requests, NEW c \in Call, Send(r, c)
  PROVE  CatalogInv'
  <1>1. /\ pc' = [pc EXCEPT ![r] = "sent"] /\ call' = [call EXCEPT ![r] = c]
        /\ UNCHANGED <<product, stock, inserter, locker, read, dirty, units, faults>>
    BY DEF Send, Goto
  <1>2. CatalogTypeOK'
    BY <1>1 DEF CatalogInv, CatalogTypeOK, Stages
  <1>3. /\ pc'[r] = "sent" /\ call'[r] = c
        /\ \A q \in Requests \ {r} : pc'[q] = pc[q] /\ call'[q] = call[q]
    BY <1>1 DEF CatalogInv, CatalogTypeOK
  <1>4. Requested' /\ Stocked' /\ Joining'
    BY <1>1, <1>3 DEF CatalogInv, Requested, Stocked, Joining
  <1>5. SavesRows' /\ PatchesAnswerRows'
    BY <1>1, <1>3 DEF CatalogInv, SavesRows, Saving, PatchesAnswerRows, At
  <1>6. Adjusting' /\ ListedIsStocked'
    BY <1>1, <1>3 DEF CatalogInv, Adjusting, Holding, ListedIsStocked, At
  <1> QED BY <1>2, <1>4, <1>5, <1>6 DEF CatalogInv

\* Neither does a request that ends without a commit, once its locks are free.
LEMMA RollBackInv ==
  ASSUME CatalogInv, NEW r \in Requests, pc[r] # "idle", RollBack(r),
         faults' \in 0..MaxFaults
  PROVE  CatalogInv'
  <1>1. /\ pc' = [pc EXCEPT ![r] = "refused"]
        /\ UNCHANGED <<product, stock, call, read, dirty, units>>
        /\ inserter' = [p \in Products |-> IF inserter[p] = r THEN NoOne ELSE inserter[p]]
        /\ locker' = [p \in Products |-> IF locker[p] = r THEN NoOne ELSE locker[p]]
    BY DEF RollBack, Goto
  <1>2. CatalogTypeOK'
    BY <1>1 DEF CatalogInv, CatalogTypeOK, Stages
  <1>3. /\ pc'[r] = "refused"
        /\ \A q \in Requests \ {r} : pc'[q] = pc[q]
    BY <1>1 DEF CatalogInv, CatalogTypeOK
  <1>4. Requested' /\ Stocked' /\ Joining'
    BY <1>1, <1>3 DEF CatalogInv, Requested, Stocked, Joining
  <1>5. SavesRows' /\ PatchesAnswerRows' /\ ListedIsStocked'
    BY <1>1, <1>3 DEF CatalogInv, SavesRows, Saving, PatchesAnswerRows, ListedIsStocked, At
  <1>6. Adjusting'
    <2> SUFFICES ASSUME NEW q \in Requests, pc'[q] = "adjusting" PROVE Holding(q)'
      BY DEF Adjusting
    <2>1. q # r /\ pc[q] = "adjusting" /\ Holding(q)
      BY <1>3 DEF CatalogInv, Adjusting
    <2>2. call[q].p \in Products
      BY <2>1, CallFields DEF CatalogInv, Requested, Holding
    <2> QED BY <1>1, <2>1, <2>2 DEF Holding
  <1> QED BY <1>2, <1>4, <1>5, <1>6 DEF CatalogInv

LEMMA RefuseInv ==
  ASSUME CatalogInv, NEW r \in Requests, pc[r] # "idle", Refuse(r)
  PROVE  CatalogInv'
  BY RollBackInv DEF Refuse, CatalogInv, CatalogTypeOK

LEMMA CrashInv ==
  ASSUME CatalogInv, NEW r \in Requests, CrashRequest(r)
  PROVE  CatalogInv'
  <1>1. faults' \in 0..MaxFaults
    BY ColumnsAssumption DEF CrashRequest, CatalogInv, CatalogTypeOK
  <1> QED BY <1>1, RollBackInv DEF CrashRequest

LEMMA ListInv ==
  ASSUME CatalogInv, NEW r \in Requests, ListProducts(r) \/ JoinStock(r)
  PROVE  CatalogInv'
  <1>1. CASE ListProducts(r)
    <2>1. /\ pc' = [pc EXCEPT ![r] = "joining"] /\ read' = [read EXCEPT ![r] = product]
          /\ UNCHANGED <<product, stock, inserter, locker, call, dirty, units, faults>>
          /\ pc[r] # "idle"
      BY <1>1 DEF ListProducts, Goto, At
    <2>2. CatalogTypeOK'
      BY <2>1 DEF CatalogInv, CatalogTypeOK, Stages
    <2>3. /\ pc'[r] = "joining" /\ read'[r] = product
          /\ \A q \in Requests \ {r} : pc'[q] = pc[q] /\ read'[q] = read[q]
      BY <2>1 DEF CatalogInv, CatalogTypeOK
    <2>4. Requested' /\ Stocked' /\ Joining'
      BY <2>1, <2>3 DEF CatalogInv, Requested, Stocked, Joining
    <2>5. SavesRows' /\ PatchesAnswerRows'
      BY <2>1, <2>3 DEF CatalogInv, SavesRows, Saving, PatchesAnswerRows, At
    <2>6. Adjusting' /\ ListedIsStocked'
      BY <2>1, <2>3 DEF CatalogInv, Adjusting, Holding, ListedIsStocked, At
    <2> QED BY <2>2, <2>4, <2>5, <2>6 DEF CatalogInv
  <1>2. CASE JoinStock(r)
    <2> DEFINE answer == [p \in Products |->
                            IF read[r][p] = NoRow THEN NoStock ELSE stock[p]]
    <2>1. /\ pc' = [pc EXCEPT ![r] = "ok"] /\ units' = [units EXCEPT ![r] = answer]
          /\ UNCHANGED <<product, stock, inserter, locker, call, read, dirty, faults>>
          /\ pc[r] = "joining" /\ call[r].op = "list"
      BY <1>2 DEF JoinStock, Goto, At
    <2>2. answer \in [Products -> Quantities \cup {NoStock}]
      BY DEF CatalogInv, CatalogTypeOK
    <2>3. CatalogTypeOK'
      BY <2>1, <2>2 DEF CatalogInv, CatalogTypeOK, Stages
    <2>4. /\ pc'[r] = "ok" /\ units'[r] = answer
          /\ \A q \in Requests \ {r} : pc'[q] = pc[q] /\ units'[q] = units[q]
      BY <2>1 DEF CatalogInv, CatalogTypeOK
    <2>5. Requested' /\ Stocked' /\ Joining'
      BY <2>1, <2>4 DEF CatalogInv, Requested, Stocked, Joining
    <2>6. SavesRows' /\ PatchesAnswerRows'
      BY <2>1, <2>4 DEF CatalogInv, SavesRows, Saving, PatchesAnswerRows, At
    <2>7. Adjusting'
      BY <2>1, <2>4 DEF CatalogInv, Adjusting, Holding
    <2>8. \A p \in Products : read[r][p] # NoRow => answer[p] # NoStock
      BY <2>1 DEF CatalogInv, Joining, Stocked
    <2>9. ListedIsStocked'
      BY <2>1, <2>4, <2>8 DEF CatalogInv, ListedIsStocked, At
    <2> QED BY <2>3, <2>5, <2>6, <2>7, <2>9 DEF CatalogInv
  <1> QED BY <1>1, <1>2

LEMMA FindInv ==
  ASSUME CatalogInv, NEW r \in Requests, FindFree(r) \/ FindProduct(r)
  PROVE  CatalogInv'
  <1> DEFINE p == call[r].p
  <1>1. /\ pc[r] = "sent" /\ call[r].op \in {"create", "patch"}
        /\ call[r] \in Call
    BY DEF FindFree, FindProduct, At, CatalogInv, Requested
  <1>2. p \in Products
    BY <1>1, CallFields
  <1>3. CASE Refuse(r)
    BY <1>1, <1>3, RefuseInv
  <1>4. ASSUME NEW row \in Rows,
               read' = [read EXCEPT ![r][p] = row], Goto(r, "saving"),
               UNCHANGED <<product, stock, inserter, locker, call, dirty, units, faults>>
        PROVE  CatalogInv'
    <2>1. CatalogTypeOK'
      BY <1>2, <1>4 DEF CatalogInv, CatalogTypeOK, Stages, Goto
    <2>2. /\ pc'[r] = "saving" /\ read'[r][p] = row
          /\ \A q \in Requests \ {r} : pc'[q] = pc[q] /\ read'[q] = read[q]
      BY <1>2, <1>4 DEF CatalogInv, CatalogTypeOK, Goto
    <2>3. Requested' /\ Stocked' /\ Joining'
      BY <1>1, <1>4, <2>2 DEF CatalogInv, Requested, Stocked, Joining
    <2>4. SavesRows' /\ PatchesAnswerRows'
      BY <1>1, <1>4, <2>2 DEF CatalogInv, SavesRows, Saving, PatchesAnswerRows, At
    <2>5. Adjusting' /\ ListedIsStocked'
      BY <1>4, <2>2 DEF CatalogInv, Adjusting, Holding, ListedIsStocked, At
    <2> QED BY <2>1, <2>3, <2>4, <2>5 DEF CatalogInv
  <1>5. CASE FindFree(r) /\ ~Refuse(r)
    <2>1. call[r].row \in Rows
      BY <1>1, <1>5, CallFields DEF FindFree, At
    <2> QED BY <1>4, <1>5, <2>1 DEF FindFree
  <1>6. CASE FindProduct(r) /\ ~Refuse(r)
    <2>1. product[p] \in Rows /\ call[r].changes \in Changes
      BY <1>1, <1>2, <1>6, CallFields DEF FindProduct, At, CatalogInv, CatalogTypeOK
    <2>2. Merge(product[p], call[r].changes) \in Rows
      BY <2>1, MergedIsRow
    <2> QED BY <1>4, <1>6, <2>2 DEF FindProduct
  <1> QED BY <1>3, <1>5, <1>6

LEMMA SaveInv ==
  ASSUME CatalogInv, NEW r \in Requests, SaveProduct(r) \/ InsertProduct(r)
  PROVE  CatalogInv'
  <1> DEFINE p == call[r].p
  <1>1. /\ pc[r] \in {"saving", "inserting"} /\ call[r] \in Call /\ Saving(r)
    BY DEF SaveProduct, InsertProduct, CatalogInv, Requested, SavesRows
  <1>2. p \in Products
    BY <1>1, CallFields DEF Saving
  <1>3. CASE Refuse(r)
    BY <1>1, <1>3, RefuseInv
  <1>4. ASSUME NEW stage \in {"inserting", "seeding", "writing"}, Goto(r, stage),
               stage = "writing" => product[p] # NoRow,
               inserter' \in [Products -> Requests \cup {NoOne}],
               dirty' \in [Requests -> SUBSET Fields],
               UNCHANGED <<product, stock, locker, call, read, units, faults>>
        PROVE  CatalogInv'
    <2>1. CatalogTypeOK'
      BY <1>4 DEF CatalogInv, CatalogTypeOK, Stages, Goto
    <2>2. /\ pc'[r] = stage
          /\ \A q \in Requests \ {r} : pc'[q] = pc[q]
      BY <1>4 DEF CatalogInv, CatalogTypeOK, Goto
    <2>3. Requested' /\ Stocked' /\ Joining'
      BY <1>1, <1>4, <2>2 DEF CatalogInv, Requested, Stocked, Joining
    <2>4. SavesRows' /\ PatchesAnswerRows'
      BY <1>1, <1>4, <2>2 DEF CatalogInv, SavesRows, Saving, PatchesAnswerRows, At
    <2>5. Adjusting' /\ ListedIsStocked'
      BY <1>4, <2>2 DEF CatalogInv, Adjusting, Holding, ListedIsStocked, At
    <2> QED BY <2>1, <2>3, <2>4, <2>5 DEF CatalogInv
  <1>5. CASE SaveProduct(r)
    <2>1. {f \in Fields : read[r][p][f] # product[p][f]} \in SUBSET Fields
      OBVIOUS
    <2>2. dirty' \in [Requests -> SUBSET Fields]
      BY <1>5, <2>1 DEF SaveProduct, CatalogInv, CatalogTypeOK
    <2>3. inserter' \in [Products -> Requests \cup {NoOne}]
      BY <1>5 DEF SaveProduct, CatalogInv, CatalogTypeOK
    <2> QED BY <1>4, <1>5, <2>2, <2>3 DEF SaveProduct
  <1>6. CASE InsertProduct(r) /\ ~Refuse(r)
    <2>1. /\ inserter' \in [Products -> Requests \cup {NoOne}]
          /\ dirty' \in [Requests -> SUBSET Fields]
      BY <1>6 DEF InsertProduct, CatalogInv, CatalogTypeOK
    <2> QED BY <1>4, <1>6, <2>1 DEF InsertProduct
  <1> QED BY <1>3, <1>5, <1>6

\* A commit leaves a row where it writes, and a quantity where there was none.
LEMMA CommitInv ==
  ASSUME CatalogInv, NEW r \in Requests, SeedAndCommit(r) \/ WriteProduct(r)
  PROVE  /\ CatalogInv'
         /\ \A p \in Products : stock[p] # NoStock => stock'[p] = stock[p]
  <1> DEFINE p == call[r].p
  <1>1. /\ pc[r] \in {"seeding", "writing"} /\ call[r] \in Call /\ Saving(r)
    BY DEF SeedAndCommit, WriteProduct, CatalogInv, Requested, SavesRows
  <1>2. p \in Products
    BY <1>1, CallFields DEF Saving
  <1>3. PICK row \in Rows : product' = [product EXCEPT ![p] = row]
    <2>1. CASE SeedAndCommit(r)
      BY <1>1, <2>1 DEF SeedAndCommit, Saving
    <2>2. CASE WriteProduct(r)
      <3>1. /\ product[p] \in Rows /\ read[r][p] \in Rows /\ dirty[r] \in SUBSET Fields
        BY <1>1, <1>2, <2>2 DEF WriteProduct, Saving, CatalogInv, CatalogTypeOK
      <3>2. [f \in Fields |-> IF f \in dirty[r] THEN read[r][p][f] ELSE product[p][f]]
              \in Rows
        BY <3>1, WrittenIsRow
      <3> QED BY <1>2, <2>2, <3>2 DEF WriteProduct, CatalogInv, CatalogTypeOK
    <2> QED BY <2>1, <2>2
  <1>4. \/ UNCHANGED stock /\ stock[p] # NoStock
        \/ Seed(p)
    <2>1. CASE SeedAndCommit(r)
      BY <2>1 DEF SeedAndCommit
    <2>2. CASE WriteProduct(r)
      BY <1>1, <1>2, <2>2 DEF WriteProduct, Saving, CatalogInv, Stocked
    <2> QED BY <2>1, <2>2
  <1>5. 0 \in Quantities
    BY ColumnsAssumption DEF Quantities
  <1>6. /\ stock' \in [Products -> Quantities \cup {NoStock}]
        /\ stock'[p] # NoStock
        /\ \A q \in Products : stock[q] # NoStock => stock'[q] = stock[q]
    <2>1. CASE UNCHANGED stock /\ stock[p] # NoStock
      BY <2>1 DEF CatalogInv, CatalogTypeOK
    <2>2. CASE Seed(p)
      <3>1. stock' = [stock EXCEPT ![p] = IF stock[p] = NoStock THEN 0 ELSE stock[p]]
        BY <2>2 DEF Seed
      <3>2. stock'[p] = IF stock[p] = NoStock THEN 0 ELSE stock[p]
        BY <1>2, <3>1 DEF CatalogInv, CatalogTypeOK
      <3>3. stock' \in [Products -> Quantities \cup {NoStock}]
        BY <1>5, <3>1 DEF CatalogInv, CatalogTypeOK
      <3>4. stock'[p] # NoStock
        BY <1>5, <3>2, QuantityIsStock
      <3>5. \A q \in Products : stock[q] # NoStock => stock'[q] = stock[q]
        BY <1>2, <3>1, <3>2 DEF CatalogInv, CatalogTypeOK
      <3> QED BY <3>3, <3>4, <3>5
    <2> QED BY <1>4, <2>1, <2>2
  <1>7. /\ Goto(r, "ok") /\ UNCHANGED <<locker, call, read, dirty, units, faults>>
        /\ inserter' \in [Products -> Requests \cup {NoOne}]
    BY DEF SeedAndCommit, WriteProduct, CatalogInv, CatalogTypeOK
  <1>8. CatalogTypeOK'
    BY <1>2, <1>3, <1>6, <1>7 DEF CatalogInv, CatalogTypeOK, Stages, Goto
  <1>9. /\ pc'[r] = "ok"
        /\ \A q \in Requests \ {r} : pc'[q] = pc[q]
        /\ product'[p] # NoRow
        /\ \A q \in Products \ {p} : product'[q] = product[q]
        /\ \A q \in Products : product[q] # NoRow => product'[q] # NoRow
    BY <1>2, <1>3, <1>7, RowIsThere DEF CatalogInv, CatalogTypeOK, Goto
  <1>10. Requested' /\ Stocked' /\ Joining'
    BY <1>1, <1>6, <1>7, <1>9 DEF CatalogInv, Requested, Stocked, Joining
  <1>11. SavesRows'
    <2> SUFFICES ASSUME NEW q \in Requests,
                        pc'[q] \in {"saving", "inserting", "seeding", "writing"}
                 PROVE  Saving(q)'
      BY DEF SavesRows
    <2>1. q # r /\ pc'[q] = pc[q] /\ Saving(q)
      BY <1>9 DEF CatalogInv, SavesRows
    <2>2. call[q].p \in Products
      BY <2>1, CallFields DEF CatalogInv, Requested, Saving
    <2> QED BY <1>7, <1>9, <2>1, <2>2 DEF Saving
  <1>12. PatchesAnswerRows' /\ ListedIsStocked'
    BY <1>1, <1>7, <1>9 DEF CatalogInv, PatchesAnswerRows, ListedIsStocked, Saving, At
  <1>13. Adjusting'
    <2> SUFFICES ASSUME NEW q \in Requests, pc'[q] = "adjusting" PROVE Holding(q)'
      BY DEF Adjusting
    <2>1. q # r /\ pc[q] = "adjusting" /\ Holding(q)
      BY <1>9 DEF CatalogInv, Adjusting
    <2>2. call[q].p \in Products
      BY <2>1, CallFields DEF CatalogInv, Requested, Holding
    <2> QED BY <1>6, <1>7, <2>1, <2>2 DEF Holding
  <1> QED BY <1>6, <1>8, <1>10, <1>11, <1>12, <1>13 DEF CatalogInv

LEMMA LockInv ==
  ASSUME CatalogInv, NEW r \in Requests, LockStock(r)
  PROVE  CatalogInv'
  <1> DEFINE p == call[r].p
  <1>1. /\ pc[r] = "sent" /\ call[r].op = "adjust" /\ call[r] \in Call /\ p \in Products
        /\ locker[p] = NoOne
    BY CallFields DEF LockStock, At, CatalogInv, Requested
  <1>2. CASE Refuse(r)
    BY <1>1, <1>2, RefuseInv
  <1>3. CASE ~Refuse(r)
    <2> DEFINE sum == stock[p] + call[r].delta
    <2>1. /\ stock[p] # NoStock /\ sum \in Quantities
          /\ locker' = [locker EXCEPT ![p] = r]
          /\ units' = [units EXCEPT ![r][p] = sum]
          /\ pc' = [pc EXCEPT ![r] = "adjusting"]
          /\ UNCHANGED <<product, stock, inserter, call, read, dirty, faults>>
      BY <1>3 DEF LockStock, Goto
    <2> HIDE DEF sum
    <2>2. CatalogTypeOK'
      BY <1>1, <2>1 DEF CatalogInv, CatalogTypeOK, Stages
    <2>3. /\ pc'[r] = "adjusting" /\ units'[r][p] = sum /\ locker'[p] = r
          /\ \A q \in Requests \ {r} : pc'[q] = pc[q] /\ units'[q] = units[q]
          /\ \A q \in Products \ {p} : locker'[q] = locker[q]
      BY <1>1, <2>1 DEF CatalogInv, CatalogTypeOK
    <2>4. Requested' /\ Stocked' /\ Joining'
      BY <1>1, <2>1, <2>3 DEF CatalogInv, Requested, Stocked, Joining
    <2>5. SavesRows' /\ PatchesAnswerRows' /\ ListedIsStocked'
      BY <2>1, <2>3 DEF CatalogInv, SavesRows, Saving, PatchesAnswerRows, ListedIsStocked, At
    <2>6. Adjusting'
      <3> SUFFICES ASSUME NEW q \in Requests, pc'[q] = "adjusting" PROVE Holding(q)'
        BY DEF Adjusting
      <3>1. CASE q = r
        BY <1>1, <2>1, <2>3, <3>1 DEF Holding, sum
      <3>2. CASE q # r
        <4>1. pc[q] = "adjusting" /\ Holding(q)
          BY <2>3, <3>2 DEF CatalogInv, Adjusting
        <4>2. call[q].p \in Products /\ call[q].p # p
          BY <1>1, <4>1, CallFields, NullsAssumption DEF CatalogInv, Requested, Holding
        <4> QED BY <2>1, <2>3, <3>2, <4>1, <4>2 DEF Holding
      <3> QED BY <3>1, <3>2
    <2> QED BY <2>2, <2>4, <2>5, <2>6 DEF CatalogInv
  <1> QED BY <1>2, <1>3

\* Only the request that holds the row writes it.
LEMMA WriteInv ==
  ASSUME CatalogInv, NEW r \in Requests, WriteStock(r)
  PROVE  /\ CatalogInv'
         /\ stock'[call[r].p] = stock[call[r].p] + call[r].delta
         /\ \A p \in Products \ {call[r].p} : stock'[p] = stock[p]
  <1> DEFINE p == call[r].p
             sum == units[r][p]
  <1>1. /\ pc[r] = "adjusting" /\ call[r] \in Call /\ Holding(r)
    BY DEF WriteStock, At, CatalogInv, Requested, Adjusting
  <1>2. p \in Products /\ sum \in Quantities /\ locker[p] = r /\ stock[p] # NoStock
        /\ sum = stock[p] + call[r].delta /\ call[r].op = "adjust"
    BY <1>1, CallFields DEF Holding
  <1>3. /\ stock' = [stock EXCEPT ![p] = sum]
        /\ locker' = [locker EXCEPT ![p] = NoOne]
        /\ pc' = [pc EXCEPT ![r] = "ok"]
        /\ UNCHANGED <<product, inserter, call, read, dirty, units, faults>>
    BY DEF WriteStock, Goto
  <1> HIDE DEF sum
  <1>4. CatalogTypeOK'
    BY <1>2, <1>3 DEF CatalogInv, CatalogTypeOK, Stages
  <1>5. /\ pc'[r] = "ok" /\ stock'[p] = sum
        /\ \A q \in Requests \ {r} : pc'[q] = pc[q]
        /\ \A q \in Products \ {p} : locker'[q] = locker[q] /\ stock'[q] = stock[q]
    BY <1>2, <1>3 DEF CatalogInv, CatalogTypeOK
  <1>6. sum # NoStock
    BY <1>2, QuantityIsStock
  <1>7. Requested' /\ Stocked' /\ Joining'
    BY <1>1, <1>3, <1>5, <1>6 DEF CatalogInv, Requested, Stocked, Joining
  <1>8. SavesRows' /\ PatchesAnswerRows' /\ ListedIsStocked'
    BY <1>2, <1>3, <1>5
       DEF CatalogInv, SavesRows, Saving, PatchesAnswerRows, ListedIsStocked, At
  <1>9. Adjusting'
    <2> SUFFICES ASSUME NEW q \in Requests, pc'[q] = "adjusting" PROVE Holding(q)'
      BY DEF Adjusting
    <2>1. q # r /\ pc[q] = "adjusting" /\ Holding(q)
      BY <1>5 DEF CatalogInv, Adjusting
    <2>2. call[q].p \in Products /\ call[q].p # p
      BY <1>2, <2>1, CallFields DEF CatalogInv, Requested, Holding
    <2> QED BY <1>3, <1>5, <2>1, <2>2 DEF Holding
  <1> QED BY <1>2, <1>4, <1>5, <1>7, <1>8, <1>9 DEF CatalogInv

LEMMA ServeInv ==
  ASSUME CatalogInv, NEW r \in Requests, Serve(r)
  PROVE  CatalogInv'
  BY ListInv, FindInv, SaveInv, CommitInv, LockInv, WriteInv DEF Serve

-----------------------------------------------------------------------------
(* The pages: what one that waits for an answer keeps as it was.            *)

PagesTyped ==
  /\ screen \in [Operators -> {"closed", "loading", "failed", "ready"}]
  /\ rows \in [Operators -> [Products -> Rows \cup {NoRow}]]
  /\ counts \in [Operators -> [Products -> Quantities \cup {NoStock}]]
  /\ form \in [Operators -> [Products -> {"closed", "open", "saving"}]]
  /\ draft \in [Operators -> [Products -> Rows \cup {NoRow}]]
  /\ editor \in [Operators -> [Products -> Editors]]
  /\ origin \in [Requests -> Operators \cup {NoOne}]

\* Forms are open in tables that are shown, on rows that are.
FormsHaveRows ==
  \A o \in Operators, p \in Products : form[o][p] # "closed" =>
    screen[o] = "ready" /\ rows[o][p] \in Rows /\ draft[o][p] \in Rows

Awaited(r) ==
  LET o == origin[r]
      p == call[r].p
  IN /\ pc[r] # "idle"
     /\ call[r].op = "list" => screen[o] = "loading"
     /\ call[r].op = "patch" => /\ form[o][p] = "saving"
                                /\ call[r].changes = DiffChanges(o, p)

Waiting == \A r \in Requests : origin[r] # NoOne => Awaited(r)

\* Two requests of one page for the same part of it.
Rivals(q, r) ==
  /\ origin[q] = origin[r] /\ origin[r] # NoOne
  /\ call[q].op = call[r].op
  /\ \/ call[r].op = "list"
     \/ call[r].op = "patch" /\ call[q].p = call[r].p

NoRivals == \A q, r \in Requests : Rivals(q, r) => q = r

PageInv == PagesTyped /\ FormsHaveRows /\ Waiting /\ NoRivals

ConsoleInv == CatalogInv /\ PageInv

\* What a step leaves alone for a request it is not about.
Kept(q) ==
  LET o == origin[q]
      p == call[q].p
  IN /\ o' = o /\ call'[q] = call[q] /\ pc'[q] # "idle"
     /\ call[q].op = "list" => screen'[o] = screen[o]
     /\ call[q].op = "patch" => /\ form'[o][p] = form[o][p]
                                /\ rows'[o][p] = rows[o][p]
                                /\ draft'[o][p] = draft[o][p]

LEMMA KeptIsAwaited ==
  ASSUME NEW q \in Requests, Awaited(q), Kept(q)
  PROVE  Awaited(q)'
  <1> DEFINE o == origin[q]
             p == call[q].p
  <1>1. /\ origin'[q] = origin[q] /\ call'[q] = call[q] /\ pc'[q] # "idle"
        /\ call[q].op = "list" => screen'[o] = "loading"
    BY DEF Awaited, Kept
  <1>2. ASSUME call[q].op = "patch"
        PROVE  form'[o][p] = "saving" /\ call'[q].changes = DiffChanges(origin[q], call[q].p)'
    <2>1. form'[o][p] = "saving" /\ call[q].changes = DiffChanges(o, p)
      BY <1>2 DEF Awaited, Kept
    <2>2. rows'[o][p] = rows[o][p] /\ draft'[o][p] = draft[o][p]
      BY <1>2 DEF Kept
    <2>3. DiffChanges(o, p) = DiffChanges(origin[q], call[q].p)'
      BY <1>1, <2>2 DEF DiffChanges
    <2> QED BY <1>1, <2>1, <2>3
  <1> QED BY <1>1, <1>2 DEF Awaited

LEMMA WaitingKept ==
  ASSUME Waiting, NoRivals, \A q \in Requests : origin'[q] # NoOne => Kept(q)
  PROVE  Waiting' /\ NoRivals'
  <1>1. Waiting'
    <2> SUFFICES ASSUME NEW q \in Requests, origin'[q] # NoOne PROVE Awaited(q)'
      BY DEF Waiting
    <2>1. Kept(q) /\ origin[q] # NoOne
      BY DEF Kept
    <2> QED BY <2>1, KeptIsAwaited DEF Waiting
  <1>2. NoRivals'
    <2> SUFFICES ASSUME NEW q \in Requests, NEW r \in Requests, Rivals(q, r)' PROVE q = r
      BY DEF NoRivals
    <2>1. Kept(q) /\ Kept(r)
      BY DEF Rivals
    <2>2. Rivals(q, r)
      BY <2>1 DEF Rivals, Kept
    <2> QED BY <2>2 DEF NoRivals
  <1> QED BY <1>1, <1>2

\* A page asks for what it does not wait for already.
LEMMA WaitingAsked ==
  ASSUME Waiting, NoRivals, NEW r \in Requests,
         \A q \in Requests \ {r} : origin'[q] # NoOne => Kept(q),
         Awaited(r)',
         \A q \in Requests \ {r} : ~Rivals(q, r)'
  PROVE  Waiting' /\ NoRivals'
  <1>1. Waiting'
    <2> SUFFICES ASSUME NEW q \in Requests \ {r}, origin'[q] # NoOne PROVE Awaited(q)'
      BY DEF Waiting
    <2>1. Kept(q) /\ origin[q] # NoOne
      BY DEF Kept
    <2> QED BY <2>1, KeptIsAwaited DEF Waiting
  <1>2. NoRivals'
    <2> SUFFICES ASSUME NEW q \in Requests, NEW s \in Requests, Rivals(q, s)' PROVE q = s
      BY DEF NoRivals
    <2>1. Rivals(s, q)'
      BY DEF Rivals
    <2>2. CASE q = r \/ s = r
      BY <2>1, <2>2
    <2>3. CASE q # r /\ s # r
      <3>1. Kept(q) /\ Kept(s)
        BY <2>3 DEF Rivals
      <3>2. Rivals(q, s)
        BY <3>1 DEF Rivals, Kept
      <3> QED BY <3>2 DEF NoRivals
    <2> QED BY <2>2, <2>3
  <1> QED BY <1>1, <1>2

LEMMA PageInvInit == Init => PageInv
  <1> SUFFICES ASSUME Init PROVE PageInv
    OBVIOUS
  <1>1. PagesTyped
    BY DEF Init, PagesTyped, Editors
  <1>2. \A r \in Requests : origin[r] = NoOne
    BY DEF Init
  <1>3. FormsHaveRows
    BY DEF Init, FormsHaveRows
  <1> QED BY <1>1, <1>2, <1>3 DEF PageInv, Waiting, NoRivals, Rivals

\* Nothing the server does is seen on a page before it is answered.
LEMMA ServerStepsKeepPages ==
  ASSUME PageInv, UNCHANGED <<pageVars, call>>,
         \A q \in Requests : pc[q] # "idle" => pc'[q] # "idle"
  PROVE  PageInv'
  <1>1. PagesTyped' /\ FormsHaveRows'
    BY DEF PageInv, PagesTyped, FormsHaveRows, pageVars
  <1>2. \A q \in Requests : origin'[q] # NoOne => Kept(q)
    BY DEF PageInv, Waiting, Awaited, Kept, pageVars
  <1> QED BY <1>1, <1>2, WaitingKept DEF PageInv

LEMMA ServeOnly ==
  ASSUME CatalogInv, NEW r \in Requests, Serve(r) \/ CrashRequest(r)
  PROVE  /\ UNCHANGED call
         /\ \A q \in Requests : pc[q] # "idle" => pc'[q] # "idle"
  <1>1. UNCHANGED call
    BY DEF Serve, ListProducts, JoinStock, FindFree, FindProduct, SaveProduct, InsertProduct,
           SeedAndCommit, WriteProduct, LockStock, WriteStock, CrashRequest, Refuse, RollBack
  <1>2. \E stage \in Stages \ {"idle"} : pc' = [pc EXCEPT ![r] = stage]
    BY DEF Serve, ListProducts, JoinStock, FindFree, FindProduct, SaveProduct, InsertProduct,
           SeedAndCommit, WriteProduct, LockStock, WriteStock, CrashRequest, Refuse, RollBack,
           Goto, Stages
  <1> QED BY <1>1, <1>2 DEF CatalogInv, CatalogTypeOK

-----------------------------------------------------------------------------
(* The steps of a page.                                                     *)

LEMMA CatalogUntouched ==
  ASSUME CatalogInv, UNCHANGED catalogVars
  PROVE  CatalogInv'
  BY DEF CatalogInv, catalogVars, CatalogTypeOK, Requested, Stocked, Joining, SavesRows, Saving,
         PatchesAnswerRows, Adjusting, Holding, ListedIsStocked, At

LEMMA DiffIsChanges ==
  ASSUME PageInv, NEW o \in Operators, NEW p \in Products, form[o][p] # "closed"
  PROVE  DiffChanges(o, p) \in Changes
  <1>1. draft[o][p] \in Rows
    BY DEF PageInv, FormsHaveRows
  <1>2. \A f \in Fields : draft[o][p][f] \in Values \cup {Null}
    BY <1>1 DEF Rows
  <1> DEFINE changed == {f \in Fields : draft[o][p][f] # rows[o][p][f]}
  <1>3. changed \in SUBSET Fields
    OBVIOUS
  <1>4. DiffChanges(o, p) \in [changed -> Values \cup {Null}]
    BY <1>2 DEF DiffChanges
  <1> QED BY <1>3, <1>4 DEF Changes

\* What is typed and clicked before anything is sent.
LEMMA EditInv ==
  ASSUME ConsoleInv, NEW o \in Operators, NEW p \in Products,
         StartEditing(o, p) \/ Type(o, p) \/ Cancel(o, p)
  PROVE  PageInv'
  <1> USE DEF ConsoleInv
  <1>1. UNCHANGED <<catalogVars, screen, rows, counts, origin>> /\ form[o][p] # "saving"
    BY DEF StartEditing, Type, Cancel
  <1>2. /\ form' \in [Operators -> [Products -> {"closed", "open", "saving"}]]
        /\ draft' \in [Operators -> [Products -> Rows \cup {NoRow}]]
        /\ editor' \in [Operators -> [Products -> Editors]]
        /\ form'[o][p] # "closed" =>
             screen[o] = "ready" /\ rows[o][p] \in Rows /\ draft'[o][p] \in Rows
        /\ \A n \in Operators, q \in Products : n # o \/ q # p =>
             form'[n][q] = form[n][q] /\ draft'[n][q] = draft[n][q]
    <2>1. CASE StartEditing(o, p)
      BY <2>1 DEF StartEditing, Shows, PageInv, PagesTyped, Editors
    <2>2. CASE Type(o, p)
      <3>1. PICK row \in Rows, f \in Fields :
              draft' = [draft EXCEPT ![o][p] = [draft[o][p] EXCEPT ![f] = row[f]]]
        BY <2>2 DEF Type
      <3>2. screen[o] = "ready" /\ rows[o][p] \in Rows /\ draft[o][p] \in Rows
        BY <2>2 DEF Type, PageInv, FormsHaveRows
      <3>3. [draft[o][p] EXCEPT ![f] = row[f]] \in Rows
        BY <3>2 DEF Rows
      <3> QED BY <2>2, <3>1, <3>2, <3>3 DEF Type, PageInv, PagesTyped
    <2>3. CASE Cancel(o, p)
      BY <2>3 DEF Cancel, CloseForm, PageInv, PagesTyped
    <2> QED BY <2>1, <2>2, <2>3
  <1>3. PagesTyped'
    BY <1>1, <1>2 DEF PageInv, PagesTyped
  <1>4. FormsHaveRows'
    BY <1>1, <1>2 DEF PageInv, FormsHaveRows
  <1>5. ASSUME NEW q \in Requests, origin'[q] # NoOne PROVE Kept(q)
    <2>1. Awaited(q) /\ origin[q] \in Operators /\ call[q] \in Call
      BY <1>1, <1>5 DEF PageInv, PagesTyped, Waiting, Awaited, CatalogInv, Requested
    <2>2. call[q].op = "patch" =>
            call[q].p \in Products /\ (origin[q] # o \/ call[q].p # p)
      BY <1>1, <2>1, CallFields DEF Awaited
    <2> QED BY <1>1, <1>2, <2>1, <2>2 DEF Kept, Awaited, catalogVars
  <1> QED BY <1>3, <1>4, <1>5, WaitingKept DEF PageInv

LEMMA EditorStates ==
  /\ Idle \in Editors /\ [kind |-> "done"] \in Editors
  /\ \A d \in Deltas : /\ [kind |-> "confirming", delta |-> d] \in Editors
                       /\ [kind |-> "error", delta |-> d] \in Editors
  /\ \A r \in Requests : [kind |-> "saving", r |-> r] \in Editors
  BY DEF Editors

LEMMA EditorDelta ==
  ASSUME NEW e \in Editors, e.kind \in {"confirming", "error"}
  PROVE  e.delta \in Deltas
  BY DEF Editors, Idle

LEMMA EditorInv ==
  ASSUME ConsoleInv, NEW o \in Operators, NEW p \in Products,
         RequestConfirm(o, p) \/ StartOver(o, p)
  PROVE  PageInv'
  <1>1. /\ UNCHANGED <<call, pc, screen, rows, counts, form, draft, origin>>
        /\ editor' \in [Operators -> [Products -> Editors]]
    <2>1. CASE RequestConfirm(o, p)
      <3>1. PICK d \in Deltas : Edited(o, p, [kind |-> "confirming", delta |-> d])
        BY <2>1 DEF RequestConfirm
      <3> QED BY <2>1, <3>1, EditorStates
              DEF RequestConfirm, Edited, catalogVars, ConsoleInv, PageInv, PagesTyped
    <2>2. CASE StartOver(o, p)
      BY <2>2, EditorStates
         DEF StartOver, Edited, catalogVars, ConsoleInv, PageInv, PagesTyped
    <2> QED BY <2>1, <2>2
  <1>2. PagesTyped' /\ FormsHaveRows'
    BY <1>1 DEF ConsoleInv, PageInv, PagesTyped, FormsHaveRows
  <1>3. \A q \in Requests : origin'[q] # NoOne => Kept(q)
    BY <1>1 DEF ConsoleInv, PageInv, Waiting, Awaited, Kept
  <1> QED BY <1>2, <1>3, WaitingKept DEF ConsoleInv, PageInv

\* A page asks only for what it does not wait for.
LEMMA AskInv ==
  ASSUME ConsoleInv, NEW o \in Operators, NEW r \in Requests, NEW c \in Call, Ask(o, r, c),
         PagesTyped', FormsHaveRows',
         \A n \in Operators : screen[n] = "loading" => screen'[n] = screen[n],
         \A n \in Operators, p \in Products : form[n][p] = "saving" =>
           form'[n][p] = form[n][p] /\ rows'[n][p] = rows[n][p] /\ draft'[n][p] = draft[n][p],
         c.op = "list" => screen[o] # "loading" /\ screen'[o] = "loading",
         c.op = "patch" => /\ form[o][c.p] # "saving" /\ form'[o][c.p] = "saving"
                           /\ c.changes = DiffChanges(o, c.p)'
  PROVE  ConsoleInv'
  <1>1. CatalogInv'
    BY SendInv DEF Ask, ConsoleInv
  <1>2. /\ pc'[r] = "sent" /\ call'[r] = c /\ origin'[r] = o /\ pc[r] = "idle"
        /\ \A q \in Requests \ {r} :
             pc'[q] = pc[q] /\ call'[q] = call[q] /\ origin'[q] = origin[q]
    BY DEF Ask, Send, Goto, ConsoleInv, CatalogInv, CatalogTypeOK, PageInv, PagesTyped
  <1>3. \A q \in Requests : origin[q] # NoOne =>
          /\ Awaited(q) /\ origin[q] \in Operators /\ call[q] \in Call
          /\ call[q].op = "patch" => call[q].p \in Products
    BY CallFields
       DEF ConsoleInv, PageInv, PagesTyped, Waiting, Awaited, CatalogInv, Requested
  <1>4. ASSUME NEW q \in Requests \ {r}, origin'[q] # NoOne PROVE Kept(q)
    BY <1>2, <1>3, <1>4 DEF Kept, Awaited
  <1>5. Awaited(r)'
    BY <1>2 DEF Awaited
  <1>6. ASSUME NEW q \in Requests \ {r}, Rivals(q, r)' PROVE FALSE
    <2>1. origin[q] = o /\ call[q].op = c.op
      BY <1>2, <1>6 DEF Rivals
    <2>2. Awaited(q)
      BY <1>3, <2>1, OperatorsAssumption
    <2>3. CASE c.op = "list"
      BY <2>1, <2>2, <2>3 DEF Awaited
    <2>4. CASE c.op = "patch" /\ call[q].p = c.p
      BY <2>1, <2>2, <2>4 DEF Awaited
    <2> QED BY <1>2, <1>6, <2>3, <2>4 DEF Rivals
  <1>7. Waiting' /\ NoRivals'
    BY <1>4, <1>5, <1>6, WaitingAsked DEF ConsoleInv, PageInv
  <1> QED BY <1>1, <1>7 DEF ConsoleInv, PageInv

\* An answer touches the part of the page that asked, and nobody else waits for that.
LEMMA AnswerInv ==
  ASSUME ConsoleInv, NEW o \in Operators, NEW r \in Requests, origin[r] = o, Answered(r),
         UNCHANGED <<call, pc>>, PagesTyped', FormsHaveRows',
         \A n \in Operators : screen[n] = "loading" /\ ~(n = o /\ call[r].op = "list") =>
           screen'[n] = screen[n],
         \A n \in Operators, p \in Products :
           form[n][p] = "saving" /\ ~(n = o /\ call[r].op = "patch" /\ call[r].p = p) =>
             /\ form'[n][p] = form[n][p] /\ rows'[n][p] = rows[n][p]
             /\ draft'[n][p] = draft[n][p]
  PROVE  PageInv'
  <1>1. origin'[r] = NoOne /\ \A q \in Requests \ {r} : origin'[q] = origin[q]
    BY DEF Answered, ConsoleInv, PageInv, PagesTyped
  <1>2. ASSUME NEW q \in Requests, origin'[q] # NoOne PROVE Kept(q)
    <2>1. q # r /\ origin'[q] = origin[q] /\ ~Rivals(q, r)
      BY <1>1, <1>2 DEF ConsoleInv, PageInv, NoRivals
    <2>2. Awaited(q) /\ origin[q] \in Operators /\ call[q] \in Call
      BY <1>2, <2>1
         DEF ConsoleInv, PageInv, PagesTyped, Waiting, Awaited, CatalogInv, Requested
    <2>3. call[q].op = "patch" => call[q].p \in Products
      BY <2>2, CallFields
    <2>4. call[q].op = "list" => ~(origin[q] = o /\ call[r].op = "list")
      BY <2>1, OperatorsAssumption DEF Rivals
    <2>5. call[q].op = "patch" =>
            ~(origin[q] = o /\ call[r].op = "patch" /\ call[r].p = call[q].p)
      BY <2>1, OperatorsAssumption DEF Rivals
    <2> QED BY <2>1, <2>2, <2>3, <2>4, <2>5 DEF Kept, Awaited
  <1> QED BY <1>2, WaitingKept DEF ConsoleInv, PageInv

LEMMA AskElsewhereInv ==
  ASSUME ConsoleInv, NEW r \in Requests, AskElsewhere(r)
  PROVE  ConsoleInv'
  <1>1. PICK c \in Call : Send(r, c)
    BY DEF AskElsewhere
  <1>2. /\ UNCHANGED pageVars /\ pc[r] = "idle" /\ pc' = [pc EXCEPT ![r] = "sent"]
        /\ call' = [call EXCEPT ![r] = c]
    BY <1>1 DEF AskElsewhere, Send, Goto
  <1>3. CatalogInv'
    BY <1>1, SendInv DEF ConsoleInv
  <1>4. PagesTyped' /\ FormsHaveRows'
    BY <1>2 DEF ConsoleInv, PageInv, PagesTyped, FormsHaveRows, pageVars
  <1>5. ASSUME NEW q \in Requests, origin'[q] # NoOne PROVE Kept(q)
    <2>1. origin[q] # NoOne /\ Awaited(q) /\ q # r
      BY <1>2, <1>5 DEF ConsoleInv, PageInv, Waiting, Awaited, pageVars
    <2> QED BY <1>2, <2>1 DEF Kept, Awaited, pageVars, ConsoleInv, CatalogInv, CatalogTypeOK
  <1> QED BY <1>3, <1>4, <1>5, WaitingKept DEF ConsoleInv, PageInv

LEMMA LoadInv ==
  ASSUME ConsoleInv, NEW o \in Operators, NEW r \in Requests, Load(o, r)
  PROVE  ConsoleInv'
  <1> DEFINE c == [op |-> "list"]
  <1>1. /\ c \in Call /\ c.op = "list" /\ Ask(o, r, c)
        /\ screen' = [screen EXCEPT ![o] = "loading"] /\ screen[o] \in {"closed", "failed"}
        /\ UNCHANGED <<rows, counts, form, draft, editor>>
    BY DEF Load, Call
  <1> HIDE DEF c
  <1>2. PagesTyped'
    BY <1>1 DEF ConsoleInv, PageInv, PagesTyped, Ask
  <1>3. FormsHaveRows'
    BY <1>1 DEF ConsoleInv, PageInv, PagesTyped, FormsHaveRows
  <1>4. /\ screen[o] # "loading" /\ screen'[o] = "loading"
        /\ \A n \in Operators : screen[n] = "loading" => screen'[n] = screen[n]
    BY <1>1 DEF ConsoleInv, PageInv, PagesTyped
  <1> QED BY <1>1, <1>2, <1>3, <1>4, AskInv

LEMMA SaveFormInv ==
  ASSUME ConsoleInv, NEW o \in Operators, NEW p \in Products, NEW r \in Requests,
         Save(o, p, r)
  PROVE  ConsoleInv'
  <1>1. CASE draft[o][p] = rows[o][p]
    <2>1. Cancel(o, p)
      BY <1>1 DEF Save, Cancel, catalogVars
    <2>2. PageInv' /\ UNCHANGED catalogVars
      BY <2>1, EditInv DEF Cancel
    <2> QED BY <2>2, CatalogUntouched DEF ConsoleInv
  <1>2. CASE draft[o][p] # rows[o][p]
    <2>1. DiffChanges(o, p) \in Changes
      BY DiffIsChanges DEF Save, ConsoleInv
    <2>2. PICK c \in Call : c = [op |-> "patch", p |-> p, changes |-> DiffChanges(o, p)]
      <3>1. [op |-> "patch", p |-> p, changes |-> DiffChanges(o, p)] \in Call
        BY <2>1 DEF Call
      <3> QED BY <3>1
    <2>3. /\ Ask(o, r, c) /\ form[o][p] = "open"
          /\ form' = [form EXCEPT ![o][p] = "saving"]
          /\ UNCHANGED <<screen, rows, counts, editor, draft>>
      BY <1>2, <2>2 DEF Save
    <2>4. PagesTyped'
      BY <2>3 DEF ConsoleInv, PageInv, PagesTyped, Ask
    <2>5. FormsHaveRows'
      BY <2>3 DEF ConsoleInv, PageInv, PagesTyped, FormsHaveRows
    <2>6. /\ form'[o][p] = "saving"
          /\ \A n \in Operators, q \in Products : form[n][q] = "saving" =>
               form'[n][q] = form[n][q]
      BY <2>3 DEF ConsoleInv, PageInv, PagesTyped
    <2>7. DiffChanges(o, p) = DiffChanges(o, p)'
      BY <2>3 DEF DiffChanges
    <2>8. c.changes = DiffChanges(o, c.p)'
      BY <2>2, <2>7
    <2> QED BY <2>2, <2>3, <2>4, <2>5, <2>6, <2>8, AskInv
  <1> QED BY <1>1, <1>2

LEMMA ConfirmInv ==
  ASSUME ConsoleInv, NEW o \in Operators, NEW p \in Products, NEW r \in Requests,
         Confirm(o, p, r)
  PROVE  ConsoleInv'
  <1>1. editor[o][p].delta \in Deltas
    BY EditorDelta DEF Confirm, ConsoleInv, PageInv, PagesTyped
  <1>2. PICK c \in Call : c = [op |-> "adjust", p |-> p, delta |-> editor[o][p].delta]
    <2>1. [op |-> "adjust", p |-> p, delta |-> editor[o][p].delta] \in Call
      BY <1>1 DEF Call
    <2> QED BY <2>1
  <1>3. /\ Ask(o, r, c) /\ UNCHANGED <<screen, rows, counts, form, draft>>
        /\ editor' = [editor EXCEPT ![o][p] = [kind |-> "saving", r |-> r]]
    BY <1>2 DEF Confirm, Edited
  <1>4. PagesTyped'
    BY <1>3, EditorStates DEF ConsoleInv, PageInv, PagesTyped, Ask
  <1>5. FormsHaveRows'
    BY <1>3 DEF ConsoleInv, PageInv, FormsHaveRows
  <1> QED BY <1>2, <1>3, <1>4, <1>5, AskInv

LEMMA LeaveInv ==
  ASSUME ConsoleInv, NEW o \in Operators, Leave(o)
  PROVE  ConsoleInv'
  <1>1. CatalogInv'
    BY CatalogUntouched DEF Leave, ConsoleInv
  <1>2. PagesTyped'
    BY EditorStates DEF Leave, ConsoleInv, PageInv, PagesTyped
  <1>3. FormsHaveRows'
    BY DEF Leave, ConsoleInv, PageInv, PagesTyped, FormsHaveRows
  <1>4. ASSUME NEW q \in Requests, origin'[q] # NoOne PROVE Kept(q)
    <2>1. origin[q] # o /\ origin'[q] = origin[q]
      BY <1>4 DEF Leave
    <2>2. Awaited(q) /\ origin[q] \in Operators
      BY <1>4, <2>1 DEF ConsoleInv, PageInv, PagesTyped, Waiting
    <2>3. \A n \in Operators \ {o} :
            screen'[n] = screen[n] /\ form'[n] = form[n] /\ rows'[n] = rows[n]
            /\ draft'[n] = draft[n]
      BY DEF Leave, ConsoleInv, PageInv, PagesTyped
    <2> QED BY <2>1, <2>2, <2>3 DEF Leave, Kept, Awaited, catalogVars
  <1> QED BY <1>1, <1>2, <1>3, <1>4, WaitingKept DEF ConsoleInv, PageInv

\* What a page knows of a request it waits for.
LEMMA AwaitedCall ==
  ASSUME ConsoleInv, NEW o \in Operators, NEW r \in Requests, origin[r] = o
  PROVE  /\ Awaited(r) /\ call[r] \in Call
         /\ call[r].op # "list" => call[r].p \in Products
         /\ call[r].op = "list" => \A p \in Products : form[o][p] = "closed"
         /\ call[r].op = "patch" => form[o][call[r].p] = "saving"
  <1>1. Awaited(r) /\ call[r] \in Call
    BY OperatorsAssumption
       DEF ConsoleInv, PageInv, Waiting, Awaited, CatalogInv, Requested
  <1>2. call[r].op # "list" => call[r].p \in Products
    BY <1>1, CallFields
  <1>3. call[r].op = "list" => screen[o] = "loading"
    BY <1>1 DEF Awaited
  <1> QED BY <1>1, <1>2, <1>3 DEF Awaited, ConsoleInv, PageInv, FormsHaveRows

LEMMA LoadedInv ==
  ASSUME ConsoleInv, NEW o \in Operators, NEW r \in Requests, Loaded(o, r)
  PROVE  PageInv'
  <1>1. /\ origin[r] = o /\ call[r].op = "list" /\ UNCHANGED <<call, pc, form, draft>>
        /\ Answered(r)
    BY DEF Loaded, At, catalogVars
  <1>2. \A p \in Products : form[o][p] = "closed"
    BY <1>1, AwaitedCall
  <1>3. PagesTyped'
    BY DEF Loaded, Answered, ConsoleInv, PageInv, PagesTyped, CatalogInv, CatalogTypeOK
  <1>4. /\ \A n \in Operators \ {o} : screen'[n] = screen[n] /\ rows'[n] = rows[n]
    BY DEF Loaded, ConsoleInv, PageInv, PagesTyped
  <1>5. FormsHaveRows'
    BY <1>1, <1>2, <1>4 DEF ConsoleInv, PageInv, FormsHaveRows
  <1> QED BY <1>1, <1>2, <1>3, <1>4, <1>5, AnswerInv

LEMMA SavedInv ==
  ASSUME ConsoleInv, NEW o \in Operators, NEW r \in Requests, Saved(o, r)
  PROVE  PageInv'
  <1> DEFINE p == call[r].p
  <1>1. /\ origin[r] = o /\ call[r].op = "patch" /\ UNCHANGED <<call, pc, screen>>
        /\ Answered(r) /\ read[r][p] \in Rows /\ UNCHANGED <<counts, editor>>
        /\ rows' = [rows EXCEPT ![o][p] = read[r][p]]
        /\ form' = [form EXCEPT ![o][p] = "closed"]
        /\ draft' = [draft EXCEPT ![o][p] = NoRow]
    BY DEF Saved, CloseForm, At, catalogVars, ConsoleInv, CatalogInv, PatchesAnswerRows
  <1>2. p \in Products
    BY <1>1, AwaitedCall
  <1>3. PagesTyped'
    BY <1>1, <1>2 DEF Answered, ConsoleInv, PageInv, PagesTyped
  <1>4. /\ form'[o][p] = "closed"
        /\ \A n \in Operators, q \in Products : n # o \/ q # p =>
             /\ form'[n][q] = form[n][q] /\ rows'[n][q] = rows[n][q]
             /\ draft'[n][q] = draft[n][q]
    BY <1>1, <1>2 DEF ConsoleInv, PageInv, PagesTyped
  <1>5. FormsHaveRows'
    BY <1>1, <1>4 DEF ConsoleInv, PageInv, FormsHaveRows
  <1> QED BY <1>1, <1>3, <1>4, <1>5, AnswerInv

LEMMA AdjustedInv ==
  ASSUME ConsoleInv, NEW o \in Operators, NEW r \in Requests, Adjusted(o, r)
  PROVE  PageInv'
  <1>1. /\ origin[r] = o /\ call[r].op = "adjust" /\ Answered(r)
        /\ UNCHANGED <<call, pc, screen, rows, form, draft>>
    BY DEF Adjusted, At, catalogVars
  <1>2. call[r].p \in Products
    BY <1>1, AwaitedCall
  <1>3. units[r][call[r].p] \in Quantities \cup {NoStock}
    BY <1>2 DEF ConsoleInv, CatalogInv, CatalogTypeOK
  <1>4. editor' \in [Operators -> [Products -> Editors]]
    BY EditorStates DEF Adjusted, ConsoleInv, PageInv, PagesTyped
  <1>5. PagesTyped'
    BY <1>1, <1>3, <1>4 DEF Adjusted, Answered, ConsoleInv, PageInv, PagesTyped
  <1>6. FormsHaveRows'
    BY <1>1 DEF ConsoleInv, PageInv, FormsHaveRows
  <1> QED BY <1>1, <1>5, <1>6, AnswerInv

LEMMA FailedInv ==
  ASSUME ConsoleInv, NEW o \in Operators, NEW r \in Requests, origin[r] = o, Failed(o, r),
         UNCHANGED <<call, pc>>
  PROVE  PageInv'
  <1> DEFINE p == call[r].p
  <1>1. /\ Answered(r) /\ UNCHANGED <<rows, counts, draft>>
        /\ call[r] \in Call
        /\ call[r].op # "list" => p \in Products
        /\ call[r].op = "list" => \A q \in Products : form[o][q] = "closed"
        /\ call[r].op = "patch" => form[o][p] = "saving"
    BY AwaitedCall DEF Failed
  <1>2. editor' \in [Operators -> [Products -> Editors]]
    <2>1. call[r].op = "adjust" => [kind |-> "error", delta |-> call[r].delta] \in Editors
      BY <1>1, CallFields, EditorStates
    <2> QED BY <2>1 DEF Failed, ConsoleInv, PageInv, PagesTyped
  <1>3. PagesTyped'
    BY <1>1, <1>2 DEF Failed, Answered, ConsoleInv, PageInv, PagesTyped
  <1>4. /\ \A n \in Operators : ~(n = o /\ call[r].op = "list") => screen'[n] = screen[n]
        /\ \A n \in Operators, q \in Products :
             ~(n = o /\ call[r].op = "patch" /\ p = q) => form'[n][q] = form[n][q]
    BY <1>1 DEF Failed, ConsoleInv, PageInv, PagesTyped
  <1>5. FormsHaveRows'
    BY <1>1, <1>4 DEF ConsoleInv, PageInv, FormsHaveRows
  <1> QED BY <1>1, <1>3, <1>4, <1>5, AnswerInv

LEMMA AnsweredInv ==
  ASSUME ConsoleInv, NEW o \in Operators, NEW r \in Requests, Receive(o, r) \/ Drop(o, r)
  PROVE  ConsoleInv'
  <1>1. CASE Receive(o, r)
    <2>1. UNCHANGED catalogVars
      BY <1>1 DEF Receive, Loaded, Saved, Adjusted, Refused
    <2>2. PageInv'
      BY <1>1, LoadedInv, SavedInv, AdjustedInv, FailedInv DEF Receive, Refused, catalogVars
    <2> QED BY <2>1, <2>2, CatalogUntouched DEF ConsoleInv
  <1>2. CASE Drop(o, r)
    <2>1. PageInv'
      BY <1>2, FailedInv DEF Drop
    <2>2. faults' \in 0..MaxFaults
      BY <1>2, ColumnsAssumption DEF Drop, ConsoleInv, CatalogInv, CatalogTypeOK
    <2>3. CatalogInv'
      BY <1>2, <2>2
         DEF Drop, ConsoleInv, CatalogInv, CatalogTypeOK, Requested, Stocked, Joining, SavesRows,
             Saving, PatchesAnswerRows, Adjusting, Holding, ListedIsStocked, At
    <2> QED BY <2>1, <2>3 DEF ConsoleInv
  <1> QED BY <1>1, <1>2

-----------------------------------------------------------------------------
(* The theorems.                                                            *)

LEMMA ConsoleInvInit == Init => ConsoleInv
  BY CatalogInvInit, PageInvInit DEF Init, ConsoleInv

LEMMA ConsoleInvStep == ConsoleInv /\ [Next]_vars => ConsoleInv'
  <1> SUFFICES ASSUME ConsoleInv, [Next]_vars PROVE ConsoleInv'
    OBVIOUS
  <1>1. ASSUME NEW r \in Requests, (Serve(r) \/ CrashRequest(r)) /\ UNCHANGED pageVars
        PROVE  ConsoleInv'
    <2>1. CatalogInv'
      BY <1>1, ServeInv, CrashInv DEF ConsoleInv
    <2>2. PageInv'
      BY <1>1, ServeOnly, ServerStepsKeepPages DEF ConsoleInv
    <2> QED BY <2>1, <2>2 DEF ConsoleInv
  <1>2. ASSUME NEW r \in Requests, NEW o \in Operators, NEW p \in Products, Act(o, p, r)
        PROVE  ConsoleInv'
    <2>1. CASE StartEditing(o, p) \/ Type(o, p) \/ Cancel(o, p)
      <3>1. UNCHANGED catalogVars
        BY <2>1 DEF StartEditing, Type, Cancel
      <3> QED BY <2>1, <3>1, EditInv, CatalogUntouched DEF ConsoleInv
    <2>2. CASE RequestConfirm(o, p) \/ StartOver(o, p)
      <3>1. UNCHANGED catalogVars
        BY <2>2 DEF RequestConfirm, StartOver
      <3> QED BY <2>2, <3>1, EditorInv, CatalogUntouched DEF ConsoleInv
    <2> QED BY <1>2, <2>1, <2>2, SaveFormInv, ConfirmInv DEF Act
  <1>3. CASE UNCHANGED vars
    <2>1. UNCHANGED catalogVars /\ UNCHANGED <<pageVars, call, pc>>
      BY <1>3 DEF vars, catalogVars, pageVars
    <2> QED BY <2>1, CatalogUntouched, ServerStepsKeepPages DEF ConsoleInv
  <1> QED BY <1>1, <1>2, <1>3, AskElsewhereInv, LoadInv, AnsweredInv, LeaveInv DEF Next

THEOREM ConsoleInvariant == Spec => []ConsoleInv
  BY ConsoleInvInit, ConsoleInvStep, PTL DEF Spec

\* Every variable of the pages and of the catalog keeps its type.
THEOREM ConsoleTypeCorrect == Spec => []TypeOK
  <1>1. ConsoleInv => TypeOK
    BY DEF ConsoleInv, CatalogInv, PageInv, PagesTyped, TypeOK
  <1> QED BY <1>1, ConsoleInvariant, PTL

\* No list, however its two reads fall, shows a product without stock.
THEOREM ListsShowStock == Spec => []ListedIsStocked
  <1>1. ConsoleInv => ListedIsStocked
    BY DEF ConsoleInv, CatalogInv
  <1> QED BY <1>1, ConsoleInvariant, PTL

\* The answer to a save meets the form that asked for it.
THEOREM SavesMeetTheirForms == Spec => []SavesMatchForms
  <1>1. ConsoleInv => SavesMatchForms
    BY DEF ConsoleInv, PageInv, Waiting, Awaited, SavesMatchForms
  <1> QED BY <1>1, ConsoleInvariant, PTL

\* To the catalog a step is one of the server, a request that is sent, or nothing.
LEMMA StepsOfTheCatalog ==
  ASSUME [Next]_vars
  PROVE  \/ \E r \in Requests : Serve(r) \/ CrashRequest(r)
         \/ \E r \in Requests : \E c : Send(r, c)
         \/ UNCHANGED <<pc, stock>>
  <1>1. ASSUME NEW r \in Requests, AskElsewhere(r)
        PROVE  \E c : Send(r, c)
    BY <1>1 DEF AskElsewhere
  <1>2. ASSUME NEW r \in Requests, NEW o \in Operators, Load(o, r)
        PROVE  \E c : Send(r, c)
    <2>1. Send(r, [op |-> "list"])
      BY <1>2 DEF Load, Ask
    <2> QED BY <2>1
  <1>3. ASSUME NEW r \in Requests, NEW o \in Operators, Receive(o, r) \/ Drop(o, r)
        PROVE  UNCHANGED <<pc, stock>>
    BY <1>3 DEF Receive, Loaded, Saved, Adjusted, Refused, Drop, catalogVars
  <1>4. ASSUME NEW r \in Requests, NEW o \in Operators, NEW p \in Products, Save(o, p, r)
        PROVE  (\E c : Send(r, c)) \/ UNCHANGED <<pc, stock>>
    <2>1. CASE draft[o][p] = rows[o][p]
      BY <1>4, <2>1 DEF Save, catalogVars
    <2>2. CASE draft[o][p] # rows[o][p]
      <3>1. Send(r, [op |-> "patch", p |-> p, changes |-> DiffChanges(o, p)])
        BY <1>4, <2>2 DEF Save, Ask
      <3> QED BY <3>1
    <2> QED BY <2>1, <2>2
  <1>5. ASSUME NEW r \in Requests, NEW o \in Operators, NEW p \in Products, Confirm(o, p, r)
        PROVE  \E c : Send(r, c)
    <2>1. Send(r, [op |-> "adjust", p |-> p, delta |-> editor[o][p].delta])
      BY <1>5 DEF Confirm, Ask
    <2> QED BY <2>1
  <1>6. ASSUME NEW o \in Operators, NEW p \in Products,
               \/ StartEditing(o, p) \/ Type(o, p) \/ Cancel(o, p)
               \/ RequestConfirm(o, p) \/ StartOver(o, p)
        PROVE  UNCHANGED <<pc, stock>>
    BY <1>6 DEF StartEditing, Type, Cancel, RequestConfirm, StartOver, catalogVars
  <1>7. ASSUME (\E o \in Operators : Leave(o)) \/ UNCHANGED vars
        PROVE  UNCHANGED <<pc, stock>>
    BY <1>7 DEF Leave, vars, catalogVars
  <1>8. ASSUME NEW r \in Requests, NEW o \in Operators, NEW p \in Products, Act(o, p, r)
        PROVE  (\E c : Send(r, c)) \/ UNCHANGED <<pc, stock>>
    BY <1>4, <1>5, <1>6, <1>8 DEF Act
  <1> QED BY <1>1, <1>2, <1>3, <1>7, <1>8 DEF Next

\* A request that is answered 200 to an adjustment has just written the stock.
LEMMA AdjustsByWriting ==
  ASSUME ConsoleInv, [Next]_vars, NEW q \in Requests, NEW p \in Products, Adjusts(q, p)
  PROVE  WriteStock(q) /\ call[q].p = p
  <1>1. pc[q] = "adjusting" /\ call[q].op = "adjust" /\ call[q].p = p /\ pc'[q] = "ok"
    BY DEF Adjusts, At
  <1>2. ASSUME NEW r \in Requests, Serve(r) PROVE WriteStock(q)
    <2>1. \E stage \in Stages : pc' = [pc EXCEPT ![r] = stage]
      BY <1>2
         DEF Serve, ListProducts, JoinStock, FindFree, FindProduct, SaveProduct, InsertProduct,
             SeedAndCommit, WriteProduct, LockStock, WriteStock, Refuse, RollBack, Goto, Stages
    <2>2. r = q
      BY <1>1, <2>1 DEF ConsoleInv, CatalogInv, CatalogTypeOK
    <2> QED BY <1>1, <1>2, <2>2
            DEF Serve, ListProducts, JoinStock, FindFree, FindProduct, SaveProduct,
                InsertProduct, SeedAndCommit, WriteProduct, LockStock, At
  <1>3. ASSUME NEW r \in Requests, NEW c, Send(r, c) PROVE FALSE
    BY <1>1, <1>3 DEF Send, Goto, ConsoleInv, CatalogInv, CatalogTypeOK
  <1>4. ASSUME NEW r \in Requests, CrashRequest(r) PROVE FALSE
    BY <1>1, <1>4 DEF CrashRequest, RollBack, Goto, ConsoleInv, CatalogInv, CatalogTypeOK
  <1>5. ASSUME UNCHANGED pc PROVE FALSE
    BY <1>1, <1>5
  <1> QED BY <1>1, <1>2, <1>3, <1>4, <1>5, StepsOfTheCatalog

\* Nothing else changes stock that is there.
LEMMA OnlyAdjustmentsChangeStock ==
  ASSUME ConsoleInv, [Next]_vars, NEW p \in Products, stock[p] # NoStock
  PROVE  \/ stock'[p] = stock[p]
         \/ \E r \in Requests : WriteStock(r) /\ call[r].p = p
  <1>1. ASSUME NEW r \in Requests, Serve(r)
        PROVE  \/ stock'[p] = stock[p]
               \/ WriteStock(r) /\ call[r].p = p
    <2>1. CASE SeedAndCommit(r) \/ WriteProduct(r)
      BY <2>1, CommitInv DEF ConsoleInv
    <2>2. CASE WriteStock(r)
      BY <2>2, WriteInv DEF ConsoleInv
    <2> QED BY <1>1, <2>1, <2>2
            DEF Serve, ListProducts, JoinStock, FindFree, FindProduct, SaveProduct,
                InsertProduct, LockStock, Refuse, RollBack
  <1>2. ASSUME NEW r \in Requests, CrashRequest(r) PROVE stock' = stock
    BY <1>2 DEF CrashRequest, RollBack
  <1>3. ASSUME NEW r \in Requests, NEW c, Send(r, c) PROVE stock' = stock
    BY <1>3 DEF Send
  <1> QED BY <1>1, <1>2, <1>3, StepsOfTheCatalog

\* Concurrent adjustments serialize: the stock is what was answered, added up.
THEOREM AdjustmentsAddUp == Spec => AdjustmentsAdd
  <1>1. ASSUME ConsoleInv, [Next]_vars, NEW p \in Products, stock[p] # NoStock
        PROVE  IF \E r \in Requests : Adjusts(r, p)
               THEN \A r \in Requests : Adjusts(r, p) => stock'[p] = stock[p] + call[r].delta
               ELSE stock'[p] = stock[p]
    <2>1. ASSUME NEW r \in Requests, Adjusts(r, p)
          PROVE  stock'[p] = stock[p] + call[r].delta
      BY <1>1, <2>1, AdjustsByWriting, WriteInv DEF ConsoleInv
    <2>2. ASSUME NEW r \in Requests, WriteStock(r), call[r].p = p
          PROVE  Adjusts(r, p)
      BY <1>1, <2>2 DEF WriteStock, Goto, Adjusts, At, ConsoleInv, CatalogInv, CatalogTypeOK
    <2> QED BY <1>1, <2>1, <2>2, OnlyAdjustmentsChangeStock
  <1>2. ConsoleInv /\ [Next]_vars =>
          \A p \in Products : stock[p] # NoStock =>
            IF \E r \in Requests : Adjusts(r, p)
            THEN \A r \in Requests : Adjusts(r, p) => stock'[p] = stock[p] + call[r].delta
            ELSE stock'[p] = stock[p]
    BY <1>1
  <1> QED BY <1>2, ConsoleInvariant, PTL DEF Spec, AdjustmentsAdd
=============================================================================
