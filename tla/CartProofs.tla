----------------------------- MODULE CartProofs ------------------------------
(***************************************************************************)
(* What holds of the cart for every number of requests, checkouts,         *)
(* products and limits.  The argument: between the read of a line and the  *)
(* commit, a cart request holds the cart row (Excluded), so the room it    *)
(* found is still there when it writes (Room), and, until a checkout ends, *)
(* so is the quantity it read (Fresh).                                     *)
(***************************************************************************)
EXTENDS Cart, FiniteSetTheorems, TLAPS

\* A request knows what it asks for, and only writes the line it asks for.
Asked ==
  \A r \in Requests :
    /\ pc[r] # "idle" => call[r] \in Call
    /\ pc[r] = "reading" => call[r].op \in {"add", "put"}
    /\ pc[r] \in {"looking", "saving"} => call[r].op # "get"
    /\ writes[r] # {} => /\ pc[r] = "committing" /\ call[r].op # "get"
                         /\ writes[r] = {call[r].p}

Inside == {"reading", "looking", "saving", "committing"}

\* One request at a time is past the cart row.
Excluded == \A r \in Requests : pc[r] \in Inside => holder = r

After == {"looking", "saving", "committing"}

\* A sum that was checked is the sum that is written.
Fits ==
  \A r \in Requests :
    pc[r] \in After /\ call[r].op = "add" => seen[r] + call[r].n <= MaxQuantity

\* There is room for the line of a request that was accepted, whatever is removed
\* meanwhile.
Room ==
  \A r \in Requests :
    pc[r] \in After /\ call[r].op \in {"add", "put"} =>
      Cardinality(Held(lines) \cup {call[r].p}) <= MaxLines

\* Nobody has changed the line since the request read it.
Fresh ==
  \A r \in Requests :
    /\ pc[r] \in After /\ call[r].op = "add" =>
         /\ seen[r] = lines[call[r].p]
         /\ lines[call[r].p] > 0 \/ Cardinality(Held(lines)) < MaxLines
    /\ pc[r] \in After /\ call[r].op = "put" => lines[call[r].p] > 0
    /\ pc[r] = "saving" => found[r] = lines[call[r].p]
    /\ pc[r] = "committing" /\ call[r].op # "get" /\ writes[r] = {} =>
         Target(r) = lines[call[r].p]

CartInv == TypeOK /\ Asked /\ Excluded /\ Fits /\ Room /\ LinesWithinLimit

LEMMA CallFields ==
  ASSUME NEW c \in Call
  PROVE  /\ c.op \in {"get", "remove", "add", "put"}
         /\ c.op # "get" => c.p \in Products
         /\ c.op \in {"add", "put"} => c.n \in 1..MaxQuantity
BY DEF Call

LEMMA HeldIsFinite ==
  ASSUME NEW f
  PROVE  Held(f) \subseteq Products /\ IsFiniteSet(Held(f))
BY ProductsAssumption, FS_Subset DEF Held

LEMMA FewerLines ==
  ASSUME NEW S, NEW T, S \subseteq T, IsFiniteSet(T), Cardinality(T) <= MaxLines
  PROVE  Cardinality(S) <= MaxLines
BY FS_Subset, FS_CardinalityType, LimitsAssumption

LEMMA InitCart == Init => CartInv
<1> SUFFICES ASSUME Init PROVE CartInv
  OBVIOUS
<1>1. TypeOK
  <2>1. product \in [Products -> [currency : Currencies, active : BOOLEAN]]
    <3>1. [currency : Currencies, active : {TRUE}] \subseteq [currency : Currencies, active : BOOLEAN]
      OBVIOUS
    <3> QED
      BY <3>1 DEF Init
  <2>2. price \in [Requests -> Currencies]
    <3>1. (CHOOSE c \in Currencies : TRUE) \in Currencies
      BY CurrenciesAssumption
    <3> QED
      BY <3>1 DEF Init
  <2>3. 0 \in Quantities /\ 0 \in 0..MaxAttempts /\ 0 \in 0..MaxUpdates /\ 0 \in 0..MaxCrashes
    BY LimitsAssumption DEF Quantities
  <2>4. call \in [Requests -> Call \cup {NoCall}]
    BY DEF Init
  <2> QED
    BY <2>1, <2>2, <2>3, <2>4 DEF Init, TypeOK, Stages, Ended
<1>2. Held(lines) = {}
  BY DEF Init, Held
<1>3. LinesWithinLimit
  BY <1>2, FS_EmptySet, LimitsAssumption DEF LinesWithinLimit
<1> QED
  BY <1>1, <1>3 DEF Init, CartInv, Asked, Excluded, Fits, Room, Inside, After, Transactions

LEMMA UpdateProductKeepsCart ==
  ASSUME CartInv, NEW p \in Products, UpdateProduct(p)
  PROVE  CartInv'
<1>1. \A q \in Requests : pc[q] # "idle" =>
        /\ call[q].op \in {"get", "remove", "add", "put"}
        /\ call[q].op # "get" => call[q].p \in Products
        /\ call[q].op \in {"add", "put"} => call[q].n \in 1..MaxQuantity
  BY CallFields DEF CartInv, Asked
<1>2. TypeOK'
  BY <1>1, NamesAssumption, LimitsAssumption DEF CartInv, UpdateProduct, Goto, catalogVars, TypeOK, Stages, Ended, Quantities, Transactions
<1>3. Asked'
  BY DEF CartInv, UpdateProduct, Goto, catalogVars, Asked, Transactions, TypeOK
<1>4. Excluded'
  BY DEF CartInv, UpdateProduct, Goto, catalogVars, Excluded, Inside, Transactions, TypeOK
<1>5. Fits'
  BY DEF CartInv, UpdateProduct, Goto, catalogVars, Fits, After, Transactions, TypeOK
<1>6. Room'
  BY DEF CartInv, UpdateProduct, Goto, catalogVars, Room, After, Transactions, TypeOK
<1>7. LinesWithinLimit'
  BY DEF CartInv, UpdateProduct, Goto, catalogVars, LinesWithinLimit
<1> QED
  BY <1>2, <1>3, <1>4, <1>5, <1>6, <1>7 DEF CartInv

LEMMA StartKeepsCart ==
  ASSUME CartInv, NEW r \in Requests, Start(r)
  PROVE  CartInv'
<1>1. \A q \in Requests : pc[q] # "idle" =>
        /\ call[q].op \in {"get", "remove", "add", "put"}
        /\ call[q].op # "get" => call[q].p \in Products
        /\ call[q].op \in {"add", "put"} => call[q].n \in 1..MaxQuantity
  BY CallFields DEF CartInv, Asked
<1>2. TypeOK'
  <2>1. product \in [Products -> [currency : Currencies, active : BOOLEAN]]
    BY DEF CartInv, TypeOK
  <2>2. \A c \in Call : c.op \in {"add", "put"} => product[c.p].currency \in Currencies
    BY <2>1, CallFields
  <2>3. call' \in [Requests -> Call \cup {NoCall}] /\ price' \in [Requests -> Currencies]
    BY <2>2 DEF CartInv, TypeOK, Start
  <2>4. pc' \in [Transactions -> Stages]
    BY DEF CartInv, TypeOK, Start, Goto, Transactions, Stages, Ended
  <2> QED
    BY <2>3, <2>4 DEF CartInv, TypeOK, Start, catalogVars
<1>3. Asked'
  BY DEF CartInv, Start, Goto, catalogVars, Asked, Transactions, TypeOK
<1>4. Excluded'
  BY DEF CartInv, Start, Goto, catalogVars, Excluded, Inside, Transactions, TypeOK
<1>5. Fits'
  BY DEF CartInv, Start, Goto, catalogVars, Fits, After, Transactions, TypeOK
<1>6. Room'
  BY DEF CartInv, Start, Goto, catalogVars, Room, After, Transactions, TypeOK
<1>7. LinesWithinLimit'
  BY DEF CartInv, Start, Goto, catalogVars, LinesWithinLimit
<1> QED
  BY <1>2, <1>3, <1>4, <1>5, <1>6, <1>7 DEF CartInv

LEMMA LockCartKeepsCart ==
  ASSUME CartInv, NEW r \in Requests, LockCart(r)
  PROVE  CartInv'
<1>1. \A q \in Requests : pc[q] # "idle" =>
        /\ call[q].op \in {"get", "remove", "add", "put"}
        /\ call[q].op # "get" => call[q].p \in Products
        /\ call[q].op \in {"add", "put"} => call[q].n \in 1..MaxQuantity
  BY CallFields DEF CartInv, Asked
<1>2. TypeOK'
  BY <1>1, NamesAssumption, LimitsAssumption DEF CartInv, LockCart, Goto, RollBack, AfterCart, catalogVars, TypeOK, Stages, Ended, Quantities, Transactions
<1>3. Asked'
  BY <1>1, NamesAssumption, LimitsAssumption DEF CartInv, LockCart, Goto, RollBack, AfterCart, catalogVars, Asked, Transactions, TypeOK
<1>4. Excluded'
  BY <1>1, NamesAssumption, LimitsAssumption DEF CartInv, LockCart, Goto, RollBack, AfterCart, catalogVars, Excluded, Inside, Transactions, TypeOK
<1>5. Fits'
  BY DEF CartInv, LockCart, Goto, RollBack, AfterCart, catalogVars, Fits, After, Transactions, TypeOK
<1>6. Room'
  BY DEF CartInv, LockCart, Goto, RollBack, AfterCart, catalogVars, Room, After, Transactions, TypeOK
<1>7. LinesWithinLimit'
  BY DEF CartInv, LockCart, Goto, RollBack, AfterCart, catalogVars, LinesWithinLimit
<1> QED
  BY <1>2, <1>3, <1>4, <1>5, <1>6, <1>7 DEF CartInv

LEMMA InsertCartKeepsCart ==
  ASSUME CartInv, NEW r \in Requests, InsertCart(r)
  PROVE  CartInv'
<1>1. \A q \in Requests : pc[q] # "idle" =>
        /\ call[q].op \in {"get", "remove", "add", "put"}
        /\ call[q].op # "get" => call[q].p \in Products
        /\ call[q].op \in {"add", "put"} => call[q].n \in 1..MaxQuantity
  BY CallFields DEF CartInv, Asked
<1>2. TypeOK'
  BY DEF CartInv, InsertCart, Goto, AfterCart, catalogVars, TypeOK, Stages, Ended, Quantities, Transactions
<1>3. Asked'
  BY <1>1, NamesAssumption, LimitsAssumption DEF CartInv, InsertCart, Goto, AfterCart, catalogVars, Asked, Transactions, TypeOK
<1>4. Excluded'
  BY <1>1, NamesAssumption, LimitsAssumption DEF CartInv, InsertCart, Goto, AfterCart, catalogVars, Excluded, Inside, Transactions, TypeOK
<1>5. Fits'
  BY DEF CartInv, InsertCart, Goto, AfterCart, catalogVars, Fits, After, Transactions, TypeOK
<1>6. Room'
  BY DEF CartInv, InsertCart, Goto, AfterCart, catalogVars, Room, After, Transactions, TypeOK
<1>7. LinesWithinLimit'
  BY DEF CartInv, InsertCart, Goto, AfterCart, catalogVars, LinesWithinLimit
<1> QED
  BY <1>2, <1>3, <1>4, <1>5, <1>6, <1>7 DEF CartInv

LEMMA ReadKeepsCart ==
  ASSUME CartInv, NEW r \in Requests, Read(r)
  PROVE  CartInv'
<1>1. \A q \in Requests : pc[q] # "idle" =>
        /\ call[q].op \in {"get", "remove", "add", "put"}
        /\ call[q].op # "get" => call[q].p \in Products
        /\ call[q].op \in {"add", "put"} => call[q].n \in 1..MaxQuantity
  BY CallFields DEF CartInv, Asked
<1>2. TypeOK'
  BY <1>1, NamesAssumption, LimitsAssumption DEF CartInv, Read, Goto, RollBack, Accepts, catalogVars, TypeOK, Stages, Ended, Quantities, Transactions
<1>3. Asked'
  BY DEF CartInv, Read, Goto, RollBack, Accepts, catalogVars, Asked, Transactions, TypeOK
<1>4. Excluded'
  BY DEF CartInv, Read, Goto, RollBack, Accepts, catalogVars, Excluded, Inside, Transactions, TypeOK
<1>5. Fits'
  BY DEF CartInv, Read, Goto, RollBack, Accepts, catalogVars, Fits, After, Transactions, TypeOK
<1>6. Room'
  <2> SUFFICES ASSUME NEW q \in Requests, pc'[q] \in After, call'[q].op \in {"add", "put"}
               PROVE  Cardinality(Held(lines') \cup {call'[q].p}) <= MaxLines
    BY DEF Room
  <2>1. lines' = lines /\ call' = call
    BY DEF Read, RollBack
  <2>2. CASE q # r
    BY <2>1, <2>2 DEF CartInv, Room, Read, RollBack, Goto, TypeOK, Transactions
  <2>3. CASE q = r
    <3> DEFINE p == call[r].p
    <3>1. Accepts(r) /\ p \in Products
      BY <2>3, <2>1, <1>1 DEF Read, RollBack, Goto, After, CartInv, TypeOK, Transactions
    <3>2. CASE lines[p] > 0
      <4>1. Held(lines) \cup {p} = Held(lines)
        BY <3>1, <3>2 DEF Held
      <4> QED
        BY <4>1, <2>1, <2>3 DEF CartInv, LinesWithinLimit
    <3>3. CASE ~(lines[p] > 0)
      <4>1. Cardinality(Held(lines)) < MaxLines
        BY <3>1, <3>3 DEF Accepts
      <4>2. /\ Cardinality(Held(lines)) \in Nat
            /\ Cardinality(Held(lines) \cup {p}) <= Cardinality(Held(lines)) + 1
        <5> DEFINE H == Held(lines)
        <5>1. IsFiniteSet(H) /\ p \notin H
          BY <3>3, HeldIsFinite DEF Held
        <5>2. Cardinality(H \cup {p}) = Cardinality(H) + 1 /\ Cardinality(H) \in Nat
          <6> HIDE DEF H, p
          <6> QED
            BY <5>1, FS_AddElement, FS_CardinalityType
        <5> QED
          BY <5>2
      <4>3. Cardinality(Held(lines) \cup {p}) <= MaxLines
        <5> DEFINE k == Cardinality(Held(lines)) m == Cardinality(Held(lines) \cup {p})
        <5>1. IsFiniteSet(Held(lines) \cup {p})
          BY HeldIsFinite, FS_AddElement
        <5>2. m \in Nat
          BY <5>1, FS_CardinalityType
        <5>3. k \in Nat /\ k < MaxLines /\ m <= k + 1
          BY <4>1, <4>2
        <5> HIDE DEF k, m
        <5>4. m <= MaxLines
          BY <5>2, <5>3, LimitsAssumption
        <5> QED
          BY <5>4 DEF m
      <4> QED
        BY <4>3, <2>1, <2>3
    <3> QED
      BY <3>2, <3>3
  <2> QED
    BY <2>2, <2>3
<1>7. LinesWithinLimit'
  BY DEF CartInv, Read, Goto, RollBack, Accepts, catalogVars, LinesWithinLimit
<1> QED
  BY <1>2, <1>3, <1>4, <1>5, <1>6, <1>7 DEF CartInv

LEMMA LookKeepsCart ==
  ASSUME CartInv, NEW r \in Requests, Look(r)
  PROVE  CartInv'
<1>1. \A q \in Requests : pc[q] # "idle" =>
        /\ call[q].op \in {"get", "remove", "add", "put"}
        /\ call[q].op # "get" => call[q].p \in Products
        /\ call[q].op \in {"add", "put"} => call[q].n \in 1..MaxQuantity
  BY CallFields DEF CartInv, Asked
<1>2. TypeOK'
  BY <1>1, NamesAssumption, LimitsAssumption DEF CartInv, Look, Goto, catalogVars, TypeOK, Stages, Ended, Quantities, Transactions, Asked
<1>3. Asked'
  BY DEF CartInv, Look, Goto, catalogVars, Asked, Transactions, TypeOK
<1>4. Excluded'
  BY DEF CartInv, Look, Goto, catalogVars, Excluded, Inside, Transactions, TypeOK
<1>5. Fits'
  BY DEF CartInv, Look, Goto, catalogVars, Fits, After, Transactions, TypeOK
<1>6. Room'
  BY DEF CartInv, Look, Goto, catalogVars, Room, After, Transactions, TypeOK
<1>7. LinesWithinLimit'
  BY DEF CartInv, Look, Goto, catalogVars, LinesWithinLimit
<1> QED
  BY <1>2, <1>3, <1>4, <1>5, <1>6, <1>7 DEF CartInv

LEMMA SaveKeepsCart ==
  ASSUME CartInv, NEW r \in Requests, Save(r)
  PROVE  CartInv'
<1>1. \A q \in Requests : pc[q] # "idle" =>
        /\ call[q].op \in {"get", "remove", "add", "put"}
        /\ call[q].op # "get" => call[q].p \in Products
        /\ call[q].op \in {"add", "put"} => call[q].n \in 1..MaxQuantity
  BY CallFields DEF CartInv, Asked
<1>2. TypeOK'
  BY <1>1, NamesAssumption, LimitsAssumption DEF CartInv, Save, Goto, RollBack, Target, Unlocked, catalogVars, TypeOK, Stages, Ended, Quantities, Transactions, Asked
<1>3. Asked'
  BY DEF CartInv, Save, Goto, RollBack, Target, Unlocked, catalogVars, Asked, Transactions, TypeOK
<1>4. Excluded'
  BY DEF CartInv, Save, Goto, RollBack, Target, Unlocked, catalogVars, Excluded, Inside, Transactions, TypeOK
<1>5. Fits'
  BY DEF CartInv, Save, Goto, RollBack, Target, Unlocked, catalogVars, Fits, After, Transactions, TypeOK
<1>6. Room'
  BY DEF CartInv, Save, Goto, RollBack, Target, Unlocked, catalogVars, Room, After, Transactions, TypeOK
<1>7. LinesWithinLimit'
  BY DEF CartInv, Save, Goto, RollBack, Target, Unlocked, catalogVars, LinesWithinLimit
<1> QED
  BY <1>2, <1>3, <1>4, <1>5, <1>6, <1>7 DEF CartInv

LEMMA CommitKeepsCart ==
  ASSUME CartInv, NEW r \in Requests, Commit(r)
  PROVE  CartInv'
<1>1. \A q \in Requests : pc[q] # "idle" =>
        /\ call[q].op \in {"get", "remove", "add", "put"}
        /\ call[q].op # "get" => call[q].p \in Products
        /\ call[q].op \in {"add", "put"} => call[q].n \in 1..MaxQuantity
  BY CallFields DEF CartInv, Asked
<1>2. TypeOK'
  BY <1>1, NamesAssumption, LimitsAssumption DEF CartInv, Commit, Goto, Target, catalogVars, TypeOK, Stages, Ended, Quantities, Transactions, Asked, Excluded, Inside, Fits, After
<1>3. Asked'
  BY DEF CartInv, Commit, Goto, Target, catalogVars, Asked, Transactions, TypeOK
<1>4. Excluded'
  BY DEF CartInv, Commit, Goto, Target, catalogVars, Excluded, Inside, Transactions, TypeOK
<1>5. Fits'
  BY DEF CartInv, Commit, Goto, Target, catalogVars, Fits, After, Transactions, TypeOK
<1>6. Room'
  BY <1>1, NamesAssumption, LimitsAssumption DEF CartInv, Commit, Goto, Target, catalogVars, Room, After, Transactions, TypeOK, Asked, Excluded, Inside, Fits
<1>7. LinesWithinLimit'
  <2>1. CASE writes[r] = {}
    <3>1. lines' = lines
      BY <2>1 DEF Commit, CartInv, TypeOK
    <3> QED
      BY <3>1 DEF CartInv, LinesWithinLimit
  <2>2. CASE writes[r] # {}
    <3> DEFINE p == call[r].p
    <3>1. writes[r] = {p} /\ pc[r] = "committing" /\ p \in Products
      BY <2>2, <1>1 DEF CartInv, Asked
    <3>2. \A q \in Products : q # p => lines'[q] = lines[q]
      BY <3>1 DEF Commit
    <3>3. CASE call[r].op = "remove"
      <4>1. Held(lines') \subseteq Held(lines)
        BY <3>1, <3>3 DEF Held, Commit, Target
      <4> QED
        BY <4>1, HeldIsFinite, FewerLines DEF CartInv, LinesWithinLimit
    <3>4. CASE call[r].op # "remove"
      <4>1. call[r].op \in {"add", "put"}
        BY <3>1, <3>4, <1>1, <2>2 DEF CartInv, Asked
      <4>2. Cardinality(Held(lines) \cup {p}) <= MaxLines
        BY <3>1, <4>1 DEF CartInv, Room, After
      <4>3. Held(lines') \subseteq Held(lines) \cup {p}
        BY <3>2 DEF Held
      <4>4. IsFiniteSet(Held(lines) \cup {p})
        BY HeldIsFinite, FS_AddElement
      <4>5. Cardinality(Held(lines')) <= MaxLines
        <5> HIDE DEF p
        <5> QED
          BY <4>2, <4>3, <4>4, FewerLines
      <4> QED
        BY <4>5 DEF LinesWithinLimit
    <3> QED
      BY <3>3, <3>4
  <2> QED
    BY <2>1, <2>2
<1> QED
  BY <1>2, <1>3, <1>4, <1>5, <1>6, <1>7 DEF CartInv

LEMMA StartCheckoutKeepsCart ==
  ASSUME CartInv, NEW c \in Checkouts, StartCheckout(c)
  PROVE  CartInv'
<1>1. \A q \in Requests : pc[q] # "idle" =>
        /\ call[q].op \in {"get", "remove", "add", "put"}
        /\ call[q].op # "get" => call[q].p \in Products
        /\ call[q].op \in {"add", "put"} => call[q].n \in 1..MaxQuantity
  BY CallFields DEF CartInv, Asked
<1>2. TypeOK'
  BY DEF CartInv, StartCheckout, Goto, catalogVars, TypeOK, Stages, Ended, Quantities, Transactions
<1>3. Asked'
  BY <1>1, NamesAssumption, LimitsAssumption DEF CartInv, StartCheckout, Goto, catalogVars, Asked, Transactions, TypeOK
<1>4. Excluded'
  BY DEF CartInv, StartCheckout, Goto, catalogVars, Excluded, Inside, Transactions, TypeOK
<1>5. Fits'
  BY DEF CartInv, StartCheckout, Goto, catalogVars, Fits, After, Transactions, TypeOK
<1>6. Room'
  BY DEF CartInv, StartCheckout, Goto, catalogVars, Room, After, Transactions, TypeOK
<1>7. LinesWithinLimit'
  BY DEF CartInv, StartCheckout, Goto, catalogVars, LinesWithinLimit
<1> QED
  BY <1>2, <1>3, <1>4, <1>5, <1>6, <1>7 DEF CartInv

LEMMA ClearLinesKeepsCart ==
  ASSUME CartInv, NEW c \in Checkouts, ClearLines(c)
  PROVE  CartInv'
<1>1. \A q \in Requests : pc[q] # "idle" =>
        /\ call[q].op \in {"get", "remove", "add", "put"}
        /\ call[q].op # "get" => call[q].p \in Products
        /\ call[q].op \in {"add", "put"} => call[q].n \in 1..MaxQuantity
  BY CallFields DEF CartInv, Asked
<1>2. TypeOK'
  <2>1. Held(lines) \in SUBSET Products
    BY HeldIsFinite
  <2>2. writes' \in [Transactions -> SUBSET Products]
    BY <2>1 DEF CartInv, TypeOK, ClearLines, Transactions
  <2>3. pc' \in [Transactions -> Stages]
    BY DEF CartInv, TypeOK, ClearLines, Goto, Transactions, Stages, Ended
  <2> QED
    BY <2>2, <2>3 DEF CartInv, TypeOK, ClearLines, catalogVars
<1>3. Asked'
  BY <1>1, NamesAssumption, LimitsAssumption DEF CartInv, ClearLines, Goto, catalogVars, Asked, Transactions, TypeOK
<1>4. Excluded'
  BY DEF CartInv, ClearLines, Goto, catalogVars, Excluded, Inside, Transactions, TypeOK
<1>5. Fits'
  BY DEF CartInv, ClearLines, Goto, catalogVars, Fits, After, Transactions, TypeOK
<1>6. Room'
  BY DEF CartInv, ClearLines, Goto, catalogVars, Room, After, Transactions, TypeOK
<1>7. LinesWithinLimit'
  BY DEF CartInv, ClearLines, Goto, catalogVars, LinesWithinLimit
<1> QED
  BY <1>2, <1>3, <1>4, <1>5, <1>6, <1>7 DEF CartInv

LEMMA CommitCheckoutKeepsCart ==
  ASSUME CartInv, NEW c \in Checkouts, CommitCheckout(c)
  PROVE  CartInv'
<1>1. \A q \in Requests : pc[q] # "idle" =>
        /\ call[q].op \in {"get", "remove", "add", "put"}
        /\ call[q].op # "get" => call[q].p \in Products
        /\ call[q].op \in {"add", "put"} => call[q].n \in 1..MaxQuantity
  BY CallFields DEF CartInv, Asked
<1>2. TypeOK'
  BY <1>1, NamesAssumption, LimitsAssumption DEF CartInv, CommitCheckout, Goto, catalogVars, TypeOK, Stages, Ended, Quantities, Transactions
<1>3. Asked'
  BY DEF CartInv, CommitCheckout, Goto, catalogVars, Asked, Transactions, TypeOK
<1>4. Excluded'
  BY DEF CartInv, CommitCheckout, Goto, catalogVars, Excluded, Inside, Transactions, TypeOK
<1>5. Fits'
  BY DEF CartInv, CommitCheckout, Goto, catalogVars, Fits, After, Transactions, TypeOK
<1>6. Room'
  <2> SUFFICES ASSUME NEW q \in Requests, pc'[q] \in After, call'[q].op \in {"add", "put"}
               PROVE  Cardinality(Held(lines') \cup {call'[q].p}) <= MaxLines
    BY DEF Room
  <2>1. call' = call /\ pc[q] \in After
    BY NamesAssumption DEF CommitCheckout, Goto, CartInv, TypeOK, Transactions, After
  <2> DEFINE p == call[q].p
  <2>2. Cardinality(Held(lines) \cup {p}) <= MaxLines
    BY <2>1 DEF CartInv, Room
  <2>3. Held(lines') \cup {p} \subseteq Held(lines) \cup {p}
    BY DEF CommitCheckout, Held
  <2>4. IsFiniteSet(Held(lines) \cup {p})
    BY HeldIsFinite, FS_AddElement
  <2>5. Cardinality(Held(lines') \cup {p}) <= MaxLines
    <3> HIDE DEF p
    <3> QED
      BY <2>2, <2>3, <2>4, FewerLines
  <2> QED
    BY <2>1, <2>5
<1>7. LinesWithinLimit'
  <2>1. Held(lines') \subseteq Held(lines)
    BY DEF CommitCheckout, Held
  <2> QED
    BY <2>1, HeldIsFinite, FewerLines DEF CartInv, LinesWithinLimit
<1> QED
  BY <1>2, <1>3, <1>4, <1>5, <1>6, <1>7 DEF CartInv

LEMMA CancelCheckoutKeepsCart ==
  ASSUME CartInv, NEW c \in Checkouts, CancelCheckout(c)
  PROVE  CartInv'
<1>2. TypeOK'
  BY DEF CartInv, CancelCheckout, Goto, catalogVars, TypeOK, Stages, Ended, Quantities, Transactions
<1>3. Asked'
  BY DEF CartInv, CancelCheckout, Goto, catalogVars, Asked, Transactions, TypeOK
<1>4. Excluded'
  BY DEF CartInv, CancelCheckout, Goto, catalogVars, Excluded, Inside, Transactions, TypeOK
<1>5. Fits'
  BY DEF CartInv, CancelCheckout, Goto, catalogVars, Fits, After, Transactions, TypeOK
<1>6. Room'
  BY DEF CartInv, CancelCheckout, Goto, catalogVars, Room, After, Transactions, TypeOK
<1>7. LinesWithinLimit'
  BY DEF CartInv, CancelCheckout, Goto, catalogVars, LinesWithinLimit
<1> QED
  BY <1>2, <1>3, <1>4, <1>5, <1>6, <1>7 DEF CartInv

LEMMA CrashKeepsCart ==
  ASSUME CartInv, NEW t \in Transactions, Crash(t)
  PROVE  CartInv'
<1>1. \A q \in Requests : pc[q] # "idle" =>
        /\ call[q].op \in {"get", "remove", "add", "put"}
        /\ call[q].op # "get" => call[q].p \in Products
        /\ call[q].op \in {"add", "put"} => call[q].n \in 1..MaxQuantity
  BY CallFields DEF CartInv, Asked
<1>2. TypeOK'
  BY <1>1, NamesAssumption, LimitsAssumption DEF CartInv, Crash, Goto, RollBack, catalogVars, TypeOK, Stages, Ended, Quantities, Transactions
<1>3. Asked'
  BY DEF CartInv, Crash, Goto, RollBack, catalogVars, Asked, Transactions, TypeOK
<1>4. Excluded'
  BY DEF CartInv, Crash, Goto, RollBack, catalogVars, Excluded, Inside, Transactions, TypeOK
<1>5. Fits'
  BY DEF CartInv, Crash, Goto, RollBack, catalogVars, Fits, After, Transactions, TypeOK
<1>6. Room'
  BY DEF CartInv, Crash, Goto, RollBack, catalogVars, Room, After, Transactions, TypeOK
<1>7. LinesWithinLimit'
  BY DEF CartInv, Crash, Goto, RollBack, catalogVars, LinesWithinLimit
<1> QED
  BY <1>2, <1>3, <1>4, <1>5, <1>6, <1>7 DEF CartInv

LEMMA StepCart == CartInv /\ [Next]_vars => CartInv'
<1> SUFFICES ASSUME CartInv, [Next]_vars PROVE CartInv'
  OBVIOUS
<1>1. CASE \E p \in Products : UpdateProduct(p)
  BY <1>1, UpdateProductKeepsCart
<1>2. CASE \E r \in Requests : Start(r) \/ Serve(r)
  <2> PICK r \in Requests : Start(r) \/ Serve(r)
    BY <1>2
  <2> QED
    BY StartKeepsCart, LockCartKeepsCart, InsertCartKeepsCart, ReadKeepsCart, LookKeepsCart,
       SaveKeepsCart, CommitKeepsCart DEF Serve
<1>3. CASE \E c \in Checkouts : StartCheckout(c) \/ Checkout(c)
  <2> PICK c \in Checkouts : StartCheckout(c) \/ Checkout(c)
    BY <1>3
  <2> QED
    BY StartCheckoutKeepsCart, ClearLinesKeepsCart, CommitCheckoutKeepsCart,
       CancelCheckoutKeepsCart DEF Checkout
<1>4. CASE \E t \in Transactions : Crash(t)
  BY <1>4, CrashKeepsCart
<1>5. CASE UNCHANGED vars
  BY <1>5 DEF vars, CartInv, TypeOK, Asked, Excluded, Fits, Room, LinesWithinLimit, Held
<1> QED
  BY <1>1, <1>2, <1>3, <1>4, <1>5 DEF Next

LEMMA CartInvariant == Spec => []CartInv
BY InitCart, StepCart, PTL DEF Spec

\* Every variable of the cart keeps its type, whatever runs concurrently.
THEOREM CartTypeCorrect == Spec => []TypeOK
<1>1. CartInv => TypeOK
  BY DEF CartInv
<1> QED
  BY <1>1, CartInvariant, PTL

\* MAX_LINES is never exceeded (add_item.py checks the number before it inserts), with
\* any number of concurrent requests and checkouts.
THEOREM LinesStayWithinLimit == Spec => []LinesWithinLimit
<1>1. CartInv => LinesWithinLimit
  BY DEF CartInv
<1> QED
  BY <1>1, CartInvariant, PTL

-----------------------------------------------------------------------------
\* Until a checkout ends: what a request read is still there when it commits.
LEMMA InitFresh == Init => Fresh
BY DEF Init, Fresh, After, Transactions

LEMMA QuietFresh ==
  ASSUME CartInv, Fresh, NEW r \in Requests,
         Start(r) \/ LockCart(r) \/ InsertCart(r) \/ Read(r) \/ Look(r) \/ Save(r)
  PROVE  Fresh' /\ lines' = lines
<1>1. lines' = lines
  BY DEF Start, LockCart, InsertCart, Read, Look, Save, RollBack
<1> SUFFICES ASSUME NEW q \in Requests
             PROVE  (/\ pc[q] \in After /\ call[q].op = "add" =>
                          /\ seen[q] = lines[call[q].p]
                          /\ lines[call[q].p] > 0 \/ Cardinality(Held(lines)) < MaxLines
                     /\ pc[q] \in After /\ call[q].op = "put" => lines[call[q].p] > 0
                     /\ pc[q] = "saving" => found[q] = lines[call[q].p]
                     /\ pc[q] = "committing" /\ call[q].op # "get" /\ writes[q] = {} =>
                          Target(q) = lines[call[q].p])'
  BY <1>1 DEF Fresh
<1>2. CASE q # r
  <2>1. /\ pc'[q] = pc[q] /\ call'[q] = call[q] /\ seen'[q] = seen[q]
        /\ found'[q] = found[q] /\ writes'[q] = writes[q]
    BY <1>2 DEF Start, LockCart, InsertCart, Read, Look, Save, RollBack, Goto,
                CartInv, TypeOK, Transactions
  <2> QED
    BY <2>1, <1>1 DEF Fresh, Held, Target
<1>3. CASE q = r
  <2>1. CASE Start(r) \/ LockCart(r) \/ InsertCart(r)
    <3>1. pc'[r] \notin {"looking", "saving", "committing"} \/ call'[r].op \in {"get", "remove"}
      BY <2>1 DEF Start, LockCart, InsertCart, AfterCart, RollBack, Goto, CartInv, TypeOK, Transactions
    <3>2. pc'[r] # "saving"
      BY <2>1 DEF Start, LockCart, InsertCart, AfterCart, RollBack, Goto, CartInv, TypeOK, Transactions
    <3>3. pc'[r] = "committing" => call'[r].op = "get"
      BY <2>1 DEF Start, LockCart, InsertCart, AfterCart, RollBack, Goto, CartInv, TypeOK, Transactions
    <3> QED
      BY <1>3, <3>1, <3>2, <3>3 DEF After
  <2>2. CASE Read(r)
    BY <1>1, <1>3, <2>2 DEF Read, Accepts, RollBack, Goto, CartInv, TypeOK, Transactions, After, Held
  <2>3. CASE Look(r)
    BY <1>1, <1>3, <2>3 DEF Look, Goto, CartInv, TypeOK, Transactions, After, Held, Fresh
  <2>4. CASE Save(r)
    <3>1. /\ pc[r] = "saving" /\ call' = call /\ seen' = seen /\ found' = found
          /\ pc'[r] \in {"committing", "failed"}
      BY <2>4 DEF Save, RollBack, Goto, CartInv, TypeOK, Transactions
    <3>2. pc'[r] = "committing" => writes'[r] # {} \/ found[r] = Target(r)
      <4>1. CASE found[r] = Target(r)
        BY <4>1
      <4>2. CASE RollBack(r)
        BY <4>2 DEF RollBack, Goto, CartInv, TypeOK, Transactions
      <4>3. CASE writes' = [writes EXCEPT ![r] = {call[r].p}]
        BY <4>3 DEF CartInv, TypeOK, Transactions
      <4> QED
        BY <2>4, <4>1, <4>2, <4>3 DEF Save
    <3>3. Target(r)' = Target(r)
      BY <3>1 DEF Target
    <3> QED
      BY <1>1, <1>3, <3>1, <3>2, <3>3 DEF After, Held, Fresh
  <2> QED
    BY <2>1, <2>2, <2>3, <2>4
<1> QED
  BY <1>1, <1>2, <1>3

\* The instance counts as this module does.
LEMMA SameCount == \A S : Sequential!Cardinality(S) = Cardinality(S)
BY DEF Cardinality, Sequential!Cardinality, IsFiniteSet, Sequential!IsFiniteSet

LEMMA CommitIsAsAsked ==
  ASSUME CartInv, Fresh, NEW r \in Requests, Commit(r)
  PROVE  AsAsked(r)
<1>1. call[r] \in Call /\ pc[r] = "committing"
  BY DEF CartInv, Asked, Commit
<1>2. CASE call[r].op = "get"
  <2>1. writes[r] = {}
    BY <1>2 DEF CartInv, Asked
  <2> QED
    BY <1>2, <2>1 DEF AsAsked, Commit, CartInv, TypeOK
<1>3. CASE call[r].op # "get"
  <2> DEFINE p == call[r].p
  <2>1. p \in Products /\ call[r].op \in {"remove", "add", "put"}
    BY <1>1, <1>3, CallFields
  <2>2. lines' = [lines EXCEPT ![p] = Target(r)]
    <3>1. CASE writes[r] = {}
      <4>1. lines' = lines /\ Target(r) = lines[p]
        BY <1>1, <1>3, <3>1 DEF Fresh, Commit, CartInv, TypeOK
      <4> QED
        BY <2>1, <4>1 DEF CartInv, TypeOK
    <3>2. CASE writes[r] # {}
      <4>1. writes[r] = {p}
        BY <3>2 DEF CartInv, Asked
      <4> QED
        BY <2>1, <4>1 DEF Commit, CartInv, TypeOK
    <3> QED
      BY <3>1, <3>2
  <2>3. CASE call[r].op = "add"
    <3>1. /\ seen[r] = lines[p] /\ seen[r] + call[r].n <= MaxQuantity
          /\ lines[p] > 0 \/ Cardinality(Held(lines)) < MaxLines
      BY <1>1, <2>3 DEF Fresh, CartInv, Fits, After
    <3> QED
      BY <2>1, <2>2, <2>3, <3>1, SameCount DEF AsAsked, Target, Sequential!Add,
         Sequential!Held, Held, CartInv, TypeOK
  <2>4. CASE call[r].op = "put"
    BY <1>1, <2>2, <2>4 DEF AsAsked, Target, Sequential!Put, Fresh, After
  <2>5. CASE call[r].op = "remove"
    BY <2>2, <2>5 DEF AsAsked, Target, Sequential!Remove
  <2> QED
    BY <2>1, <2>3, <2>4, <2>5
<1> QED
  BY <1>2, <1>3

LEMMA CommitFresh ==
  ASSUME CartInv, Fresh, NEW r \in Requests, Commit(r)
  PROVE  Fresh'
<1>1. pc[r] = "committing" /\ pc'[r] = "done" /\ holder = r
  BY DEF CartInv, Excluded, Inside, Commit, Goto, TypeOK, Transactions
<1>2. \A q \in Requests : q # r => pc'[q] = pc[q] /\ pc[q] \notin Inside
  BY <1>1 DEF CartInv, Excluded, Commit, Goto, TypeOK, Transactions
<1> QED
  BY <1>1, <1>2 DEF Fresh, After, Inside

LEMMA OtherFresh ==
  ASSUME CartInv, Fresh,
         \/ \E p \in Products : UpdateProduct(p)
         \/ \E t \in Transactions : Crash(t)
         \/ UNCHANGED vars
  PROVE  Fresh' /\ lines' = lines /\ (\A q \in Requests : pc'[q] = "done" => pc[q] = "done")
<1>1. CASE (\E p \in Products : UpdateProduct(p)) \/ UNCHANGED vars
  BY <1>1 DEF UpdateProduct, vars, Fresh, Held, Target
<1>2. CASE \E t \in Transactions : Crash(t)
  <2> PICK t \in Transactions : Crash(t)
    BY <1>2
  <2>1. /\ lines' = lines /\ call' = call /\ seen' = seen /\ found' = found
        /\ pc' = [pc EXCEPT ![t] = "failed"] /\ writes' = [writes EXCEPT ![t] = {}]
    BY DEF Crash, RollBack, Goto
  <2>2. \A q \in Requests :
          /\ (pc'[q] = pc[q] /\ writes'[q] = writes[q]) \/ pc'[q] = "failed"
          /\ Target(q)' = Target(q)
    BY <2>1 DEF CartInv, TypeOK, Transactions, Target
  <2>3. Held(lines') = Held(lines)
    BY <2>1
  <2> QED
    BY <2>1, <2>2, <2>3 DEF Fresh, After
<1> QED
  BY <1>1, <1>2

LEMMA CheckoutFresh ==
  ASSUME CartInv, Fresh, NEW c \in Checkouts, StartCheckout(c) \/ ClearLines(c)
  PROVE  Fresh' /\ lines' = lines
<1>1. /\ lines' = lines /\ call' = call /\ seen' = seen /\ found' = found
      /\ \A q \in Requests : pc'[q] = pc[q] /\ writes'[q] = writes[q]
  BY NamesAssumption DEF StartCheckout, ClearLines, Goto, CartInv, TypeOK, Transactions
<1>2. Held(lines') = Held(lines) /\ \A q \in Requests : Target(q)' = Target(q)
  BY <1>1 DEF Target
<1> QED
  BY <1>1, <1>2 DEF Fresh

\* What has ended stays so.
LEMMA DoneIsStable ==
  ASSUME CartInv, [Next]_vars, NEW t \in Transactions, pc[t] = "done"
  PROVE  pc'[t] = "done"
<1>1. ASSUME NEW u \in Transactions, NEW stage, Goto(u, stage), pc[u] # "done"
      PROVE  pc'[t] = "done"
  BY <1>1 DEF Goto, CartInv, TypeOK
<1>2. CASE UNCHANGED pc
  BY <1>2
<1>3. ASSUME NEW r \in Requests, Start(r) \/ Serve(r)
      PROVE  pc'[t] = "done"
  <2>1. r \in Transactions /\ pc[r] # "done"
    BY <1>3 DEF Transactions, Start, Serve, LockCart, InsertCart, Read, Look, Save, Commit
  <2>2. \E stage : Goto(r, stage)
    BY <1>3 DEF Start, Serve, LockCart, InsertCart, Read, Look, Save, Commit, RollBack
  <2> QED
    BY <1>1, <2>1, <2>2
<1>4. ASSUME NEW c \in Checkouts, StartCheckout(c) \/ Checkout(c)
      PROVE  pc'[t] = "done"
  <2>1. c \in Transactions /\ pc[c] # "done"
    BY <1>4 DEF Transactions, StartCheckout, Checkout, ClearLines, CommitCheckout, CancelCheckout
  <2>2. \E stage : Goto(c, stage)
    BY <1>4 DEF StartCheckout, Checkout, ClearLines, CommitCheckout, CancelCheckout
  <2> QED
    BY <1>1, <2>1, <2>2
<1>5. ASSUME NEW u \in Transactions, Crash(u)
      PROVE  pc'[t] = "done"
  BY <1>1, <1>5 DEF Crash, RollBack, Ended
<1> QED
  BY <1>2, <1>3, <1>4, <1>5 DEF Next, vars, UpdateProduct

LEMMA NoneOrderedYet ==
  ASSUME CartInv, [Next]_vars, NoneOrdered'
  PROVE  NoneOrdered
BY DoneIsStable DEF NoneOrdered, Transactions

\* Only a commit changes the cart, and only in the way it was asked.
LEMMA StepFresh ==
  ASSUME CartInv, Fresh, [Next]_vars
  PROVE  /\ NoneOrdered' => /\ Fresh'
                            /\ lines' = lines \/ \E r \in Requests : Commit(r)
         /\ \A q \in Requests : pc[q] # "done" /\ pc'[q] = "done" => AsAsked(q)
<1>1. CASE \E r \in Requests : Start(r) \/ Serve(r)
  <2> PICK r \in Requests : Start(r) \/ Serve(r)
    BY <1>1
  <2>1. CASE Commit(r)
    <3>1. \A q \in Requests : pc[q] # "done" /\ pc'[q] = "done" => q = r
      BY <2>1 DEF Commit, Goto, CartInv, TypeOK, Transactions
    <3> QED
      BY <2>1, <3>1, CommitIsAsAsked, CommitFresh
  <2>2. CASE ~Commit(r)
    <3>1. Start(r) \/ LockCart(r) \/ InsertCart(r) \/ Read(r) \/ Look(r) \/ Save(r)
      BY <2>2 DEF Serve
    <3>2. \A q \in Requests : pc[q] # "done" => pc'[q] # "done"
      BY <3>1 DEF Start, LockCart, InsertCart, AfterCart, Read, Look, Save, RollBack, Goto,
                  CartInv, TypeOK, Transactions
    <3> QED
      BY <3>1, <3>2, QuietFresh
  <2> QED
    BY <2>1, <2>2
<1>2. CASE \/ \E p \in Products : UpdateProduct(p)
           \/ \E t \in Transactions : Crash(t)
           \/ UNCHANGED vars
  BY <1>2, OtherFresh
<1>3. ASSUME NEW c \in Checkouts, StartCheckout(c) \/ Checkout(c)
      PROVE  /\ NoneOrdered' => Fresh' /\ lines' = lines
             /\ \A q \in Requests : pc[q] # "done" => pc'[q] # "done"
  <2>1. \A q \in Requests : pc'[q] = pc[q]
    BY <1>3, NamesAssumption
       DEF StartCheckout, Checkout, ClearLines, CommitCheckout, CancelCheckout, Goto,
           CartInv, TypeOK, Transactions
  <2>2. CASE CommitCheckout(c) \/ CancelCheckout(c)
    <3>1. pc'[c] = "done"
      BY <2>2 DEF CommitCheckout, CancelCheckout, Goto, CartInv, TypeOK, Transactions
    <3> QED
      BY <2>1, <3>1 DEF NoneOrdered
  <2>3. CASE StartCheckout(c) \/ ClearLines(c)
    BY <2>1, <2>3, CheckoutFresh
  <2> QED
    BY <1>3, <2>2, <2>3 DEF Checkout
<1> QED
  BY <1>1, <1>2, <1>3 DEF Next

FreshInv == CartInv /\ (NoneOrdered => Fresh)

LEMMA FreshStep == FreshInv /\ [Next]_vars => FreshInv'
BY StepCart, StepFresh, NoneOrderedYet DEF FreshInv

LEMMA FreshInvariant == Spec => []FreshInv
<1>1. Init => FreshInv
  BY InitCart, InitFresh DEF FreshInv
<1> QED
  BY <1>1, FreshStep, PTL DEF Spec

\* Cart edits are atomic (README: "line increments serialize on the cart row"): until a
\* checkout ends, a request that ends well has done to the cart at its commit exactly
\* what it says, however many run at once.
THEOREM EditsDoAsAsked == Spec => CommitsAsAsked
<1>1. FreshInv /\ [Next]_vars =>
        [\A r \in Requests :
           NoneOrdered /\ pc[r] # "done" /\ pc'[r] = "done" => AsAsked(r)]_vars
  BY StepFresh DEF FreshInv
<1> QED
  BY <1>1, FreshInvariant, PTL DEF Spec, CommitsAsAsked

LEMMA AskedIsSequential ==
  ASSUME CartInv, NEW r \in Requests, Commit(r), AsAsked(r)
  PROVE  [Sequential!Next]_lines
<1>1. call[r] \in Call
  BY DEF CartInv, Asked, Commit
<1> QED
  BY <1>1, CallFields DEF AsAsked, Sequential!Next

\* Until a checkout ends, the concurrent cart implements the sequential one.
THEOREM CartIsSequential == Spec => EditsAreSequential
<1>1. Init => Sequential!Init
  BY DEF Init, Sequential!Init
<1>2. ASSUME FreshInv, [Next]_vars, NoneOrdered'
      PROVE  [Sequential!Next]_lines
  <2>1. CartInv /\ Fresh
    BY <1>2, NoneOrderedYet DEF FreshInv
  <2> QED
    BY <1>2, <2>1, StepFresh, CommitIsAsAsked, AskedIsSequential
<1>3. FreshInv /\ [Next]_vars => [NoneOrdered' => [Sequential!Next]_lines]_vars
  BY <1>2
<1> QED
  BY <1>1, <1>3, FreshInvariant, PTL DEF Spec, EditsAreSequential

-----------------------------------------------------------------------------
\* A request that lost the race to insert the cart row finds it in its next round, as
\* the row is there for good.
Rounds ==
  \A r \in Requests :
    /\ pc[r] = "idle" => attempts[r] = 0
    /\ pc[r] = "cart" => attempts[r] = 0 \/ (attempts[r] = 1 /\ cart)
    /\ pc[r] = "inserting" => attempts[r] = 1
    /\ attempts[r] <= 2

LEMMA RoundsStep ==
  ASSUME TypeOK, Rounds, [Next]_vars
  PROVE  Rounds'
<1>1. cart => cart'
  BY DEF Next, vars, UpdateProduct, Start, Serve, LockCart, InsertCart, Read, Look, Save, Commit,
         StartCheckout, Checkout, ClearLines, CommitCheckout, CancelCheckout, Crash, RollBack
<1>2. ASSUME NEW t \in Transactions, UNCHANGED attempts,
             \A u \in Transactions \ {t} : pc'[u] = pc[u],
             t \in Requests => pc'[t] \notin {"idle", "cart", "inserting"}
      PROVE  Rounds'
  BY <1>1, <1>2 DEF Rounds, Transactions
<1>3. ASSUME NEW r \in Requests, Start(r)
      PROVE  Rounds'
  BY <1>1, <1>3 DEF Start, Goto, Rounds, TypeOK, Transactions
<1>4. ASSUME NEW r \in Requests, LockCart(r)
      PROVE  Rounds'
  BY <1>1, <1>4 DEF LockCart, AfterCart, RollBack, Goto, Rounds, TypeOK, Transactions
<1>5. ASSUME NEW r \in Requests, InsertCart(r)
      PROVE  Rounds'
  BY <1>1, <1>5 DEF InsertCart, AfterCart, Goto, Rounds, TypeOK, Transactions
<1>6. ASSUME NEW r \in Requests, Read(r) \/ Look(r) \/ Save(r) \/ Commit(r)
      PROVE  Rounds'
  <2>1. /\ UNCHANGED attempts
        /\ \A u \in Transactions \ {r} : pc'[u] = pc[u]
        /\ pc'[r] \notin {"idle", "cart", "inserting"}
    BY <1>6 DEF Read, Look, Save, Commit, RollBack, Goto, TypeOK, Transactions
  <2> QED
    BY <1>2, <2>1 DEF Transactions
<1>7. ASSUME NEW c \in Checkouts, StartCheckout(c) \/ Checkout(c)
      PROVE  Rounds'
  <2>1. /\ UNCHANGED attempts
        /\ \A u \in Transactions \ {c} : pc'[u] = pc[u]
    BY <1>7 DEF StartCheckout, Checkout, ClearLines, CommitCheckout, CancelCheckout, Goto,
                TypeOK, Transactions
  <2> QED
    BY <1>2, <2>1, NamesAssumption DEF Transactions
<1>8. ASSUME NEW t \in Transactions, Crash(t)
      PROVE  Rounds'
  <2>1. /\ UNCHANGED attempts
        /\ \A u \in Transactions \ {t} : pc'[u] = pc[u]
        /\ pc'[t] = "failed"
    BY <1>8 DEF Crash, RollBack, Goto, TypeOK, Transactions
  <2> QED
    BY <1>2, <2>1
<1>9. CASE UNCHANGED vars \/ \E p \in Products : UpdateProduct(p)
  BY <1>9 DEF vars, UpdateProduct, Rounds
<1> QED
  BY <1>3, <1>4, <1>5, <1>6, <1>7, <1>8, <1>9 DEF Next, Serve

\* However many first requests of a shopper race to create the cart, none needs a third
\* round of get_or_create, so none fails for want of one.
THEOREM CreationTakesTwoRounds == Spec => []CreationNeverExhausted
<1>1. Init => Rounds
  BY DEF Init, Rounds, Transactions
<1>2. TypeOK /\ Rounds /\ [Next]_vars => Rounds'
  BY RoundsStep
<1>3. Rounds => CreationNeverExhausted
  BY DEF Rounds, CreationNeverExhausted
<1> QED
  BY <1>1, <1>2, <1>3, CartTypeCorrect, PTL DEF Spec
=============================================================================
