---------------------------- MODULE StockProofs ----------------------------
(***************************************************************************)
(* Proofs about Stock, for any number of products, orders and requests and *)
(* any items, deltas and levels.                                           *)
(***************************************************************************)
EXTENDS Stock, LedgerLemmas

OrdersOK ==
  /\ order \in [Orders -> OrderStatus \cup {"absent"}]
  /\ items \in [Orders -> Seq(Item)]
  /\ confirmed \in [Orders -> Nat]
  /\ reopened \subseteq Orders

ProductsOK ==
  /\ listed \subseteq Products
  /\ stock \in [Products -> Int] /\ sales \in [Products -> Int]
  /\ logged \in [Products -> Int] /\ supplied \in [Products -> Nat]
  /\ lost \in [Products -> Int]
  /\ raced \subseteq Products /\ clamped \subseteq Products /\ unlogged \subseteq Products

(* A product that is not listed yet has neither stock nor sales. *)
UnlistedEmpty == \A p \in Products \ listed : stock[p] = 0 /\ sales[p] = 0

(* What a request is about, at each of its steps. *)
About(step, d, b) ==
  /\ step \in OrderSteps => d \in Orders
  /\ step \in {"short", "sold"} => b # <<>>
  /\ step \in ProductSteps => d \in listed

RequestsOK ==
  /\ pc \in [Requests -> {"idle", "done"} \cup OrderSteps \cup ProductSteps]
  /\ doc \in [Requests -> Products \cup Orders]
  /\ basket \in [Requests -> Seq(Item)]
  /\ num \in [Requests -> Int]
  /\ copyQ \in [Requests -> Int] /\ copyS \in [Requests -> Int]
  /\ \A r \in Requests : About(pc[r], doc[r], basket[r])

StockInv == OrdersOK /\ ProductsOK /\ UnlistedEmpty /\ NoOversell /\ RequestsOK

-----------------------------------------------------------------------------
LEMMA AnyTyped == AnyProduct \in Products
BY StockAssumption DEF AnyProduct

LEMMA BasketTyped ==
  ASSUME NEW b \in Seq(Item), b # <<>>
  PROVE  Head(b) \in Item /\ Tail(b) \in Seq(Item)
<1>1. ASSUME NEW T, NEW s \in Seq(T), s # <<>> PROVE Head(s) \in T /\ Tail(s) \in Seq(T)
  BY <1>1
<1> QED
  BY <1>1

LEMMA ItemTyped ==
  ASSUME RequestsOK, NEW r \in Requests, basket[r] # <<>>
  PROVE  /\ ItemOf(r).product \in Products /\ ItemOf(r).qty \in Int
         /\ Tail(basket[r]) \in Seq(Item)
<1>1. ItemOf(r) \in Item /\ Tail(basket[r]) \in Seq(Item)
  BY BasketTyped DEF RequestsOK, ItemOf
<1> QED
  BY <1>1 DEF Item

LEMMA FloorTyped == ASSUME NEW n \in Int PROVE Floor(n) \in Nat /\ n <= Floor(n)
BY DEF Floor

LEMMA InitInv == Init => StockInv
<1> SUFFICES ASSUME Init PROVE StockInv
  OBVIOUS
<1>1. OrdersOK
  BY DEF Init, OrdersOK
<1>2. ProductsOK /\ UnlistedEmpty /\ NoOversell
  BY DEF Init, ProductsOK, UnlistedEmpty, NoOversell
<1>3. RequestsOK
  BY AnyTyped DEF Init, RequestsOK, About, OrderSteps, ProductSteps
<1> QED
  BY <1>1, <1>2, <1>3 DEF StockInv

-----------------------------------------------------------------------------
(* How a request moves. *)
LEMMA MoveKeeps ==
  ASSUME RequestsOK, listed \subseteq listed', NEW r \in Requests,
         NEW next \in {"idle", "done"} \cup OrderSteps \cup ProductSteps,
         NEW d \in Products \cup Orders, NEW b \in Seq(Item), NEW n \in Int,
         NEW q \in Int, NEW s \in Int,
         pc' = [pc EXCEPT ![r] = next], doc' = [doc EXCEPT ![r] = d],
         basket' = [basket EXCEPT ![r] = b], num' = [num EXCEPT ![r] = n],
         copyQ' = [copyQ EXCEPT ![r] = q], copyS' = [copyS EXCEPT ![r] = s],
         About(next, d, b)'
  PROVE  RequestsOK'
BY DEF RequestsOK, About

LEMMA EndKeeps ==
  ASSUME RequestsOK, listed \subseteq listed', NEW r \in Requests, End(r)
  PROVE  RequestsOK'
<1>1. About("done", AnyProduct, <<>>)'
  BY DEF About, OrderSteps, ProductSteps
<1>2. AnyProduct \in Products \cup Orders /\ <<>> \in Seq(Item) /\ 0 \in Int
      /\ "done" \in {"idle", "done"} \cup OrderSteps \cup ProductSteps
  BY AnyTyped
<1> QED
  BY <1>1, <1>2, MoveKeeps DEF End

LEMMA GotoKeeps ==
  ASSUME RequestsOK, listed \subseteq listed', NEW r \in Requests,
         NEW next \in OrderSteps \cup ProductSteps, Goto(r, next),
         About(next, doc[r], basket[r])
  PROVE  RequestsOK'
BY DEF RequestsOK, About, Goto

LEMMA StillKeeps ==
  ASSUME RequestsOK, listed \subseteq listed', UNCHANGED requestVars
  PROVE  RequestsOK'
BY DEF RequestsOK, About, requestVars

-----------------------------------------------------------------------------
(* Orders. *)
LEMMA OrderKeepsInv ==
  ASSUME StockInv, NEW o \in Orders, NEW s \in OrderStatus, NEW b \in Baskets,
         CreateOrder(o, s, b) \/ UpdateOrder(o, s, b)
  PROVE  StockInv'
<1>1. UNCHANGED productVars /\ UNCHANGED requestVars
  BY DEF CreateOrder, UpdateOrder
<1>2. OrdersOK'
  BY StockAssumption DEF StockInv, OrdersOK, CreateOrder, UpdateOrder, MarkIf
<1>3. RequestsOK'
  BY <1>1, StillKeeps DEF StockInv, productVars
<1> QED
  BY <1>1, <1>2, <1>3 DEF StockInv, ProductsOK, UnlistedEmpty, NoOversell, productVars

LEMMA ConfirmKeepsInv ==
  ASSUME StockInv, NEW r \in Requests,
         (\E o \in Orders : LoadOrder(r, o)) \/ SavePaid(r) \/ AnswerConfirm(r)
  PROVE  StockInv'
<1>1. UNCHANGED productVars
  BY DEF LoadOrder, SavePaid, AnswerConfirm
<1>2. ProductsOK' /\ UnlistedEmpty' /\ NoOversell' /\ listed' = listed
  BY <1>1 DEF StockInv, ProductsOK, UnlistedEmpty, NoOversell, productVars
<1>3. ASSUME NEW o \in Orders, LoadOrder(r, o) PROVE OrdersOK' /\ RequestsOK'
  <2>1. OrdersOK'
    BY <1>3 DEF LoadOrder, orderVars, StockInv, OrdersOK
  <2>2. RequestsOK'
    BY <1>2, <1>3 DEF LoadOrder, StockInv, OrdersOK, RequestsOK, About,
                      OrderSteps, ProductSteps
  <2> QED
    BY <2>1, <2>2
<1>4. CASE SavePaid(r)
  <2>1. doc[r] \in Orders
    BY <1>4 DEF SavePaid, StockInv, RequestsOK, About, OrderSteps
  <2>2. OrdersOK'
    BY <1>4, <2>1 DEF SavePaid, MarkIf, StockInv, OrdersOK, OrderStatus
  <2>3. About("items", doc[r], basket[r]) /\ "items" \in OrderSteps
    BY <2>1 DEF About, OrderSteps, ProductSteps
  <2>4. RequestsOK'
    BY <1>2, <1>4, <2>3, GotoKeeps DEF SavePaid, StockInv
  <2> QED
    BY <1>2, <2>2, <2>4 DEF StockInv
<1>5. CASE AnswerConfirm(r)
  <2>1. OrdersOK'
    BY <1>5 DEF AnswerConfirm, orderVars, StockInv, OrdersOK
  <2>2. RequestsOK'
    BY <1>2, <1>5, EndKeeps DEF AnswerConfirm, StockInv
  <2> QED
    BY <1>2, <2>1, <2>2 DEF StockInv
<1> QED
  BY <1>2, <1>3, <1>4, <1>5 DEF StockInv

(* An item is sold only out of what is there. *)
LEMMA TakeKeepsInv ==
  ASSUME StockInv, NEW r \in Requests, TakeItem(r)
  PROVE  StockInv'
<1> DEFINE p == ItemOf(r).product
           q == ItemOf(r).qty
<1>1. pc[r] = "items" /\ basket[r] # <<>> /\ doc[r] \in Orders /\ RequestsOK
  BY DEF TakeItem, MoreItems, StockInv, RequestsOK, About, OrderSteps
<1>2. p \in Products /\ q \in Int
  BY <1>1, ItemTyped
<1>3. /\ UNCHANGED orderVars
      /\ UNCHANGED <<listed, logged, supplied, raced, clamped, lost, unlogged>>
  BY DEF TakeItem
<1>4. OrdersOK'
  BY <1>3 DEF orderVars, StockInv, OrdersOK
<1>5. stock[p] \in Int /\ sales[p] \in Int /\ supplied[p] \in Nat
  BY <1>2 DEF StockInv, ProductsOK
<1> HIDE DEF p, q
<1>6. CASE Available(p, q)
  <2>1. /\ stock' = [stock EXCEPT ![p] = @ - q] /\ sales' = [sales EXCEPT ![p] = @ + q]
        /\ Goto(r, "sold") /\ p \in listed /\ stock[p] >= q
    BY <1>6 DEF TakeItem, Available, p, q
  <2>2. ProductsOK'
    BY <1>2, <1>3, <1>5, <2>1 DEF StockInv, ProductsOK
  <2>3. UnlistedEmpty' /\ NoOversell'
    BY <1>2, <1>3, <1>5, <2>1 DEF StockInv, ProductsOK, UnlistedEmpty, NoOversell
  <2>4. About("sold", doc[r], basket[r]) /\ "sold" \in OrderSteps
    BY <1>1 DEF About, OrderSteps, ProductSteps
  <2>5. RequestsOK'
    BY <1>1, <1>3, <2>1, <2>4, GotoKeeps
  <2> QED
    BY <1>4, <2>2, <2>3, <2>5 DEF StockInv
<1>7. CASE ~Available(p, q)
  <2>1. Goto(r, "short") /\ UNCHANGED <<stock, sales>>
    BY <1>7 DEF TakeItem, p, q
  <2>2. ProductsOK' /\ UnlistedEmpty' /\ NoOversell'
    BY <1>3, <2>1 DEF StockInv, ProductsOK, UnlistedEmpty, NoOversell
  <2>3. About("short", doc[r], basket[r]) /\ "short" \in OrderSteps
    BY <1>1 DEF About, OrderSteps, ProductSteps
  <2>4. RequestsOK'
    BY <1>1, <1>3, <2>1, <2>3, GotoKeeps
  <2> QED
    BY <1>4, <2>2, <2>4 DEF StockInv
<1> QED
  BY <1>6, <1>7

LEMMA NextItemKeeps ==
  ASSUME RequestsOK, listed \subseteq listed', NEW r \in Requests,
         pc[r] \in {"short", "sold"}, NextItem(r)
  PROVE  RequestsOK' /\ UNCHANGED orderVars
<1>1. doc[r] \in Orders /\ basket[r] # <<>>
  BY DEF RequestsOK, About, OrderSteps
<1>2. Tail(basket[r]) \in Seq(Item)
  BY <1>1, ItemTyped
<1>3. /\ pc' = [pc EXCEPT ![r] = "items"] /\ basket' = [basket EXCEPT ![r] = Tail(@)]
      /\ UNCHANGED <<orderVars, doc, num, copyQ, copyS>>
  BY DEF NextItem
<1>4. \A x \in Requests \ {r} : About(pc[x], doc[x], basket[x])'
  BY <1>3 DEF RequestsOK, About
<1>5. About(pc[r], doc[r], basket[r])'
  BY <1>1, <1>3 DEF RequestsOK, About, OrderSteps, ProductSteps
<1> QED
  BY <1>2, <1>3, <1>4, <1>5 DEF RequestsOK, OrderSteps

(* A shortfall writes off what is there, which can only make room. *)
LEMMA WriteOffKeepsInv ==
  ASSUME StockInv, NEW r \in Requests, WriteOff(r)
  PROVE  StockInv'
<1> DEFINE p == ItemOf(r).product
<1>1. pc[r] = "short" /\ basket[r] # <<>> /\ RequestsOK
  BY DEF WriteOff, StockInv, RequestsOK, About, OrderSteps
<1>2. p \in Products
  BY <1>1, ItemTyped
<1>3. /\ stock' = [stock EXCEPT ![p] = 0] /\ lost' = [lost EXCEPT ![p] = @ + stock[p]]
      /\ UNCHANGED <<listed, sales, logged, supplied, raced, clamped, unlogged>>
      /\ NextItem(r)
  BY DEF WriteOff
<1>4. RequestsOK' /\ UNCHANGED orderVars
  BY <1>1, <1>3, NextItemKeeps
<1> HIDE DEF p
<1>5. stock[p] \in Int /\ sales[p] \in Int /\ supplied[p] \in Nat /\ lost[p] \in Int
  BY <1>2 DEF StockInv, ProductsOK
<1>6. OrdersOK'
  BY <1>4 DEF orderVars, StockInv, OrdersOK
<1>7. ProductsOK'
  BY <1>2, <1>3, <1>5 DEF StockInv, ProductsOK
<1>8. UnlistedEmpty' /\ NoOversell'
  BY <1>2, <1>3, <1>5 DEF StockInv, ProductsOK, UnlistedEmpty, NoOversell
<1> QED
  BY <1>4, <1>6, <1>7, <1>8 DEF StockInv

-----------------------------------------------------------------------------
(* Log entries, loads and failures move neither stock nor sales. *)
LEMMA LogKeepsInv ==
  ASSUME StockInv, NEW r \in Requests,
         \/ LogSale(r) \/ MissSaleLog(r) \/ LogNumber(r) \/ LogLevel(r) \/ LogLevelFirst(r)
         \/ Fail(r)
         \/ \E p \in Products, next \in {"change", "level", "put"}, n \in Int :
              LoadProduct(r, p, next, n)
  PROVE  StockInv'
<1>1. ASSUME UNCHANGED orderVars,
             UNCHANGED <<listed, stock, sales, supplied, raced, clamped, lost>>,
             logged' \in [Products -> Int], unlogged' \subseteq Products, RequestsOK'
      PROVE  StockInv'
  BY <1>1 DEF orderVars, StockInv, OrdersOK, ProductsOK, UnlistedEmpty, NoOversell
<1>2. /\ ProductsOK /\ RequestsOK /\ num[r] \in Int /\ copyQ[r] \in Int
      /\ About(pc[r], doc[r], basket[r])
  BY DEF StockInv, RequestsOK
<1>3. pc[r] = "sold" => ItemOf(r).product \in Products /\ ItemOf(r).qty \in Int
  BY <1>2, ItemTyped DEF About
<1>4. pc[r] \in ProductSteps => doc[r] \in Products
  BY <1>2 DEF About, ProductsOK
<1>5. CASE LogSale(r)
  <2>1. logged' \in [Products -> Int]
    BY <1>2, <1>3, <1>5 DEF LogSale, SaleDelta, ProductsOK
  <2>2. RequestsOK' /\ UNCHANGED orderVars
    BY <1>2, <1>5, NextItemKeeps DEF LogSale
  <2>3. UNCHANGED <<listed, stock, sales, supplied, raced, clamped, lost>>
        /\ unlogged' \subseteq Products
    BY <1>2, <1>5 DEF LogSale, ProductsOK
  <2> QED
    BY <1>1, <2>1, <2>2, <2>3
<1>6. CASE MissSaleLog(r)
  <2>1. RequestsOK' /\ UNCHANGED orderVars
    BY <1>2, <1>6, NextItemKeeps DEF MissSaleLog
  <2>2. /\ UNCHANGED <<listed, stock, sales, supplied, raced, clamped, lost>>
        /\ unlogged' \subseteq Products /\ logged' \in [Products -> Int]
    BY <1>2, <1>3, <1>6 DEF MissSaleLog, ProductsOK
  <2> QED
    BY <1>1, <2>1, <2>2
<1>7. ASSUME NEW n \in Int, pc[r] \in ProductSteps, Log(r, n),
             End(r) \/ (pc[r] = "level" /\ Goto(r, "levelLogged"))
      PROVE  StockInv'
  <2>1. logged' \in [Products -> Int]
    BY <1>2, <1>4, <1>7 DEF Log, ProductsOK
  <2>2. UNCHANGED orderVars /\ UNCHANGED <<listed, stock, sales, supplied, raced, clamped, lost>>
        /\ unlogged' \subseteq Products
    BY <1>2, <1>7 DEF Log, ProductsOK
  <2>3. CASE End(r)
    BY <1>1, <1>2, <2>1, <2>2, <2>3, EndKeeps
  <2>4. CASE pc[r] = "level" /\ Goto(r, "levelLogged")
    <3>1. About("levelLogged", doc[r], basket[r]) /\ "levelLogged" \in ProductSteps
      BY <1>2, <2>4 DEF About, OrderSteps, ProductSteps
    <3> QED
      BY <1>1, <1>2, <2>1, <2>2, <2>4, <3>1, GotoKeeps
  <2> QED
    BY <1>7, <2>3, <2>4
<1>8. CASE LogNumber(r) \/ LogLevel(r) \/ LogLevelFirst(r)
  <2>1. num[r] - copyQ[r] \in Int
    BY <1>2
  <2> QED
    BY <1>2, <1>7, <1>8, <2>1 DEF LogNumber, LogLevel, LogLevelFirst, ProductSteps
<1>9. CASE Fail(r)
  <2>1. Torn(r) => Target(r) \in Products
    BY <1>3, <1>4 DEF Torn, Target, ProductSteps
  <2>2. unlogged' \subseteq Products
    BY <1>2, <1>9, <2>1 DEF Fail, ProductsOK
  <2>3. RequestsOK' /\ logged' \in [Products -> Int]
    BY <1>2, <1>9, EndKeeps DEF Fail, ProductsOK
  <2> QED
    BY <1>1, <1>9, <2>2, <2>3 DEF Fail
<1>10. ASSUME NEW p \in Products, NEW next \in {"change", "level", "put"}, NEW n \in Int,
             LoadProduct(r, p, next, n)
      PROVE  StockInv'
  <2> DEFINE s == IF next = "change" /\ n < 0 THEN sales[p] ELSE 0
  <2>1. /\ pc' = [pc EXCEPT ![r] = next] /\ doc' = [doc EXCEPT ![r] = p]
        /\ num' = [num EXCEPT ![r] = n] /\ copyQ' = [copyQ EXCEPT ![r] = stock[p]]
        /\ copyS' = [copyS EXCEPT ![r] = s] /\ basket' = basket
        /\ listed' = listed /\ p \in listed
    BY <1>10 DEF LoadProduct, productVars
  <2>2. stock[p] \in Int /\ s \in Int
    BY <1>2 DEF ProductsOK
  <2> HIDE DEF s
  <2>3. \A x \in Requests : About(pc[x], doc[x], basket[x])'
    BY <1>2, <2>1 DEF RequestsOK, About, OrderSteps, ProductSteps
  <2>4. RequestsOK'
    BY <1>2, <2>1, <2>2, <2>3 DEF RequestsOK, ProductSteps
  <2> QED
    BY <1>1, <1>2, <1>10, <2>4 DEF LoadProduct, productVars, ProductsOK
<1> QED
  BY <1>5, <1>6, <1>8, <1>9, <1>10

LEMMA NewProductKeepsInv ==
  ASSUME StockInv, NEW p \in Products, NEW n \in Int,
         (\E r \in Requests : AddProduct(r, p, n)) \/ CreateProduct(p, n)
  PROVE  StockInv'
<1>1. /\ p \notin listed /\ listed' = listed \cup {p}
      /\ stock' = [stock EXCEPT ![p] = n]
      /\ supplied' = [supplied EXCEPT ![p] = @ + Floor(n)]
      /\ UNCHANGED orderVars /\ UNCHANGED <<sales, logged, raced, clamped, lost>>
  BY DEF AddProduct, CreateProduct, Supply
<1>2. unlogged' \subseteq Products
  BY DEF AddProduct, CreateProduct, MarkIf, StockInv, ProductsOK
<1>3. stock[p] = 0 /\ sales[p] = 0 /\ supplied[p] \in Nat
      /\ Floor(n) \in Nat /\ n <= Floor(n)
  BY <1>1, FloorTyped DEF StockInv, UnlistedEmpty, ProductsOK
<1>4. OrdersOK' /\ ProductsOK' /\ UnlistedEmpty' /\ NoOversell'
  <2>1. OrdersOK'
    BY <1>1 DEF orderVars, StockInv, OrdersOK
  <2>2. ProductsOK'
    BY <1>1, <1>2, <1>3 DEF StockInv, ProductsOK
  <2>3. UnlistedEmpty' /\ NoOversell'
    BY <1>1, <1>3 DEF StockInv, ProductsOK, UnlistedEmpty, NoOversell
  <2> QED
    BY <2>1, <2>2, <2>3
<1>5. RequestsOK'
  <2>1. CASE CreateProduct(p, n)
    BY <1>1, <2>1, StillKeeps DEF CreateProduct, StockInv
  <2>2. ASSUME NEW r \in Requests, AddProduct(r, p, n) PROVE RequestsOK'
    BY <1>1, <2>2 DEF AddProduct, StockInv, RequestsOK, About, OrderSteps, ProductSteps
  <2> QED
    BY <2>1, <2>2
<1> QED
  BY <1>4, <1>5 DEF StockInv

-----------------------------------------------------------------------------
(* A seller's save: what is added to the stock was supplied, what is taken *)
(* out by hand is counted as sold.                                         *)
LEMMA ChangeKeepsInv ==
  ASSUME StockInv, NEW r \in Requests, SaveChange(r)
  PROVE  StockInv'
<1> DEFINE p == doc[r]
<1>1. /\ pc[r] = "change" /\ p \in listed /\ p \in Products
      /\ num[r] \in Int /\ copyQ[r] \in Int /\ copyS[r] \in Int
      /\ About(pc[r], doc[r], basket[r]) /\ RequestsOK
  BY DEF SaveChange, StockInv, RequestsOK, ProductsOK, About, ProductSteps
<1>2. stock[p] \in Int /\ sales[p] \in Int /\ supplied[p] \in Nat
      /\ Floor(num[r]) \in Nat /\ num[r] <= Floor(num[r])
  BY <1>1, FloorTyped DEF StockInv, ProductsOK
<1>3. Changed(r) \in Nat
      /\ (copyQ[r] + num[r] >= 0 => Changed(r) = copyQ[r] + num[r])
  BY <1>1 DEF Changed, Floor
<1>4. /\ stock' = IF Changed(r) # copyQ[r] THEN [stock EXCEPT ![p] = Changed(r)] ELSE stock
      /\ sales' = IF num[r] < 0 THEN [sales EXCEPT ![p] = copyS[r] - num[r]] ELSE sales
      /\ supplied' = [supplied EXCEPT ![p] = @ + Floor(num[r])]
      /\ raced' = MarkIf(raced, p, \/ (Changed(r) # copyQ[r] /\ copyQ[r] # stock[p])
                                    \/ (num[r] < 0 /\ copyS[r] # sales[p]))
      /\ clamped' = MarkIf(clamped, p, copyQ[r] + num[r] < 0)
      /\ Goto(r, "log") /\ UNCHANGED orderVars /\ UNCHANGED <<listed, logged, lost, unlogged>>
  BY DEF SaveChange, Supply, SoldByHand
<1> HIDE DEF p
<1>5. OrdersOK'
  BY <1>4 DEF orderVars, StockInv, OrdersOK
<1>6. ProductsOK'
  BY <1>1, <1>2, <1>3, <1>4 DEF StockInv, ProductsOK, MarkIf
<1>7. UnlistedEmpty'
  BY <1>1, <1>4 DEF StockInv, ProductsOK, UnlistedEmpty
<1>8. ASSUME p \notin raced', p \notin clamped'
      PROVE  sales'[p] <= supplied'[p] /\ stock'[p] + sales'[p] <= supplied'[p]
  <2>1. /\ p \notin raced /\ p \notin clamped /\ copyQ[r] + num[r] >= 0
        /\ Changed(r) # copyQ[r] => copyQ[r] = stock[p]
        /\ num[r] < 0 => copyS[r] = sales[p]
    BY <1>1, <1>4, <1>8 DEF MarkIf
  <2>2. sales[p] <= supplied[p] /\ stock[p] + sales[p] <= supplied[p]
    BY <1>1, <2>1 DEF StockInv, NoOversell
  <2>3. supplied'[p] = supplied[p] + Floor(num[r])
    BY <1>1, <1>4 DEF StockInv, ProductsOK
  <2>4. CASE num[r] < 0
    <3>1. /\ stock'[p] = stock[p] + num[r] /\ stock'[p] >= 0
          /\ sales'[p] = sales[p] - num[r] /\ supplied'[p] = supplied[p]
      BY <1>1, <1>2, <1>3, <1>4, <2>1, <2>3, <2>4 DEF StockInv, ProductsOK, Floor
    <3> QED
      BY <1>1, <1>2, <2>2, <3>1
  <2>5. CASE num[r] >= 0
    <3>1. /\ stock'[p] = stock[p] + num[r] /\ sales'[p] = sales[p]
          /\ supplied'[p] = supplied[p] + num[r]
      BY <1>1, <1>2, <1>3, <1>4, <2>1, <2>3, <2>5 DEF StockInv, ProductsOK, Floor
    <3> QED
      BY <1>1, <1>2, <2>2, <2>5, <3>1
  <2> QED
    BY <1>1, <2>4, <2>5
<1>9. NoOversell'
  <2>1. ASSUME NEW x \in Products \ (raced' \cup clamped'), x # p
        PROVE  sales'[x] <= supplied'[x] /\ stock'[x] + sales'[x] <= supplied'[x]
    <3>1. x \notin raced /\ x \notin clamped /\ stock'[x] = stock[x]
          /\ sales'[x] = sales[x] /\ supplied'[x] = supplied[x]
      BY <1>1, <1>4, <2>1 DEF MarkIf, StockInv, ProductsOK
    <3> QED
      BY <2>1, <3>1 DEF StockInv, NoOversell
  <2> QED
    BY <1>8, <2>1 DEF NoOversell
<1>10. RequestsOK'
  <2>1. About("log", doc[r], basket[r]) /\ "log" \in ProductSteps
    BY <1>1 DEF About, OrderSteps, ProductSteps
  <2> QED
    BY <1>1, <1>4, <2>1, GotoKeeps
<1> QED
  BY <1>5, <1>6, <1>7, <1>9, <1>10 DEF StockInv

LEMMA QuantityKeepsInv ==
  ASSUME StockInv, NEW r \in Requests,
         SaveLevel(r) \/ SaveLoggedLevel(r) \/ SavePut(r)
  PROVE  StockInv'
<1> DEFINE p == doc[r]
<1>1. /\ pc[r] \in {"level", "levelLogged", "put"} /\ p \in listed /\ p \in Products
      /\ num[r] \in Int /\ copyQ[r] \in Int
      /\ About(pc[r], doc[r], basket[r]) /\ RequestsOK
  BY DEF SaveLevel, SaveLoggedLevel, SavePut, StockInv, RequestsOK, ProductsOK, About,
         ProductSteps
<1>2. /\ stock' = IF num[r] # copyQ[r] THEN [stock EXCEPT ![p] = num[r]] ELSE stock
      /\ supplied' = [supplied EXCEPT ![p] = @ + Floor(num[r] - copyQ[r])]
      /\ raced' = MarkIf(raced, p, num[r] # copyQ[r] /\ copyQ[r] # stock[p])
      /\ UNCHANGED orderVars /\ UNCHANGED <<listed, sales, logged, clamped, lost>>
  BY DEF SaveLevel, SaveLoggedLevel, SavePut, SaveQuantity, Supply
<1>3. unlogged' \subseteq Products
  BY <1>1 DEF SaveLevel, SaveLoggedLevel, SavePut, MarkIf, StockInv, ProductsOK
<1>4. RequestsOK'
  <2>1. End(r) \/ (pc[r] = "level" /\ Goto(r, "logLevel"))
    BY DEF SaveLevel, SaveLoggedLevel, SavePut
  <2>2. CASE pc[r] = "level" /\ Goto(r, "logLevel")
    <3>1. About("logLevel", doc[r], basket[r]) /\ "logLevel" \in ProductSteps
      BY <1>1 DEF About, OrderSteps, ProductSteps
    <3> QED
      BY <1>1, <1>2, <2>2, <3>1, GotoKeeps
  <2> QED
    BY <1>1, <1>2, <2>1, <2>2, EndKeeps
<1> HIDE DEF p
<1>5. stock[p] \in Int /\ sales[p] \in Int /\ supplied[p] \in Nat
      /\ Floor(num[r] - copyQ[r]) \in Nat /\ num[r] - copyQ[r] <= Floor(num[r] - copyQ[r])
  BY <1>1, FloorTyped DEF StockInv, ProductsOK
<1>6. OrdersOK'
  BY <1>2 DEF orderVars, StockInv, OrdersOK
<1>7. ProductsOK'
  BY <1>1, <1>2, <1>3, <1>5 DEF StockInv, ProductsOK, MarkIf
<1>8. UnlistedEmpty'
  BY <1>1, <1>2 DEF StockInv, ProductsOK, UnlistedEmpty
<1>9. ASSUME p \notin raced', p \notin clamped'
      PROVE  sales'[p] <= supplied'[p] /\ stock'[p] + sales'[p] <= supplied'[p]
  <2>1. /\ p \notin raced /\ p \notin clamped
        /\ num[r] # copyQ[r] => copyQ[r] = stock[p]
    BY <1>1, <1>2, <1>9 DEF MarkIf
  <2>2. sales[p] <= supplied[p] /\ stock[p] + sales[p] <= supplied[p]
    BY <1>1, <2>1 DEF StockInv, NoOversell
  <2>3. /\ supplied'[p] = supplied[p] + Floor(num[r] - copyQ[r]) /\ sales'[p] = sales[p]
        /\ stock'[p] = IF num[r] # copyQ[r] THEN num[r] ELSE stock[p]
    BY <1>1, <1>2 DEF StockInv, ProductsOK
  <2> QED
    BY <1>1, <1>5, <2>1, <2>2, <2>3
<1>10. NoOversell'
  <2>1. ASSUME NEW x \in Products \ (raced' \cup clamped'), x # p
        PROVE  sales'[x] <= supplied'[x] /\ stock'[x] + sales'[x] <= supplied'[x]
    <3>1. x \notin raced /\ x \notin clamped /\ stock'[x] = stock[x]
          /\ sales'[x] = sales[x] /\ supplied'[x] = supplied[x]
      BY <1>1, <1>2, <2>1 DEF MarkIf, StockInv, ProductsOK
    <3> QED
      BY <2>1, <3>1 DEF StockInv, NoOversell
  <2> QED
    BY <1>9, <2>1 DEF NoOversell
<1> QED
  BY <1>4, <1>6, <1>7, <1>8, <1>10 DEF StockInv

-----------------------------------------------------------------------------
LEMMA StepKeepsInv == StockInv /\ [Next]_vars => StockInv'
<1> SUFFICES ASSUME StockInv, [Next]_vars PROVE StockInv'
  OBVIOUS
<1> USE StockAssumption
<1>1. CASE UNCHANGED vars
  BY <1>1, StillKeeps DEF vars, orderVars, productVars, requestVars, StockInv, OrdersOK,
                          ProductsOK, UnlistedEmpty, NoOversell
<1>2. CASE \E o \in Orders, s \in OrderStatus, b \in Baskets :
            CreateOrder(o, s, b) \/ UpdateOrder(o, s, b)
  BY <1>2, OrderKeepsInv
<1>3. CASE \E p \in Products, n \in Levels : CreateProduct(p, n)
  BY <1>3, NewProductKeepsInv
<1>4. ASSUME NEW r \in Requests, Start(r) PROVE StockInv'
  <2>1. ASSUME NEW p \in Products, NEW n \in Levels, AddProduct(r, p, n) PROVE StockInv'
    BY <2>1, NewProductKeepsInv
  <2>2. ASSUME NEW p \in Products, NEW n \in Int, NEW next \in {"change", "level", "put"},
               LoadProduct(r, p, next, n)
        PROVE  StockInv'
    BY <2>2, LogKeepsInv
  <2>3. CASE \E o \in Orders : LoadOrder(r, o)
    BY <2>3, ConfirmKeepsInv
  <2> QED
    BY <1>4, <2>1, <2>2, <2>3 DEF Start
<1>5. ASSUME NEW r \in Requests, Step(r) PROVE StockInv'
  BY <1>5, ConfirmKeepsInv, TakeKeepsInv, WriteOffKeepsInv, LogKeepsInv, ChangeKeepsInv,
     QuantityKeepsInv DEF Step
<1> QED
  BY <1>1, <1>2, <1>3, <1>4, <1>5 DEF Next

(* Types, what a request is about and the bound on sales hold together.    *)
THEOREM StockInvariant == Spec => []StockInv
BY InitInv, StepKeepsInv, PTL DEF Spec

(* Types; a request is always about a document of the kind its step needs. *)
THEOREM StockTyped == Spec => []TypeOK
<1>1. StockInv => TypeOK
  BY DEF StockInv, OrdersOK, ProductsOK, RequestsOK, About, TypeOK
<1> QED
  BY <1>1, StockInvariant, PTL

(* Nothing is sold that did not come in, however confirmations and sellers *)
(* overlap, but for overwritten or floored changes.                        *)
THEOREM NothingOversold == Spec => []NoOversell
<1>1. StockInv => NoOversell
  BY DEF StockInv
<1> QED
  BY <1>1, StockInvariant, PTL
-----------------------------------------------------------------------------
(* An order whose items were taken is paid and cannot be loaded for a      *)
(* confirmation; one that was loaded had not been confirmed.               *)
OnceInv ==
  /\ \A o \in Orders \ reopened : /\ confirmed[o] \in {0, 1}
                                  /\ confirmed[o] = 1 => order[o] = "paid"
  /\ \A r \in Requests : pc[r] = "confirm" /\ doc[r] \notin reopened => num[r] = 0

(* Every step outside the orders leaves them and the loaded ones alone. *)
LEMMA ElsewhereKeepsOnce ==
  ASSUME OnceInv, RequestsOK, UNCHANGED orderVars,
         \A r \in Requests : pc'[r] = "confirm" =>
            pc[r] = "confirm" /\ doc'[r] = doc[r] /\ num'[r] = num[r]
  PROVE  OnceInv'
BY DEF OnceInv, orderVars

LEMMA OrderKeepsOnce ==
  ASSUME StockInv, OnceInv, NEW o \in Orders, NEW s \in OrderStatus, NEW b \in Baskets,
         CreateOrder(o, s, b) \/ UpdateOrder(o, s, b)
  PROVE  OnceInv'
<1>1. /\ UNCHANGED <<pc, doc, num, confirmed>> /\ order' = [order EXCEPT ![o] = s]
      /\ reopened' = IF order[o] = "paid" /\ s # "paid" THEN reopened \cup {o} ELSE reopened
  BY DEF CreateOrder, UpdateOrder, requestVars, MarkIf
<1> QED
  BY <1>1 DEF StockInv, OrdersOK, OnceInv, OrderStatus

LEMMA ConfirmKeepsOnce ==
  ASSUME StockInv, OnceInv, NEW r \in Requests,
         (\E o \in Orders : LoadOrder(r, o)) \/ SavePaid(r)
  PROVE  OnceInv'
<1>1. ASSUME NEW o \in Orders, LoadOrder(r, o) PROVE OnceInv'
  <2>1. o \notin reopened => confirmed[o] = 0
    BY <1>1 DEF LoadOrder, Confirmable, OnceInv
  <2> QED
    BY <1>1, <2>1 DEF LoadOrder, orderVars, OnceInv, StockInv, RequestsOK
<1>2. CASE SavePaid(r)
  <2>1. doc[r] \in Orders /\ confirmed[doc[r]] \in Nat
    BY <1>2 DEF SavePaid, StockInv, RequestsOK, OrdersOK, About, OrderSteps
  <2>2. /\ order' = [order EXCEPT ![doc[r]] = "paid"]
        /\ confirmed' = [confirmed EXCEPT ![doc[r]] = @ + 1]
        /\ reopened' = IF confirmed[doc[r]] # num[r] THEN reopened \cup {doc[r]} ELSE reopened
        /\ pc' = [pc EXCEPT ![r] = "items"] /\ UNCHANGED <<doc, num>> /\ pc[r] = "confirm"
    BY <1>2 DEF SavePaid, Goto, MarkIf
  <2>3. ASSUME NEW o \in Orders \ reopened'
        PROVE  confirmed'[o] \in {0, 1} /\ (confirmed'[o] = 1 => order'[o] = "paid")
    BY <2>1, <2>2, <2>3 DEF OnceInv, StockInv, OrdersOK
  <2>4. ASSUME NEW x \in Requests, pc'[x] = "confirm", doc'[x] \notin reopened'
        PROVE  num'[x] = 0
    BY <2>2, <2>4 DEF OnceInv, StockInv, RequestsOK
  <2> QED
    BY <2>3, <2>4 DEF OnceInv
<1> QED
  BY <1>1, <1>2

LEMMA StepKeepsOnce == StockInv /\ OnceInv /\ [Next]_vars => OnceInv'
<1> SUFFICES ASSUME StockInv, OnceInv, [Next]_vars PROVE OnceInv'
  OBVIOUS
<1> USE DEF StockInv
<1>1. CASE UNCHANGED vars
  BY <1>1 DEF vars, orderVars, requestVars, OnceInv
<1>2. CASE \E o \in Orders, s \in OrderStatus, b \in Baskets :
            CreateOrder(o, s, b) \/ UpdateOrder(o, s, b)
  BY <1>2, OrderKeepsOnce
<1>3. CASE \E p \in Products, n \in Levels : CreateProduct(p, n)
  BY <1>3, ElsewhereKeepsOnce DEF CreateProduct, requestVars
<1>4. ASSUME NEW r \in Requests, Start(r) PROVE OnceInv'
  <2>1. ASSUME NEW p \in Products, NEW n \in Levels, AddProduct(r, p, n) PROVE OnceInv'
    BY <2>1, ElsewhereKeepsOnce DEF AddProduct, RequestsOK
  <2>2. ASSUME NEW p \in Products, NEW n, NEW next \in {"change", "level", "put"},
               LoadProduct(r, p, next, n)
        PROVE  OnceInv'
    BY <2>2, ElsewhereKeepsOnce DEF LoadProduct, RequestsOK
  <2>3. CASE \E o \in Orders : LoadOrder(r, o)
    BY <2>3, ConfirmKeepsOnce
  <2> QED
    BY <1>4, <2>1, <2>2, <2>3 DEF Start
<1>5. ASSUME NEW r \in Requests, Step(r) PROVE OnceInv'
  <2>1. CASE SavePaid(r)
    BY <2>1, ConfirmKeepsOnce
  <2>2. CASE AnswerConfirm(r) \/ Fail(r) \/ SaveLoggedLevel(r) \/ SavePut(r)
             \/ LogNumber(r) \/ LogLevel(r)
    BY <2>2, ElsewhereKeepsOnce
       DEF AnswerConfirm, Fail, SaveLoggedLevel, SavePut, SaveQuantity, LogNumber,
           LogLevel, Log, End, RequestsOK
  <2>3. CASE TakeItem(r) \/ WriteOff(r) \/ LogSale(r) \/ MissSaleLog(r)
    BY <2>3, ElsewhereKeepsOnce
       DEF TakeItem, WriteOff, LogSale, MissSaleLog, NextItem, Goto, RequestsOK
  <2>4. CASE SaveChange(r) \/ SaveLevel(r) \/ LogLevelFirst(r)
    BY <2>4, ElsewhereKeepsOnce
       DEF SaveChange, SaveLevel, SaveQuantity, LogLevelFirst, Log, Goto, RequestsOK
  <2> QED
    BY <1>5, <2>1, <2>2, <2>3, <2>4 DEF Step
<1> QED
  BY <1>1, <1>2, <1>3, <1>4, <1>5 DEF Next

(* The items of an order are taken once, unless the order was unpaid again *)
(* or two of its confirmations overlapped.                                 *)
THEOREM ItemsTakenOnce == Spec => []TakenOnce
<1>1. Init => OnceInv
  BY DEF Init, OnceInv
<1>2. OnceInv => TakenOnce
  BY DEF OnceInv, TakenOnce
<1> QED
  BY <1>1, <1>2, StepKeepsOnce, StockInvariant, PTL DEF Spec
-----------------------------------------------------------------------------
(* The log.  What a request has changed of the stock of p and not logged,  *)
(* or logged and not changed.                                              *)
DebtOf(r, p) ==
  CASE pc[r] = "sold" /\ ItemOf(r).product = p -> 0 - ItemOf(r).qty
    [] pc[r] = "log" /\ doc[r] = p -> num[r]
    [] pc[r] = "logLevel" /\ doc[r] = p -> num[r] - copyQ[r]
    [] pc[r] = "levelLogged" /\ doc[r] = p -> copyQ[r] - num[r]
    [] OTHER -> 0
Debt(p) == [r \in Requests |-> DebtOf(r, p)]

(* The requests that have begun: finitely many, whatever Requests is. *)
Begun == {r \in Requests : pc[r] # "idle"}

(* The stock of a product, and what was written off of it, at any moment,  *)
(* its requests answered or not.                                           *)
Explained ==
  \A p \in Products \ (raced \cup clamped \cup unlogged) :
    stock[p] + lost[p] = logged[p] + SumFunctionOnSet(Debt(p), Begun)

LogInv == IsFiniteSet(Begun) /\ Explained

(* The debt at each step. *)
DebtOK ==
  \A p \in Products, r \in Requests :
    /\ Debt(p)[r] \in Int
    /\ pc[r] \notin {"sold", "log", "logLevel", "levelLogged"} => Debt(p)[r] = 0
    /\ Debt(p)[r] # 0 => p = Target(r)
    /\ p = Target(r) => /\ pc[r] = "sold" => Debt(p)[r] = 0 - ItemOf(r).qty
                        /\ pc[r] = "log" => Debt(p)[r] = num[r]
                        /\ pc[r] = "logLevel" => Debt(p)[r] = num[r] - copyQ[r]
                        /\ pc[r] = "levelLogged" => Debt(p)[r] = copyQ[r] - num[r]

LEMMA DebtTyped == StockInv => DebtOK
<1> SUFFICES ASSUME StockInv, NEW p \in Products, NEW r \in Requests
             PROVE  /\ DebtOf(r, p) \in Int
                    /\ pc[r] \notin {"sold", "log", "logLevel", "levelLogged"} => DebtOf(r, p) = 0
                    /\ DebtOf(r, p) # 0 => p = Target(r)
                    /\ p = Target(r) =>
                         /\ pc[r] = "sold" => DebtOf(r, p) = 0 - ItemOf(r).qty
                         /\ pc[r] = "log" => DebtOf(r, p) = num[r]
                         /\ pc[r] = "logLevel" => DebtOf(r, p) = num[r] - copyQ[r]
                         /\ pc[r] = "levelLogged" => DebtOf(r, p) = copyQ[r] - num[r]
  BY DEF DebtOK, Debt
<1>1. /\ num[r] \in Int /\ copyQ[r] \in Int /\ RequestsOK
      /\ pc[r] = "sold" => basket[r] # <<>>
  BY DEF StockInv, RequestsOK, About
<1>2. CASE pc[r] = "sold"
  <2>1. ItemOf(r).qty \in Int
    BY <1>1, <1>2, ItemTyped
  <2> HIDE DEF ItemOf
  <2> QED
    BY <1>2, <2>1 DEF DebtOf, Target
<1>3. CASE pc[r] = "log"
  BY <1>1, <1>3 DEF DebtOf, Target
<1>4. CASE pc[r] = "logLevel"
  BY <1>1, <1>4 DEF DebtOf, Target
<1>5. CASE pc[r] = "levelLogged"
  BY <1>1, <1>5 DEF DebtOf, Target
<1>6. CASE pc[r] \notin {"sold", "log", "logLevel", "levelLogged"}
  BY <1>6 DEF DebtOf, Target
<1> QED
  BY <1>2, <1>3, <1>4, <1>5, <1>6

(* r goes on, or begins; the other requests stay where they are. *)
Advances(r) ==
  /\ pc'[r] # "idle"
  /\ \A s \in Requests \ {r} :
       /\ pc'[s] = pc[s] /\ doc'[s] = doc[s] /\ basket'[s] = basket[s]
       /\ num'[s] = num[s] /\ copyQ'[s] = copyQ[s]

LEMMA StartAdvances ==
  ASSUME RequestsOK, NEW r \in Requests, Start(r)
  PROVE  Advances(r)
<1>1. ASSUME NEW o \in Orders, LoadOrder(r, o) PROVE Advances(r)
  BY <1>1 DEF LoadOrder, Advances, RequestsOK
<1>2. ASSUME NEW p \in Products, NEW n \in Levels, AddProduct(r, p, n) PROVE Advances(r)
  BY <1>2 DEF AddProduct, Advances, RequestsOK
<1>3. ASSUME NEW p \in Products, NEW n, NEW next \in {"change", "level", "put"},
             LoadProduct(r, p, next, n)
      PROVE  Advances(r)
  BY <1>3 DEF LoadProduct, Advances, RequestsOK
<1> QED
  BY <1>1, <1>2, <1>3 DEF Start

LEMMA StepAdvances ==
  ASSUME RequestsOK, NEW r \in Requests, Step(r)
  PROVE  Advances(r)
<1>1. ASSUME NEW next \in OrderSteps \cup ProductSteps, Goto(r, next) PROVE Advances(r)
  BY <1>1 DEF Goto, Advances, RequestsOK, OrderSteps, ProductSteps
<1>2. ASSUME End(r) PROVE Advances(r)
  BY <1>2 DEF End, Advances, RequestsOK
<1>3. CASE SavePaid(r) \/ AnswerConfirm(r)
  BY <1>1, <1>2, <1>3 DEF SavePaid, AnswerConfirm, OrderSteps
<1>4. CASE TakeItem(r)
  BY <1>1, <1>4 DEF TakeItem, Advances, RequestsOK, OrderSteps
<1>5. CASE WriteOff(r) \/ LogSale(r) \/ MissSaleLog(r)
  BY <1>5 DEF WriteOff, LogSale, MissSaleLog, NextItem, Advances, RequestsOK
<1>6. CASE SaveChange(r) \/ SaveLevel(r) \/ SaveLoggedLevel(r) \/ SavePut(r)
  BY <1>1, <1>2, <1>6 DEF SaveChange, SaveLevel, SaveLoggedLevel, SavePut, ProductSteps
<1>7. CASE LogNumber(r) \/ LogLevel(r) \/ LogLevelFirst(r) \/ Fail(r)
  BY <1>1, <1>2, <1>7 DEF LogNumber, LogLevel, LogLevelFirst, Fail, ProductSteps
<1> QED
  BY <1>3, <1>4, <1>5, <1>6, <1>7 DEF Step

LEMMA BegunGrows ==
  ASSUME RequestsOK, RequestsOK', NEW r \in Requests, Advances(r), IsFiniteSet(Begun)
  PROVE  /\ Begun' = Begun \cup {r}
         /\ IsFiniteSet(Begun')
<1>1. Begun' = Begun \cup {r}
  BY DEF Begun, Advances, RequestsOK
<1> QED
  BY <1>1, FS_AddElement

(* A step of r changes the sum of the debts by what it changes of r's. *)
LEMMA DebtStep ==
  ASSUME StockInv, StockInv', NEW r \in Requests, Advances(r), IsFiniteSet(Begun),
         NEW p \in Products
  PROVE  /\ SumFunctionOnSet(Debt(p)', Begun')
              = SumFunctionOnSet(Debt(p), Begun) + Debt(p)'[r] - Debt(p)[r]
         /\ SumFunctionOnSet(Debt(p), Begun) \in Int
         /\ Debt(p)[r] \in Int /\ Debt(p)'[r] \in Int
<1>1. Begun' = Begun \cup {r} /\ IsFiniteSet(Begun') /\ Begun \subseteq Requests
  BY BegunGrows DEF Begun, StockInv
<1>2. \A s \in Requests : Debt(p)[s] \in Int /\ Debt(p)'[s] \in Int
  <2>1. StockInv' => DebtOK'
    BY DebtTyped, PTL
  <2> QED
    BY <2>1, DebtTyped DEF DebtOK
<1>3. \A s \in Requests \ {r} : Debt(p)[s] = Debt(p)'[s]
  BY DEF Debt, DebtOf, ItemOf, Advances
<1>4. SumFunctionOnSet(Debt(p), Begun') = SumFunctionOnSet(Debt(p), Begun)
  <2>1. \A s \in Begun' \ Begun : Debt(p)[s] = 0
    BY <1>1, DebtTyped DEF Begun, DebtOK
  <2> QED
    BY <1>1, <1>2, <2>1, SumOfSupport
<1>5. SumFunctionOnSet(Debt(p)', Begun')
        = SumFunctionOnSet(Debt(p), Begun') + Debt(p)'[r] - Debt(p)[r]
  <2>1. r \in Begun' /\ Begun' \subseteq Requests
    BY <1>1
  <2> QED
    BY <1>1, <1>2, <1>3, <2>1, SumUpdate
<1>6. SumFunctionOnSet(Debt(p), Begun) \in Int
  BY <1>1, <1>2, SumClosed
<1> QED
  BY <1>2, <1>4, <1>5, <1>6

(* A step of r accounts for p: the stock and what was written off move by  *)
(* what the log and the debt of r move together.                           *)
Kept == Products \ (raced \cup clamped \cup unlogged)
Accounts(r, p) ==
  (stock'[p] + lost'[p]) - (stock[p] + lost[p])
    = logged'[p] - logged[p] + (Debt(p)'[r] - Debt(p)[r])

LEMMA BothDebts ==
  ASSUME StockInv, StockInv'
  PROVE  /\ DebtOK /\ DebtOK'
         /\ \A p \in Products :
              /\ stock[p] \in Int /\ logged[p] \in Int /\ lost[p] \in Int
              /\ stock'[p] \in Int /\ logged'[p] \in Int /\ lost'[p] \in Int
<1>1. StockInv' => DebtOK'
  BY DebtTyped, PTL
<1> QED
  BY <1>1, DebtTyped DEF StockInv, ProductsOK

(* Loads and the other steps that leave stock and log alone. *)
LEMMA QuietAccounts ==
  ASSUME StockInv, StockInv', NEW r \in Requests, NEW p \in Kept',
         UNCHANGED <<stock, logged, lost>>,
         pc[r] \notin {"sold", "log", "logLevel", "levelLogged"},
         pc'[r] \notin {"sold", "log", "logLevel", "levelLogged"}
  PROVE  Accounts(r, p)
<1>1. /\ p \in Products /\ DebtOK /\ DebtOK'
      /\ stock[p] \in Int /\ logged[p] \in Int /\ lost[p] \in Int
  BY BothDebts DEF Kept
<1>2. Debt(p)[r] = 0 /\ Debt(p)'[r] = 0
  BY <1>1 DEF DebtOK
<1> QED
  BY <1>1, <1>2 DEF Accounts

(* An item taken from stock is owed to the log until its entry is written. *)
LEMMA TakeAccounts ==
  ASSUME StockInv, StockInv', NEW r \in Requests, TakeItem(r), NEW p \in Kept'
  PROVE  Accounts(r, p)
<1>1. /\ p \in Products /\ DebtOK /\ DebtOK'
      /\ stock[p] \in Int /\ logged[p] \in Int /\ lost[p] \in Int
      /\ pc[r] = "items" /\ basket[r] # <<>> /\ logged' = logged /\ lost' = lost
  BY BothDebts DEF Kept, TakeItem, MoreItems
<1>2. /\ ItemOf(r).product \in Products /\ ItemOf(r).qty \in Int
      /\ stock \in [Products -> Int] /\ DOMAIN pc = Requests
  BY <1>1, ItemTyped DEF StockInv, ProductsOK, RequestsOK
<1>3. Debt(p)[r] = 0
  BY <1>1 DEF DebtOK
<1>4. CASE Available(ItemOf(r).product, ItemOf(r).qty)
  <2>1. /\ stock' = [stock EXCEPT ![ItemOf(r).product] = @ - ItemOf(r).qty]
        /\ pc' = [pc EXCEPT ![r] = "sold"] /\ doc' = doc /\ basket' = basket
    BY <1>4 DEF TakeItem, Goto
  <2>2. pc'[r] = "sold" /\ ItemOf(r)' = ItemOf(r) /\ Target(r)' = ItemOf(r).product
    BY <1>2, <2>1 DEF Target, ItemOf
  <2> HIDE DEF ItemOf
  <2>3. CASE p = ItemOf(r).product
    <3>1. Debt(p)'[r] = 0 - ItemOf(r).qty
      BY <1>1, <2>2, <2>3 DEF DebtOK
    <3>2. stock'[p] = stock[p] - ItemOf(r).qty
      BY <1>1, <1>2, <2>1, <2>3
    <3> QED
      BY <1>1, <1>2, <1>3, <3>1, <3>2 DEF Accounts
  <2>4. CASE p # ItemOf(r).product
    <3>1. Debt(p)'[r] = 0
      BY <1>1, <2>2, <2>4 DEF DebtOK
    <3>2. stock'[p] = stock[p]
      BY <1>1, <1>2, <2>1, <2>4
    <3> QED
      BY <1>1, <1>3, <3>1, <3>2 DEF Accounts
  <2> QED
    BY <2>3, <2>4
<1>5. CASE ~Available(ItemOf(r).product, ItemOf(r).qty)
  <2>1. stock' = stock /\ pc' = [pc EXCEPT ![r] = "short"]
    BY <1>5 DEF TakeItem, Goto
  <2>2. Debt(p)'[r] = 0
    BY <1>1, <1>2, <2>1 DEF DebtOK
  <2> QED
    BY <1>1, <1>3, <2>1, <2>2 DEF Accounts
<1> QED
  BY <1>4, <1>5

(* What a shortfall writes off is what it takes out of the stock. *)
LEMMA WriteOffAccounts ==
  ASSUME StockInv, StockInv', NEW r \in Requests, WriteOff(r), NEW p \in Kept'
  PROVE  Accounts(r, p)
<1> DEFINE q == ItemOf(r).product
<1>1. /\ p \in Products /\ DebtOK /\ DebtOK'
      /\ stock[p] \in Int /\ logged[p] \in Int /\ lost[p] \in Int
      /\ pc[r] = "short" /\ logged' = logged
  BY BothDebts DEF Kept, WriteOff
<1>2. /\ stock' = [stock EXCEPT ![q] = 0] /\ lost' = [lost EXCEPT ![q] = @ + stock[q]]
      /\ stock \in [Products -> Int] /\ lost \in [Products -> Int] /\ pc'[r] = "items"
  BY DEF WriteOff, NextItem, StockInv, ProductsOK, RequestsOK
<1> HIDE DEF q
<1>3. Debt(p)[r] = 0 /\ Debt(p)'[r] = 0
  BY <1>1, <1>2 DEF DebtOK
<1>4. stock'[p] + lost'[p] = stock[p] + lost[p]
  BY <1>1, <1>2
<1> QED
  BY <1>1, <1>3, <1>4 DEF Accounts

(* The log entries: each pays a debt, or is written before its save. *)
LEMMA LogSaleAccounts ==
  ASSUME StockInv, StockInv', NEW r \in Requests, LogSale(r), NEW p \in Kept'
  PROVE  Accounts(r, p)
<1>1. /\ p \in Products /\ DebtOK /\ DebtOK'
      /\ stock[p] \in Int /\ logged[p] \in Int /\ lost[p] \in Int
      /\ pc[r] = "sold" /\ stock' = stock /\ lost' = lost /\ pc'[r] = "items"
      /\ logged' = [logged EXCEPT ![ItemOf(r).product] = @ + (-ItemOf(r).qty)]
      /\ logged \in [Products -> Int]
  BY BothDebts DEF Kept, LogSale, NextItem, SaleDelta, StockInv, ProductsOK, RequestsOK
<1>2. ItemOf(r).qty \in Int
  BY <1>1, ItemTyped DEF StockInv, RequestsOK, About
<1>3. Debt(p)'[r] = 0
  BY <1>1 DEF DebtOK
<1>4. Target(r) = ItemOf(r).product
  BY <1>1 DEF Target
<1>5. CASE p = ItemOf(r).product
  <2>1. Debt(p)[r] = 0 - ItemOf(r).qty
    BY <1>1, <1>4, <1>5 DEF DebtOK
  <2>2. logged'[p] = logged[p] - ItemOf(r).qty
    BY <1>1, <1>2, <1>5
  <2> QED
    BY <1>1, <1>2, <1>3, <2>1, <2>2 DEF Accounts
<1>6. CASE p # ItemOf(r).product
  <2>1. Debt(p)[r] = 0
    BY <1>1, <1>4, <1>6 DEF DebtOK
  <2>2. logged'[p] = logged[p]
    BY <1>1, <1>6
  <2> QED
    BY <1>1, <1>3, <2>1, <2>2 DEF Accounts
<1> QED
  BY <1>5, <1>6

(* A sale whose entry fails leaves its product unlogged. *)
LEMMA MissAccounts ==
  ASSUME StockInv, StockInv', NEW r \in Requests, MissSaleLog(r), NEW p \in Kept'
  PROVE  Accounts(r, p)
<1>1. /\ p \in Products /\ DebtOK /\ DebtOK'
      /\ stock[p] \in Int /\ logged[p] \in Int /\ lost[p] \in Int
      /\ p # ItemOf(r).product /\ pc[r] = "sold" /\ UNCHANGED <<stock, logged, lost>>
      /\ pc'[r] = "items"
  BY BothDebts DEF Kept, MissSaleLog, NextItem, StockInv, RequestsOK
<1>2. Debt(p)[r] = 0
  BY <1>1 DEF DebtOK, Target
<1>3. Debt(p)'[r] = 0
  BY <1>1 DEF DebtOK
<1> QED
  BY <1>1, <1>2, <1>3 DEF Accounts

LEMMA LogAccounts ==
  ASSUME StockInv, StockInv', NEW r \in Requests, NEW p \in Kept',
         LogNumber(r) \/ LogLevel(r) \/ LogLevelFirst(r)
  PROVE  Accounts(r, p)
<1>1. /\ p \in Products /\ DebtOK /\ DebtOK'
      /\ stock[p] \in Int /\ logged[p] \in Int /\ lost[p] \in Int
      /\ pc[r] \in {"log", "logLevel", "level"} /\ stock' = stock /\ lost' = lost
      /\ num[r] \in Int /\ copyQ[r] \in Int /\ logged \in [Products -> Int]
  BY BothDebts DEF Kept, LogNumber, LogLevel, LogLevelFirst, Log, StockInv, ProductsOK,
                   RequestsOK
<1>2. Target(r) = doc[r]
  BY <1>1 DEF Target
<1>3. ASSUME NEW n \in Int, Log(r, n) PROVE logged'[p] = logged[p] + (IF p = doc[r] THEN n ELSE 0)
  BY <1>1, <1>3 DEF Log
<1>4. ASSUME End(r) PROVE Debt(p)'[r] = 0
  <2>1. pc'[r] = "done"
    BY <1>4 DEF End, StockInv, RequestsOK
  <2> QED
    BY <1>1, <2>1 DEF DebtOK
<1>5. CASE LogNumber(r)
  <2>1. Debt(p)[r] = IF p = doc[r] THEN num[r] ELSE 0
    BY <1>1, <1>2, <1>5 DEF LogNumber, DebtOK
  <2>2. Debt(p)'[r] = 0 /\ logged'[p] = logged[p] + (IF p = doc[r] THEN num[r] ELSE 0)
    BY <1>1, <1>3, <1>4, <1>5 DEF LogNumber
  <2> QED
    BY <1>1, <2>1, <2>2 DEF Accounts
<1>6. CASE LogLevel(r)
  <2>1. Debt(p)[r] = IF p = doc[r] THEN num[r] - copyQ[r] ELSE 0
    BY <1>1, <1>2, <1>6 DEF LogLevel, DebtOK
  <2>2. num[r] - copyQ[r] \in Int
    BY <1>1
  <2>3. Debt(p)'[r] = 0
        /\ logged'[p] = logged[p] + (IF p = doc[r] THEN num[r] - copyQ[r] ELSE 0)
    BY <1>3, <1>4, <1>6, <2>2 DEF LogLevel
  <2> QED
    BY <1>1, <2>1, <2>3 DEF Accounts
<1>7. CASE LogLevelFirst(r)
  <2>1. /\ pc[r] = "level" /\ pc'[r] = "levelLogged" /\ doc' = doc /\ num' = num
        /\ copyQ' = copyQ
    BY <1>7 DEF LogLevelFirst, Goto, StockInv, RequestsOK
  <2>2. Debt(p)[r] = 0
    BY <1>1, <2>1 DEF DebtOK
  <2>3. Target(r)' = doc[r]
    BY <2>1 DEF Target
  <2>4. Debt(p)'[r] = IF p = doc[r] THEN copyQ[r] - num[r] ELSE 0
    BY <1>1, <2>1, <2>3 DEF DebtOK
  <2>5. num[r] - copyQ[r] \in Int
    BY <1>1
  <2>6. logged'[p] = logged[p] + (IF p = doc[r] THEN num[r] - copyQ[r] ELSE 0)
    BY <1>3, <1>7, <2>5 DEF LogLevelFirst
  <2> QED
    BY <1>1, <2>2, <2>4, <2>6 DEF Accounts
<1> QED
  BY <1>5, <1>6, <1>7

(* The saves: what was asked for is what the stock moved by, or another    *)
(* change was overwritten or the quantity floored.                         *)
LEMMA ChangeAccounts ==
  ASSUME StockInv, StockInv', NEW r \in Requests, SaveChange(r), NEW p \in Kept'
  PROVE  Accounts(r, p)
<1>1. /\ p \in Products /\ DebtOK /\ DebtOK'
      /\ stock[p] \in Int /\ logged[p] \in Int /\ lost[p] \in Int
      /\ p \notin raced' /\ p \notin clamped' /\ logged' = logged /\ lost' = lost
      /\ num[r] \in Int /\ copyQ[r] \in Int /\ stock \in [Products -> Int]
  BY BothDebts DEF Kept, SaveChange, StockInv, ProductsOK, RequestsOK
<1>2. /\ pc[r] = "change" /\ pc'[r] = "log" /\ doc'[r] = doc[r] /\ num'[r] = num[r]
      /\ stock' = IF Changed(r) # copyQ[r] THEN [stock EXCEPT ![doc[r]] = Changed(r)] ELSE stock
  BY DEF SaveChange, Goto, StockInv, RequestsOK
<1>3. Debt(p)[r] = 0 /\ Debt(p)'[r] = IF p = doc[r] THEN num[r] ELSE 0
  <2>1. Target(r)' = doc[r]
    BY <1>2 DEF Target
  <2> QED
    BY <1>1, <1>2, <2>1 DEF DebtOK
<1>4. CASE p = doc[r]
  <2>1. /\ Changed(r) # copyQ[r] => copyQ[r] = stock[p]
        /\ copyQ[r] + num[r] >= 0
    BY <1>1, <1>4 DEF SaveChange, MarkIf
  <2>2. Changed(r) = copyQ[r] + num[r]
    BY <1>1, <2>1 DEF Changed, Floor
  <2>3. stock'[p] = stock[p] + num[r]
    BY <1>1, <1>2, <1>4, <2>1, <2>2
  <2> QED
    BY <1>1, <1>3, <1>4, <2>3 DEF Accounts
<1>5. CASE p # doc[r]
  <2>1. stock'[p] = stock[p]
    BY <1>1, <1>2, <1>5
  <2> QED
    BY <1>1, <1>3, <1>5, <2>1 DEF Accounts
<1> QED
  BY <1>4, <1>5

LEMMA QuantityAccounts ==
  ASSUME StockInv, StockInv', NEW r \in Requests, NEW p \in Kept',
         SaveLevel(r) \/ SaveLoggedLevel(r) \/ SavePut(r)
  PROVE  Accounts(r, p)
<1> DEFINE moved == IF p = doc[r] THEN num[r] - copyQ[r] ELSE 0
<1>1. /\ p \in Products /\ DebtOK /\ DebtOK'
      /\ stock[p] \in Int /\ logged[p] \in Int /\ lost[p] \in Int
      /\ p \notin raced' /\ p \notin unlogged'
      /\ num[r] \in Int /\ copyQ[r] \in Int /\ stock \in [Products -> Int]
  BY BothDebts DEF Kept, StockInv, ProductsOK, RequestsOK
<1>2. stock'[p] = stock[p] + moved /\ logged' = logged /\ lost' = lost
  <2>1. SaveQuantity(r)
    BY DEF SaveLevel, SaveLoggedLevel, SavePut
  <2>2. p = doc[r] /\ num[r] # copyQ[r] => copyQ[r] = stock[p]
    BY <1>1, <2>1 DEF SaveQuantity, MarkIf
  <2> QED
    BY <1>1, <2>1, <2>2 DEF SaveQuantity
<1>3. CASE SaveLevel(r)
  <2>1. /\ pc[r] = "level" /\ pc'[r] = "logLevel" /\ doc'[r] = doc[r] /\ num'[r] = num[r]
        /\ copyQ'[r] = copyQ[r]
    BY <1>3 DEF SaveLevel, Goto, StockInv, RequestsOK
  <2>2. Target(r)' = doc[r]
    BY <2>1 DEF Target
  <2>3. Debt(p)[r] = 0 /\ Debt(p)'[r] = moved
    BY <1>1, <2>1, <2>2 DEF DebtOK
  <2> QED
    BY <1>1, <1>2, <2>3 DEF Accounts
<1>4. ASSUME End(r) PROVE Debt(p)'[r] = 0
  <2>1. pc'[r] = "done"
    BY <1>4 DEF End, StockInv, RequestsOK
  <2> QED
    BY <1>1, <2>1 DEF DebtOK
<1>5. CASE SaveLoggedLevel(r)
  <2>1. pc[r] = "levelLogged" /\ Target(r) = doc[r]
    BY <1>5 DEF SaveLoggedLevel, Target
  <2>2. Debt(p)[r] = 0 - moved
    BY <1>1, <2>1 DEF DebtOK
  <2>3. Debt(p)'[r] = 0
    BY <1>4, <1>5 DEF SaveLoggedLevel
  <2> QED
    BY <1>1, <1>2, <2>2, <2>3 DEF Accounts
<1>6. CASE SavePut(r)
  <2>1. Debt(p)'[r] = 0 /\ pc[r] = "put"
    BY <1>4, <1>6 DEF SavePut
  <2>2. Debt(p)[r] = 0
    BY <1>1, <2>1 DEF DebtOK
  <2>3. moved = 0
    BY <1>1, <1>6 DEF SavePut, MarkIf
  <2> QED
    BY <1>1, <1>2, <2>1, <2>2, <2>3 DEF Accounts
<1> QED
  BY <1>3, <1>5, <1>6

(* A request that ends between its two writes leaves its product unlogged. *)
LEMMA FailAccounts ==
  ASSUME StockInv, StockInv', NEW r \in Requests, Fail(r), NEW p \in Kept'
  PROVE  Accounts(r, p)
<1>1. /\ p \in Products /\ DebtOK /\ DebtOK'
      /\ stock[p] \in Int /\ logged[p] \in Int /\ lost[p] \in Int
      /\ p \notin unlogged' /\ UNCHANGED <<stock, logged, lost>> /\ pc'[r] = "done"
  BY BothDebts DEF Kept, Fail, End, StockInv, RequestsOK
<1>2. Torn(r) => p # Target(r)
  BY <1>1 DEF Fail
<1>3. Debt(p)[r] = 0
  BY <1>1, <1>2 DEF DebtOK, Torn
<1>4. Debt(p)'[r] = 0
  BY <1>1 DEF DebtOK
<1> QED
  BY <1>1, <1>3, <1>4 DEF Accounts

(* A product that is added has no stock before, and owes its entry. *)
LEMMA AddAccounts ==
  ASSUME StockInv, StockInv', NEW r \in Requests, NEW q \in Products, NEW n \in Int,
         AddProduct(r, q, n), NEW p \in Kept'
  PROVE  Accounts(r, p)
<1>1. /\ p \in Products /\ DebtOK /\ DebtOK'
      /\ stock[p] \in Int /\ logged[p] \in Int /\ lost[p] \in Int
      /\ stock \in [Products -> Int] /\ stock[q] = 0
      /\ stock' = [stock EXCEPT ![q] = n] /\ logged' = logged /\ lost' = lost
      /\ pc[r] = "idle" /\ pc'[r] = "log" /\ doc'[r] = q /\ num'[r] = n
  BY BothDebts DEF Kept, AddProduct, StockInv, ProductsOK, UnlistedEmpty, RequestsOK
<1>2. Target(r)' = q
  BY <1>1 DEF Target
<1>3. Debt(p)[r] = 0 /\ Debt(p)'[r] = IF p = q THEN n ELSE 0
  BY <1>1, <1>2 DEF DebtOK
<1> QED
  BY <1>1, <1>3 DEF Accounts

(* What accounts for every product keeps the log. *)
LEMMA AccountedKeepsLog ==
  ASSUME StockInv, StockInv', LogInv, NEW r \in Requests, Advances(r),
         Kept' \subseteq Kept, \A p \in Kept' : Accounts(r, p)
  PROVE  LogInv'
<1>1. IsFiniteSet(Begun')
  BY BegunGrows DEF StockInv, LogInv
<1>2. ASSUME NEW p \in Products, p \in Kept'
      PROVE  stock'[p] + lost'[p] = logged'[p] + SumFunctionOnSet(Debt(p)', Begun')
  <2> DEFINE owed == SumFunctionOnSet(Debt(p), Begun)
             owes == SumFunctionOnSet(Debt(p)', Begun')
             before == Debt(p)[r]
             after == Debt(p)'[r]
             had == stock[p] + lost[p]
             has == stock'[p] + lost'[p]
  <2>1. had \in Int /\ logged[p] \in Int /\ has \in Int /\ logged'[p] \in Int
    BY BothDebts
  <2>2. had = logged[p] + owed
    BY <1>2 DEF LogInv, Explained, Kept
  <2>3. owes = owed + after - before /\ owed \in Int /\ before \in Int /\ after \in Int
    BY DebtStep DEF LogInv
  <2>4. has - had = logged'[p] - logged[p] + (after - before)
    BY <1>2 DEF Accounts
  <2> HIDE DEF owed, owes, before, after, had, has
  <2>5. has = logged'[p] + owes
    BY <2>1, <2>2, <2>3, <2>4
  <2> QED
    BY <2>5 DEF owes, has
<1> QED
  BY <1>1, <1>2 DEF LogInv, Explained, Kept

(* Whatever a step marks, it marks no product clean again. *)
LEMMA MarksStay ==
  ASSUME StockInv, [Next]_vars
  PROVE  Kept' \subseteq Kept
<1>1. /\ raced \subseteq raced' /\ clamped \subseteq clamped' /\ unlogged \subseteq unlogged'
  <2>1. CASE UNCHANGED vars
    BY <2>1 DEF vars, productVars
  <2>2. CASE \E o \in Orders, s \in OrderStatus, b \in Baskets :
            CreateOrder(o, s, b) \/ UpdateOrder(o, s, b)
    BY <2>2 DEF CreateOrder, UpdateOrder, productVars
  <2>3. CASE \E p \in Products, n \in Levels : CreateProduct(p, n)
    BY <2>3 DEF CreateProduct, MarkIf
  <2>4. ASSUME NEW r \in Requests, Start(r)
        PROVE  raced' = raced /\ clamped' = clamped /\ unlogged' = unlogged
    BY <2>4 DEF Start, LoadOrder, AddProduct, LoadProduct, productVars
  <2>5. ASSUME NEW r \in Requests, Step(r)
        PROVE  raced \subseteq raced' /\ clamped \subseteq clamped' /\ unlogged \subseteq unlogged'
    <3>1. CASE SavePaid(r) \/ TakeItem(r) \/ WriteOff(r) \/ LogSale(r) \/ MissSaleLog(r)
               \/ AnswerConfirm(r)
      BY <3>1 DEF SavePaid, TakeItem, WriteOff, LogSale, MissSaleLog, AnswerConfirm,
                  productVars
    <3>2. CASE SaveChange(r) \/ SaveLevel(r) \/ SaveLoggedLevel(r) \/ SavePut(r)
      BY <3>2 DEF SaveChange, SaveLevel, SaveLoggedLevel, SavePut, SaveQuantity, MarkIf
    <3>3. CASE LogNumber(r) \/ LogLevel(r) \/ LogLevelFirst(r) \/ Fail(r)
      BY <3>3 DEF LogNumber, LogLevel, LogLevelFirst, Log, Fail
    <3> QED
      BY <2>5, <3>1, <3>2, <3>3 DEF Step
  <2> QED
    BY <2>1, <2>2, <2>3, <2>4, <2>5 DEF Next
<1> QED
  BY <1>1 DEF Kept

LEMMA StartAccounts ==
  ASSUME StockInv, StockInv', NEW r \in Requests, Start(r), NEW p \in Kept'
  PROVE  Accounts(r, p)
<1>1. CASE \E o \in Orders : LoadOrder(r, o)
  <2>1. /\ UNCHANGED <<stock, logged, lost>> /\ pc[r] = "idle" /\ pc'[r] = "confirm"
    BY <1>1 DEF LoadOrder, productVars, StockInv, RequestsOK
  <2> QED
    BY <2>1, QuietAccounts
<1>2. ASSUME NEW q \in Products, NEW n, NEW next \in {"change", "level", "put"},
             LoadProduct(r, q, next, n)
      PROVE  Accounts(r, p)
  <2>1. /\ UNCHANGED <<stock, logged, lost>> /\ pc[r] = "idle" /\ pc'[r] = next
    BY <1>2 DEF LoadProduct, productVars, StockInv, RequestsOK
  <2> QED
    BY <2>1, QuietAccounts
<1>3. ASSUME NEW q \in Products, NEW n \in Levels, AddProduct(r, q, n)
      PROVE  Accounts(r, p)
  BY <1>3, AddAccounts, StockAssumption
<1> QED
  BY <1>1, <1>2, <1>3 DEF Start

LEMMA StepAccounts ==
  ASSUME StockInv, StockInv', NEW r \in Requests, Step(r), NEW p \in Kept'
  PROVE  Accounts(r, p)
<1>1. CASE SavePaid(r) \/ AnswerConfirm(r)
  <2>1. /\ UNCHANGED <<stock, logged, lost>> /\ pc[r] \in {"confirm", "items"}
        /\ pc'[r] \in {"items", "done"}
    BY <1>1 DEF SavePaid, AnswerConfirm, Goto, End, productVars, StockInv, RequestsOK
  <2> QED
    BY <2>1, QuietAccounts
<1> QED
  BY <1>1, TakeAccounts, WriteOffAccounts, LogSaleAccounts, MissAccounts,
     ChangeAccounts, QuantityAccounts, LogAccounts,
     FailAccounts DEF Step

(* Orders and products made without a request. *)
LEMMA ElsewhereKeepsLog ==
  ASSUME StockInv, LogInv, Kept' \subseteq Kept, UNCHANGED requestVars,
         \A p \in Kept' : stock'[p] = stock[p] /\ lost'[p] = lost[p] /\ logged'[p] = logged[p]
  PROVE  LogInv'
<1>1. Begun' = Begun
  BY DEF Begun, requestVars
<1>2. \A p \in Products : Debt(p)' = Debt(p)
  BY DEF Debt, DebtOf, ItemOf, requestVars
<1> QED
  BY <1>1, <1>2 DEF LogInv, Explained, Kept

LEMMA StepKeepsLog == StockInv /\ StockInv' /\ LogInv /\ [Next]_vars => LogInv'
<1> SUFFICES ASSUME StockInv, StockInv', LogInv, [Next]_vars PROVE LogInv'
  OBVIOUS
<1>1. Kept' \subseteq Kept
  BY MarksStay
<1>2. CASE UNCHANGED vars
  BY <1>1, <1>2, ElsewhereKeepsLog DEF vars, productVars
<1>3. CASE \E o \in Orders, s \in OrderStatus, b \in Baskets :
            CreateOrder(o, s, b) \/ UpdateOrder(o, s, b)
  BY <1>1, <1>3, ElsewhereKeepsLog DEF CreateOrder, UpdateOrder, productVars
<1>4. ASSUME NEW q \in Products, NEW n \in Levels, CreateProduct(q, n) PROVE LogInv'
  <2>1. \A p \in Kept' : stock'[p] = stock[p] /\ lost'[p] = lost[p] /\ logged'[p] = logged[p]
    BY <1>4 DEF CreateProduct, MarkIf, Kept, StockInv, ProductsOK, UnlistedEmpty
  <2> QED
    BY <1>1, <1>4, <2>1, ElsewhereKeepsLog DEF CreateProduct
<1>5. ASSUME NEW r \in Requests, Start(r) PROVE LogInv'
  BY <1>1, <1>5, StartAdvances, StartAccounts, AccountedKeepsLog DEF StockInv
<1>6. ASSUME NEW r \in Requests, Step(r) PROVE LogInv'
  BY <1>1, <1>6, StepAdvances, StepAccounts, AccountedKeepsLog DEF StockInv
<1> QED
  BY <1>2, <1>3, <1>4, <1>5, <1>6 DEF Next

LEMMA InitLog == Init => LogInv
<1> SUFFICES ASSUME Init PROVE LogInv
  OBVIOUS
<1>1. Begun = {}
  BY DEF Init, Begun
<1>2. \A p \in Products : stock[p] = 0 /\ logged[p] = 0 /\ lost[p] = 0
  BY DEF Init
<1> QED
  BY <1>1, <1>2, SumEmpty, FS_EmptySet DEF LogInv, Explained

(* The stock, with what shortfalls wrote off, is at every moment what the  *)
(* log says and what the requests between their two writes owe, unless a   *)
(* change was overwritten, floored or left without an entry.               *)
THEOREM LogInvariant == Spec => []LogInv
BY InitLog, StepKeepsLog, StockInvariant, PTL DEF Spec

(* The inventory log explains the stock of a product no request is in the  *)
(* middle of changing, with the same exceptions.                           *)
THEOREM LogExplained == Spec => []LogExplainsStock
<1>1. StockInv /\ LogInv => LogExplainsStock
  <2> SUFFICES ASSUME StockInv, LogInv, NEW p \in Kept, Settled(p)
               PROVE  stock[p] + lost[p] = logged[p]
    BY DEF LogExplainsStock, Kept
  <2>1. \A r \in Requests : Debt(p)[r] = 0
    BY DEF Settled, Debt, DebtOf
  <2>2. SumFunctionOnSet(Debt(p), Begun) = 0
    <3>1. SumFunctionOnSet(Debt(p), Begun) = SumFunctionOnSet(Debt(p), {})
      BY <2>1, SumOfSupport DEF LogInv, Begun
    <3> QED
      BY <3>1, SumEmpty
  <2>3. stock[p] + lost[p] = logged[p] + 0 /\ logged[p] \in Int
    BY <2>2 DEF LogInv, Explained, Kept, StockInv, ProductsOK
  <2> QED
    BY <2>3
<1> QED
  BY <1>1, StockInvariant, LogInvariant, PTL
=============================================================================
