------------------------------- MODULE Stock -------------------------------
(***************************************************************************)
(* Orders and stock of the marketplace backend.  A confirmed payment takes *)
(* the items of an order from stock, one product after the other, each by  *)
(* an atomic update that tests the quantity; nothing is reserved before.   *)
(* Quantities are integers: no handler looks at their sign, and an item    *)
(* below zero is put back into stock and taken off the sales.              *)
(* Sellers load a product, compute a new quantity from what they loaded    *)
(* and save it.  Every change is meant to be in the inventory log, by a    *)
(* write of its own.                                                       *)
(*                                                                         *)
(* No handler here reads the visibility of a product, its revenue or a     *)
(* cart, so they are left out.  Of the statuses of an order only "paid" is *)
(* tested: "pending_payment" stands for all the others.                    *)
(***************************************************************************)
EXTENDS Integers, Sequences

CONSTANTS
  Products, Orders,
  Requests,  \* HTTP requests; each is used for one call
  Baskets,   \* the items orders are made with: sequences of [product, qty]
  Deltas,    \* what sellers ask the stock to be changed by
  Levels     \* what sellers set the stock to; nothing refuses a negative one

Item == [product : Products, qty : Int]
ASSUME StockAssumption ==
  /\ Products # {}
  /\ Baskets \subseteq Seq(Item)
  /\ Deltas \subseteq Int /\ Levels \subseteq Int

VARIABLES
  order,   \* Order.status, "absent" before it exists
  items,   \* Order.items
  listed,  \* the products that exist
  stock,   \* Product.stockQty
  sales,   \* Product.salesCount
  logged,  \* the sum of the InventoryLog entries of a product
  pc, doc, basket, num, copyQ, copyS,  \* a request: step, product or order,
           \* loaded items still to take, number asked for (of a confirmation:
           \* the confirmations of the order when it was loaded), loaded
           \* stockQty and salesCount
  supplied,   \* history: units sellers have put into stock
  confirmed,  \* history: confirmations that took an order's items
  reopened,   \* history: orders unpaid again, or paid by two overlapping calls
  raced,      \* history: products one of whose saves overwrote another change
  clamped,    \* history: products from which more was taken than there was
  lost,       \* history: units written off when an item found too few
  unlogged    \* history: products with a change that has no log entry

orderVars == <<order, items, confirmed, reopened>>
productVars == <<listed, stock, sales, logged, supplied, raced, clamped, lost, unlogged>>
requestVars == <<pc, doc, basket, num, copyQ, copyS>>
vars == <<orderVars, productVars, requestVars>>

OrderStatus == {"pending_payment", "paid"}
AnyProduct == CHOOSE p \in Products : TRUE
Floor(n) == IF n < 0 THEN 0 ELSE n

Init ==
  /\ order = [o \in Orders |-> "absent"]
  /\ items = [o \in Orders |-> <<>>]
  /\ confirmed = [o \in Orders |-> 0]
  /\ reopened = {}
  /\ listed = {}
  /\ stock = [p \in Products |-> 0]
  /\ sales = [p \in Products |-> 0]
  /\ logged = [p \in Products |-> 0]
  /\ supplied = [p \in Products |-> 0]
  /\ lost = [p \in Products |-> 0]
  /\ raced = {} /\ clamped = {} /\ unlogged = {}
  /\ pc = [r \in Requests |-> "idle"]
  /\ doc = [r \in Requests |-> AnyProduct]
  /\ basket = [r \in Requests |-> <<>>]
  /\ num = [r \in Requests |-> 0]
  /\ copyQ = [r \in Requests |-> 0]
  /\ copyS = [r \in Requests |-> 0]

-----------------------------------------------------------------------------
Goto(r, next) == pc' = [pc EXCEPT ![r] = next] /\ UNCHANGED <<doc, basket, num, copyQ, copyS>>
End(r) ==   \* answered: the request's variables are read no more
  /\ pc' = [pc EXCEPT ![r] = "done"]
  /\ doc' = [doc EXCEPT ![r] = AnyProduct]
  /\ basket' = [basket EXCEPT ![r] = <<>>]
  /\ num' = [num EXCEPT ![r] = 0]
  /\ copyQ' = [copyQ EXCEPT ![r] = 0]
  /\ copyS' = [copyS EXCEPT ![r] = 0]

MarkIf(set, x, cond) == IF cond THEN set \cup {x} ELSE set

-----------------------------------------------------------------------------
(* Orders.  A supermarket checkout makes an order that waits for payment;  *)
(* /api/order takes one with any status, and later any status and items:   *)
(* the whole body of the request is written.                               *)
CreateOrder(o, s, b) ==
  /\ order[o] = "absent"
  /\ order' = [order EXCEPT ![o] = s]
  /\ items' = [items EXCEPT ![o] = b]
  /\ UNCHANGED <<confirmed, reopened, productVars, requestVars>>

(* updateSellerOrderStatus saves the status without a test, so it writes   *)
(* like /api/order's update with the items as they are.                    *)
UpdateOrder(o, s, b) ==
  /\ order[o] # "absent"
  /\ order' = [order EXCEPT ![o] = s]
  /\ items' = [items EXCEPT ![o] = b]
  /\ reopened' = MarkIf(reopened, o, order[o] = "paid" /\ s # "paid")
  /\ UNCHANGED <<confirmed, productVars, requestVars>>

(* confirmSupermarketPayment: the order is loaded and tested, ...          *)
ConfirmableAlways(o) == order[o] # "absent"   \* mutant
Confirmable(o) == order[o] \notin {"absent", "paid"}
LoadOrder(r, o) ==
  /\ pc[r] = "idle"
  /\ Confirmable(o)
  /\ pc' = [pc EXCEPT ![r] = "confirm"]
  /\ doc' = [doc EXCEPT ![r] = o]
  /\ basket' = [basket EXCEPT ![r] = items[o]]
  /\ num' = [num EXCEPT ![r] = confirmed[o]]
  /\ UNCHANGED <<orderVars, productVars, copyQ, copyS>>

(* ... saved as paid, ...                                                  *)
SavePaid(r) ==
  /\ pc[r] = "confirm"
  /\ order' = [order EXCEPT ![doc[r]] = "paid"]
  /\ reopened' = MarkIf(reopened, doc[r], confirmed[doc[r]] # num[r])
  /\ confirmed' = [confirmed EXCEPT ![doc[r]] = @ + 1]
  /\ Goto(r, "items")
  /\ UNCHANGED <<items, productVars>>

(* ... and the items that were loaded are taken one by one.                *)
MoreItems(r) == basket[r] # <<>>
ItemOf(r) == Head(basket[r])
NextItem(r) ==
  /\ pc' = [pc EXCEPT ![r] = "items"]
  /\ basket' = [basket EXCEPT ![r] = Tail(@)]
  /\ UNCHANGED <<orderVars, doc, num, copyQ, copyS>>

AvailableAlways(p, q) == TRUE   \* mutant
Available(p, q) == p \in listed /\ stock[p] >= q

TakeItem(r) ==
  /\ pc[r] = "items" /\ MoreItems(r)
  /\ LET p == ItemOf(r).product
         q == ItemOf(r).qty
     IN IF Available(p, q)
          THEN /\ stock' = [stock EXCEPT ![p] = @ - q]
               /\ sales' = [sales EXCEPT ![p] = @ + q]
               /\ Goto(r, "sold")
          ELSE Goto(r, "short") /\ UNCHANGED <<stock, sales>>
  /\ UNCHANGED <<orderVars, listed, logged, supplied, raced, clamped, lost, unlogged>>

(* If there is less in stock than an item asks for, a second update writes *)
(* off all there is by then: neither sold nor logged.                      *)
WriteOff(r) ==
  /\ pc[r] = "short"
  /\ LET p == ItemOf(r).product
     IN /\ stock' = [stock EXCEPT ![p] = 0]
        /\ lost' = [lost EXCEPT ![p] = @ + stock[p]]
  /\ NextItem(r)
  /\ UNCHANGED <<listed, sales, logged, supplied, raced, clamped, unlogged>>

SoldAs(q) == q   \* mutant
SaleDelta(q) == -q
LogSale(r) ==
  /\ pc[r] = "sold"
  /\ logged' = [logged EXCEPT ![ItemOf(r).product] = @ + SaleDelta(ItemOf(r).qty)]
  /\ NextItem(r)
  /\ UNCHANGED <<listed, stock, sales, supplied, raced, clamped, lost, unlogged>>

MissSaleLog(r) ==   \* the error is reported, and the next item taken
  /\ pc[r] = "sold"
  /\ unlogged' = unlogged \cup {ItemOf(r).product}
  /\ NextItem(r)
  /\ UNCHANGED <<listed, stock, sales, logged, supplied, raced, clamped, lost>>

AnswerConfirm(r) ==
  /\ pc[r] = "items" /\ ~MoreItems(r)
  /\ End(r)
  /\ UNCHANGED <<orderVars, productVars>>

-----------------------------------------------------------------------------
(* Products.  The seller's API logs the initial stock after the save, the  *)
(* other one does not.                                                     *)
Supply(p, n) == supplied' = [supplied EXCEPT ![p] = @ + Floor(n)]

AddProduct(r, p, n) ==
  /\ pc[r] = "idle" /\ p \notin listed
  /\ listed' = listed \cup {p}
  /\ stock' = [stock EXCEPT ![p] = n]
  /\ Supply(p, n)
  /\ pc' = [pc EXCEPT ![r] = "log"]
  /\ doc' = [doc EXCEPT ![r] = p]
  /\ num' = [num EXCEPT ![r] = n]
  /\ UNCHANGED <<orderVars, sales, logged, raced, clamped, lost, unlogged,
                 basket, copyQ, copyS>>

CreateProduct(p, n) ==
  /\ p \notin listed
  /\ listed' = listed \cup {p}
  /\ stock' = [stock EXCEPT ![p] = n]
  /\ Supply(p, n)
  /\ unlogged' = MarkIf(unlogged, p, n # 0)
  /\ UNCHANGED <<orderVars, sales, logged, raced, clamped, lost, requestVars>>

(* changeStock, and the two updateProduct handlers ("level" logs, "put"    *)
(* does not), first load the product.                                      *)
LoadProduct(r, p, next, n) ==
  /\ pc[r] = "idle" /\ p \in listed
  /\ pc' = [pc EXCEPT ![r] = next]
  /\ doc' = [doc EXCEPT ![r] = p]
  /\ num' = [num EXCEPT ![r] = n]
  /\ copyQ' = [copyQ EXCEPT ![r] = stock[p]]
  /\ copyS' = [copyS EXCEPT ![r] = IF next = "change" /\ n < 0 THEN sales[p] ELSE 0]
  /\ UNCHANGED <<orderVars, productVars, basket>>

(* changeStock floors the new quantity at zero, but counts and logs what   *)
(* was asked for.                                                          *)
Changed(r) == Floor(copyQ[r] + num[r])
SoldByHand(r) == copyS[r] - num[r]

SaveChange(r) ==
  LET p == doc[r]
  IN /\ pc[r] = "change"
     /\ stock' = IF Changed(r) # copyQ[r] THEN [stock EXCEPT ![p] = Changed(r)] ELSE stock
     /\ sales' = IF num[r] < 0 THEN [sales EXCEPT ![p] = SoldByHand(r)] ELSE sales
     /\ Supply(p, num[r])
     /\ raced' = MarkIf(raced, p, \/ (Changed(r) # copyQ[r] /\ copyQ[r] # stock[p])
                                   \/ (num[r] < 0 /\ copyS[r] # sales[p]))
     /\ clamped' = MarkIf(clamped, p, copyQ[r] + num[r] < 0)
     /\ Goto(r, "log")
     /\ UNCHANGED <<orderVars, listed, logged, lost, unlogged>>

(* The seller's updateProduct starts the log write and does not wait for   *)
(* it, so it comes before the save or after it.                            *)
SaveQuantity(r) ==
  LET p == doc[r]
  IN /\ stock' = IF num[r] # copyQ[r] THEN [stock EXCEPT ![p] = num[r]] ELSE stock
     /\ Supply(p, num[r] - copyQ[r])
     /\ raced' = MarkIf(raced, p, num[r] # copyQ[r] /\ copyQ[r] # stock[p])
     /\ UNCHANGED <<orderVars, listed, sales, logged, clamped, lost>>

SaveLevel(r) ==
  /\ pc[r] = "level"
  /\ SaveQuantity(r)
  /\ Goto(r, "logLevel")
  /\ UNCHANGED unlogged

SaveLoggedLevel(r) ==
  /\ pc[r] = "levelLogged"
  /\ SaveQuantity(r)
  /\ End(r)
  /\ UNCHANGED unlogged

SavePut(r) ==
  /\ pc[r] = "put"
  /\ SaveQuantity(r)
  /\ unlogged' = MarkIf(unlogged, doc[r], num[r] # copyQ[r])
  /\ End(r)

Log(r, n) ==
  /\ logged' = [logged EXCEPT ![doc[r]] = @ + n]
  /\ UNCHANGED <<orderVars, listed, stock, sales, supplied, raced, clamped, lost, unlogged>>

LogNumber(r) == pc[r] = "log" /\ Log(r, num[r]) /\ End(r)
LogLevel(r) == pc[r] = "logLevel" /\ Log(r, num[r] - copyQ[r]) /\ End(r)
LogLevelFirst(r) == pc[r] = "level" /\ Log(r, num[r] - copyQ[r]) /\ Goto(r, "levelLogged")

-----------------------------------------------------------------------------
(* A database error, or the end of the process, at any step: what was      *)
(* saved stays without its log entry, what was logged without its save,    *)
(* and the rest of an order is not taken.  (At "sold" only the latter.)    *)
Torn(r) == pc[r] \in {"sold", "log", "logLevel", "levelLogged"}
Target(r) == IF pc[r] = "sold" THEN ItemOf(r).product ELSE doc[r]
Fail(r) ==
  /\ pc[r] \notin {"idle", "done"}
  /\ unlogged' = IF Torn(r) THEN unlogged \cup {Target(r)} ELSE unlogged
  /\ End(r)
  /\ UNCHANGED <<orderVars, listed, stock, sales, logged, supplied, raced, clamped, lost>>

-----------------------------------------------------------------------------
Start(r) ==
  \/ \E o \in Orders : LoadOrder(r, o)
  \/ \E p \in Products :
       \/ \E n \in Levels : \/ AddProduct(r, p, n)
                            \/ LoadProduct(r, p, "level", n)
                            \/ LoadProduct(r, p, "put", n)
       \/ \E n \in Deltas : LoadProduct(r, p, "change", n)

Step(r) ==
  \/ SavePaid(r) \/ TakeItem(r) \/ WriteOff(r) \/ LogSale(r) \/ MissSaleLog(r)
  \/ AnswerConfirm(r)
  \/ SaveChange(r) \/ SaveLevel(r) \/ SaveLoggedLevel(r) \/ SavePut(r)
  \/ LogNumber(r) \/ LogLevel(r) \/ LogLevelFirst(r)
  \/ Fail(r)

Next ==
  \/ \E o \in Orders, s \in OrderStatus, b \in Baskets :
       CreateOrder(o, s, b) \/ UpdateOrder(o, s, b)
  \/ \E p \in Products, n \in Levels : CreateProduct(p, n)
  \/ \E r \in Requests : Start(r) \/ Step(r)

Spec == Init /\ [][Next]_vars

-----------------------------------------------------------------------------
(* A step and its document agree; the rest is types.                       *)
OrderSteps == {"confirm", "items", "short", "sold"}
ProductSteps == {"log", "change", "level", "logLevel", "levelLogged", "put"}
TypeOK ==
  /\ order \in [Orders -> OrderStatus \cup {"absent"}]
  /\ items \in [Orders -> Seq(Item)] /\ confirmed \in [Orders -> Nat]
  /\ reopened \subseteq Orders /\ listed \subseteq Products
  /\ stock \in [Products -> Int] /\ sales \in [Products -> Int]
  /\ logged \in [Products -> Int] /\ supplied \in [Products -> Nat]
  /\ lost \in [Products -> Int]
  /\ raced \subseteq Products /\ clamped \subseteq Products /\ unlogged \subseteq Products
  /\ pc \in [Requests -> {"idle", "done"} \cup OrderSteps \cup ProductSteps]
  /\ \A r \in Requests : /\ pc[r] \in OrderSteps => doc[r] \in Orders
                         /\ pc[r] \in ProductSteps => doc[r] \in Products
  /\ basket \in [Requests -> Seq(Item)]
  /\ num \in [Requests -> Int]
  /\ copyQ \in [Requests -> Int] /\ copyS \in [Requests -> Int]

(* Nothing is sold that was not put into stock, though nothing is reserved *)
(* for an order: however confirmations and sellers overlap, what was sold, *)
(* less what items below zero put back, and what is left besides, is       *)
(* covered by what came in, unless a seller's save overwrote another       *)
(* change or took out more than there was.                                 *)
NoOversell ==
  \A p \in Products \ (raced \cup clamped) :
    sales[p] <= supplied[p] /\ stock[p] + sales[p] <= supplied[p]

(* The inventory log explains the stock, and what shortfalls wrote off,    *)
(* once every request on a product is answered, but for the products with  *)
(* a change that has no entry: a shortfall loses what is there when it     *)
(* writes, a delivery that came in after its test included.                *)
Settled(p) ==
  \A r \in Requests :
    /\ pc[r] \in {"log", "logLevel", "levelLogged"} => doc[r] # p
    /\ pc[r] = "sold" => ItemOf(r).product # p
LogExplainsStock ==
  \A p \in Products \ (raced \cup clamped \cup unlogged) :
    Settled(p) => stock[p] + lost[p] = logged[p]

(* The items of an order are taken at most once, unless it was unpaid      *)
(* again in between or two confirmations overlapped.                       *)
TakenOnce == \A o \in Orders \ reopened : confirmed[o] <= 1
=============================================================================
